----------------------------- MODULE JobManager -----------------------------
(***************************************************************************)
(* The jobs of one syncer process: the job manager (job_manager.go), the   *)
(* goroutine that runs a job (Run, run, Delete, changeJobState and the     *)
(* interrupt signals of job.go), the progress row it writes (Persist of    *)
(* job_progress.go) and the requests of the HTTP service.                  *)
(*                                                                         *)
(* A Job object is an element of objects; two objects may have one name,   *)
(* one after the other.  A request that holds jm.lock for reading is a     *)
(* client whose pc is not "idle"; a writer takes and gives back the lock   *)
(* within one action.  SkipBinlog and UpdateHostMapping hold it for        *)
(* writing while they wait, so their clients are marked exclusive.         *)
(***************************************************************************)
EXTENDS Integers, SequencesExt

CONSTANTS Names,       \* job names
          Clients,     \* concurrent HTTP requests
          FaultKinds,  \* the faults this instance allows
          MaxObjects,  \* bound: Job objects made
          MaxRequests, \* bound: requests
          MaxFaults    \* bound: faults

ASSUME ManagerAssumption ==
    {MaxObjects, MaxRequests, MaxFaults} \subseteq Nat /\ IsFiniteSet(Clients)

VARIABLES
    jobs,     \* jm.jobs: name -> the Job object of that name, 0 for none
    objects,  \* the Job objects: name, isDeleted, paused, InterruptSignal, InterruptCh
    gors,     \* the goroutines of runJob: the object they run, and where they are
    clients,  \* client -> where its request is, and the Job object it is about
    started,  \* has jm.Start run?
    rows,     \* the jobs table of the storage
    progress, \* the progresses table: name -> the object whose progress it is, 0 for none
    requests, \* requests left
    budget    \* faults left

storage == <<rows, progress>>
memory == <<jobs, objects, gors, clients, started>>
vars == <<memory, storage, requests, budget>>

Ids == 1..MaxObjects

Objects == [name : Names, deleted : BOOLEAN, paused : BOOLEAN,
            signal : Nat,         \* Extra.InterruptSignal
            token : BOOLEAN,      \* is there something in Extra.InterruptCh (capacity 1)?
            added : BOOLEAN,      \* made by AddJob, and not by Recover
            inherited : 0..MaxObjects]  \* whose progress its run has recovered

\* start: Run; head: maybeDeleted; consume, receive: consumeInterruptSignals; select: wait for a
\* tick or the stop channel; sync: in j.sync with j.lock; persist: in Persist, after its look at
\* isDeleted; exit: the deferred cleanup of runJob.
GorPCs == {"start", "first", "head", "consume", "receive", "select", "sync", "persist", "exit",
           "gone"}

Gors == [of : Ids, pc : GorPCs]

TypeOK ==
    /\ jobs \in [Names -> 0..MaxObjects]
    /\ objects \in Seq(Objects) /\ Len(objects) <= MaxObjects
    /\ gors \in Seq(Gors)
    /\ clients \in [Clients -> [pc : {"idle", "lock", "send"}, of : 0..MaxObjects,
                                exclusive : BOOLEAN]]
    /\ started \in BOOLEAN
    /\ rows \subseteq Names /\ progress \in [Names -> 0..MaxObjects]
    /\ requests \in 0..MaxRequests /\ budget \in 0..MaxFaults
-----------------------------------------------------------------------------
Fault(k) == k \in FaultKinds /\ budget > 0 /\ budget' = budget - 1

Idle == [pc |-> "idle", of |-> 0, exclusive |-> FALSE]

\* jm.lock
CanRLock == \A c \in Clients : ~clients[c].exclusive
CanLock == \A c \in Clients : clients[c].pc = "idle"

Live(g) == gors[g].pc # "gone"
InSync(g) == gors[g].pc \in {"sync", "persist"}

\* j.lock of object i: held by its goroutine in sync(); a request takes it for one action.
CanLockJob(i) == \A g \in DOMAIN gors : gors[g].of = i => ~InSync(g)

NewObject(n, added) == [name |-> n, deleted |-> FALSE, paused |-> FALSE, signal |-> 0,
                        token |-> FALSE, added |-> added, inherited |-> 0]

RunJob(i) == [of |-> i, pc |-> "start"]

Request == requests > 0 /\ requests' = requests - 1

CanMake == Len(objects) < MaxObjects

\* AddJob: FirstRun, the row, the map, the goroutine.
AddJob(n) ==
    /\ Request /\ CanLock /\ CanMake
    /\ jobs[n] = 0          \* errJobExist, errJobDeleting
    /\ n \notin rows        \* Job.valid, db.AddJob
    /\ objects' = Append(objects, NewObject(n, TRUE))
    /\ jobs' = [jobs EXCEPT ![n] = Len(objects) + 1]
    /\ gors' = Append(gors, RunJob(Len(objects) + 1))
    /\ rows' = rows \cup {n}
    /\ UNCHANGED <<clients, started, progress, budget>>

\* Job.Delete: mark, signal (the send is dropped when the channel is full), close the channel.
Deleted(o) == [o EXCEPT !.deleted = TRUE, !.signal = @ + 1, !.token = TRUE]

\* RemoveJob that takes the job out of the map before its goroutine has ended.
RemoveJobAtOnce(n) ==
    /\ Request /\ CanLock /\ jobs[n] # 0 /\ ~objects[jobs[n]].deleted
    /\ objects' = [objects EXCEPT ![jobs[n]] = Deleted(@)]
    /\ jobs' = [jobs EXCEPT ![n] = 0]
    /\ rows' = rows \ {n} /\ progress' = [progress EXCEPT ![n] = 0]
    /\ UNCHANGED <<gors, clients, started, budget>>

\* RemoveJob; a second one panics in Delete (the channel is closed) and changes nothing but
\* the signal.  The rows go in one transaction, which may fail.
RemoveJob(n) ==
    /\ Request /\ CanLock /\ jobs[n] # 0
    /\ objects' = [objects EXCEPT ![jobs[n]] = Deleted(@)]
    /\ \/ /\ ~objects[jobs[n]].deleted
          /\ rows' = rows \ {n} /\ progress' = [progress EXCEPT ![n] = 0]
          /\ UNCHANGED budget
       \/ objects[jobs[n]].deleted /\ UNCHANGED <<storage, budget>>
       \/ Fault("db") /\ UNCHANGED storage
    /\ UNCHANGED <<jobs, gors, clients, started>>

\* Pause, Resume, Sync and Desync (with jm.RLock), SkipBinlog and UpdateHostMapping (jm.Lock)
\* raise the interrupt signal and wait for j.lock.
RaiseInterruptSignal(c, n, exclusive) ==
    /\ Request /\ clients[c].pc = "idle" /\ jobs[n] # 0
    /\ IF exclusive THEN CanLock ELSE CanRLock
    /\ objects' = [objects EXCEPT ![jobs[n]].signal = @ + 1]
    /\ clients' = [clients EXCEPT ![c] = [pc |-> "lock", of |-> jobs[n], exclusive |-> exclusive]]
    /\ UNCHANGED <<jobs, gors, started, storage, budget>>

\* With j.lock: the request does what it is for.  Pause and Resume change the state, if the row
\* can be written; the exclusive ones do not.
ChangeJob(c) ==
    /\ clients[c].pc = "lock" /\ CanLockJob(clients[c].of)
    /\ \/ UNCHANGED objects
       \/ ~clients[c].exclusive /\ objects[clients[c].of].name \in rows
          /\ objects' = [objects EXCEPT ![clients[c].of].paused = ~@]
    /\ clients' = [clients EXCEPT ![c].pc = "send"]
    /\ UNCHANGED <<jobs, gors, started, storage, requests, budget>>

\* The send of a request that does not wait, as Delete does it.
SendDropped(c) ==
    /\ clients[c].pc = "send"
    /\ objects' = [objects EXCEPT ![clients[c].of].token = TRUE]
    /\ clients' = [clients EXCEPT ![c] = Idle]
    /\ UNCHANGED <<jobs, gors, started, storage, requests, budget>>

\* The send on InterruptCh, which waits for room, and jm.lock is given back.
SendInterrupt(c) ==
    /\ clients[c].pc = "send" /\ ~objects[clients[c].of].token
    /\ objects' = [objects EXCEPT ![clients[c].of].token = TRUE]
    /\ clients' = [clients EXCEPT ![c] = Idle]
    /\ UNCHANGED <<jobs, gors, started, storage, requests, budget>>

\* A start that runs the jobs of the storage, recovered or not.
StartStored ==
    /\ ~started /\ started' = TRUE /\ CanRLock
    /\ gors' = gors \o [k \in DOMAIN SetToSeq(rows) |-> RunJob(jobs[SetToSeq(rows)[k]])]
    /\ UNCHANGED <<jobs, objects, clients, storage, requests, budget>>

\* jm.Start runs every job of the map: those an early request has added run already.
StartManager ==
    /\ ~started /\ started' = TRUE /\ CanRLock
    /\ LET early == SetToSeq({jobs[n] : n \in Names} \ {0})
       IN gors' = gors \o [k \in DOMAIN early |-> RunJob(early[k])]
    /\ UNCHANGED <<jobs, objects, clients, storage, requests, budget>>

\* The last object of a name: the row has its state.
LastOf(n) == Max({i \in DOMAIN objects : objects[i].name = n})

\* Recover, called by the checker: run the jobs of the storage that are not in the map.
Recover(n) ==
    /\ started /\ CanLock /\ CanMake /\ n \in rows /\ jobs[n] = 0
    /\ objects' = Append(objects,
                         [NewObject(n, FALSE) EXCEPT !.paused = objects[LastOf(n)].paused])
    /\ jobs' = [jobs EXCEPT ![n] = Len(objects) + 1]
    /\ gors' = Append(gors, RunJob(Len(objects) + 1))
    /\ UNCHANGED <<clients, started, storage, requests, budget>>
-----------------------------------------------------------------------------
(* The goroutine of a job. *)

Step(g, from, to) == gors[g].pc = from /\ gors' = [gors EXCEPT ![g].pc = to]

Obj(g) == objects[gors[g].of]

\* Run: recover the progress of this name, or make a new one.
RunRecovers(g) ==
    /\ Step(g, "start", "head") /\ progress[Obj(g).name] # 0
    /\ objects' = [objects EXCEPT ![gors[g].of].inherited = progress[Obj(g).name]]
    /\ UNCHANGED <<jobs, clients, started, storage, requests, budget>>

RunNew(g) ==
    /\ Step(g, "start", IF Obj(g).deleted THEN "head" ELSE "first")
    /\ progress[Obj(g).name] = 0
    /\ UNCHANGED <<jobs, objects, clients, started, storage, requests, budget>>

\* UpdateProgress inserts the row if it is not there.
WriteProgress(g) == progress' = [progress EXCEPT ![Obj(g).name] = gors[g].of]

FirstProgress(g) ==
    /\ Step(g, "first", "head") /\ WriteProgress(g)
    /\ UNCHANGED <<jobs, objects, clients, started, rows, requests, budget>>

\* Run returns an error, or something panics: the goroutine ends, the job stays in the map.
RunFails(g) ==
    /\ gors[g].pc \in {"start", "sync"} /\ Fault("dead")
    /\ Step(g, gors[g].pc, "exit")
    /\ UNCHANGED <<jobs, objects, clients, started, storage, requests>>

MaybeDeleted(g) ==
    /\ Step(g, "head", IF Obj(g).deleted THEN "exit" ELSE "consume")
    /\ UNCHANGED <<jobs, objects, clients, started, storage, requests, budget>>

\* A run loop that does not look at its signals while the job is paused.
ConsumeUnlessPaused(g) ==
    /\ Step(g, "consume", IF Obj(g).signal > 0 /\ ~Obj(g).paused THEN "receive" ELSE "select")
    /\ UNCHANGED <<jobs, objects, clients, started, storage, requests, budget>>

ConsumeInterruptSignals(g) ==
    /\ Step(g, "consume", IF Obj(g).signal > 0 THEN "receive" ELSE "select")
    /\ UNCHANGED <<jobs, objects, clients, started, storage, requests, budget>>

ReceiveInterrupt(g) ==
    /\ Step(g, "receive", "consume") /\ Obj(g).token
    /\ objects' = [objects EXCEPT ![gors[g].of].token = FALSE, ![gors[g].of].signal = @ - 1]
    /\ UNCHANGED <<jobs, clients, started, storage, requests, budget>>

\* <-j.stop, closed by Delete
StopJob(g) ==
    /\ Step(g, "select", "exit") /\ Obj(g).deleted
    /\ UNCHANGED <<jobs, objects, clients, started, storage, requests, budget>>

Tick(g) ==
    /\ CanLockJob(gors[g].of)
    /\ Step(g, "select", IF Obj(g).paused THEN "head" ELSE "sync")
    /\ UNCHANGED <<jobs, objects, clients, started, storage, requests, budget>>

SyncReturns(g) ==
    /\ Step(g, "sync", "head")
    /\ UNCHANGED <<jobs, objects, clients, started, storage, requests, budget>>

\* Persist looks at isDeleted, and then writes the progress.
Persist(g) ==
    /\ Step(g, "sync", "persist") /\ ~Obj(g).deleted
    /\ UNCHANGED <<jobs, objects, clients, started, storage, requests, budget>>

UpdateProgress(g) ==
    /\ Step(g, "persist", "sync") /\ WriteProgress(g)
    /\ UNCHANGED <<jobs, objects, clients, started, rows, requests, budget>>

\* The deferred cleanup of runJob: a deleted job leaves the map, by its name.
Exit(g) ==
    /\ Step(g, "exit", "gone")
    /\ IF Obj(g).deleted
       THEN CanLock /\ jobs' = [jobs EXCEPT ![Obj(g).name] = 0]
       ELSE UNCHANGED jobs
    /\ UNCHANGED <<objects, clients, started, storage, requests, budget>>

\* The process is killed and started again.
Crash ==
    /\ Fault("crash")
    /\ jobs' = [n \in Names |-> 0]
    /\ gors' = [g \in DOMAIN gors |-> [gors[g] EXCEPT !.pc = "gone"]]
    /\ clients' = [c \in Clients |-> Idle]
    /\ started' = FALSE
    /\ objects' = [i \in DOMAIN objects |-> [objects[i] EXCEPT !.signal = 0, !.token = FALSE]]
    /\ UNCHANGED <<storage, requests>>
-----------------------------------------------------------------------------
Init ==
    /\ jobs = [n \in Names |-> 0] /\ objects = <<>> /\ gors = <<>>
    /\ clients = [c \in Clients |-> Idle] /\ started = FALSE
    /\ rows = {} /\ progress = [n \in Names |-> 0]
    /\ requests = MaxRequests /\ budget = MaxFaults

GorStep(g) ==
    \/ RunRecovers(g) \/ RunNew(g) \/ FirstProgress(g)
    \/ MaybeDeleted(g) \/ ConsumeInterruptSignals(g) \/ ReceiveInterrupt(g)
    \/ StopJob(g) \/ Tick(g) \/ SyncReturns(g) \/ Persist(g) \/ UpdateProgress(g) \/ Exit(g)

ClientStep(c) == ChangeJob(c) \/ SendInterrupt(c)

NewRequest ==
    \/ \E n \in Names : AddJob(n) \/ RemoveJob(n)
    \/ \E c \in Clients, n \in Names, exclusive \in BOOLEAN :
          RaiseInterruptSignal(c, n, exclusive)

Next ==
    \/ \E g \in DOMAIN gors : GorStep(g) \/ RunFails(g)
    \/ \E c \in Clients : ClientStep(c)
    \/ NewRequest \/ StartManager \/ Crash
    \/ \E n \in Names : Recover(n)

Spec == Init /\ [][Next]_vars

MaxGors == 2 * MaxObjects

\* A job ticks, and its sync() returns: it looks at the interrupt signal on every turn of its
\* loop, and its calls have timeouts.
Fairness ==
    /\ \A g \in 1..MaxGors :
          /\ WF_vars(g \in DOMAIN gors /\ GorStep(g))
          /\ SF_vars(g \in DOMAIN gors /\ SyncReturns(g))
    /\ \A c \in Clients : WF_vars(ClientStep(c))

FairSpec == Spec /\ Fairness
-----------------------------------------------------------------------------
\* jm.Start has not run an object of this name that an early request ran already.
RunOnce(n) ==
    \A g, h \in DOMAIN gors : objects[gors[g].of].name = n /\ gors[g].of = gors[h].of => g = h

\* A goroutine runs the job that is in the map under its name: no other job of that name is added
\* before it has ended, its end takes no other job out of the map, and a name has one goroutine
\* that writes its progress.
ManagedJobs ==
    \A g \in DOMAIN gors : Live(g) /\ RunOnce(Obj(g).name) => jobs[Obj(g).name] = gors[g].of

\* Every interrupt signal raised is matched by something sent, or that a request will send: the
\* goroutine, which waits for one message per signal, does not wait in vain.
InterruptsCounted ==
    \A i \in DOMAIN objects : ~objects[i].deleted =>
        objects[i].signal = (IF objects[i].token THEN 1 ELSE 0)
                            + Cardinality({c \in Clients : clients[c].of = i})

HasGoroutine(i) == \E g \in DOMAIN gors : gors[g].of = i /\ Live(g) /\ gors[g].pc # "exit"

\* A request on a job ends, and gives the lock of the manager back, whatever the job is doing.  It
\* does not if the job is deleted meanwhile, or if its goroutine has died.
RequestsEnd ==
    \A c \in Clients : clients[c].pc # "idle" ~>
        (clients[c].pc = "idle" \/ objects[clients[c].of].deleted \/ ~HasGoroutine(clients[c].of))

\* A job that is created starts with a full sync: it does not go on from what a deleted job of its
\* name has stored.
NewJobStartsAnew ==
    \A i \in DOMAIN objects : objects[i].added => objects[i].inherited \in {0, i}

=============================================================================
