-------------------------- MODULE JobManagerProofs --------------------------
(***************************************************************************)
(* The jobs of JobManager, for any names, requests and faults: a name has  *)
(* one goroutine, which runs the job of the map, and the interrupt signals *)
(* of a job are as many as the messages its goroutine will receive.        *)
(***************************************************************************)
EXTENDS JobManager, FiniteSetTheorems, WellFoundedInduction, TLAPS

\* The requests about object i that have raised its signal and not sent yet.
Waiting(i) == {c \in Clients : clients[c].of = i}

\* What the map, the goroutines, the requests and the rows name is there.
JobsNamed ==
    /\ \A n \in Names : jobs[n] # 0 => jobs[n] \in DOMAIN objects /\ objects[jobs[n]].name = n
    /\ \A g \in DOMAIN gors : gors[g].of \in DOMAIN objects
    /\ \A c \in Clients : clients[c].of # 0 => clients[c].of \in DOMAIN objects
    /\ \A c \in Clients : clients[c].pc = "idle" <=> clients[c].of = 0
    /\ \A n \in rows : \E i \in DOMAIN objects : objects[i].name = n

Pending(i) == (IF objects[i].token THEN 1 ELSE 0) + Cardinality(Waiting(i))

\* A job that is deleted may be signalled more often than its channel took messages.
SignalsSent ==
    \A i \in DOMAIN objects :
        /\ objects[i].signal >= Pending(i)
        /\ ~objects[i].deleted => objects[i].signal = Pending(i)

ManagerInv == TypeOK /\ JobsNamed /\ SignalsSent /\ ManagedJobs
-----------------------------------------------------------------------------
\* The sequence of a finite set has members of the set only.
LEMMA SetToSeqMembers ==
    ASSUME NEW S, IsFiniteSet(S)
    PROVE  /\ Cardinality(S) \in Nat
           /\ SetToSeq(S) \in [1..Cardinality(S) -> S]
<1>1. Cardinality(S) \in Nat /\ ExistsBijection(1..Cardinality(S), S)
  BY FS_CardinalityType
<1>2. PICK f : f \in Bijection(1..Cardinality(S), S)
  BY <1>1 DEF ExistsBijection
<1>3. f \in [1..Cardinality(S) -> S] /\ IsInjective(f)
  BY <1>2 DEF Bijection, Injection, IsInjective
<1> QED
  BY <1>1, <1>3 DEF SetToSeq

\* A set of indices has a greatest one: the least of its upper bounds.
LEMMA MaxOfInterval ==
    ASSUME NEW n \in Nat, NEW S, S \subseteq 1..n, S # {}
    PROVE  Max(S) \in S
<1> DEFINE bounds == {m \in Nat : \A s \in S : s <= m}
<1>1. n \in bounds
  OBVIOUS
<1>2. PICK m \in bounds : \A k \in bounds : <<k, m>> \notin OpToRel(<, Nat)
  BY <1>1, NatLessThanWellFounded, WFMin
<1>3. \A k \in bounds : ~ k < m
  BY <1>2 DEF OpToRel
<1>4. m \in S
  <2>1. PICK s \in S : s \in 1..n /\ s <= m
    OBVIOUS
  <2>2. m - 1 \in Nat /\ m - 1 \notin bounds
    BY <1>3, <2>1
  <2> QED
    BY <2>2
<1> QED
  BY <1>4 DEF Max

\* The requests about an object can be counted.
LEMMA WaitingFinite ==
    \A i : IsFiniteSet(Waiting(i)) /\ Cardinality(Waiting(i)) \in Nat
<1> TAKE i
<1>1. Waiting(i) \in SUBSET Clients
  BY DEF Waiting
<1> QED
  BY <1>1, ManagerAssumption, FS_Subset, FS_CardinalityType

\* A sequence with another element at one place.
LEMMA SeqWithElement ==
    ASSUME NEW S, NEW s \in Seq(S), NEW i \in DOMAIN s, NEW e \in S,
           NEW t, t = [s EXCEPT ![i] = e]
    PROVE  t \in Seq(S) /\ Len(t) = Len(s) /\ DOMAIN t = DOMAIN s
<1>1. s \in [1..Len(s) -> S] /\ Len(s) \in Nat /\ DOMAIN s = 1..Len(s)
  OBVIOUS
<1>2. t \in [1..Len(s) -> S]
  BY <1>1
<1> QED
  BY <1>1, <1>2

\* A process that starts for the first time has no job.
LEMMA InitIsInv == Init => ManagerInv
<1> SUFFICES ASSUME Init PROVE ManagerInv
  OBVIOUS
<1>1. jobs \in [Names -> 0..MaxObjects] /\ progress \in [Names -> 0..MaxObjects]
  BY ManagerAssumption DEF Init
<1>2. clients \in [Clients -> [pc : {"idle", "lock", "send"}, of : 0..MaxObjects,
                              exclusive : BOOLEAN]]
  BY ManagerAssumption DEF Init, Idle
<1>3. objects \in Seq(Objects) /\ Len(objects) <= MaxObjects /\ gors \in Seq(Gors)
  BY ManagerAssumption DEF Init
<1>4. requests \in 0..MaxRequests /\ budget \in 0..MaxFaults
  BY ManagerAssumption DEF Init
<1>5. started \in BOOLEAN /\ rows \subseteq Names
  BY DEF Init
<1>6. TypeOK
  BY <1>1, <1>2, <1>3, <1>4, <1>5 DEF TypeOK
<1> QED
  BY <1>6 DEF Init, ManagerInv, JobsNamed, SignalsSent, ManagedJobs, Idle
-----------------------------------------------------------------------------
\* Objects that stay, with their names, and goroutines that stay what they are and do not come
\* back to life keep their jobs in an unchanged map.
LEMMA JobsStayManaged ==
    ASSUME ManagerInv, UNCHANGED jobs,
           DOMAIN gors' = DOMAIN gors,
           \A g \in DOMAIN gors : gors'[g].of = gors[g].of /\ (Live(g)' => Live(g)),
           \A i \in DOMAIN objects : objects'[i].name = objects[i].name
    PROVE  ManagedJobs'
<1>1. \A g \in DOMAIN gors : Obj(g)'.name = Obj(g).name
  BY DEF ManagerInv, JobsNamed, Obj
<1>2. \A n : RunOnce(n)' => RunOnce(n)
  BY DEF ManagerInv, JobsNamed, RunOnce
<1> QED
  BY <1>1, <1>2 DEF ManagerInv, ManagedJobs

\* An object that is signalled and sent to as before, by requests that are where they were.
LEMMA SignalsStaySent ==
    ASSUME ManagerInv, UNCHANGED clients, DOMAIN objects' = DOMAIN objects,
           \A i \in DOMAIN objects :
              /\ objects'[i].signal = objects[i].signal /\ objects'[i].token = objects[i].token
              /\ objects'[i].deleted = objects[i].deleted
    PROVE  SignalsSent'
BY DEF ManagerInv, SignalsSent, Pending, Waiting

\* A goroutine that goes on is the same goroutine, and was not gone.
LEMMA SameGoroutine ==
    ASSUME ManagerInv, NEW g \in DOMAIN gors, NEW to \in GorPCs, Live(g),
           gors' = [gors EXCEPT ![g].pc = to]
    PROVE  /\ gors' \in Seq(Gors) /\ DOMAIN gors' = DOMAIN gors
           /\ \A h \in DOMAIN gors : gors'[h].of = gors[h].of /\ (Live(h)' => Live(h))
<1> gors \in Seq(Gors)
  BY DEF ManagerInv, TypeOK
<1> DEFINE e == [gors[g] EXCEPT !.pc = to]
<1>1. gors[g] \in Gors
  OBVIOUS
<1>2. e \in Gors /\ e.of = gors[g].of
  BY <1>1 DEF Gors
<1>3. gors' = [gors EXCEPT ![g] = e]
  OBVIOUS
<1> HIDE DEF e
<1>4. gors' \in Seq(Gors) /\ DOMAIN gors' = DOMAIN gors
  BY <1>2, <1>3, SeqWithElement
<1> QED
  BY <1>2, <1>3, <1>4 DEF Live

\* A goroutine that goes on changes nothing of what is counted.
LEMMA PcStep ==
    ASSUME ManagerInv, NEW g \in DOMAIN gors, NEW to \in GorPCs, Live(g),
           gors' = [gors EXCEPT ![g].pc = to],
           UNCHANGED <<jobs, objects, clients, started, rows, requests>>,
           progress' \in [Names -> 0..MaxObjects], budget' \in 0..MaxFaults
    PROVE  ManagerInv'
<1>1. gors' \in Seq(Gors) /\ DOMAIN gors' = DOMAIN gors
  BY SameGoroutine
<1>2. \A h \in DOMAIN gors : gors'[h].of = gors[h].of /\ (Live(h)' => Live(h))
  BY SameGoroutine
<1>3. TypeOK'
  BY <1>1 DEF ManagerInv, TypeOK
<1>4. JobsNamed'
  BY <1>1, <1>2 DEF ManagerInv, JobsNamed
<1>5. SignalsSent'
  BY SignalsStaySent
<1>6. ManagedJobs'
  BY <1>1, <1>2, JobsStayManaged
<1> QED
  BY <1>3, <1>4, <1>5, <1>6 DEF ManagerInv
-----------------------------------------------------------------------------
\* A Job object that changes keeps its place and its name.
LEMMA ObjectStep ==
    ASSUME ManagerInv, NEW i \in DOMAIN objects, NEW e \in Objects, e.name = objects[i].name,
           objects' = [objects EXCEPT ![i] = e]
    PROVE  /\ objects' \in Seq(Objects) /\ Len(objects') = Len(objects)
           /\ DOMAIN objects' = DOMAIN objects
           /\ objects'[i] = e
           /\ \A k \in DOMAIN objects : k # i => objects'[k] = objects[k]
           /\ \A k \in DOMAIN objects : objects'[k].name = objects[k].name
<1>1. objects \in Seq(Objects)
  BY DEF ManagerInv, TypeOK
<1> QED
  BY <1>1, SeqWithElement

\* What is counted of an object, by its type.
LEMMA ObjectTypes ==
    ASSUME ManagerInv, NEW i \in DOMAIN objects
    PROVE  /\ objects[i] \in Objects /\ objects[i].signal \in Nat
           /\ i \in 1..MaxObjects /\ MaxObjects \in Nat
<1>1. objects \in Seq(Objects) /\ Len(objects) <= MaxObjects /\ MaxObjects \in Nat
  BY ManagerAssumption DEF ManagerInv, TypeOK
<1>2. objects[i] \in Objects /\ i \in 1..MaxObjects
  BY <1>1
<1> QED
  BY <1>1, <1>2 DEF Objects

\* A change of one object, and of requests, that keeps the count of its signals.
LEMMA SignalStep ==
    ASSUME ManagerInv, NEW i \in DOMAIN objects, NEW e \in Objects, e.name = objects[i].name,
           objects' = [objects EXCEPT ![i] = e], UNCHANGED <<jobs, started>>,
           \/ UNCHANGED gors
           \/ \E g \in DOMAIN gors, to \in GorPCs :
                 Live(g) /\ gors' = [gors EXCEPT ![g].pc = to],
           clients' \in [Clients -> [pc : {"idle", "lock", "send"}, of : 0..MaxObjects,
                                     exclusive : BOOLEAN]],
           \A c \in Clients : /\ clients'[c].of # 0 => clients'[c].of \in DOMAIN objects
                              /\ clients'[c].pc = "idle" <=> clients'[c].of = 0,
           \A k \in DOMAIN objects : k # i => Waiting(k)' = Waiting(k),
           e.signal >= (IF e.token THEN 1 ELSE 0) + Cardinality(Waiting(i)'),
           ~e.deleted => e.signal = (IF e.token THEN 1 ELSE 0) + Cardinality(Waiting(i)'),
           rows' \subseteq rows, progress' \in [Names -> 0..MaxObjects],
           requests' \in 0..MaxRequests, budget' \in 0..MaxFaults
    PROVE  ManagerInv'
<1> USE ObjectStep
<1>1. gors' \in Seq(Gors) /\ DOMAIN gors' = DOMAIN gors
  BY SameGoroutine DEF ManagerInv, TypeOK
<1>2. \A h \in DOMAIN gors : gors'[h].of = gors[h].of /\ (Live(h)' => Live(h))
  BY SameGoroutine DEF Live
<1>3. TypeOK'
  <2>1. rows' \subseteq Names
    BY DEF ManagerInv, TypeOK
  <2> QED
    BY <1>1, <2>1 DEF ManagerInv, TypeOK
<1>4. JobsNamed'
  BY <1>1, <1>2 DEF ManagerInv, JobsNamed
<1>5. SignalsSent'
  <2> SUFFICES ASSUME NEW k \in DOMAIN objects
               PROVE  /\ objects'[k].signal >= Pending(k)'
                      /\ ~objects'[k].deleted => objects'[k].signal = Pending(k)'
    BY DEF SignalsSent
  <2>1. CASE k = i
    BY <2>1 DEF Pending
  <2>2. CASE k # i
    BY <2>2 DEF Pending, ManagerInv, SignalsSent
  <2> QED
    BY <2>1, <2>2
<1>6. ManagedJobs'
  BY <1>1, <1>2, JobsStayManaged
<1> QED
  BY <1>3, <1>4, <1>5, <1>6 DEF ManagerInv
-----------------------------------------------------------------------------
\* The requests.

\* Job.Delete, field by field.
LEMMA DeletedObject ==
    ASSUME NEW o \in Objects
    PROVE  /\ Deleted(o) \in Objects /\ Deleted(o).name = o.name
           /\ Deleted(o).signal = o.signal + 1
           /\ Deleted(o).token = TRUE /\ Deleted(o).deleted = TRUE
<1> DEFINE o1 == [o EXCEPT !.deleted = TRUE]
           o2 == [o1 EXCEPT !.signal = @ + 1]
           o3 == [o2 EXCEPT !.token = TRUE]
<1>1. o1 \in Objects /\ o1.deleted = TRUE /\ o1.name = o.name /\ o1.signal = o.signal
  BY DEF Objects
<1> HIDE DEF o1
<1>2. o2 \in Objects /\ o2.deleted = TRUE /\ o2.name = o.name /\ o2.signal = o.signal + 1
  BY <1>1 DEF Objects
<1> HIDE DEF o2
<1>3. /\ o3 \in Objects /\ o3.deleted = TRUE /\ o3.name = o.name /\ o3.signal = o.signal + 1
      /\ o3.token = TRUE
  BY <1>2 DEF Objects
<1>4. Deleted(o) = o3
  BY DEF Deleted, Objects, o1, o2
<1> QED
  BY <1>3, <1>4

\* A second Delete raises the signal once more, and its panic comes after the send.
LEMMA RemoveJobKeeps ==
    ASSUME ManagerInv, NEW n \in Names, RemoveJob(n)
    PROVE  ManagerInv'
<1>1. PICK i \in DOMAIN objects : i = jobs[n]
  BY DEF RemoveJob, ManagerInv, JobsNamed
<1>2. objects[i] \in Objects /\ objects[i].signal \in Nat
  BY ObjectTypes
<1>3. PICK e \in Objects : /\ e = Deleted(objects[i]) /\ e.name = objects[i].name
                           /\ e.signal = objects[i].signal + 1
                           /\ e.token = TRUE /\ e.deleted = TRUE
  BY <1>2, DeletedObject
<1>4. objects' = [objects EXCEPT ![i] = e] /\ UNCHANGED <<jobs, gors, clients, started>>
  BY <1>1, <1>3 DEF RemoveJob
<1>5. e.signal >= (IF e.token THEN 1 ELSE 0) + Cardinality(Waiting(i)')
  <2>1. Waiting(i)' = Waiting(i)
    BY <1>4 DEF Waiting
  <2>2. objects[i].signal >= Cardinality(Waiting(i))
    BY <1>1, <1>2, WaitingFinite DEF ManagerInv, SignalsSent, Pending
  <2> QED
    BY <1>2, <1>3, <2>1, <2>2, WaitingFinite
<1>6. rows' \subseteq rows /\ progress' \in [Names -> 0..MaxObjects]
  BY ManagerAssumption DEF RemoveJob, ManagerInv, TypeOK, storage
<1>7. requests' \in 0..MaxRequests /\ budget' \in 0..MaxFaults
  BY ManagerAssumption DEF RemoveJob, Request, Fault, ManagerInv, TypeOK
<1>8. \A k \in DOMAIN objects : Waiting(k)' = Waiting(k)
  BY <1>4 DEF Waiting
<1>9. /\ clients' \in [Clients -> [pc : {"idle", "lock", "send"}, of : 0..MaxObjects,
                                   exclusive : BOOLEAN]]
      /\ \A d \in Clients : /\ clients'[d].of # 0 => clients'[d].of \in DOMAIN objects
                            /\ clients'[d].pc = "idle" <=> clients'[d].of = 0
  BY <1>4 DEF ManagerInv, TypeOK, JobsNamed
<1> QED
  BY <1>1, <1>3, <1>4, <1>5, <1>6, <1>7, <1>8, <1>9, SignalStep

\* One signal more, and one request more that will send.
LEMMA RaiseInterruptSignalKeeps ==
    ASSUME ManagerInv, NEW c \in Clients, NEW n \in Names, NEW exclusive \in BOOLEAN,
           RaiseInterruptSignal(c, n, exclusive)
    PROVE  ManagerInv'
<1>1. PICK i \in DOMAIN objects : i = jobs[n] /\ i # 0 /\ clients[c].of = 0
  BY DEF RaiseInterruptSignal, ManagerInv, JobsNamed
<1>2. objects[i] \in Objects /\ objects[i].signal \in Nat /\ i \in 0..MaxObjects
  BY ObjectTypes
<1>3. PICK e \in Objects : /\ objects' = [objects EXCEPT ![i] = e] /\ e.name = objects[i].name
                           /\ e.signal = objects[i].signal + 1
                           /\ e.token = objects[i].token /\ e.deleted = objects[i].deleted
  <2> DEFINE f == [objects[i] EXCEPT !.signal = @ + 1]
  <2>1. f \in Objects /\ f.name = objects[i].name /\ f.signal = objects[i].signal + 1
        /\ f.token = objects[i].token /\ f.deleted = objects[i].deleted
    BY <1>2 DEF Objects
  <2>2. objects' = [objects EXCEPT ![i] = f]
    BY <1>1 DEF RaiseInterruptSignal
  <2> QED
    BY <2>1, <2>2
<1>4. /\ UNCHANGED <<jobs, gors, started, rows, progress, budget>>
      /\ clients' = [clients EXCEPT ![c] = [pc |-> "lock", of |-> i, exclusive |-> exclusive]]
  BY <1>1 DEF RaiseInterruptSignal, storage
<1>5. /\ clients' \in [Clients -> [pc : {"idle", "lock", "send"}, of : 0..MaxObjects,
                                   exclusive : BOOLEAN]]
      /\ \A d \in Clients : /\ clients'[d].of # 0 => clients'[d].of \in DOMAIN objects
                            /\ clients'[d].pc = "idle" <=> clients'[d].of = 0
    <2> QED
    BY <1>1, <1>2, <1>4 DEF ManagerInv, TypeOK, JobsNamed
<1>6. Waiting(i)' = Waiting(i) \cup {c} /\ c \notin Waiting(i)
  BY <1>1, <1>4 DEF Waiting, ManagerInv, TypeOK
<1>7. \A k \in DOMAIN objects : k # i => Waiting(k)' = Waiting(k)
  <2> SUFFICES ASSUME NEW k \in DOMAIN objects, k # i PROVE Waiting(k)' = Waiting(k)
    OBVIOUS
  <2>1. k # 0
    BY ObjectTypes
  <2> QED
    BY <1>1, <1>4, <2>1 DEF Waiting, ManagerInv, TypeOK
<1>8. /\ e.signal >= (IF e.token THEN 1 ELSE 0) + Cardinality(Waiting(i)')
      /\ ~e.deleted => e.signal = (IF e.token THEN 1 ELSE 0) + Cardinality(Waiting(i)')
  <2>1. Cardinality(Waiting(i)') = Cardinality(Waiting(i)) + 1 /\ Cardinality(Waiting(i)) \in Nat
    BY <1>6, WaitingFinite, FS_AddElement
  <2>2. /\ objects[i].signal >= (IF objects[i].token THEN 1 ELSE 0) + Cardinality(Waiting(i))
        /\ ~objects[i].deleted =>
              objects[i].signal = (IF objects[i].token THEN 1 ELSE 0) + Cardinality(Waiting(i))
    BY <1>1 DEF ManagerInv, SignalsSent, Pending
  <2>3. CASE objects[i].token
    BY <1>2, <1>3, <2>1, <2>2, <2>3
  <2>4. CASE ~objects[i].token
    BY <1>2, <1>3, <2>1, <2>2, <2>4
  <2> QED
    BY <2>3, <2>4
<1>9. requests' \in 0..MaxRequests
  BY ManagerAssumption DEF RaiseInterruptSignal, Request, ManagerInv, TypeOK
<1>10. rows' \subseteq rows /\ progress' \in [Names -> 0..MaxObjects] /\ budget' \in 0..MaxFaults
  BY <1>4 DEF ManagerInv, TypeOK, storage
<1> QED
  BY <1>1, <1>3, <1>4, <1>5, <1>7, <1>8, <1>9, <1>10, SignalStep

\* The request is still to send.
LEMMA ChangeJobKeeps ==
    ASSUME ManagerInv, NEW c \in Clients, ChangeJob(c)
    PROVE  ManagerInv'
<1>1. PICK i \in DOMAIN objects : i = clients[c].of /\ clients[c].pc = "lock"
  BY DEF ChangeJob, ManagerInv, JobsNamed
<1>2. PICK e \in Objects : /\ objects' = [objects EXCEPT ![i] = e] /\ e.name = objects[i].name
                           /\ e.signal = objects[i].signal /\ e.token = objects[i].token
                           /\ e.deleted = objects[i].deleted
  <2>1. objects[i] \in Objects /\ objects \in Seq(Objects)
    BY ObjectTypes DEF ManagerInv, TypeOK
  <2>2. CASE UNCHANGED objects
    BY <1>1, <2>1, <2>2
  <2> DEFINE f == [objects[i] EXCEPT !.paused = ~@]
  <2>3. f \in Objects /\ f.name = objects[i].name /\ f.signal = objects[i].signal
        /\ f.token = objects[i].token /\ f.deleted = objects[i].deleted
    BY <2>1 DEF Objects
  <2>4. CASE objects' = [objects EXCEPT ![i].paused = ~@]
    <3>1. objects' = [objects EXCEPT ![i] = f]
      BY <2>4
    <3> QED
      BY <2>3, <3>1
  <2> QED
    BY <1>1, <2>2, <2>4 DEF ChangeJob
<1>3. clients' = [clients EXCEPT ![c].pc = "send"]
      /\ UNCHANGED <<jobs, gors, started, rows, progress, requests, budget>>
  BY DEF ChangeJob, storage
<1>4. \A d \in Clients : /\ clients'[d].of = clients[d].of
                         /\ clients'[d].pc = "idle" <=> clients[d].pc = "idle"
  BY <1>1, <1>3 DEF ManagerInv, TypeOK
<1>5. clients' \in [Clients -> [pc : {"idle", "lock", "send"}, of : 0..MaxObjects,
                               exclusive : BOOLEAN]]
  BY <1>3 DEF ManagerInv, TypeOK
<1>6. \A k : Waiting(k)' = Waiting(k)
  BY <1>4 DEF Waiting
<1>7. /\ objects[i].signal >= (IF objects[i].token THEN 1 ELSE 0) + Cardinality(Waiting(i))
      /\ ~objects[i].deleted =>
            objects[i].signal = (IF objects[i].token THEN 1 ELSE 0) + Cardinality(Waiting(i))
  BY <1>1 DEF ManagerInv, SignalsSent, Pending
<1>8. \A d \in Clients : /\ clients'[d].of # 0 => clients'[d].of \in DOMAIN objects
                         /\ clients'[d].pc = "idle" <=> clients'[d].of = 0
  BY <1>4 DEF ManagerInv, JobsNamed
<1>9. /\ rows' \subseteq rows /\ progress' \in [Names -> 0..MaxObjects]
      /\ requests' \in 0..MaxRequests /\ budget' \in 0..MaxFaults
  BY <1>3 DEF ManagerInv, TypeOK
<1>10. /\ e.signal >= (IF e.token THEN 1 ELSE 0) + Cardinality(Waiting(i)')
       /\ ~e.deleted => e.signal = (IF e.token THEN 1 ELSE 0) + Cardinality(Waiting(i)')
  BY <1>2, <1>6, <1>7
<1> QED
  BY <1>2, <1>3, <1>5, <1>6, <1>8, <1>9, <1>10, SignalStep

\* One message more in the channel, which had room, and one request less.
LEMMA SendInterruptKeeps ==
    ASSUME ManagerInv, NEW c \in Clients, SendInterrupt(c)
    PROVE  ManagerInv'
<1>1. PICK i \in DOMAIN objects : i = clients[c].of /\ ~objects[i].token
  BY DEF SendInterrupt, ManagerInv, JobsNamed
<1>2. objects[i] \in Objects /\ objects[i].signal \in Nat /\ i \in 1..MaxObjects
  BY ObjectTypes
<1>3. PICK e \in Objects : /\ objects' = [objects EXCEPT ![i] = e] /\ e.name = objects[i].name
                           /\ e.signal = objects[i].signal
                           /\ e.token = TRUE /\ e.deleted = objects[i].deleted
  <2> DEFINE f == [objects[i] EXCEPT !.token = TRUE]
  <2>1. f \in Objects /\ f.name = objects[i].name /\ f.signal = objects[i].signal
        /\ f.token = TRUE /\ f.deleted = objects[i].deleted
    BY <1>2 DEF Objects
  <2>2. objects' = [objects EXCEPT ![i] = f]
    BY <1>1 DEF SendInterrupt
  <2> QED
    BY <2>1, <2>2
<1>4. /\ clients' = [clients EXCEPT ![c] = Idle]
      /\ UNCHANGED <<jobs, gors, started, rows, progress, requests, budget>>
  BY <1>1 DEF SendInterrupt, storage
<1>5. /\ clients' \in [Clients -> [pc : {"idle", "lock", "send"}, of : 0..MaxObjects,
                                   exclusive : BOOLEAN]]
      /\ \A d \in Clients : /\ clients'[d].of # 0 => clients'[d].of \in DOMAIN objects
                            /\ clients'[d].pc = "idle" <=> clients'[d].of = 0
    <2>1. Idle \in [pc : {"idle", "lock", "send"}, of : 0..MaxObjects, exclusive : BOOLEAN]
        /\ Idle.pc = "idle" /\ Idle.of = 0
    BY ManagerAssumption DEF Idle
  <2> QED
    BY <1>4, <2>1 DEF ManagerInv, TypeOK, JobsNamed
<1>6. Waiting(i)' = Waiting(i) \ {c} /\ c \in Waiting(i)
    <2>1. i # 0 /\ clients'[c].of = 0 /\ \A d \in Clients : d # c => clients'[d] = clients[d]
    BY <1>2, <1>4 DEF ManagerInv, TypeOK, Idle
  <2> QED
    BY <1>1, <2>1 DEF Waiting
<1>7. \A k \in DOMAIN objects : k # i => Waiting(k)' = Waiting(k)
  <2> SUFFICES ASSUME NEW k \in DOMAIN objects, k # i PROVE Waiting(k)' = Waiting(k)
    OBVIOUS
  <2>1. k # 0
    BY ObjectTypes
  <2>2. clients'[c].of = 0 /\ \A d \in Clients : d # c => clients'[d] = clients[d]
    BY <1>4 DEF ManagerInv, TypeOK, Idle
  <2> QED
    BY <1>1, <2>1, <2>2 DEF Waiting
<1>8. /\ e.signal >= (IF e.token THEN 1 ELSE 0) + Cardinality(Waiting(i)')
      /\ ~e.deleted => e.signal = (IF e.token THEN 1 ELSE 0) + Cardinality(Waiting(i)')
  <2>1. Cardinality(Waiting(i)') = Cardinality(Waiting(i)) - 1 /\ Cardinality(Waiting(i)) \in Nat
    BY <1>6, WaitingFinite, FS_RemoveElement
  <2>2. /\ objects[i].signal >= Cardinality(Waiting(i))
        /\ ~objects[i].deleted => objects[i].signal = Cardinality(Waiting(i))
    BY <1>1, WaitingFinite DEF ManagerInv, SignalsSent, Pending
  <2> QED
    BY <1>2, <1>3, <2>1, <2>2
<1>9. /\ rows' \subseteq rows /\ progress' \in [Names -> 0..MaxObjects]
      /\ requests' \in 0..MaxRequests /\ budget' \in 0..MaxFaults
  BY <1>4 DEF ManagerInv, TypeOK, storage
<1> QED
  BY <1>1, <1>3, <1>4, <1>5, <1>7, <1>8, <1>9, SignalStep
-----------------------------------------------------------------------------
\* What makes jobs and runs them.

\* A job that is made where its name has none is run by the only live goroutine of its name.
LEMMA NewJobKeeps ==
    ASSUME ManagerInv, NEW n \in Names, jobs[n] = 0, CanMake,
           NEW o \in Objects, o.name = n, o.signal = 0, ~o.token,
           objects' = Append(objects, o),
           jobs' = [jobs EXCEPT ![n] = Len(objects) + 1],
           gors' = Append(gors, RunJob(Len(objects) + 1)),
           UNCHANGED <<clients, started, progress, budget>>,
           rows' \subseteq rows \cup {n}, requests' \in 0..MaxRequests
    PROVE  ManagerInv'
<1> DEFINE i == Len(objects) + 1
<1>1. /\ objects \in Seq(Objects) /\ gors \in Seq(Gors) /\ i \in 1..MaxObjects
      /\ MaxObjects \in Nat /\ i \notin DOMAIN objects
  BY ManagerAssumption DEF ManagerInv, TypeOK, CanMake
<1>2. /\ objects' \in Seq(Objects) /\ Len(objects') = i /\ objects'[i] = o
      /\ DOMAIN objects' = DOMAIN objects \cup {i}
      /\ \A k \in DOMAIN objects : objects'[k] = objects[k]
  BY <1>1
<1>3. /\ gors' \in Seq(Gors) /\ DOMAIN gors' = DOMAIN gors \cup {Len(gors) + 1}
      /\ gors'[Len(gors) + 1].of = i
      /\ \A g \in DOMAIN gors : gors'[g] = gors[g]
  <2>1. RunJob(i) \in Gors /\ RunJob(i).of = i
    BY <1>1 DEF RunJob, Gors, GorPCs, Ids
  <2> QED
    BY <1>1, <2>1
<1>4. TypeOK'
  <2>1. jobs' \in [Names -> 0..MaxObjects] /\ rows' \subseteq Names /\ Len(objects') <= MaxObjects
    BY <1>1, <1>2 DEF ManagerInv, TypeOK
  <2> QED
    BY <1>2, <1>3, <2>1 DEF ManagerInv, TypeOK
<1>5. JobsNamed'
  <2>1. \A m \in Names : jobs'[m] # 0 =>
          jobs'[m] \in DOMAIN objects' /\ objects'[jobs'[m]].name = m
    BY <1>2 DEF ManagerInv, JobsNamed, TypeOK
  <2>2. \A g \in DOMAIN gors' : gors'[g].of \in DOMAIN objects'
    BY <1>2, <1>3 DEF ManagerInv, JobsNamed
  <2>3. \A m \in rows' : \E k \in DOMAIN objects' : objects'[k].name = m
    BY <1>2 DEF ManagerInv, JobsNamed
  <2> QED
    BY <1>2, <2>1, <2>2, <2>3 DEF ManagerInv, JobsNamed
<1>6. SignalsSent'
  <2>1. \A k : Waiting(k)' = Waiting(k)
    BY DEF Waiting
  <2>2. Waiting(i) = {}
    BY <1>1 DEF Waiting, ManagerInv, JobsNamed
  <2>3. Cardinality(Waiting(i)) = 0
    BY <2>2, FS_EmptySet
  <2> HIDE DEF i
  <2>4. objects'[i].signal = 0 /\ ~objects'[i].token
    BY <1>2
  <2> QED
    BY <1>2, <2>1, <2>3, <2>4 DEF ManagerInv, SignalsSent, Pending
<1>7. ManagedJobs'
  <2> SUFFICES ASSUME NEW g \in DOMAIN gors', Live(g)', RunOnce(Obj(g).name)'
               PROVE  jobs'[Obj(g)'.name] = gors'[g].of
    BY DEF ManagedJobs
  <2>1. CASE g = Len(gors) + 1
    BY <1>1, <1>2, <1>3, <2>1 DEF Obj, ManagerInv, TypeOK
  <2>2. CASE g \in DOMAIN gors
    <3>1. gors[g].of \in DOMAIN objects /\ gors[g].of # 0 /\ gors'[g] = gors[g]
      BY <1>1, <1>3, <2>2, ObjectTypes DEF ManagerInv, JobsNamed
    <3>2. Obj(g)'.name = Obj(g).name /\ Live(g)
      BY <1>2, <3>1 DEF Obj, Live
    <3>3. RunOnce(Obj(g).name)
      BY <1>2, <1>3, <3>2 DEF RunOnce, ManagerInv, JobsNamed
    <3>4. jobs[Obj(g).name] = gors[g].of
      BY <2>2, <3>2, <3>3 DEF ManagerInv, ManagedJobs
    <3> QED
      BY <3>1, <3>2, <3>4 DEF ManagerInv, TypeOK
  <2> QED
    BY <1>3, <2>1, <2>2
<1> QED
  BY <1>4, <1>5, <1>6, <1>7 DEF ManagerInv

\* AddJob makes a job of a name that is not in the map.
LEMMA AddJobKeeps ==
    ASSUME ManagerInv, NEW n \in Names, AddJob(n)
    PROVE  ManagerInv'
<1>1. PICK o \in Objects : /\ objects' = Append(objects, o)
                           /\ o.name = n /\ o.signal = 0 /\ ~o.token
  <2>1. NewObject(n, TRUE) \in Objects
    BY ManagerAssumption DEF NewObject, Objects
  <2>2. NewObject(n, TRUE).name = n /\ NewObject(n, TRUE).signal = 0 /\ ~NewObject(n, TRUE).token
    BY DEF NewObject
  <2> QED
    BY <2>1, <2>2 DEF AddJob
<1>2. requests' \in 0..MaxRequests
  BY ManagerAssumption DEF AddJob, Request, ManagerInv, TypeOK
<1> QED
  BY <1>1, <1>2, NewJobKeeps DEF AddJob

\* Recover does, too; the row has the state the last job of the name left.
LEMMA RecoverKeeps ==
    ASSUME ManagerInv, NEW n \in Names, Recover(n)
    PROVE  ManagerInv'
<1>1. objects[LastOf(n)] \in Objects
  <2> DEFINE S == {i \in DOMAIN objects : objects[i].name = n}
  <2>1. S # {}
    BY DEF Recover, ManagerInv, JobsNamed
  <2>2. objects \in Seq(Objects) /\ DOMAIN objects = 1..Len(objects) /\ Len(objects) \in Nat
    BY DEF ManagerInv, TypeOK
  <2>3. S \subseteq 1..Len(objects)
    BY <2>2
  <2> HIDE DEF S
  <2>4. Max(S) \in S
    BY <2>1, <2>2, <2>3, MaxOfInterval
  <2> QED
    BY <2>2, <2>3, <2>4 DEF LastOf, S
<1>2. PICK o \in Objects : /\ objects' = Append(objects, o)
                           /\ o.name = n /\ o.signal = 0 /\ ~o.token
  <2> DEFINE p == objects[LastOf(n)].paused
             o == [NewObject(n, FALSE) EXCEPT !.paused = p]
  <2>1. p \in BOOLEAN
    BY <1>1 DEF Objects
  <2>2. NewObject(n, FALSE) \in Objects
    BY ManagerAssumption DEF NewObject, Objects
  <2>3. o \in Objects /\ o.name = n /\ o.signal = 0 /\ ~o.token
    BY <2>1, <2>2 DEF NewObject, Objects
  <2>4. objects' = Append(objects, o)
    BY DEF Recover
  <2> QED
    BY <2>3, <2>4
<1>3. UNCHANGED <<clients, started, progress, budget, rows, requests>>
  BY DEF Recover, storage
<1> QED
  BY <1>2, <1>3, NewJobKeeps DEF Recover, ManagerInv, TypeOK

\* Start gives jobs of the map a goroutine; a job that has one already is not RunOnce any more.
LEMMA StartManagerKeeps ==
    ASSUME ManagerInv, StartManager
    PROVE  ManagerInv'
<1> DEFINE S == {jobs[n] : n \in Names} \ {0}
           early == SetToSeq(S)
           more == [k \in DOMAIN early |-> RunJob(early[k])]
<1>1. /\ objects \in Seq(Objects) /\ gors \in Seq(Gors) /\ MaxObjects \in Nat
      /\ DOMAIN objects = 1..Len(objects) /\ Len(objects) <= MaxObjects
  BY ManagerAssumption DEF ManagerInv, TypeOK
<1>2. gors' = gors \o more /\ started' = TRUE
      /\ UNCHANGED <<jobs, objects, clients, rows, progress, requests, budget>>
  BY DEF StartManager, storage
<1>3. S \subseteq 1..MaxObjects /\ \A i \in S : jobs[objects[i].name] = i /\ i \in DOMAIN objects
  BY <1>1 DEF ManagerInv, JobsNamed, TypeOK
<1>4. IsFiniteSet(S)
  <2>1. IsFiniteSet(1..MaxObjects)
    BY <1>1, FS_Interval
  <2> QED
    BY <1>3, <2>1, FS_Subset
<1> HIDE DEF S
<1>5. Cardinality(S) \in Nat /\ early \in [1..Cardinality(S) -> S]
  BY <1>4, SetToSeqMembers
<1> HIDE DEF early
<1>6. /\ more \in Seq(Gors)
      /\ \A k \in DOMAIN more : more[k].of \in S
  <2>1. \A i \in S : RunJob(i) \in Gors /\ RunJob(i).of = i
    BY <1>3 DEF RunJob, Gors, GorPCs, Ids
  <2>2. more \in [1..Cardinality(S) -> Gors] /\ \A k \in DOMAIN more : more[k].of \in S
    BY <1>5, <2>1
  <2> QED
    BY <1>5, <2>2
<1> HIDE DEF more
<1>7. /\ gors' \in Seq(Gors)
      /\ \A g \in DOMAIN gors : g \in DOMAIN gors' /\ gors'[g] = gors[g]
      /\ \A g \in DOMAIN gors' : g \in DOMAIN gors \/ gors'[g].of \in S
  BY <1>1, <1>2, <1>6
<1>8. TypeOK'
  BY <1>2, <1>7 DEF ManagerInv, TypeOK
<1>9. JobsNamed'
  BY <1>2, <1>3, <1>7 DEF ManagerInv, JobsNamed
<1>10. SignalsSent'
  BY <1>2, SignalsStaySent
<1>11. ManagedJobs'
  <2> SUFFICES ASSUME NEW g \in DOMAIN gors', Live(g)', RunOnce(Obj(g).name)'
               PROVE  jobs'[Obj(g)'.name] = gors'[g].of
    BY DEF ManagedJobs
  <2>1. CASE gors'[g].of \in S
    BY <1>2, <1>3, <2>1 DEF Obj
  <2>2. CASE g \in DOMAIN gors
    <3>1. Obj(g)' = Obj(g) /\ Live(g)
      BY <1>2, <1>7, <2>2 DEF Obj, Live
    <3>2. \A h, k \in DOMAIN gors' :
            objects'[gors'[h].of].name = Obj(g)'.name /\ gors'[h].of = gors'[k].of => h = k
      BY DEF RunOnce
    <3>3. RunOnce(Obj(g).name)
      BY <1>2, <1>7, <3>1, <3>2 DEF RunOnce
    <3> QED
      BY <1>2, <1>7, <2>2, <3>1, <3>3 DEF ManagerInv, ManagedJobs
  <2> QED
    BY <1>7, <2>1, <2>2
<1> QED
  BY <1>8, <1>9, <1>10, <1>11 DEF ManagerInv
-----------------------------------------------------------------------------
\* The goroutine of a job.

\* A goroutine that takes over a progress changes no signal.
LEMMA RunRecoversKeeps ==
    ASSUME ManagerInv, NEW g \in DOMAIN gors, RunRecovers(g)
    PROVE  ManagerInv'
<1>1. PICK i \in DOMAIN objects : i = gors[g].of
  BY DEF ManagerInv, JobsNamed
<1>2. objects[i] \in Objects
  BY ObjectTypes
<1>3. PICK e \in Objects : /\ objects' = [objects EXCEPT ![i] = e] /\ e.name = objects[i].name
                           /\ e.signal = objects[i].signal
                           /\ e.token = objects[i].token /\ e.deleted = objects[i].deleted
  <2> DEFINE p == progress[Obj(g).name]
             f == [objects[i] EXCEPT !.inherited = p]
  <2>1. p \in 0..MaxObjects
    BY <1>1, <1>2 DEF Obj, Objects, ManagerInv, TypeOK
  <2>2. objects' = [objects EXCEPT ![i] = f]
    BY <1>1 DEF RunRecovers
  <2> HIDE DEF p
  <2>3. f \in Objects /\ f.name = objects[i].name /\ f.signal = objects[i].signal
        /\ f.token = objects[i].token /\ f.deleted = objects[i].deleted
    BY <1>2, <2>1 DEF Objects
  <2> QED
    BY <2>2, <2>3
<1>4. Live(g) /\ gors' = [gors EXCEPT ![g].pc = "head"] /\ "head" \in GorPCs
  BY DEF RunRecovers, Step, Live, GorPCs
<1>5. UNCHANGED <<jobs, clients, started, rows, progress, requests, budget>>
  BY DEF RunRecovers, storage
<1>6. \A k : Waiting(k)' = Waiting(k)
  BY <1>5 DEF Waiting
<1>7. /\ objects[i].signal >= (IF objects[i].token THEN 1 ELSE 0) + Cardinality(Waiting(i))
      /\ ~objects[i].deleted =>
            objects[i].signal = (IF objects[i].token THEN 1 ELSE 0) + Cardinality(Waiting(i))
  BY DEF ManagerInv, SignalsSent, Pending
<1>8. /\ e.signal >= (IF e.token THEN 1 ELSE 0) + Cardinality(Waiting(i)')
      /\ ~e.deleted => e.signal = (IF e.token THEN 1 ELSE 0) + Cardinality(Waiting(i)')
  BY <1>3, <1>6, <1>7
<1>9. /\ clients' \in [Clients -> [pc : {"idle", "lock", "send"}, of : 0..MaxObjects,
                                   exclusive : BOOLEAN]]
      /\ \A d \in Clients : /\ clients'[d].of # 0 => clients'[d].of \in DOMAIN objects
                            /\ clients'[d].pc = "idle" <=> clients'[d].of = 0
      /\ rows' \subseteq rows /\ progress' \in [Names -> 0..MaxObjects]
      /\ requests' \in 0..MaxRequests /\ budget' \in 0..MaxFaults
  BY <1>5 DEF ManagerInv, TypeOK, JobsNamed
<1> QED
  BY <1>3, <1>4, <1>5, <1>6, <1>8, <1>9, SignalStep

\* One message less, and one signal less.
LEMMA ReceiveInterruptKeeps ==
    ASSUME ManagerInv, NEW g \in DOMAIN gors, ReceiveInterrupt(g)
    PROVE  ManagerInv'
<1>1. PICK i \in DOMAIN objects : i = gors[g].of /\ objects[i].token
  BY DEF ManagerInv, JobsNamed, ReceiveInterrupt, Obj
<1>2. objects[i] \in Objects /\ objects[i].signal \in Nat
  BY ObjectTypes
<1>3. \A k : Waiting(k)' = Waiting(k)
  BY DEF ReceiveInterrupt, Waiting
<1>4. /\ objects[i].signal >= 1 + Cardinality(Waiting(i))
      /\ ~objects[i].deleted => objects[i].signal = 1 + Cardinality(Waiting(i))
  BY <1>1 DEF ManagerInv, SignalsSent, Pending
<1>5. PICK e \in Objects : /\ objects' = [objects EXCEPT ![i] = e] /\ e.name = objects[i].name
                           /\ e.signal = objects[i].signal - 1
                           /\ ~e.token /\ e.deleted = objects[i].deleted
  <2> DEFINE f1 == [objects[i] EXCEPT !.token = FALSE]
             f == [f1 EXCEPT !.signal = @ - 1]
  <2>1. f1 \in Objects /\ f1.name = objects[i].name /\ f1.signal = objects[i].signal
        /\ ~f1.token /\ f1.deleted = objects[i].deleted
    BY <1>2 DEF Objects
  <2>2. objects[i].signal - 1 \in Nat
    BY <1>2, <1>4, WaitingFinite
  <2>3. objects' = [objects EXCEPT ![i] = f]
    BY <1>1, <1>2 DEF ReceiveInterrupt, Objects
  <2> HIDE DEF f1
  <2>4. f \in Objects /\ f.name = objects[i].name /\ f.signal = objects[i].signal - 1
        /\ ~f.token /\ f.deleted = objects[i].deleted
    BY <2>1, <2>2 DEF Objects
  <2> QED
    BY <2>3, <2>4
<1>6. Live(g) /\ gors' = [gors EXCEPT ![g].pc = "consume"] /\ "consume" \in GorPCs
  BY DEF ReceiveInterrupt, Step, Live, GorPCs
<1>7. UNCHANGED <<jobs, clients, started, rows, progress, requests, budget>>
  BY DEF ReceiveInterrupt, storage
<1>8. /\ e.signal >= (IF e.token THEN 1 ELSE 0) + Cardinality(Waiting(i)')
      /\ ~e.deleted => e.signal = (IF e.token THEN 1 ELSE 0) + Cardinality(Waiting(i)')
  BY <1>2, <1>3, <1>4, <1>5, WaitingFinite
<1>9. /\ clients' \in [Clients -> [pc : {"idle", "lock", "send"}, of : 0..MaxObjects,
                                   exclusive : BOOLEAN]]
      /\ \A d \in Clients : /\ clients'[d].of # 0 => clients'[d].of \in DOMAIN objects
                            /\ clients'[d].pc = "idle" <=> clients'[d].of = 0
      /\ rows' \subseteq rows /\ progress' \in [Names -> 0..MaxObjects]
      /\ requests' \in 0..MaxRequests /\ budget' \in 0..MaxFaults
  BY <1>7 DEF ManagerInv, TypeOK, JobsNamed
<1> QED
  BY <1>3, <1>5, <1>6, <1>7, <1>8, <1>9, SignalStep

\* What the cleanup takes out of the map under its name is its own job: another live goroutine of
\* the name would have that job in the map, and be the same goroutine.
LEMMA ExitKeeps ==
    ASSUME ManagerInv, NEW g \in DOMAIN gors, Exit(g)
    PROVE  ManagerInv'
<1>1. /\ Live(g) /\ gors' = [gors EXCEPT ![g].pc = "gone"] /\ "gone" \in GorPCs
      /\ UNCHANGED <<objects, clients, started, rows, progress, requests, budget>>
  BY DEF Exit, Step, Live, GorPCs, storage
<1>2. CASE UNCHANGED jobs
  BY <1>1, <1>2, PcStep DEF ManagerInv, TypeOK
<1>3. CASE jobs' = [jobs EXCEPT ![Obj(g).name] = 0]
  <2>1. /\ gors' \in Seq(Gors) /\ DOMAIN gors' = DOMAIN gors
        /\ \A h \in DOMAIN gors : gors'[h].of = gors[h].of /\ (Live(h)' => Live(h))
    BY <1>1, SameGoroutine
  <2>2. ~Live(g)'
    <3>1. gors \in Seq(Gors)
      BY DEF ManagerInv, TypeOK
    <3>2. gors[g] \in Gors
      BY <3>1
    <3>3. gors'[g] = [gors[g] EXCEPT !.pc = "gone"]
      BY <1>1, <3>1
    <3> QED
      BY <3>2, <3>3 DEF Live, Gors
  <2>3. jobs' \in [Names -> 0..MaxObjects]
    <3>1. 0 \in 0..MaxObjects
      BY ManagerAssumption
    <3> QED
      BY <1>3, <3>1 DEF ManagerInv, TypeOK
  <2>4. TypeOK'
    BY <1>1, <2>1, <2>3 DEF ManagerInv, TypeOK
  <2>5. JobsNamed'
    BY <1>1, <1>3, <2>1 DEF ManagerInv, TypeOK, JobsNamed
  <2>6. SignalsSent'
    BY <1>1, SignalsStaySent
  <2>7. ManagedJobs'
    <3> SUFFICES ASSUME NEW h \in DOMAIN gors, Live(h)', RunOnce(Obj(h).name)'
                 PROVE  jobs'[Obj(h)'.name] = gors'[h].of
      BY <2>1 DEF ManagedJobs
    <3>1. Obj(h)' = Obj(h) /\ Live(h) /\ h # g
      BY <1>1, <2>1, <2>2 DEF Obj
    <3>2. RunOnce(Obj(h).name)
      BY <1>1, <2>1, <3>1 DEF RunOnce
    <3>3. jobs[Obj(h).name] = gors[h].of
      BY <3>1, <3>2 DEF ManagerInv, ManagedJobs
    <3>4. Live(g) /\ Obj(g).name = Obj(h).name => RunOnce(Obj(g).name) /\ gors[g].of = gors[h].of
      BY <3>2, <3>3 DEF ManagerInv, ManagedJobs
    <3>5. Obj(g).name # Obj(h).name
      BY <1>1, <3>1, <3>2, <3>4 DEF RunOnce, Obj
    <3> QED
      BY <1>3, <2>1, <3>1, <3>3, <3>5 DEF ManagerInv, TypeOK
  <2> QED
    BY <2>4, <2>5, <2>6, <2>7 DEF ManagerInv
<1> QED
  BY <1>2, <1>3 DEF Exit

\* A process that is killed leaves no goroutine, no request and no signal.
LEMMA CrashKeeps ==
    ASSUME ManagerInv, Crash
    PROVE  ManagerInv'
<1>1. /\ objects \in Seq(Objects) /\ gors \in Seq(Gors) /\ MaxObjects \in Nat
      /\ DOMAIN objects = 1..Len(objects)
  BY ManagerAssumption DEF ManagerInv, TypeOK
<1>2. /\ objects' \in Seq(Objects) /\ Len(objects') = Len(objects)
      /\ DOMAIN objects' = DOMAIN objects
      /\ \A i \in DOMAIN objects : /\ objects'[i].name = objects[i].name
                                   /\ objects'[i].signal = 0 /\ ~objects'[i].token
  <2> DEFINE fresh(i) == [objects[i] EXCEPT !.signal = 0, !.token = FALSE]
  <2>1. \A i \in DOMAIN objects : /\ fresh(i) \in Objects /\ fresh(i).name = objects[i].name
                                 /\ fresh(i).signal = 0 /\ ~fresh(i).token
    <3> SUFFICES ASSUME NEW i \in DOMAIN objects
                 PROVE  /\ fresh(i) \in Objects /\ fresh(i).name = objects[i].name
                        /\ fresh(i).signal = 0 /\ ~fresh(i).token
      OBVIOUS
    <3> DEFINE f == [objects[i] EXCEPT !.signal = 0]
    <3>1. objects[i] \in Objects
      BY <1>1
    <3>2. f \in Objects /\ f.name = objects[i].name /\ f.signal = 0
      BY <3>1 DEF Objects
    <3>3. fresh(i) = [f EXCEPT !.token = FALSE]
      BY <3>1 DEF Objects
    <3> HIDE DEF f, fresh
    <3> QED
      BY <3>2, <3>3 DEF Objects
  <2>2. objects' = [i \in DOMAIN objects |-> fresh(i)]
    BY DEF Crash
  <2> HIDE DEF fresh
  <2> QED
    BY <1>1, <2>1, <2>2
<1>3. /\ gors' \in Seq(Gors) /\ DOMAIN gors' = DOMAIN gors
      /\ \A g \in DOMAIN gors : gors'[g].of = gors[g].of /\ ~Live(g)'
  <2> DEFINE gone(g) == [gors[g] EXCEPT !.pc = "gone"]
  <2>1. \A g \in DOMAIN gors : gone(g) \in Gors /\ gone(g).of = gors[g].of /\ gone(g).pc = "gone"
    <3> SUFFICES ASSUME NEW g \in DOMAIN gors
                 PROVE  gone(g) \in Gors /\ gone(g).of = gors[g].of /\ gone(g).pc = "gone"
      OBVIOUS
    <3>1. gors[g] \in Gors
      BY <1>1
    <3> QED
      BY <3>1 DEF Gors, GorPCs
  <2>2. gors' = [g \in DOMAIN gors |-> gone(g)]
    BY DEF Crash
  <2> HIDE DEF gone
  <2>3. gors' \in Seq(Gors) /\ DOMAIN gors' = DOMAIN gors
    BY <1>1, <2>1, <2>2
  <2> QED
    BY <2>1, <2>2, <2>3 DEF Live
<1>4. \A c \in Clients : clients'[c].of = 0 /\ clients'[c].pc = "idle"
  BY DEF Crash, Idle
<1>5. TypeOK'
  <2>1. /\ jobs' \in [Names -> 0..MaxObjects]
        /\ clients' \in [Clients -> [pc : {"idle", "lock", "send"}, of : 0..MaxObjects,
                                     exclusive : BOOLEAN]]
        /\ started' \in BOOLEAN
    <3>1. 0 \in 0..MaxObjects
      BY <1>1
    <3>2. Idle \in [pc : {"idle", "lock", "send"}, of : 0..MaxObjects, exclusive : BOOLEAN]
      BY <3>1 DEF Idle
    <3> QED
      BY <3>1, <3>2 DEF Crash
  <2>2. rows' = rows /\ progress' = progress /\ requests' = requests
    BY DEF Crash, storage
  <2>3. budget' \in 0..MaxFaults
    <3>1. budget \in 0..MaxFaults /\ MaxFaults \in Nat
      BY ManagerAssumption DEF ManagerInv, TypeOK
    <3>2. budget > 0 /\ budget' = budget - 1
      BY DEF Crash, Fault
    <3> QED
      BY <3>1, <3>2
  <2> QED
    BY <1>2, <1>3, <2>1, <2>2, <2>3 DEF ManagerInv, TypeOK
<1>6. JobsNamed'
  <2>1. \A n \in Names : jobs'[n] = 0
    BY DEF Crash
  <2>2. rows' = rows
    BY DEF Crash, storage
  <2> QED
    BY <1>2, <1>3, <1>4, <2>1, <2>2 DEF ManagerInv, JobsNamed
<1>7. SignalsSent'
  <2> SUFFICES ASSUME NEW i \in DOMAIN objects
               PROVE  objects'[i].signal = Pending(i)' /\ Pending(i)' = 0
    BY <1>2 DEF SignalsSent
  <2>1. i # 0
    BY <1>1
  <2>2. Waiting(i)' = {}
    BY <1>4, <2>1 DEF Waiting
  <2>3. Cardinality(Waiting(i)') = 0
    BY <2>2, FS_EmptySet
  <2> QED
    BY <1>2, <2>3 DEF Pending
<1>8. ManagedJobs'
  BY <1>3 DEF ManagedJobs
<1> QED
  BY <1>5, <1>6, <1>7, <1>8 DEF ManagerInv

\* The steps of a goroutine.
LEMMA GorStepKeeps ==
    ASSUME ManagerInv, NEW g \in DOMAIN gors, GorStep(g) \/ RunFails(g)
    PROVE  ManagerInv'
<1> DEFINE Goes(to) == /\ to \in GorPCs /\ Live(g) /\ gors' = [gors EXCEPT ![g].pc = to]
                       /\ UNCHANGED <<jobs, objects, clients, started, rows, requests>>
<1>1. /\ progress \in [Names -> 0..MaxObjects] /\ budget \in 0..MaxFaults
      /\ gors[g].of \in 0..MaxObjects
  <2>1. gors \in Seq(Gors)
    BY DEF ManagerInv, TypeOK
  <2>2. gors[g] \in Gors
    BY <2>1
  <2> QED
    BY <2>2, ManagerAssumption DEF ManagerInv, TypeOK, Gors, Ids
<1>2. WriteProgress(g) => progress' \in [Names -> 0..MaxObjects]
  BY <1>1 DEF WriteProgress
<1>3. CASE RunRecovers(g)
  BY <1>3, RunRecoversKeeps
<1>4. CASE ReceiveInterrupt(g)
  BY <1>4, ReceiveInterruptKeeps
<1>5. CASE Exit(g)
  BY <1>5, ExitKeeps
<1>6. CASE RunNew(g)
  <2>1. Goes(IF Obj(g).deleted THEN "head" ELSE "first") /\ UNCHANGED <<progress, budget>>
    BY <1>6 DEF RunNew, Step, Live, GorPCs, storage
  <2> QED
    BY <1>1, <2>1, PcStep
<1>7. CASE FirstProgress(g)
  <2>1. Goes("head") /\ WriteProgress(g) /\ UNCHANGED budget
    BY <1>7 DEF FirstProgress, Step, Live, GorPCs
  <2> QED
    BY <1>1, <1>2, <2>1, PcStep
<1>8. CASE MaybeDeleted(g)
  <2>1. Goes(IF Obj(g).deleted THEN "exit" ELSE "consume") /\ UNCHANGED <<progress, budget>>
    BY <1>8 DEF MaybeDeleted, Step, Live, GorPCs, storage
  <2> QED
    BY <1>1, <2>1, PcStep
<1>9. CASE ConsumeInterruptSignals(g)
  <2>1. Goes(IF Obj(g).signal > 0 THEN "receive" ELSE "select") /\ UNCHANGED <<progress, budget>>
    BY <1>9 DEF ConsumeInterruptSignals, Step, Live, GorPCs, storage
  <2> QED
    BY <1>1, <2>1, PcStep
<1>10. CASE StopJob(g)
  <2>1. Goes("exit") /\ UNCHANGED <<progress, budget>>
    BY <1>10 DEF StopJob, Step, Live, GorPCs, storage
  <2> QED
    BY <1>1, <2>1, PcStep
<1>11. CASE Tick(g)
  <2>1. Goes(IF Obj(g).paused THEN "head" ELSE "sync") /\ UNCHANGED <<progress, budget>>
    BY <1>11 DEF Tick, Step, Live, GorPCs, storage
  <2> QED
    BY <1>1, <2>1, PcStep
<1>12. CASE SyncReturns(g)
  <2>1. Goes("head") /\ UNCHANGED <<progress, budget>>
    BY <1>12 DEF SyncReturns, Step, Live, GorPCs, storage
  <2> QED
    BY <1>1, <2>1, PcStep
<1>13. CASE Persist(g)
  <2>1. Goes("persist") /\ UNCHANGED <<progress, budget>>
    BY <1>13 DEF Persist, Step, Live, GorPCs, storage
  <2> QED
    BY <1>1, <2>1, PcStep
<1>14. CASE UpdateProgress(g)
  <2>1. Goes("sync") /\ WriteProgress(g) /\ UNCHANGED budget
    BY <1>14 DEF UpdateProgress, Step, Live, GorPCs
  <2> QED
    BY <1>1, <1>2, <2>1, PcStep
<1>15. CASE RunFails(g)
  <2>1. Goes("exit") /\ UNCHANGED progress /\ budget' \in 0..MaxFaults
    BY <1>1, <1>15, ManagerAssumption DEF RunFails, Fault, Step, Live, GorPCs, storage
  <2> QED
    BY <1>1, <2>1, PcStep
<1> QED
  BY <1>3, <1>4, <1>5, <1>6, <1>7, <1>8, <1>9, <1>10, <1>11, <1>12, <1>13, <1>14, <1>15
  DEF GorStep
-----------------------------------------------------------------------------
\* Every step keeps the invariant.
LEMMA NextKeeps == ManagerInv /\ [Next]_vars => ManagerInv'
<1> SUFFICES ASSUME ManagerInv, [Next]_vars PROVE ManagerInv'
  OBVIOUS
<1>1. CASE \E g \in DOMAIN gors : GorStep(g) \/ RunFails(g)
  BY <1>1, GorStepKeeps
<1>2. CASE \E c \in Clients : ClientStep(c)
  BY <1>2, ChangeJobKeeps, SendInterruptKeeps DEF ClientStep
<1>3. CASE NewRequest
  BY <1>3, AddJobKeeps, RemoveJobKeeps, RaiseInterruptSignalKeeps DEF NewRequest
<1>4. CASE StartManager
  BY <1>4, StartManagerKeeps
<1>5. CASE Crash
  BY <1>5, CrashKeeps
<1>6. CASE \E n \in Names : Recover(n)
  BY <1>6, RecoverKeeps
<1>7. CASE UNCHANGED vars
  <2>1. UNCHANGED <<jobs, objects, gors, clients, started, rows, progress, requests, budget>>
    BY <1>7 DEF vars, memory, storage
  <2>2. TypeOK'
    BY <2>1 DEF ManagerInv, TypeOK
  <2>3. JobsNamed'
    BY <2>1 DEF ManagerInv, JobsNamed
  <2>4. SignalsSent'
    BY <2>1, SignalsStaySent
  <2>5. ManagedJobs'
    BY <2>1, JobsStayManaged DEF Live
  <2> QED
    BY <2>2, <2>3, <2>4, <2>5 DEF ManagerInv
<1> QED
  BY <1>1, <1>2, <1>3, <1>4, <1>5, <1>6, <1>7 DEF Next

\* The inductive invariant holds in every state.
THEOREM ManagerInvariant == Spec => []ManagerInv
<1>1. Init => ManagerInv
  BY InitIsInv
<1>2. ManagerInv /\ [Next]_vars => ManagerInv'
  BY NextKeeps
<1> QED
  BY <1>1, <1>2, PTL DEF Spec

\* The map, the objects, the goroutines and the requests have their types: no request is about, no
\* goroutine runs, and no restart reads the state of, a job that is not there.
THEOREM TypesHold == Spec => []TypeOK
<1>1. ManagerInv => TypeOK
  BY DEF ManagerInv
<1> QED
  BY <1>1, ManagerInvariant, PTL

\* A name has one goroutine that runs its job and writes its progress: AddJob and Recover wait for
\* the goroutine of a deleted job to end, and its cleanup takes no other job out of the map.
THEOREM OneGoroutineManagesAJob == Spec => []ManagedJobs
<1>1. ManagerInv => ManagedJobs
  BY DEF ManagerInv
<1> QED
  BY <1>1, ManagerInvariant, PTL

\* The goroutine of a job waits for as many interrupts as its requests send: the run loop does not
\* stop in consumeInterruptSignals for a request that is over.
THEOREM EveryInterruptIsSent == Spec => []InterruptsCounted
<1>1. ManagerInv => InterruptsCounted
  BY DEF ManagerInv, SignalsSent, InterruptsCounted, Pending, Waiting
<1> QED
  BY <1>1, ManagerInvariant, PTL
=============================================================================
