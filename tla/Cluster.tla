------------------------------- MODULE Cluster -------------------------------
(***************************************************************************)
(* The syncers that share one storage: the checker of each (checker.go),   *)
(* the jobs and syncers tables with the transactions on them (mysql.go)    *)
(* and the distribution of the jobs of dead syncers (utils.go).            *)
(*                                                                         *)
(* The timestamp of a row tells two things apart, and nothing else: is it  *)
(* the one the checker of that syncer has in lastStamp, and is it more     *)
(* than CHECK_TIMEOUT old.  What a job does is not here: it runs, or not.  *)
(***************************************************************************)
EXTENDS Integers, FiniteSetsExt, Functions

CONSTANTS Syncers, Jobs,
          Nil, Removed,  \* instead of an owner: not created yet, removed
          InitialOwners, \* the jobs tables an earlier cluster may have left
          FaultKinds,    \* the faults this instance allows
          MaxFaults      \* bound: how many

ASSUME ClusterAssumption ==
    /\ IsFiniteSet(Syncers) /\ IsFiniteSet(Jobs) /\ MaxFaults \in Nat
    /\ {Nil, Removed} \cap Syncers = {} /\ Nil # Removed
    /\ InitialOwners \subseteq [Jobs -> Syncers \cup {Nil}]

VARIABLES
    owner,      \* the jobs table: job -> belong_to
    registered, \* the rows of the syncers table
    synced,     \* the syncers whose lastStamp is the timestamp of their row
    late,       \* the rows that have not been written for CHECK_TIMEOUT
    checker,    \* syncer -> its Checker
    running,    \* syncer -> the jobs of its job manager
    evicted,    \* history: has a syncer that runs been taken for dead?
    missed,     \* history: the syncers whose Recover failed, until one succeeds
    budget      \* faults left

storage == <<owner, registered>>
stamps == <<synced, late>>
vars == <<storage, stamps, checker, running, evicted, missed, budget>>

\* refresh, update (ReadStamp, ReadJobs, Recover), check and rebalance are the states of the
\* Checker; start: Start has failed and will be tried again; down: the process does not run.
Checkers == [pc : {"down", "start", "refresh", "stamp", "jobs", "recover", "check",
                   "rebalance"},
             firstCheck : BOOLEAN, started : BOOLEAN, jobs : SUBSET Jobs,
             deadSyncers : SUBSET Syncers]

NewChecker == [pc |-> "down", firstCheck |-> FALSE, started |-> FALSE, jobs |-> {},
               deadSyncers |-> {}]

TypeOK ==
    /\ owner \in [Jobs -> Syncers \cup {Nil, Removed}]
    /\ registered \subseteq Syncers /\ synced \subseteq Syncers /\ late \subseteq registered
    /\ checker \in [Syncers -> Checkers]
    /\ running \in [Syncers -> SUBSET Jobs]
    /\ evicted \in BOOLEAN /\ missed \subseteq Syncers /\ budget \in 0..MaxFaults

JobsOf(s) == {j \in Jobs : owner[j] = s}
Up(s) == checker[s].pc # "down"
-----------------------------------------------------------------------------
Fault(k) == k \in FaultKinds /\ budget > 0 /\ budget' = budget - 1

At(s, pc) == checker[s].pc = pc
Goto(s, pc) == checker' = [checker EXCEPT ![s].pc = pc]

\* A check begins with checkerStateRefresh.
NewCheck == [NewChecker EXCEPT !.pc = "refresh", !.firstCheck = TRUE]

\* checkerStateFinish: the next state is that of the next tick.
Finish(s) == checker' = [checker EXCEPT ![s] = [NewCheck EXCEPT !.started = TRUE]]

\* checkerStateError: run waits for the next tick, Start is tried again from AddSyncer on.
Fail(s) == checker' = [checker EXCEPT ![s] =
              IF checker[s].started THEN [NewCheck EXCEPT !.started = TRUE]
              ELSE [NewChecker EXCEPT !.pc = "start"]]

\* Start: AddSyncer, and the first check.
Start(s) ==
    /\ checker[s].pc \in {"down", "start"}
    /\ registered' = registered \cup {s}
    /\ synced' = synced \ {s} /\ late' = late \ {s}
    /\ checker' = [checker EXCEPT ![s] = NewCheck]
    /\ UNCHANGED <<owner, running, evicted, missed, budget>>

Refreshed(s) ==
    /\ late' = late \ {s}
    /\ IF checker[s].firstCheck
       THEN checker' = [checker EXCEPT ![s].pc = "check", ![s].firstCheck = FALSE]
       ELSE Finish(s)

\* A refresh that does not compare the timestamp of the row with lastStamp.
RefreshAnyStamp(s) ==
    /\ At(s, "refresh") /\ s \in registered
    /\ synced' = synced \cup {s} /\ Refreshed(s)
    /\ UNCHANGED <<storage, running, evicted, missed, budget>>

\* RefreshSyncer: the row gets a new timestamp if it still has the one we know.
RefreshSyncer(s) ==
    /\ At(s, "refresh") /\ s \in registered \cap synced
    /\ Refreshed(s)
    /\ UNCHANGED <<storage, synced, running, evicted, missed, budget>>

\* Somebody has written our row, or removed it: lastStamp is -1, which no row has.
StampIsOld(s) ==
    /\ At(s, "refresh") /\ s \notin registered \cap synced
    /\ synced' = synced \ {s}
    /\ checker' = [checker EXCEPT ![s].pc = "stamp", ![s].firstCheck = FALSE]
    /\ UNCHANGED <<storage, late, running, evicted, missed, budget>>

RefreshFails(s) ==
    /\ At(s, "refresh") /\ Fault("db")
    /\ synced' = synced \ {s} /\ Fail(s)
    /\ UNCHANGED <<storage, late, running, evicted, missed>>

(* handleUpdate: GetStampAndJobs reads the stamp in its transaction and the jobs outside of it. *)

ReadStamp(s) ==
    /\ At(s, "stamp") /\ s \in registered
    /\ synced' = synced \cup {s} /\ Goto(s, "jobs")
    /\ UNCHANGED <<storage, late, running, evicted, missed, budget>>

\* No row: nothing in the checker puts it back.
RowIsGone(s) ==
    /\ At(s, "stamp") /\ s \notin registered
    /\ Fail(s)
    /\ UNCHANGED <<storage, stamps, running, evicted, missed, budget>>

JobsRead(s, js) ==
    checker' = [checker EXCEPT ![s].jobs = js, ![s].pc = IF js = {} THEN "refresh" ELSE "recover"]

\* All jobs, whoever they belong to.
ReadAllJobs(s) ==
    /\ At(s, "jobs") /\ JobsRead(s, {j \in Jobs : owner[j] \in Syncers})
    /\ UNCHANGED <<storage, stamps, running, evicted, missed, budget>>

ReadJobs(s) ==
    /\ At(s, "jobs") /\ JobsRead(s, JobsOf(s))
    /\ UNCHANGED <<storage, stamps, running, evicted, missed, budget>>

ReadFails(s) ==
    /\ At(s, "stamp") \/ At(s, "jobs")
    /\ Fault("db")
    /\ synced' = synced \ {s} /\ Fail(s)
    /\ UNCHANGED <<storage, late, running, evicted, missed>>

Exist(s) == \A j \in checker[s].jobs \ running[s] : owner[j] # Removed

\* jobManager.Recover: GetJobInfo of those that do not run here yet.
Recover(s) ==
    /\ At(s, "recover") /\ Exist(s)
    /\ running' = [running EXCEPT ![s] = @ \cup checker[s].jobs]
    /\ missed' = missed \ {s} /\ Goto(s, "refresh")
    /\ UNCHANGED <<storage, stamps, evicted, budget>>

\* GetJobInfo fails, for one that has been removed or for any: nothing is recovered, and lastStamp
\* stays.
RecoverFails(s) ==
    /\ At(s, "recover")
    /\ (~Exist(s) /\ UNCHANGED budget) \/ Fault("recover")
    /\ missed' = missed \cup {s} /\ Fail(s)
    /\ UNCHANGED <<storage, stamps, running, evicted>>
-----------------------------------------------------------------------------
(* handleCheck and handleRebalance. *)

\* GetDeadSyncers: the rows older than our own, which is new, by CHECK_TIMEOUT.
Check(s) ==
    /\ At(s, "check")
    /\ LET dead == late \ {s}
       IN IF dead = {} THEN Finish(s)
          ELSE checker' = [checker EXCEPT ![s].pc = "rebalance", ![s].deadSyncers = dead]
    /\ UNCHANGED <<storage, stamps, running, evicted, missed, budget>>

(* RebalanceLoad.  It is given the loads of the syncers that stay and a number of orphans.  *)

Total(loads, orphans) == orphans + MapThenSumSet(LAMBDA x : loads[x], DOMAIN loads)

\* filterHighLoadSyncer: those below the average.
LowLoaded(loads, orphans) ==
    {x \in DOMAIN loads : loads[x] * Cardinality(DOMAIN loads) < Total(loads, orphans)}

\* They are filled up to their new average, and the remainder goes to the first ones by load.
AddedLoad(loads, orphans, first, x) ==
    (Total(Restrict(loads, LowLoaded(loads, orphans)), orphans)
        \div Cardinality(LowLoaded(loads, orphans)))
    - loads[x] + (IF x \in first THEN 1 ELSE 0)

\* The sets the remainder may go to: sort.Sort leaves open the order of equal loads.
Firsts(loads, orphans) ==
    LET low == LowLoaded(loads, orphans)
        rest == Total(Restrict(loads, low), orphans) % Cardinality(low)
    IN {f \in kSubset(rest, low) : \A x \in f, y \in low \ f : loads[x] <= loads[y]}

Orphans(s) == {j \in Jobs : owner[j] \in checker[s].deadSyncers \cap Syncers}

Loads(s) == [x \in registered \ checker[s].deadSyncers |-> Cardinality(JobsOf(x))]

Receivers(s) == LowLoaded(Loads(s), Cardinality(Orphans(s)))

\* A sum of the loads of the living alone.
LivingHaveNoJobs(s, syncers) == \A x \in syncers : Loads(s)[x] = 0

HaveNoJobs(s, syncers) == Orphans(s) = {} /\ \A x \in syncers : Loads(s)[x] = 0

\* sumLoad = 0, of all or of those below the average, or an empty list of syncers.
NothingToShare(s) ==
    \/ DOMAIN Loads(s) = {} \/ HaveNoJobs(s, DOMAIN Loads(s))
    \/ Receivers(s) # {} /\ HaveNoJobs(s, Receivers(s))

\* The dead syncers are still found by GetDeadSyncers.
CommitKeepsLate(s, receivers) ==
    /\ registered' = registered \ checker[s].deadSyncers
    /\ synced' = synced \ receivers /\ late' = late \ receivers
    /\ Goto(s, "refresh")
    /\ UNCHANGED <<running, evicted, missed, budget>>

\* The rows of the dead syncers go; those who receive get a new timestamp.
Commit(s, receivers) ==
    /\ registered' = registered \ checker[s].deadSyncers
    /\ synced' = synced \ receivers
    /\ late' = late \ (checker[s].deadSyncers \cup receivers)
    /\ evicted' = (evicted \/ \E x \in checker[s].deadSyncers \cap registered : Up(x))
    /\ Goto(s, "refresh")
    /\ UNCHANGED <<running, missed, budget>>

RebalanceNothing(s) ==
    /\ At(s, "rebalance") /\ NothingToShare(s)
    /\ Commit(s, {}) /\ UNCHANGED owner

Negative(s, first) ==
    \E x \in Receivers(s) : AddedLoad(Loads(s), Cardinality(Orphans(s)), first, x) < 0

CanShare(s) == At(s, "rebalance") /\ ~NothingToShare(s) /\ Receivers(s) # {}

\* The jobs are given, and the checkers of those who receive them are not told.
RebalanceSilently(s) ==
    /\ CanShare(s)
    /\ \E first \in Firsts(Loads(s), Cardinality(Orphans(s))) :
        \E to \in [Orphans(s) -> Receivers(s)] :
           /\ \A x \in Receivers(s) : Cardinality({j \in Orphans(s) : to[j] = x})
                                      = AddedLoad(Loads(s), Cardinality(Orphans(s)), first, x)
           /\ owner' = [j \in Jobs |-> IF j \in Orphans(s) THEN to[j] ELSE owner[j]]
    /\ Commit(s, {})

\* dispatchJobs: the orphans are cut into slices of the added loads.
Rebalance(s) ==
    /\ CanShare(s)
    /\ \E first \in Firsts(Loads(s), Cardinality(Orphans(s))) :
        \E to \in [Orphans(s) -> Receivers(s)] :
           /\ \A x \in Receivers(s) : Cardinality({j \in Orphans(s) : to[j] = x})
                                      = AddedLoad(Loads(s), Cardinality(Orphans(s)), first, x)
           /\ owner' = [j \in Jobs |-> IF j \in Orphans(s) THEN to[j] ELSE owner[j]]
    /\ Commit(s, Receivers(s))

Die(s) ==
    /\ checker' = [checker EXCEPT ![s] = NewChecker]
    /\ running' = [running EXCEPT ![s] = {}]
    /\ synced' = synced \ {s} /\ missed' = missed \ {s}

\* "There is no available syncer!", or the storage fails: the transaction is rolled back.  A
\* slice out of range panics, and with the checker the process.
RebalanceFails(s) ==
    /\ At(s, "rebalance")
    /\ UNCHANGED <<storage, late, evicted>>
    /\ \/ ~NothingToShare(s) /\ Receivers(s) = {} /\ Fail(s)
          /\ UNCHANGED <<synced, running, missed, budget>>
       \/ Fault("db") /\ Fail(s) /\ UNCHANGED <<synced, running, missed>>
       \/ /\ CanShare(s)
          /\ \E first \in Firsts(Loads(s), Cardinality(Orphans(s))) : Negative(s, first)
          /\ Die(s) /\ UNCHANGED budget
-----------------------------------------------------------------------------
(* The processes, and their users. *)

\* A process is killed, or gives up starting.
Crash(s) ==
    /\ Up(s) /\ Fault("crash") /\ Die(s)
    /\ UNCHANGED <<storage, late, evicted>>

\* Time passes: for a process that does not run, or for one that hangs.
TurnLate(s) ==
    /\ s \in registered \ late
    /\ (~Up(s) /\ UNCHANGED budget) \/ (Up(s) /\ Fault("slow"))
    /\ late' = late \cup {s}
    /\ UNCHANGED <<storage, synced, checker, running, evicted, missed>>

\* create_ccr, at any syncer.  Bound: a job that was removed is not created again.
AddJob(s, j) ==
    /\ Up(s) /\ owner[j] = Nil
    /\ owner' = [owner EXCEPT ![j] = s]
    /\ running' = [running EXCEPT ![s] = @ \cup {j}]
    /\ UNCHANGED <<registered, stamps, checker, evicted, missed, budget>>

\* delete: the request is redirected to the syncer the job belongs to.
RemoveJob(s, j) ==
    /\ Up(s) /\ owner[j] = s /\ j \in running[s]
    /\ owner' = [owner EXCEPT ![j] = Removed]
    /\ running' = [running EXCEPT ![s] = @ \ {j}]
    /\ UNCHANGED <<registered, stamps, checker, evicted, missed, budget>>
-----------------------------------------------------------------------------
\* All processes are down, and the storage is as an earlier cluster has left it.
Init ==
    /\ owner \in InitialOwners
    /\ registered = Syncers /\ late = Syncers /\ synced = {}
    /\ checker = [s \in Syncers |-> NewChecker]
    /\ running = [s \in Syncers |-> {}]
    /\ evicted = FALSE /\ missed = {} /\ budget = MaxFaults

CheckerStep(s) ==
    \/ RefreshSyncer(s) \/ StampIsOld(s) \/ ReadStamp(s) \/ RowIsGone(s)
    \/ ReadJobs(s) \/ Recover(s) \/ RecoverFails(s) \/ Check(s)
    \/ RebalanceNothing(s) \/ Rebalance(s) \/ RebalanceFails(s)

Next ==
    \E s \in Syncers :
        \/ Start(s) \/ CheckerStep(s)
        \/ RefreshFails(s) \/ ReadFails(s)
        \/ Crash(s) \/ TurnLate(s)
        \/ \E j \in Jobs : AddJob(s, j) \/ RemoveJob(s, j)

Spec == Init /\ [][Next]_vars

\* A checker that runs ticks and tries again, and time passes for the others.
Fairness ==
    \A s \in Syncers : /\ WF_vars(CheckerStep(s))
                       /\ WF_vars(At(s, "start") /\ Start(s))
                       /\ WF_vars(~Up(s) /\ TurnLate(s))

FairSpec == Spec /\ Fairness
-----------------------------------------------------------------------------
\* No assignment is lost: a checker that thinks it knows its row runs every job that belongs to
\* it, wherever a dispatch comes between its reads of stamp and jobs, its Recover and its next
\* refresh.  It takes that back if Recover fails: handleUpdate has set lastStamp by then.
AssignedJobsKnown ==
    \A s \in (registered \cap synced) \ missed :
        checker[s].pc \notin {"jobs", "recover"} => JobsOf(s) \subseteq running[s]

\* As long as no living syncer has been taken for dead, a job runs only where it belongs, so
\* at one syncer: takeovers and restarts make no second runner.
RunnerOwns ==
    ~evicted => \A s \in Syncers : \A j \in running[s] : owner[j] = s

\* As long as no living syncer has been taken for dead, a job belongs to a syncer that has a row:
\* one that can be found dead.
OwnerRegistered ==
    ~evicted => \A j \in Jobs : owner[j] \in Syncers => owner[j] \in registered

\* A job runs again, once faults stop, if some syncer does, whoever has died with it; unless a
\* living syncer was taken for dead, or a Recover has failed.
JobsTakenOver ==
    \A j \in Jobs : owner[j] \in Syncers ~>
        \/ owner[j] = Removed \/ evicted \/ missed # {} \/ \A s \in Syncers : ~Up(s)
        \/ \E s \in Syncers : j \in running[s]

\* A syncer does not die of the death of another.
SyncersSurvive ==
    [][\A s \in Syncers : Up(s) /\ ~Up(s)' => budget' < budget]_vars
=============================================================================
