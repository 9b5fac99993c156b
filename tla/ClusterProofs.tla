---------------------------- MODULE ClusterProofs ----------------------------
(***************************************************************************)
(* The safety of Cluster, for any numbers of syncers and jobs: no          *)
(* assignment is lost, and until a living syncer is taken for dead a job   *)
(* belongs to a syncer with a row and runs nowhere else.                   *)
(***************************************************************************)
EXTENDS Cluster, TLAPS

\* A process that does not run, runs no job.
DeadRunNothing == \A s \in Syncers : ~Up(s) => running[s] = {}

\* A syncer that runs has its row.
UpRegistered == ~evicted => \A s \in Syncers : Up(s) => s \in registered

\* What a checker has read is still its own when it comes to Recover, or has been removed.
ReadJobsOwned ==
    ~evicted => \A s \in Syncers : checker[s].pc = "recover" =>
        \A j \in checker[s].jobs : owner[j] \in {s, Removed}

\* Who runs which job: RunnerOwns, with what a rebalance and a Recover need of it.
OwnerInv == /\ TypeOK /\ DeadRunNothing /\ UpRegistered /\ OwnerRegistered
            /\ ReadJobsOwned /\ RunnerOwns

\* A checker that thinks it knows its row runs its jobs, and has read those it does not run
\* yet when it comes to Recover.
Knows(s) ==
    s \in registered \cap synced =>
        /\ checker[s].pc = "recover" => JobsOf(s) \subseteq running[s] \cup checker[s].jobs
        /\ s \notin missed /\ checker[s].pc \notin {"jobs", "recover"} =>
               JobsOf(s) \subseteq running[s]

\* Who knows which job: AssignedJobsKnown, with what Recover needs of it.
KnownInv == TypeOK /\ \A s \in Syncers : Knows(s)
-----------------------------------------------------------------------------
(* Facts about what an action does to the checker and to the owners. *)

\* Those who get orphans are not the dead.
LEMMA ReceiversLive ==
    ASSUME NEW s \in Syncers
    PROVE  Receivers(s) \subseteq registered \ checker[s].deadSyncers
BY DEF Receivers, LowLoaded, Loads

\* The checkers remain checkers.
LEMMA CheckerTypes ==
    ASSUME TypeOK, NEW s \in Syncers
    PROVE  /\ NewChecker \in Checkers /\ NewCheck \in Checkers
           /\ [NewCheck EXCEPT !.started = TRUE] \in Checkers
           /\ [NewChecker EXCEPT !.pc = "start"] \in Checkers
           /\ Fail(s) \/ Finish(s) => checker' \in [Syncers -> Checkers]
           /\ \A pc \in {"jobs", "refresh"} :
                 Goto(s, pc) => checker' \in [Syncers -> Checkers]
<1>1. /\ NewChecker \in Checkers /\ NewCheck \in Checkers
      /\ [NewCheck EXCEPT !.started = TRUE] \in Checkers
      /\ [NewChecker EXCEPT !.pc = "start"] \in Checkers
  BY DEF NewChecker, NewCheck, Checkers
<1>2. checker \in [Syncers -> Checkers]
  BY DEF TypeOK
<1>3. Fail(s) \/ Finish(s) => checker' \in [Syncers -> Checkers]
  BY <1>1, <1>2 DEF Fail, Finish
<1>4. ASSUME NEW pc \in {"jobs", "refresh"}, Goto(s, pc)
      PROVE  checker' \in [Syncers -> Checkers]
  BY <1>2, <1>4 DEF Goto, Checkers
<1> QED
  BY <1>1, <1>3, <1>4

\* A dispatch gives the orphans, and no other jobs, to the receivers.
LEMMA RebalanceGives ==
    ASSUME NEW s \in Syncers, Rebalance(s)
    PROVE  \A j \in Jobs : IF j \in Orphans(s) THEN owner'[j] \in Receivers(s)
                           ELSE owner'[j] = owner[j]
<1>1. \E to \in [Orphans(s) -> Receivers(s)] :
          owner' = [j \in Jobs |-> IF j \in Orphans(s) THEN to[j] ELSE owner[j]]
  BY DEF Rebalance
<1>2. PICK to \in [Orphans(s) -> Receivers(s)] :
          owner' = [j \in Jobs |-> IF j \in Orphans(s) THEN to[j] ELSE owner[j]]
  BY <1>1
<1> QED
  BY <1>2
-----------------------------------------------------------------------------
\* A fault uses up some of the budget.
LEMMA FaultCounts ==
    ASSUME TypeOK, NEW k, Fault(k)
    PROVE  budget' \in 0..MaxFaults
BY ClusterAssumption DEF Fault, TypeOK

\* At the start everything has its type.
LEMMA InitTypeOK == Init => TypeOK
<1> SUFFICES ASSUME Init
             PROVE  TypeOK
  OBVIOUS
<1>1. owner \in [Jobs -> Syncers \cup {Nil, Removed}]
  <2>1. owner \in [Jobs -> Syncers \cup {Nil}]
    BY ClusterAssumption DEF Init
  <2> QED
    BY <2>1
<1>2. checker \in [Syncers -> Checkers]
  BY DEF Init, Checkers, NewChecker
<1>3. budget \in 0..MaxFaults
  BY ClusterAssumption DEF Init
<1> QED
  BY <1>1, <1>2, <1>3 DEF Init, TypeOK

\* Each action keeps the types.
LEMMA StepTypeOK == TypeOK /\ [Next]_vars => TypeOK'
<1> SUFFICES ASSUME TypeOK, [Next]_vars
             PROVE  TypeOK'
  OBVIOUS
<1> USE DEF TypeOK
<1>1. CASE UNCHANGED vars
  BY <1>1 DEF vars, storage, stamps
<1>2. ASSUME NEW s \in Syncers, Start(s)
      PROVE  TypeOK'
  BY <1>2, CheckerTypes DEF Start
<1>3. ASSUME NEW s \in Syncers, RefreshSyncer(s)
      PROVE  TypeOK'
  <2>1. checker' \in [Syncers -> Checkers]
    <3>1. CASE checker[s].firstCheck
      BY <1>3, <3>1 DEF RefreshSyncer, Refreshed, Checkers
    <3>2. CASE ~checker[s].firstCheck
      BY <1>3, <3>2, CheckerTypes DEF RefreshSyncer, Refreshed
    <3> QED
      BY <3>1, <3>2
  <2> QED
    BY <1>3, <2>1 DEF RefreshSyncer, Refreshed, storage
<1>4. ASSUME NEW s \in Syncers, StampIsOld(s)
      PROVE  TypeOK'
  <2>1. checker' \in [Syncers -> Checkers]
    BY <1>4 DEF StampIsOld, Checkers
  <2> QED
    BY <1>4, <2>1 DEF StampIsOld, storage
<1>5. ASSUME NEW s \in Syncers, ReadStamp(s)
      PROVE  TypeOK'
  <2>1. checker' \in [Syncers -> Checkers]
    BY <1>5, CheckerTypes DEF ReadStamp
  <2> QED
    BY <1>5, <2>1 DEF ReadStamp, storage
<1>6. ASSUME NEW s \in Syncers, RowIsGone(s)
      PROVE  TypeOK'
  <2>1. checker' \in [Syncers -> Checkers]
    BY <1>6, CheckerTypes DEF RowIsGone
  <2> QED
    BY <1>6, <2>1 DEF RowIsGone, storage, stamps
<1>7. ASSUME NEW s \in Syncers, ReadJobs(s)
      PROVE  TypeOK'
  <2>1. JobsOf(s) \in SUBSET Jobs
    BY DEF JobsOf
  <2>2. checker' \in [Syncers -> Checkers]
    <3> DEFINE pc == IF JobsOf(s) = {} THEN "refresh" ELSE "recover"
    <3>1. checker' = [checker EXCEPT ![s].jobs = JobsOf(s), ![s].pc = pc]
      BY <1>7 DEF ReadJobs, JobsRead
    <3>2. pc \in {"refresh", "recover"}
      OBVIOUS
    <3> HIDE DEF pc
    <3> QED
      BY <2>1, <3>1, <3>2 DEF Checkers
  <2> QED
    BY <1>7, <2>2 DEF ReadJobs, storage, stamps
<1>8. ASSUME NEW s \in Syncers, Recover(s)
      PROVE  TypeOK'
  <2>1. checker' \in [Syncers -> Checkers]
    BY <1>8, CheckerTypes DEF Recover
  <2>2. checker[s].jobs \in SUBSET Jobs
    BY DEF Checkers
  <2> QED
    BY <1>8, <2>1, <2>2 DEF Recover, storage, stamps
<1>9. ASSUME NEW s \in Syncers, RecoverFails(s)
      PROVE  TypeOK'
  <2>1. checker' \in [Syncers -> Checkers]
    BY <1>9, CheckerTypes DEF RecoverFails
  <2>2. budget' \in 0..MaxFaults
    BY <1>9, FaultCounts DEF RecoverFails
  <2> QED
    BY <1>9, <2>1, <2>2 DEF RecoverFails, storage, stamps
<1>10. ASSUME NEW s \in Syncers, Check(s)
       PROVE  TypeOK'
  <2>1. checker' \in [Syncers -> Checkers]
    <3>1. CASE late \ {s} = {}
      BY <1>10, <3>1, CheckerTypes DEF Check
    <3>2. CASE late \ {s} # {}
      BY <1>10, <3>2 DEF Check, Checkers
    <3> QED
      BY <3>1, <3>2
  <2> QED
    BY <1>10, <2>1 DEF Check, storage, stamps
<1>11. ASSUME NEW s \in Syncers, NEW receivers, Commit(s, receivers),
              owner' \in [Jobs -> Syncers \cup {Nil, Removed}]
       PROVE  TypeOK'
  <2>1. checker' \in [Syncers -> Checkers]
    BY <1>11, CheckerTypes DEF Commit
  <2> QED
    BY <1>11, <2>1 DEF Commit
<1>12. ASSUME NEW s \in Syncers, RebalanceNothing(s)
       PROVE  TypeOK'
  BY <1>11, <1>12 DEF RebalanceNothing
<1>13. ASSUME NEW s \in Syncers, Rebalance(s)
       PROVE  TypeOK'
  <2>1. PICK to \in [Orphans(s) -> Receivers(s)] :
            owner' = [j \in Jobs |-> IF j \in Orphans(s) THEN to[j] ELSE owner[j]]
    BY <1>13 DEF Rebalance
  <2>2. owner' \in [Jobs -> Syncers \cup {Nil, Removed}]
    BY <2>1, ReceiversLive
  <2> QED
    BY <1>11, <1>13, <2>2 DEF Rebalance
<1>14. ASSUME NEW s \in Syncers, Die(s)
       PROVE  /\ checker' \in [Syncers -> Checkers] /\ running' \in [Syncers -> SUBSET Jobs]
              /\ synced' \subseteq Syncers /\ missed' \subseteq Syncers
  BY <1>14, CheckerTypes DEF Die
<1>15. ASSUME NEW s \in Syncers, RebalanceFails(s)
       PROVE  TypeOK'
  <2>1. checker' \in [Syncers -> Checkers]
    BY <1>14, <1>15, CheckerTypes DEF RebalanceFails
  <2>2. budget' \in 0..MaxFaults
    BY <1>15, FaultCounts DEF RebalanceFails
  <2>3. /\ running' \in [Syncers -> SUBSET Jobs]
        /\ synced' \subseteq Syncers /\ missed' \subseteq Syncers
    BY <1>14, <1>15 DEF RebalanceFails
  <2> QED
    BY <1>15, <2>1, <2>2, <2>3 DEF RebalanceFails, storage
<1>16. ASSUME NEW s \in Syncers, RefreshFails(s) \/ ReadFails(s)
       PROVE  TypeOK'
  <2>1. checker' \in [Syncers -> Checkers]
    BY <1>16, CheckerTypes DEF RefreshFails, ReadFails
  <2>2. budget' \in 0..MaxFaults
    BY <1>16, FaultCounts DEF RefreshFails, ReadFails
  <2> QED
    BY <1>16, <2>1, <2>2 DEF RefreshFails, ReadFails, storage
<1>17. ASSUME NEW s \in Syncers, Crash(s)
       PROVE  TypeOK'
  BY <1>14, <1>17, FaultCounts DEF Crash, storage
<1>18. ASSUME NEW s \in Syncers, TurnLate(s)
       PROVE  TypeOK'
  <2>1. budget' \in 0..MaxFaults
    BY <1>18, FaultCounts DEF TurnLate
  <2> QED
    BY <1>18, <2>1 DEF TurnLate, storage
<1>19. ASSUME NEW s \in Syncers, NEW j \in Jobs, AddJob(s, j) \/ RemoveJob(s, j)
       PROVE  TypeOK'
  BY <1>19 DEF AddJob, RemoveJob, stamps
<1> QED
  BY <1>1, <1>2, <1>3, <1>4, <1>5, <1>6, <1>7, <1>8, <1>9, <1>10, <1>12, <1>13, <1>15, <1>16,
     <1>17, <1>18, <1>19 DEF Next, CheckerStep

\* The types of the cluster, for any syncers and jobs.
THEOREM ClusterTypeOK == Spec => []TypeOK
BY InitTypeOK, StepTypeOK, PTL DEF Spec
-----------------------------------------------------------------------------
(* OwnerInv is inductive. *)

\* A step of the checker of s, other than to Recover, that touches neither jobs nor owners.
QuietStep(s) ==
    /\ UNCHANGED <<owner, running, evicted>> /\ registered \subseteq registered'
    /\ \A x \in Syncers \ {s} : checker'[x] = checker[x]
    /\ checker'[s].pc \notin {"recover", "down"}
    /\ Up(s) \/ s \in registered'

\* What a quiet step keeps.
LEMMA QuietKeepsOwners ==
    ASSUME OwnerInv, TypeOK', NEW s \in Syncers, QuietStep(s)
    PROVE  OwnerInv'
<1>1. DeadRunNothing'
  BY DEF OwnerInv, DeadRunNothing, QuietStep, Up
<1>2. UpRegistered'
  BY DEF OwnerInv, UpRegistered, QuietStep, Up
<1>3. OwnerRegistered'
  BY DEF OwnerInv, OwnerRegistered, QuietStep
<1>4. ReadJobsOwned'
  BY DEF OwnerInv, ReadJobsOwned, QuietStep
<1>5. RunnerOwns'
  BY DEF OwnerInv, RunnerOwns, QuietStep
<1> QED
  BY <1>1, <1>2, <1>3, <1>4, <1>5 DEF OwnerInv

\* The steps of a checker that are quiet.
LEMMA CheckerStepsQuiet ==
    ASSUME TypeOK, NEW s \in Syncers,
           \/ Start(s) \/ RefreshSyncer(s) \/ StampIsOld(s) \/ ReadStamp(s) \/ RowIsGone(s)
           \/ RecoverFails(s) \/ Check(s) \/ RefreshFails(s) \/ ReadFails(s)
    PROVE  QuietStep(s)
<1> USE DEF QuietStep, storage, Up, At
<1>1. checker \in [Syncers -> Checkers]
  BY DEF TypeOK
<1>2. Fail(s) \/ Finish(s) =>
          /\ \A x \in Syncers \ {s} : checker'[x] = checker[x]
          /\ checker'[s].pc \notin {"recover", "down"}
  BY <1>1 DEF Fail, Finish, NewCheck, NewChecker
<1>3. CASE Start(s)
  BY <1>1, <1>3 DEF Start, NewCheck, NewChecker
<1>4. CASE RefreshSyncer(s)
  <2>1. CASE checker[s].firstCheck
    BY <1>1, <1>4, <2>1 DEF RefreshSyncer, Refreshed, Checkers
  <2>2. CASE ~checker[s].firstCheck
    BY <1>2, <1>4, <2>2 DEF RefreshSyncer, Refreshed
  <2> QED
    BY <2>1, <2>2
<1>5. CASE StampIsOld(s)
  BY <1>1, <1>5 DEF StampIsOld, Checkers
<1>6. CASE ReadStamp(s)
  BY <1>1, <1>6 DEF ReadStamp, Goto, Checkers
<1>7. CASE RowIsGone(s) \/ RecoverFails(s) \/ RefreshFails(s) \/ ReadFails(s)
  BY <1>2, <1>7 DEF RowIsGone, RecoverFails, RefreshFails, ReadFails
<1>8. CASE Check(s)
  <2>1. CASE late \ {s} = {}
    BY <1>2, <1>8, <2>1 DEF Check
  <2>2. CASE late \ {s} # {}
    BY <1>1, <1>8, <2>2 DEF Check, Checkers
  <2> QED
    BY <2>1, <2>2
<1> QED
  BY <1>3, <1>4, <1>5, <1>6, <1>7, <1>8

\* A process that dies runs nothing, and everything else of it stays.
LEMMA DieKeepsOwners ==
    ASSUME OwnerInv, TypeOK', NEW s \in Syncers, Die(s), UNCHANGED <<storage, evicted>>
    PROVE  OwnerInv'
<1>1. /\ checker' = [checker EXCEPT ![s] = NewChecker] /\ running' = [running EXCEPT ![s] = {}]
      /\ checker \in [Syncers -> Checkers] /\ running \in [Syncers -> SUBSET Jobs]
      /\ UNCHANGED <<owner, registered, evicted>> /\ NewChecker.pc = "down"
  BY DEF Die, OwnerInv, TypeOK, storage, NewChecker
<1>2. DeadRunNothing'
  BY <1>1 DEF OwnerInv, DeadRunNothing, Up
<1>3. UpRegistered'
  BY <1>1 DEF OwnerInv, UpRegistered, Up
<1>4. OwnerRegistered'
  BY <1>1 DEF OwnerInv, OwnerRegistered
<1>5. ReadJobsOwned'
  BY <1>1 DEF OwnerInv, ReadJobsOwned
<1>6. RunnerOwns'
  BY <1>1 DEF OwnerInv, RunnerOwns
<1> QED
  BY <1>2, <1>3, <1>4, <1>5, <1>6 DEF OwnerInv

\* A rebalance removes rows and moves jobs of dead syncers only.  If one of them runs, it is
\* evicted, and nothing is left to show.
LEMMA CommitKeepsOwners ==
    ASSUME OwnerInv, TypeOK', NEW s \in Syncers, NEW receivers, At(s, "rebalance"),
           Commit(s, receivers),
           \A j \in Jobs : IF j \in Orphans(s)
                           THEN owner'[j] \in registered \ checker[s].deadSyncers
                           ELSE owner'[j] = owner[j]
    PROVE  OwnerInv'
<1>1. /\ checker \in [Syncers -> Checkers] /\ owner \in [Jobs -> Syncers \cup {Nil, Removed}]
      /\ registered \subseteq Syncers
      /\ running \in [Syncers -> SUBSET Jobs] /\ UNCHANGED running
      /\ checker' = [checker EXCEPT ![s].pc = "refresh"]
  BY DEF OwnerInv, TypeOK, Commit, Goto
<1>2. /\ \A x \in Syncers : Up(x)' <=> Up(x)
      /\ \A x \in Syncers : checker'[x].pc = "recover" =>
             checker[x].pc = "recover" /\ checker'[x].jobs = checker[x].jobs
  BY <1>1 DEF Up, At, Checkers
<1>3. /\ registered' = registered \ checker[s].deadSyncers
      /\ ~evicted' => ~evicted /\ \A x \in checker[s].deadSyncers \cap registered : ~Up(x)
  BY DEF Commit
<1>4. DeadRunNothing'
  BY <1>1, <1>2 DEF OwnerInv, DeadRunNothing
<1>5. UpRegistered'
  BY <1>2, <1>3 DEF OwnerInv, UpRegistered
<1>6. OwnerRegistered'
  BY <1>1, <1>3 DEF OwnerInv, OwnerRegistered, Orphans
\* No syncer that runs has lost a job.
<1>7. ASSUME ~evicted', NEW x \in Syncers, Up(x), NEW j \in Jobs, owner[j] = x
      PROVE  owner'[j] = x
  <2>1. x \in registered
    BY <1>3, <1>7 DEF OwnerInv, UpRegistered
  <2>2. x \notin checker[s].deadSyncers
    BY <1>3, <1>7, <2>1
  <2> QED
    BY <1>7, <2>2 DEF Orphans
<1>8. ASSUME NEW j \in Jobs, owner[j] = Removed
      PROVE  owner'[j] = Removed
  BY <1>8, ClusterAssumption DEF Orphans
<1>9. ReadJobsOwned'
  <2> SUFFICES ASSUME ~evicted', NEW x \in Syncers, checker'[x].pc = "recover",
                      NEW j \in checker'[x].jobs
               PROVE  owner'[j] \in {x, Removed}
    BY DEF ReadJobsOwned
  <2>1. checker[x].pc = "recover" /\ j \in checker[x].jobs /\ j \in Jobs
    BY <1>1, <1>2 DEF Checkers
  <2>2. owner[j] \in {x, Removed} /\ Up(x)
    BY <1>3, <2>1 DEF OwnerInv, ReadJobsOwned, Up
  <2> QED
    BY <1>7, <1>8, <2>1, <2>2
<1>10. RunnerOwns'
  <2> SUFFICES ASSUME ~evicted', NEW x \in Syncers, NEW j \in running'[x]
               PROVE  owner'[j] = x
    BY DEF RunnerOwns
  <2>1. j \in running[x] /\ j \in Jobs
    BY <1>1
  <2>2. owner[j] = x /\ Up(x)
    BY <1>3, <2>1 DEF OwnerInv, RunnerOwns, DeadRunNothing
  <2> QED
    BY <1>7, <2>1, <2>2
<1> QED
  BY <1>4, <1>5, <1>6, <1>9, <1>10 DEF OwnerInv

\* Recover runs what the checker has read, which is its own or was removed; what was removed is
\* recovered only if it runs already.
LEMMA RecoverKeepsOwners ==
    ASSUME OwnerInv, TypeOK', NEW s \in Syncers, Recover(s)
    PROVE  OwnerInv'
<1>1. /\ checker \in [Syncers -> Checkers] /\ running \in [Syncers -> SUBSET Jobs]
      /\ checker' = [checker EXCEPT ![s].pc = "refresh"] /\ checker[s].pc = "recover"
      /\ running' = [running EXCEPT ![s] = @ \cup checker[s].jobs]
      /\ UNCHANGED <<owner, registered, evicted>>
  BY DEF OwnerInv, TypeOK, Recover, Goto, storage, At
<1>2. \A x \in Syncers : Up(x)' <=> Up(x)
  BY <1>1 DEF Up, Checkers
<1>3. DeadRunNothing'
  BY <1>1, <1>2 DEF OwnerInv, DeadRunNothing, Up
<1>4. UpRegistered' /\ OwnerRegistered'
  BY <1>1, <1>2 DEF OwnerInv, UpRegistered, OwnerRegistered
<1>5. ReadJobsOwned'
  BY <1>1 DEF OwnerInv, ReadJobsOwned, Checkers
<1>6. RunnerOwns'
  <2> SUFFICES ASSUME ~evicted, NEW x \in Syncers, NEW j \in running'[x]
               PROVE  owner[j] = x
    BY <1>1 DEF RunnerOwns
  <2>1. CASE j \in running[x]
    BY <2>1 DEF OwnerInv, RunnerOwns
  <2>2. CASE j \notin running[x]
    <3>1. x = s /\ j \in checker[s].jobs \ running[s]
      BY <1>1, <2>2
    <3>2. owner[j] \in {s, Removed} /\ owner[j] # Removed
      BY <1>1, <3>1 DEF OwnerInv, ReadJobsOwned, Recover, Exist
    <3> QED
      BY <3>1, <3>2
  <2> QED
    BY <2>1, <2>2
<1> QED
  BY <1>3, <1>4, <1>5, <1>6 DEF OwnerInv

\* A checker reads the jobs that belong to it.
LEMMA ReadJobsKeepsOwners ==
    ASSUME OwnerInv, TypeOK', NEW s \in Syncers, ReadJobs(s)
    PROVE  OwnerInv'
<1> DEFINE pc == IF JobsOf(s) = {} THEN "refresh" ELSE "recover"
<1>1. /\ checker \in [Syncers -> Checkers] /\ checker[s].pc = "jobs"
      /\ checker' = [checker EXCEPT ![s].jobs = JobsOf(s), ![s].pc = pc]
      /\ UNCHANGED <<owner, registered, running, evicted>>
  BY DEF OwnerInv, TypeOK, ReadJobs, JobsRead, storage, At
<1>2. pc \in {"refresh", "recover"}
  OBVIOUS
<1> HIDE DEF pc
<1>3. /\ \A x \in Syncers : Up(x)' <=> Up(x)
      /\ \A x \in Syncers \ {s} : checker'[x] = checker[x]
      /\ checker'[s].jobs = JobsOf(s)
  BY <1>1, <1>2 DEF Up, Checkers
<1>4. DeadRunNothing' /\ UpRegistered' /\ OwnerRegistered' /\ RunnerOwns'
  BY <1>1, <1>3 DEF OwnerInv, DeadRunNothing, UpRegistered, OwnerRegistered, RunnerOwns
<1>5. ReadJobsOwned'
  BY <1>1, <1>3 DEF OwnerInv, ReadJobsOwned, JobsOf
<1> QED
  BY <1>4, <1>5 DEF OwnerInv

\* A new job has no other runner, and a job that is removed loses its only one.
LEMMA RequestKeepsOwners ==
    ASSUME OwnerInv, TypeOK', NEW s \in Syncers, NEW j \in Jobs, AddJob(s, j) \/ RemoveJob(s, j)
    PROVE  OwnerInv'
<1>1. /\ owner \in [Jobs -> Syncers \cup {Nil, Removed}] /\ running \in [Syncers -> SUBSET Jobs]
      /\ checker \in [Syncers -> Checkers]
      /\ UNCHANGED <<checker, registered, evicted>> /\ Up(s)
      /\ Nil \notin Syncers /\ Removed \notin Syncers /\ Nil # Removed
  BY ClusterAssumption DEF OwnerInv, TypeOK, AddJob, RemoveJob
<1>2. \A x \in Syncers : Up(x)' <=> Up(x)
  BY <1>1 DEF Up
<1>3. CASE AddJob(s, j)
  <2>1. /\ owner' = [owner EXCEPT ![j] = s] /\ owner[j] = Nil
        /\ running' = [running EXCEPT ![s] = @ \cup {j}]
    BY <1>3 DEF AddJob
  <2>2. DeadRunNothing' /\ UpRegistered'
    BY <1>1, <1>2, <2>1 DEF OwnerInv, DeadRunNothing, UpRegistered
  <2>3. OwnerRegistered'
    BY <1>1, <2>1 DEF OwnerInv, OwnerRegistered, UpRegistered
  <2>4. ReadJobsOwned'
    BY <1>1, <2>1 DEF OwnerInv, ReadJobsOwned, Checkers
  <2>5. RunnerOwns'
    BY <1>1, <2>1 DEF OwnerInv, RunnerOwns
  <2> QED
    BY <2>2, <2>3, <2>4, <2>5 DEF OwnerInv
<1>4. CASE RemoveJob(s, j)
  <2>1. /\ owner' = [owner EXCEPT ![j] = Removed] /\ owner[j] = s
        /\ running' = [running EXCEPT ![s] = @ \ {j}]
    BY <1>4 DEF RemoveJob
  <2>2. DeadRunNothing' /\ UpRegistered'
    BY <1>1, <1>2, <2>1 DEF OwnerInv, DeadRunNothing, UpRegistered
  <2>3. OwnerRegistered'
    BY <1>1, <2>1 DEF OwnerInv, OwnerRegistered
  <2>4. ReadJobsOwned'
    BY <1>1, <2>1 DEF OwnerInv, ReadJobsOwned, Checkers
  <2>5. RunnerOwns'
    BY <1>1, <2>1 DEF OwnerInv, RunnerOwns
  <2> QED
    BY <2>2, <2>3, <2>4, <2>5 DEF OwnerInv
<1> QED
  BY <1>3, <1>4

\* Each action keeps OwnerInv.
LEMMA OwnerInvInductive == OwnerInv /\ [Next]_vars => OwnerInv'
<1> SUFFICES ASSUME OwnerInv, [Next]_vars
             PROVE  OwnerInv'
  OBVIOUS
<1>1. TypeOK /\ TypeOK'
  BY StepTypeOK DEF OwnerInv
<1>2. CASE UNCHANGED vars
  BY <1>1, <1>2 DEF OwnerInv, DeadRunNothing, UpRegistered, OwnerRegistered, ReadJobsOwned,
                    RunnerOwns, vars, storage, stamps, Up
<1>3. ASSUME NEW s \in Syncers,
             \/ Start(s) \/ RefreshSyncer(s) \/ StampIsOld(s) \/ ReadStamp(s) \/ RowIsGone(s)
             \/ RecoverFails(s) \/ Check(s) \/ RefreshFails(s) \/ ReadFails(s)
      PROVE  OwnerInv'
  BY <1>1, <1>3, CheckerStepsQuiet, QuietKeepsOwners
<1>4. ASSUME NEW s \in Syncers, RebalanceNothing(s)
      PROVE  OwnerInv'
  <2>1. CASE DOMAIN Loads(s) = {}
    \* The row of s itself is gone: some living syncer has been evicted.
    <3>1. s \notin registered \ checker[s].deadSyncers
      BY <2>1 DEF Loads
    <3>2. /\ Commit(s, {}) /\ At(s, "rebalance") /\ Up(s)
          /\ checker \in [Syncers -> Checkers]
      BY <1>1, <1>4 DEF RebalanceNothing, At, Up, TypeOK
    <3>3. evicted'
      <4>1. CASE s \in registered
        BY <3>1, <3>2, <4>1 DEF Commit
      <4>2. CASE s \notin registered
        BY <3>2, <4>2 DEF Commit, OwnerInv, UpRegistered
      <4> QED
        BY <4>1, <4>2
    <3>4. DeadRunNothing'
      <4>1. \A x \in Syncers : Up(x)' <=> Up(x)
        BY <3>2 DEF Commit, Goto, Up, At, Checkers
      <4> QED
        BY <3>2, <4>1 DEF Commit, OwnerInv, DeadRunNothing
    <3> QED
      BY <1>1, <3>3, <3>4 DEF OwnerInv, UpRegistered, OwnerRegistered, ReadJobsOwned, RunnerOwns
  <2>2. CASE Orphans(s) = {}
    BY <1>1, <1>4, <2>2, CommitKeepsOwners DEF RebalanceNothing
  <2> QED
    BY <1>4, <2>1, <2>2 DEF RebalanceNothing, NothingToShare, HaveNoJobs
<1>5. ASSUME NEW s \in Syncers, Rebalance(s)
      PROVE  OwnerInv'
  BY <1>1, <1>5, CommitKeepsOwners, RebalanceGives, ReceiversLive DEF Rebalance, CanShare
<1>6. ASSUME NEW s \in Syncers, RebalanceFails(s)
      PROVE  OwnerInv'
  <2>1. CASE Die(s)
    BY <1>1, <1>6, <2>1, DieKeepsOwners DEF RebalanceFails
  <2>2. CASE Fail(s) /\ UNCHANGED running
    <3>1. checker \in [Syncers -> Checkers] /\ Up(s) /\ UNCHANGED <<storage, evicted>>
      BY <1>1, <1>6 DEF RebalanceFails, TypeOK, At, Up
    <3>2. /\ \A x \in Syncers \ {s} : checker'[x] = checker[x]
          /\ checker'[s].pc \notin {"recover", "down"}
      BY <2>2, <3>1 DEF Fail, NewCheck, NewChecker
    <3>3. QuietStep(s)
      BY <2>2, <3>1, <3>2 DEF QuietStep, storage
    <3> QED
      BY <1>1, <3>3, QuietKeepsOwners
  <2> QED
    BY <1>6, <2>1, <2>2 DEF RebalanceFails
<1>7. ASSUME NEW s \in Syncers, Crash(s)
      PROVE  OwnerInv'
  BY <1>1, <1>7, DieKeepsOwners DEF Crash, storage
<1>8. ASSUME NEW s \in Syncers, TurnLate(s)
      PROVE  OwnerInv'
  BY <1>1, <1>8 DEF OwnerInv, DeadRunNothing, UpRegistered, OwnerRegistered, ReadJobsOwned,
                    RunnerOwns, TurnLate, storage, Up
<1> QED
  BY <1>2, <1>3, <1>4, <1>5, <1>6, <1>7, <1>8, RecoverKeepsOwners, ReadJobsKeepsOwners,
     RequestKeepsOwners, <1>1 DEF Next, CheckerStep

\* At the start nothing runs, and every syncer of an earlier cluster has its row.
LEMMA InitOwnerInv == Init => OwnerInv
BY InitTypeOK DEF Init, OwnerInv, TypeOK, DeadRunNothing, UpRegistered, OwnerRegistered,
                  ReadJobsOwned, RunnerOwns, Up, NewChecker

\* The inductive invariant of owners and runners, for any syncers and jobs.
THEOREM ClusterOwnerInv == Spec => []OwnerInv
BY InitOwnerInv, OwnerInvInductive, PTL DEF Spec

\* Until a living syncer is taken for dead, a job runs only where it belongs, so at one syncer:
\* neither a takeover nor a restart makes a second runner.
THEOREM ClusterRunnerOwns == Spec => []RunnerOwns
<1>1. OwnerInv => RunnerOwns
  BY DEF OwnerInv
<1> QED
  BY <1>1, ClusterOwnerInv, PTL

\* Until a living syncer is taken for dead, a job belongs to a syncer with a row: a rebalance
\* removes no row without its jobs.
THEOREM ClusterOwnerRegistered == Spec => []OwnerRegistered
<1>1. OwnerInv => OwnerRegistered
  BY DEF OwnerInv
<1> QED
  BY <1>1, ClusterOwnerInv, PTL
-----------------------------------------------------------------------------
(* KnownInv is inductive. *)

\* The step brings x no job it does not know: its stamp is not read, its jobs are not changed.
NothingNew(x) ==
    /\ x \in registered' \cap synced' =>
           x \in registered \cap synced /\ \A j \in Jobs : owner'[j] = x => owner[j] = x
    /\ running'[x] = running[x]
    /\ x \in missed => x \in missed'

\* The checker of x does nothing.
Rests(x) == NothingNew(x) /\ checker'[x] = checker[x]

\* It does something before the stamp is read or after Recover.
Busy(x) == /\ NothingNew(x)
           /\ {checker[x].pc, checker'[x].pc} \cap {"jobs", "recover"} = {}

\* A syncer that gets no new job while its checker rests, or is busy elsewhere, knows its jobs.
LEMMA KnowledgeKept ==
    ASSUME NEW x \in Syncers, Knows(x), Rests(x) \/ Busy(x)
    PROVE  Knows(x)'
<1>1. CASE Rests(x)
  BY <1>1 DEF Knows, Rests, NothingNew, JobsOf
<1>2. CASE Busy(x)
  BY <1>2 DEF Knows, Busy, NothingNew, JobsOf
<1> QED
  BY <1>1, <1>2

\* What a step of s must do for all of them to know their jobs.
LEMMA KnownInvStep ==
    ASSUME KnownInv, TypeOK', NEW s \in Syncers, Knows(s)',
           \A x \in Syncers \ {s} : Rests(x)
    PROVE  KnownInv'
BY KnowledgeKept DEF KnownInv

\* A checker that does not know its row has nothing to know.
LEMMA OldStamp ==
    ASSUME NEW s \in Syncers, s \notin registered' \cap synced'
    PROVE  Knows(s)'
BY DEF Knows

\* The steps before the stamp is read, and the check.
LEMMA CheckerKeepsKnown ==
    ASSUME KnownInv, TypeOK', NEW s \in Syncers,
           \/ Start(s) \/ RefreshSyncer(s) \/ StampIsOld(s) \/ RowIsGone(s) \/ Check(s)
           \/ RefreshFails(s) \/ ReadFails(s)
    PROVE  KnownInv'
<1>1. checker \in [Syncers -> Checkers] /\ running \in [Syncers -> SUBSET Jobs]
  BY DEF KnownInv, TypeOK
<1>2. Fail(s) \/ Finish(s) =>
          /\ \A x \in Syncers \ {s} : checker'[x] = checker[x]
          /\ checker'[s].pc \in {"start", "refresh"}
  BY <1>1 DEF Fail, Finish, NewCheck, NewChecker
<1> USE DEF Rests, NothingNew, storage, At
<1>3. CASE Start(s)
  BY <1>1, <1>3, OldStamp, KnownInvStep DEF Start
<1>4. CASE RefreshSyncer(s)
  <2>1. /\ \A x \in Syncers \ {s} : checker'[x] = checker[x]
        /\ checker'[s].pc \in {"check", "start", "refresh"}
    <3>1. CASE checker[s].firstCheck
      BY <1>1, <1>4, <3>1 DEF RefreshSyncer, Refreshed, Checkers
    <3>2. CASE ~checker[s].firstCheck
      BY <1>2, <1>4, <3>2 DEF RefreshSyncer, Refreshed
    <3> QED
      BY <3>1, <3>2
  <2>2. Busy(s) /\ \A x \in Syncers \ {s} : Rests(x)
    BY <1>4, <2>1 DEF RefreshSyncer, Busy
  <2> QED
    BY <2>2, KnowledgeKept, KnownInvStep DEF KnownInv
<1>5. CASE StampIsOld(s)
  BY <1>1, <1>5, OldStamp, KnownInvStep DEF StampIsOld
<1>6. CASE RowIsGone(s)
  BY <1>1, <1>2, <1>6, OldStamp, KnownInvStep DEF RowIsGone, stamps
<1>7. CASE Check(s)
  <2>1. /\ \A x \in Syncers \ {s} : checker'[x] = checker[x]
        /\ checker'[s].pc \in {"start", "refresh", "rebalance"}
    BY <1>1, <1>2, <1>7 DEF Check, Checkers
  <2>2. Busy(s) /\ \A x \in Syncers \ {s} : Rests(x)
    BY <1>7, <2>1 DEF Check, Busy, stamps
  <2> QED
    BY <2>2, KnowledgeKept, KnownInvStep DEF KnownInv
<1>8. CASE RefreshFails(s) \/ ReadFails(s)
  BY <1>1, <1>2, <1>8, OldStamp, KnownInvStep DEF RefreshFails, ReadFails
<1> QED
  BY <1>3, <1>4, <1>5, <1>6, <1>7, <1>8

\* handleUpdate: from the stamp to the jobs to Recover.  A dispatch that comes after the stamp
\* is read takes the checker back to an old stamp.
LEMMA UpdateKeepsKnown ==
    ASSUME KnownInv, TypeOK', NEW s \in Syncers,
           ReadStamp(s) \/ ReadJobs(s) \/ Recover(s) \/ RecoverFails(s)
    PROVE  KnownInv'
<1>1. checker \in [Syncers -> Checkers] /\ running \in [Syncers -> SUBSET Jobs] /\ Knows(s)
  BY DEF KnownInv, TypeOK
<1> USE DEF Rests, NothingNew, storage, stamps
<1>2. CASE ReadStamp(s)
  <2>1. checker'[s].pc = "jobs" /\ \A x \in Syncers \ {s} : checker'[x] = checker[x]
    BY <1>1, <1>2 DEF ReadStamp, Goto, Checkers
  <2>2. Knows(s)'
    BY <2>1 DEF Knows
  <2>3. \A x \in Syncers \ {s} : Rests(x)
    BY <1>2, <2>1 DEF ReadStamp
  <2> QED
    BY <2>2, <2>3, KnownInvStep
<1>3. CASE ReadJobs(s)
  <2> DEFINE pc == IF JobsOf(s) = {} THEN "refresh" ELSE "recover"
  <2>1. checker' = [checker EXCEPT ![s].jobs = JobsOf(s), ![s].pc = pc]
    BY <1>3 DEF ReadJobs, JobsRead
  <2>2. pc \in {"refresh", "recover"} /\ (pc = "refresh" => JobsOf(s) = {})
    OBVIOUS
  <2> HIDE DEF pc
  <2>3. /\ \A x \in Syncers \ {s} : checker'[x] = checker[x]
        /\ checker'[s].jobs = JobsOf(s) /\ checker'[s].pc = pc
    BY <1>1, <2>1 DEF Checkers
  <2>4. JobsOf(s)' = JobsOf(s)
    BY <1>3 DEF ReadJobs, JobsOf
  <2>5. Knows(s)'
    BY <2>2, <2>3, <2>4 DEF Knows
  <2> QED
    BY <1>3, <2>3, <2>5, KnownInvStep DEF ReadJobs
<1>4. CASE Recover(s)
  <2>1. /\ checker'[s].pc = "refresh" /\ \A x \in Syncers \ {s} : checker'[x] = checker[x]
        /\ checker[s].pc = "recover"
        /\ running' = [running EXCEPT ![s] = @ \cup checker[s].jobs]
    BY <1>1, <1>4 DEF Recover, Goto, Checkers, At
  <2>2. Knows(s)'
    BY <1>1, <1>4, <2>1 DEF Recover, Knows, JobsOf
  <2> QED
    BY <1>1, <1>4, <2>1, <2>2, KnownInvStep DEF Recover
<1>5. CASE RecoverFails(s)
  <2>1. /\ \A x \in Syncers \ {s} : checker'[x] = checker[x]
        /\ checker'[s].pc \in {"start", "refresh"} /\ s \in missed'
    BY <1>1, <1>5 DEF RecoverFails, Fail, NewCheck, NewChecker
  <2>2. Knows(s)'
    BY <2>1 DEF Knows
  <2> QED
    BY <1>5, <2>1, <2>2, KnownInvStep DEF RecoverFails
<1> QED
  BY <1>2, <1>3, <1>4, <1>5

\* A dispatch gives jobs only to those whose stamp it makes old.
LEMMA CommitKeepsKnown ==
    ASSUME KnownInv, TypeOK', NEW s \in Syncers, NEW receivers, At(s, "rebalance"),
           Commit(s, receivers),
           \A j \in Jobs : owner'[j] \in receivers \/ owner'[j] = owner[j]
    PROVE  KnownInv'
<1>1. /\ checker'[s].pc = "refresh" /\ checker[s].pc = "rebalance"
      /\ \A x \in Syncers \ {s} : checker'[x] = checker[x]
  BY DEF KnownInv, TypeOK, Commit, Goto, Checkers, At
<1>2. \A x \in Syncers : NothingNew(x)
  BY DEF Commit, NothingNew
<1>3. Busy(s) /\ \A x \in Syncers \ {s} : Rests(x)
  BY <1>1, <1>2 DEF Busy, Rests
<1> QED
  BY <1>3, KnowledgeKept, KnownInvStep DEF KnownInv

\* Each action keeps KnownInv.
LEMMA KnownInvInductive == KnownInv /\ [Next]_vars => KnownInv'
<1> SUFFICES ASSUME KnownInv, [Next]_vars
             PROVE  KnownInv'
  OBVIOUS
<1>1. TypeOK /\ TypeOK'
  BY StepTypeOK DEF KnownInv
<1>2. CASE UNCHANGED vars
  BY <1>1, <1>2 DEF KnownInv, Knows, JobsOf, vars, storage, stamps
<1>3. ASSUME NEW s \in Syncers, RebalanceNothing(s)
      PROVE  KnownInv'
  BY <1>1, <1>3, CommitKeepsKnown DEF RebalanceNothing
<1>4. ASSUME NEW s \in Syncers, Rebalance(s)
      PROVE  KnownInv'
  BY <1>1, <1>4, CommitKeepsKnown, RebalanceGives DEF Rebalance, CanShare
<1>5. ASSUME NEW s \in Syncers, Die(s), UNCHANGED storage
      PROVE  KnownInv'
  <2>1. s \notin synced' /\ \A x \in Syncers \ {s} : Rests(x)
    BY <1>1, <1>5 DEF Die, Rests, NothingNew, storage, TypeOK
  <2> QED
    BY <1>1, <2>1, OldStamp, KnownInvStep
<1>6. ASSUME NEW s \in Syncers, RebalanceFails(s)
      PROVE  KnownInv'
  <2>1. CASE Die(s)
    BY <1>5, <1>6, <2>1 DEF RebalanceFails
  <2>2. CASE Fail(s) /\ UNCHANGED <<synced, running, missed>>
    <3>1. /\ \A x \in Syncers \ {s} : checker'[x] = checker[x]
          /\ checker'[s].pc \in {"start", "refresh"} /\ checker[s].pc = "rebalance"
      BY <1>1, <1>6, <2>2 DEF RebalanceFails, Fail, NewCheck, NewChecker, TypeOK, At
    <3>2. Busy(s) /\ \A x \in Syncers \ {s} : Rests(x)
      BY <1>6, <2>2, <3>1 DEF RebalanceFails, Busy, Rests, NothingNew, storage
    <3> QED
      BY <1>1, <3>2, KnowledgeKept, KnownInvStep DEF KnownInv
  <2> QED
    BY <1>6, <2>1, <2>2 DEF RebalanceFails
<1>7. ASSUME NEW s \in Syncers, Crash(s)
      PROVE  KnownInv'
  BY <1>5, <1>7 DEF Crash
<1>8. ASSUME NEW s \in Syncers, TurnLate(s)
      PROVE  KnownInv'
  BY <1>1, <1>8 DEF KnownInv, Knows, JobsOf, TurnLate, storage
<1>9. ASSUME NEW s \in Syncers, NEW j \in Jobs, AddJob(s, j)
      PROVE  KnownInv'
  BY <1>1, <1>9 DEF KnownInv, Knows, JobsOf, AddJob, stamps, TypeOK
<1>10. ASSUME NEW s \in Syncers, NEW j \in Jobs, RemoveJob(s, j)
       PROVE  KnownInv'
  BY <1>1, <1>10, ClusterAssumption DEF KnownInv, Knows, JobsOf, RemoveJob, stamps, TypeOK
<1> QED
  BY <1>1, <1>2, <1>3, <1>4, <1>6, <1>7, <1>8, <1>9, <1>10, CheckerKeepsKnown, UpdateKeepsKnown
  DEF Next, CheckerStep

\* At the start no checker has read a stamp.
LEMMA InitKnownInv == Init => KnownInv
BY InitTypeOK DEF Init, KnownInv, Knows

\* No assignment is lost: a checker that thinks it knows its row runs all its jobs, wherever a
\* dispatch comes between its reads of stamp and jobs, its Recover and its refresh.
THEOREM ClusterAssignedJobsKnown == Spec => []AssignedJobsKnown
<1>1. KnownInv => AssignedJobsKnown
  BY DEF KnownInv, Knows, AssignedJobsKnown, TypeOK
<1> QED
  BY <1>1, InitKnownInv, KnownInvInductive, PTL DEF Spec
=============================================================================
