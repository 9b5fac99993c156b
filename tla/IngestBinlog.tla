---------------------------- MODULE IngestBinlog ----------------------------
(***************************************************************************)
(* The ingest job of one transaction: pkg/ccr/ingest_binlog_job.go, and    *)
(* the window that bounds the calls to a backend (pkg/rpc/concurrency.go). *)
(*                                                                         *)
(* runTabletIngestJobs starts a goroutine for every tablet of the txn; its *)
(* handler starts one for every replica of the tablet, waits for them, and *)
(* gives the job the commit infos of those that succeeded.  The goroutine  *)
(* of a replica acquires the window of its backend, asks the backend to    *)
(* ingest, and releases the window.  The job has a single error, that of   *)
(* the last goroutine that failed, read when every handler is done.        *)
(***************************************************************************)
EXTENDS Integers, Sequences, FiniteSets

CONSTANTS Replicas,              \* the target's replicas r: r.tablet, r.table, r.backend
          MaxIngestConcurrency   \* flag max_ingest_concurrency_per_backend

ASSUME WindowAssumption == IsFiniteSet(Replicas) /\ MaxIngestConcurrency \in Nat \ {0}

\* A tablet is of one table.
ASSUME TabletAssumption ==
    \A r, q \in Replicas : r.tablet = q.tablet => r.table = q.table

VARIABLES handler,    \* tablet -> its tabletIngestBinlogHandler
          task,       \* replica -> its goroutine
          infos,      \* commitInfos: the replicas the job has a commit info of
          jobErr,     \* IngestBinlogJob.err
          inflights,  \* backend -> the calls its window counts
          waiters     \* backend -> the goroutines in cond.Wait, the first to be signalled first

ingestVars == <<handler, task, infos, jobErr, inflights, waiters>>

Tablets == {r.tablet : r \in Replicas}
Backends == {r.backend : r \in Replicas}
ReplicasOf(tables) == {r \in Replicas : r.table \in tables}

Tasks == {"none",     \* not started
          "start",    \* before Acquire, or woken up inside it
          "wait",     \* in cond.Wait
          "call",     \* the window is acquired and the backend is asked
          "ok", "failed"}

IngestTypeOK ==
    /\ handler \in [Tablets -> {"new", "running", "done"}]
    /\ task \in [Replicas -> Tasks]
    /\ infos \subseteq Replicas
    /\ jobErr \in {"ok", "error", "meta"}
    /\ inflights \in [Backends -> Nat]
    /\ waiters \in [Backends -> Seq(Replicas)]
-----------------------------------------------------------------------------
\* No job, and no call in flight: a new process.
NoIngest ==
    /\ handler = [b \in Tablets |-> "done"]
    /\ task = [r \in Replicas |-> "none"]
    /\ infos = {} /\ jobErr = "ok"
    /\ inflights = [b \in Backends |-> 0] /\ waiters = [b \in Backends |-> <<>>]

\* The process stops, and with it every goroutine and every window.
StopIngest ==
    /\ handler' = [b \in Tablets |-> "done"]
    /\ task' = [r \in Replicas |-> "none"]
    /\ infos' = {} /\ jobErr' = "ok"
    /\ inflights' = [b \in Backends |-> 0] /\ waiters' = [b \in Backends |-> <<>>]

\* runTabletIngestJobs for a txn on these tables.  The windows are those of the earlier jobs.
StartIngest(tables) ==
    /\ handler' = [b \in Tablets |->
                      IF \E r \in ReplicasOf(tables) : r.tablet = b THEN "new" ELSE "done"]
    /\ task' = [r \in Replicas |-> "none"]
    /\ infos' = {} /\ jobErr' = "ok"
    /\ UNCHANGED <<inflights, waiters>>

TasksOf(b) == {r \in Replicas : r.tablet = b}

\* The scan of the replicas launches a goroutine for each of these.
Launch(rs) == task' = [r \in Replicas |-> IF r \in rs THEN "start" ELSE task[r]]

\* tabletIngestBinlogHandler.handle
Handle(b) ==
    /\ handler[b] = "new"
    /\ Launch(TasksOf(b)) /\ handler' = [handler EXCEPT ![b] = "running"]
    /\ UNCHANGED <<infos, jobErr, inflights, waiters>>

\* A backend that is missing (of category Meta), or has no client, ends the scan; a tablet
\* without a source replica that is new enough (Meta) launches nothing.
HandleFails(b, err) ==
    /\ handler[b] = "new"
    /\ \E rs \in SUBSET TasksOf(b) \ {TasksOf(b)} : Launch(rs)
    /\ handler' = [handler EXCEPT ![b] = "running"]
    /\ jobErr' = err
    /\ UNCHANGED <<infos, inflights, waiters>>

\* Acquire that tests the limit after it counted the call: the window is one too wide.
AcquireOneMore(r) ==
    /\ task[r] = "start"
    /\ IF inflights[r.backend] > MaxIngestConcurrency
       THEN /\ task' = [task EXCEPT ![r] = "wait"]
            /\ waiters' = [waiters EXCEPT ![r.backend] = Append(@, r)]
            /\ UNCHANGED inflights
       ELSE /\ task' = [task EXCEPT ![r] = "call"]
            /\ inflights' = [inflights EXCEPT ![r.backend] = @ + 1]
            /\ UNCHANGED waiters
    /\ UNCHANGED <<handler, infos, jobErr>>

\* Acquire: the test, repeated after every wake-up.
Acquire(r) ==
    /\ task[r] = "start"
    /\ IF inflights[r.backend] + 1 > MaxIngestConcurrency
       THEN /\ task' = [task EXCEPT ![r] = "wait"]
            /\ waiters' = [waiters EXCEPT ![r.backend] = Append(@, r)]
            /\ UNCHANGED inflights
       ELSE /\ task' = [task EXCEPT ![r] = "call"]
            /\ inflights' = [inflights EXCEPT ![r.backend] = @ + 1]
            /\ UNCHANGED waiters
    /\ UNCHANGED <<handler, infos, jobErr>>

\* Release that decrements and forgets the signal.
ReleaseSilently(r, result) ==
    /\ inflights' = [inflights EXCEPT ![r.backend] = @ - 1]
    /\ task' = [task EXCEPT ![r] = result]
    /\ UNCHANGED waiters

\* Release: one call less, and the first waiter is signalled.
Release(r, result) ==
    LET b == r.backend
        woken == waiters[b] # <<>>
    IN /\ inflights' = [inflights EXCEPT ![b] = @ - 1]
       /\ task' = [s \in Replicas |-> IF s = r THEN result
                                      ELSE IF woken /\ s = Head(waiters[b]) THEN "start"
                                      ELSE task[s]]
       /\ waiters' = IF woken THEN [waiters EXCEPT ![b] = Tail(@)] ELSE waiters

\* The backend has ingested the replica: its commit info is collected, the window released.
IngestReplica(r) ==
    /\ task[r] = "call"
    /\ Release(r, "ok")
    /\ UNCHANGED <<handler, infos, jobErr>>

\* The call fails, or the backend refuses.
IngestReplicaFails(r) ==
    /\ task[r] = "call"
    /\ Release(r, "failed")
    /\ jobErr' = "error"
    /\ UNCHANGED <<handler, infos>>

\* A handler that does not wait for its goroutines.
FinishHandlerEarly(b) ==
    /\ handler[b] = "running"
    /\ infos' = infos \cup {r \in TasksOf(b) : task[r] = "ok"}
    /\ handler' = [handler EXCEPT ![b] = "done"]
    /\ UNCHANGED <<task, jobErr, inflights, waiters>>

\* h.wg.Wait, and the infos of the tablet are given to the job.
FinishHandler(b) ==
    /\ handler[b] = "running"
    /\ \A r \in TasksOf(b) : task[r] \in {"none", "ok", "failed"}
    /\ infos' = infos \cup {r \in TasksOf(b) : task[r] = "ok"}
    /\ handler' = [handler EXCEPT ![b] = "done"]
    /\ UNCHANGED <<task, jobErr, inflights, waiters>>

\* j.wg.Wait
IngestDone == \A b \in Tablets : handler[b] = "done"

\* The goroutines of the job, when no call fails.
IngestStep ==
    \/ \E b \in Tablets : Handle(b) \/ FinishHandler(b)
    \/ \E r \in Replicas : Acquire(r) \/ IngestReplica(r)

IngestFault ==
    \/ \E b \in Tablets, err \in {"error", "meta"} : HandleFails(b, err)
    \/ \E r \in Replicas : IngestReplicaFails(r)

IngestNext ==
    \/ IngestStep \/ IngestFault \/ StopIngest
    \/ \E tables \in SUBSET {r.table : r \in Replicas} : IngestDone /\ StartIngest(tables)

IngestSpec == NoIngest /\ [][IngestNext]_ingestVars
-----------------------------------------------------------------------------
CallsTo(b) == {r \in Replicas : r.backend = b /\ task[r] = "call"}
Starting(b) == {r \in Replicas : r.backend = b /\ task[r] = "start"}

\* The window counts the calls to its backend, and they are never more than the flag allows,
\* although a woken goroutine competes with those that come to Acquire for the first time.
WindowRespected ==
    \A b \in Backends : /\ inflights[b] = Cardinality(CallsTo(b))
                        /\ inflights[b] <= MaxIngestConcurrency

\* No wake-up is lost: while a goroutine waits for the window of a backend, enough others are in
\* a call to it, or on their way to one, to fill the window: the last of them will wake it up.
NoLostWakeup ==
    \A b \in Backends :
        waiters[b] # <<>> => inflights[b] + Cardinality(Starting(b)) >= MaxIngestConcurrency
=============================================================================
