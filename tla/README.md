# A verification of the CCR syncer

The syncer replicates a database or a table of a *source* Doris cluster to a *target* cluster.
A job first takes a snapshot of the source and restores it at the target (full sync), then reads
the binlogs of the source one after another and replays them at the target (incremental sync).
Snapshots of single tables (partial sync) are taken on the way when a binlog cannot be replayed.
The state of a job is one progress row in a MySQL, PostgreSQL or SQLite storage. Several syncers
share the storage, watch each other's heartbeat and take over the jobs of a dead one.

This directory models that program in TLA+, checks the models with TLC and proves theorems about
them with TLAPS. Definitions carry the names of the Go code; `PROJECT.json` maps every definition
to the lines it was translated from.

    tlc -workers 2 -config PipelineCrash.cfg MCPipeline      # any run of PROJECT.json
    tlapm BinlogReplayProofs.tla                             # any module *Proofs

## 1. The system

| part | state it keeps | operations | how it meets the others |
|---|---|---|---|
| job progress (`pkg/ccr/job_progress.go`) | sync state, sub state, `CommitSeq`, `PrevCommitSeq`, `UnknownCommitSeq`, `TableCommitSeqMap`, previous txn, persisted and in-memory data | `NextSubVolatile`, `NextSubCheckpoint`, `DoneSubCheckpoint`, `NextWithPersist`, `StartHandle`, `Done`, `Rollback`, `Persist` | written by the job goroutine, stored as one row, read back at restart |
| incremental sync, pipeline (`job_pipeline.go`, `job.go`) | the pipeline context: cached binlogs, result channel, chain of links | `pipelineSync` and its sub states; `launchTxn`, `commitTxn`, `rollbackTxn`, `handleBinlog` | reads binlogs from the source, begins and commits transactions at the target, one goroutine per ingest |
| incremental sync without the pipeline (`job.go`; `-feature_pipeline_commit=false`) | the data of one upsert, in memory and persisted; `j.Extra` | `incrementalSyncInternal`, `handleBinlogs`, `handleUpsert` and its sub states, `handleUpsertWithRetry`, `lockBinlog` | the same, one transaction at a time, with its ingest job in the foreground |
| full and partial sync (`job.go`, `snapshot_job.go`) | sub state, snapshot name, restore name, table maps | create, wait for, fetch, restore, wait for and persist a snapshot | takes permits of the limiter; sets the commit seqs incremental sync starts from |
| limiter (`backup_restore_limiter.go`) | permits per cluster | acquire, release, observe | called by full sync |
| job manager and lifecycle (`job_manager.go`, `job.go`) | map of jobs, per job: state, deleted flag, stop and interrupt channels | add, recover, remove, pause, resume, start, stop, skip | called by the HTTP service and the checker, owns a goroutine per job |
| ingest binlog job (`ingest_binlog_job.go`, `pkg/rpc/concurrency.go`) | task per tablet and replica, commit infos; a window per backend | prepare, ingest, collect; acquire and release a window | run by the ingest goroutines of the pipeline and by `handleUpsert`; the windows are shared by all jobs |
| checker and storage (`checker.go`, `pkg/storage`) | rows: jobs and their owner, progress, syncers and their timestamps | heartbeat, find dead syncers, take over, rebalance | every syncer runs one checker against the shared storage |
| HTTP service (`pkg/service`) | none | one request per operation of the job manager; forwards to the owner | calls the job manager |
| metadata (`meta.go`, `thrift_meta.go`), SQL (`base/spec.go`), RPC clients (`pkg/rpc`) | caches | lookups, statements, calls with redirect and retry | used by the job |
| DDL handlers (`handle/`, `record/`, `job_handle.go`) | none of their own; `TableMapping` of the progress | one handler per binlog type | called by `handleBinlog`; SQL at the target, or a snapshot |

What makes the code hard: a crash between an effect at the target and the stored progress; calls
whose answer is lost; ingest goroutines that end in any order while results must be committed in
log order; a pipeline context that outlives errors and snapshots; seqs of snapshots that differ
per table; names that a binlog, a snapshot and the target know from different moments; requests that arrive in the middle of all that; several syncers that write the same
rows. The complete list, with the line where each bites and the properties that watch it, is
`hazards` in `PROJECT.json`.
## 2. Incremental sync: `JobProgress`, `Pipeline`, `BinlogReplay`

**`JobProgress`** is the progress record; its operators are the methods of `JobProgress` and take
and return the record. `Persisted(p)` is what `NewJobProgressFromJson` gives back after a restart:
the fields tagged `json:"-"` are gone. An absent map entry is 0.

**`Pipeline`** is one job of a database in incremental sync, with the source cluster (a log of
binlogs; the commit seq is the index), the target cluster (transactions, and for each table the
seq its last restore covers and the binlogs applied since), the stored progress and the ingest
goroutines. An action is what `pipelineSync` does between two calls to a cluster, so that the
process can crash, and another actor can step in, wherever the outside world can tell the
difference: `CommitTxn` (the effect) and `FinishCommit` (the bookkeeping) are two actions,
`BeginTxn` and `LaunchIngestJob` as well. `pc` says between which two calls the goroutine is.

| code | actions |
|---|---|
| entry of `pipelineSync` | `EnterSync`, `LeaveOnInterrupt`, `ConsumeInterruptSignals` |
| `case Done` | `StartPartialSnapshot`, `RecoverIncrementalSync`, `SkipByFullSync`, `SkipByPartialSync`, `StartPipeline`, `HandleBinlog` and then `HandleCommittedBinlog`, `ExecuteDDL`, `ExecuteDDLLosesReply`, `HandleBinlogFails`, `HandleBySnapshot`, `FinishBinlog`, `FinishBinlogLockFails` |
| `case LaunchTransaction` | `GetNextBinlogs`, `NoMoreBinlogs`, `GetNextBinlogsFails`, `PanicOnStaleContext`, `NothingToLaunch`, `SkipUpsert`, `BeginTxn`, `BeginTxnFails`, `LaunchIngestJob`, `LaunchTriggersPartialSnapshot`, `LaunchIngestJobFails` |
| the ingest goroutine | `Ingest`, `SendResult` |
| `case CommitPipeline` | `TakeResult`, `FinishPipeline`, `LaunchMore`, `YieldPipeline` |
| `case CommitPipelineTransaction` | `CommitTxn`, `CommitTxnFails`, `FinishCommit`, `FinishCommitLockFails` |
| `case RollbackPipeline` | `StartRollback`, `RollbackTxn`, `RollbackTxnFails`, `FinishRollback` |
| full and partial sync, as one step | `FinishFullSync`, `FinishPartialSync` |
| outside | `SourceWrites`, `SourceCollects`, `TargetAborts`, `Interrupt`, `SkipBinlog`, `Crash` |

The binlog types are four classes: data (`UPSERT`), a DDL whose effect can be recognised
(`RENAME_COLUMN`), a DDL that may run twice (`TRUNCATE_TABLE`), and binlogs answered by a snapshot
(`ALTER_JOB` partial, `DUMMY` full). An upsert names one table or more, the record of a DDL one, a
`DUMMY` none (`LogAssumption`). Target table ids may equal source table ids of other tables
(`DestTableId`), because `applyTxn` looks one up in a map of the other. Faults are drawn from
`FaultKinds` out of a `budget` of `MaxFaults`, at any point the code can meet them: `crash`, `rpc`
(call without effect), `lostReply` (effect without answer), `meta` and `ddlMeta` (errors of
category Meta), `tableGone`, `abort` (the target times a transaction out), `interrupt` and the
three skip requests.

**`BinlogReplay`** is the promise: a log, tables that receive binlogs in order, and a checkpoint
that only passes what the target has. `Pipeline` implements it with
`ckpt <- disk.prevCommitSeq` (`ImplementsReplay`): every step of the machinery is a step of the
promise or a stutter, so PrevCommitSeq may be trusted by a restart. `NoLoss`, `NoGap` and `Forward` of
the promise are theorems for every instance (section 8), so they need no run of their own: what
implements the promise has them. The run `incremental` checks `NoLoss` once more, on the second
implementation (section 6).

### Runs

| run | instance | shows |
|---|---|---|
| `pipeline_crash` | 2 tables, log of 4, batches of 2, 2 transactions in flight, any 2 of crash/rpc/lostReply/abort | `TypeOK`, `RecordedTxnsResolved`, `NoPanic`, `ImplementsReplay` |
| `pipeline_snapshot` | all binlog classes, any 1 of crash/rpc/meta/ddlMeta/tableGone/interrupt/silence | `AppliedOnceUnlessLost`, `DummyMakesFullSync`, `ResultsInOrder`, `LosesOnlySilenced` |
| `pipeline_live` | log of 3, any 2 of crash/rpc/lostReply/abort/interrupt/fullsync/partialsync | `Replicated`, `TxnsSettle`, `SkipFulfilled` |
| `snapshot_replayed` | log of 3, upserts only, one lost reply | a disagreement of the code with what it says, see below |

Bounds. Four binlogs are two batches of two: a batch boundary falls inside the pipeline, a DDL can
be first or last of a batch, and a binlog can be committed, running and waiting at once with two
in flight. Two tables are needed for different snapshot seqs and colliding ids. Two faults let a
recovery be interrupted by the next fault. `MaxTxn` is above the number of transactions the
other bounds allow, so it stops nothing of interest. `pipeline_snapshot` may end in the panic of
the stale context below, so that run stops there (`CHECK_DEADLOCK FALSE`).

Fairness. `WF_vars(JobStep)`: `run()` ticks for ever on a timer and none of its steps waits for a
request. `WF_vars(WorkerStep)`: an ingest goroutine ends, because its RPCs have timeouts. Nothing is
assumed about the environment; faults are bounded by the budget, which is the meaning of "once
faults stop".

### Disagreements found

* `snapshot_replayed`: a commit takes effect but its answer is lost. `rollbackTxn` finds the
  transaction committed and calls `applyTxn`, which raises `CommitSeq` and may drop
  `TableCommitSeqMap`; the rollback to `Done` does not raise `PrevCommitSeq`, so
  `recoverIncrementalSync` goes back, and binlogs that a restored snapshot contains are applied
  again on top of it, as is the committed binlog itself. `AppliedOnceUnlessLost` says that this
  needs such a lost commit.

Seen in the code while translating it, in the model, and outside what the passing runs state (the
hazards in `PROJECT.json` name the lines):

* `beginTxn` calls `progress.Rollback()` when the target does not know the table; that makes the
  sub state `Done`, so nobody rolls back the transactions already running. `pipeline_crash` checks
  `RecordedTxnsResolved` without this fault.
* `pipelineSync` returns an error of `handleBinlog` without `resetPipeline`. With an error of
  category Meta a snapshot follows, and the assertion in `getNextBinlogs` fails when the replay
  goes on with the stale context (`PanicOnStaleContext` in `pipeline_snapshot`).
* A silent skip is only looked at for binlogs that go through `handleBinlog`: an upsert that
  somebody asked to skip is launched all the same.
* With a silent skip for a binlog not reached yet, the branch for `SkipBinlog` in `CommitPipeline`
  wins over the one that yields; the loop spins, with the job lock held, until a binlog comes.
* A crash after `BeginTxn` and before the running list is stored (`job_pipeline.go:689`) leaves a
  transaction nobody knows; only the timeout of the target ends it. `RecordedTxnsResolved` is about
  the recorded ones.
* The ingest goroutine writes `ctx.CommitInfos` while `PersistInMemoryData` marshals the list that
  holds it (`job_pipeline.go:722`): a data race, without consequence because the field is `json:"-"`.
* Upserts without related tables are consumed without a transaction and PrevCommitSeq does not
  follow them (`job_pipeline.go:302`); they are read, and skipped, once more after a restart.
* An error of category Meta makes a new snapshot out of any sub state (`job.go:4095`), also out of
  `RollbackPipeline`, whose running transactions are then forgotten.
## 3. Full and partial sync and the limiter: `SnapshotSync`

`SnapshotSync` models `fullSync` and `partialSync` of database jobs, the permits a full sync takes,
the backups that run in the source cluster and the restores that run in the target cluster. Each
job replicates a database of its own between the same two clusters, so the jobs meet in the limiter
only. A sub state is one action per outcome:

| sub state | actions |
|---|---|
| before each | `WaitForPermit`, and `TryAcquirePermit`, `ObservePermit`, `ReleasePermit` inside the others |
| `BeginCreateSnapshot` | `ReuseBackup`, `CreateSnapshot`, `CreateSnapshotLosesReply`, `CreateSnapshotFails`, `SourceIsEmpty`, `SkipDroppedTable` |
| `WaitBackupDone` | `WaitBackup`, `BackupDone`, `BackupFailed` |
| `GetSnapshotInfo` (with `AddExtraInfo`) | `GetSnapshotInfo`, `SnapshotNotExist` |
| `RestoreSnapshot` | `ReuseRestore`, `RestoreSnapshot`, `RestoreSnapshotLosesReply`, `RestoreSnapshotFails` |
| `WaitRestoreDone` | `WaitRestore`, `RestoreDone`, `RestoreFailed`, `RestoreExpired`, `SignatureNotMatched` |
| `PersistRestoreInfo` | `SwapAlias`, `ForgetAliases`, `FinishSync`, `FinishSyncFails` |
| incremental sync, as far as a snapshot can tell | `Replay`, `AskFullSync`, `AskPartialSync` |
| `run`, process | `Pause`, `PausedTick`, `Resume`, `Crash` |
| the clusters | `SourceWrites`, `DropTable`, `SourceCollects`, `BackupFinishes`, `BackupCancelled`, `BackupExpires`, `RestoreFinishes`, `RestoreMismatches`, `RestoreCancelled`, `SchemaDiffers` |

Most sub states are volatile. `disk` is the stored row and `prog` the one in memory; `Crash` makes
them equal and empties the limiter. The data of a table is the commit seq it has been copied or
replayed to (`held`); a backup copies each table at a moment of its own. `asked` is a history
variable: the last binlog of the source when a snapshot was asked for. Aliases and labels carry a
timestamp in seconds in the code; here they are as distinct as the sync ids, so two snapshots of
one job within one second are not modelled.

| run | instance | shows |
|---|---|---|
| `snapshot_sync` | 1 job, 2 tables, 2 binlogs, any 3 of crash/rpc/lostReply/meta/cancel/expire/schema/fullsync/partialsync/drop | `MapMatchesTarget`, `ReplayStartsEarlyEnough`, `BinlogsKept`, `SnapshotIsFresh`, `TargetNeverGoesBack` |
| `snapshot_limiter` | 2 jobs, 1 table, 1 permit, any 2 faults or pauses | `PermitsMatchHolders`, `SnapshotEnds` |

Bounds. Two tables give two commit seqs in one snapshot, two aliases of which one is swapped, and a
table that is dropped while another stays. Three faults are needed to ask for a second snapshot,
interrupt it and lose a reply in it. The limiter has nothing to do with tables or binlogs, so one
of each is enough; two jobs on one permit is the smallest competition, with two keys each.

Fairness: every job ticks (`WF_vars(JobStep)`), and a backup or restore that runs in a cluster
ends (`WF_vars(ClusterStep)`). A paused job is exempted from `SnapshotEnds`, and so is an empty
source database, which is what the code says ("retry later").

Seen while translating, and outside what the runs state:

* The limiter counts what the jobs remember. A restart forgets the permits, and a job whose sub
  state was volatile waits in `BeginCreateSnapshot` for a permit although its backup runs; together
  with new ones more backups than `max_backup_restore_concurrency_per_target` run at once.
* A full sync of an empty database returns without an error, so it keeps the backup permit as long
  as the database stays empty, and the other jobs of that source cluster wait. `DropTable` is not
  among the faults of `snapshot_limiter`, where `SnapshotEnds` would not hold.
* `RestoreExpired` leaves the alias tables of a finished restore in the target database.
* `handlePartialSyncTableNotFound` makes the replay drop the DROP TABLE binlog as well, so the table
  stays at the target; the FIXME at job.go:585 says so.

## 4. The jobs of a process: `JobManager`

Goroutines, locks and requests. `gors` holds the goroutines of `runJob`, each at one of the places
where another goroutine can step in; `clients` holds the requests that wait inside a lock. Two
`Job` objects can have one name, one after the other, so objects are numbered and `jobs` maps a
name to one.

| code | actions |
|---|---|
| `AddJob`, `RemoveJob`, `Recover`, `Start` of the manager | `AddJob`, `RemoveJob`, `Recover`, `StartManager` |
| `Pause`, `Resume`, `Sync`, `Desync` (read lock), `SkipBinlog`, `UpdateHostMapping` (write lock) | `RaiseInterruptSignal`, `ChangeJob`, `SendInterrupt` |
| `Run` | `RunRecovers`, `RunNew`, `FirstProgress`, `RunFails` |
| `run` | `MaybeDeleted`, `ConsumeInterruptSignals`, `ReceiveInterrupt`, `StopJob`, `Tick`, `SyncReturns` |
| `JobProgress.Persist` | `Persist` (the look at `isDeleted`), `UpdateProgress` (the upsert) |
| the deferred part of `runJob` | `Exit` |
| the process | `Crash` |

`SyncReturns` stands for all that `sync()` does with `j.lock` held. The HTTP service looks the job
up in the storage before it calls the manager; as that look is made without a lock, a request may
still find a job that another request removes meanwhile, and the guards here are those of the
manager.

| run | instance | shows |
|---|---|---|
| `job_manager` | 1 name, 2 clients, 2 objects, 3 requests, 2 of crash/dead/db | `ManagedJobs`, `InterruptsCounted`, `RequestsEnd` |
| `progress_inherited` | the same without faults | violated: `NewJobStartsAnew` |

Bounds. Names do not interact except through `jm.lock`, which the second client stands for. Two
objects are a job and its successor of the same name. Three requests are a creation and two that
race, or a creation, a removal and a second creation. The run stops when requests are used up
(`CHECK_DEADLOCK FALSE`); what must not stop is stated by `RequestsEnd`.

Fairness: each goroutine goes on, each client goes on, and `sync()` returns infinitely often if the
job ticks infinitely often (its calls have timeouts, and it looks at the interrupt signal on every
turn of its loop).

Disagreement: `progress_inherited`. `Persist` looks at `isDeleted` so that "a deleted job's
goroutine" does not overwrite "a new job's progress" (job_progress.go:438), but the look and the
upsert are two steps. `RemoveJob` between them deletes a row that the upsert then puts back. The
new job of that name is only made after the goroutine has left, so it is not overwritten: it finds
the row and goes on from it instead of beginning with a full sync.

Outside what `job_manager` states, for the reasons its properties name:

* `Delete` raises the signal but drops the message when the channel is full. If the goroutine then
  passes `maybeDeleted` before the mark, it waits in `consumeInterruptSignals` for a message that
  nobody sends, and creating the job again answers "job is being deleted" for ever. A removal that
  fails in the storage and is tried again also closes a closed channel.
* `Pause` and the like on a job whose goroutine has died: the first message fills the channel, the
  second send waits for ever with `jm.lock` held, and with it every writer of the manager.
* `Start` runs every job in the map, also those that an early request has added and run: two
  goroutines on one object. `ManagedJobs` exempts them through `RunOnce`.

## 5. The syncers that share a storage: `Cluster`

Each syncer runs a checker; the jobs table says which syncer a job belongs to. A timestamp matters
in two ways only: is it the one the checker has in `lastStamp` (`synced`), and is it older than
`CHECK_TIMEOUT` (`late`). Every statement or transaction on the storage is one action.

| code | actions |
|---|---|
| `Checker.Start` (`AddSyncer`) | `Start` |
| `handleRefresh` | `RefreshSyncer`, `StampIsOld`, `RefreshFails` |
| `handleUpdate` | `ReadStamp`, `RowIsGone`, `ReadJobs`, `ReadFails`, `Recover`, `RecoverFails` |
| `handleCheck` | `Check` |
| `handleRebalance`, `RebalanceLoad` | `Rebalance`, `RebalanceNothing`, `RebalanceFails` |
| HTTP service | `AddJob`, `RemoveJob` |
| processes, time | `Crash`, `TurnLate` |

`GetStampAndJobs` reads the jobs with `s.db` and not with its transaction, so `ReadStamp` and
`ReadJobs` are two actions. `AddedLoad` and `Firsts` are `RebalanceLoad` as a relation: `sort.Sort`
leaves open who comes first among equals, and the instance evaluates that the added loads sum to
the orphans for all loads of three syncers up to 4 (`AddedLoadsAreTheOrphans`).

| run | instance | shows |
|---|---|---|
| `cluster` | 2 syncers, 2 jobs, any owners at the start, 1 of crash/db/recover/slow, restarts at any time | `TypeOK`, `AssignedJobsKnown`, `RunnerOwns`, `OwnerRegistered`, `JobsTakenOver` |
| `rebalance_panics` | 4 syncers that own 1, 3, 0 and 0 jobs, no fault | violated: `SyncersSurvive` |

Bounds. All processes are down at the start, so the first start of each is also the restart of a
cluster that was stopped, and takeovers need no fault. Two syncers are a dead one and one
that takes its jobs, two that come up one after the other, and, once one is slow, two that evict each
other; two jobs can be split. What needs a third syncer, two of them that rebalance a dead one at the
same time, is covered by `ClusterProofs`, which proves all of the run's invariants for any finite
sets of syncers and jobs. A job is not created again after its removal. A
job that is created within the second between the start of the HTTP service and the start of the
checker is not modelled.

Fairness: the checker of a running process ticks, one whose `Start` failed tries again (main retries
it), and a row that nobody refreshes gets old.

Disagreement: `rebalance_panics`. Syncers that own 0, 1 and 3 jobs rebalance for a dead one without
jobs (as happens when a whole cluster is started and one is late): `RebalanceLoad` gives the second
a load of -1, the slice of the orphans is out of range, and the panic ends the process.

Outside what the runs state, for the reasons the properties name:

* A living syncer that is slow for longer than the timeout is evicted and goes on running its jobs
  next to the new owner; nothing fences it, and `AddSyncer` is only called in `Start`, so its row
  never comes back (`RowIsGone`) and new jobs created at it can never be taken over. Two syncers can
  evict each other. The properties hold until that (`evicted`).
* `handleUpdate` sets `lastStamp` before `Recover`; if `Recover` fails the next refresh succeeds and
  the jobs assigned meanwhile wait for the next dispatch or restart (`missed`).
* With equal loads and no orphans `RebalanceLoad` answers "There is no available syncer!", and the
  row of the dead syncer stays, to be tried again on every tick.

## 6. Incremental sync without the pipeline: `IngestBinlog`, `IncrementalSync`

**`IngestBinlog`** is the ingest job of one transaction: a goroutine per tablet
(`tabletIngestBinlogHandler.handle`), under it one per replica, which acquires the window of its
backend, asks the backend, and releases. `Acquire` and `Release` are those of `ConcurrencyWindow`:
the limit is tested again after a wake-up, `waiters` is the queue of `cond.Wait`, and `Signal` wakes
the first. The error of the job is the one of the goroutine that failed last.

**`IncrementalSync`** is `incrementalSyncInternal` with `-feature_pipeline_commit=false`, for a
database job: one upsert at a time, by the sub states of `handleUpsert`. It EXTENDS both
`BinlogReplay` and `IngestBinlog`: `log` and `dest` are the two clusters, `ckpt` the
`prev_commit_seq` of the row, so the refinement mapping is the identity, and the ingest job is the
sub state IngestBinlog, step by step. `pc` says where the job goroutine is; `attempt` which call of
`handleUpsert` it is, of those that `recoverIncrementalSync` and `handleUpsertWithRetry` make.

| code | actions |
|---|---|
| `recoverIncrementalSync`, the loop of `incrementalSyncInternal`, `handleBinlogs` | `RecoverIncrementalSync`, `EnterLoop`, `GetBinlog`, `NoMoreBinlogs`, `GetBinlogFails`, `EndOfBatch`, `HandleBinlog` |
| `case Done` | `BuildUpsert`, `SkipUpsert`, `BuildUpsertFails` |
| `case BeginTransaction` | `BeginTxn`, `BeginTxnFails`, `BeginTxnTableNotFound` |
| `case IngestBinlog`, `applyDroppedBinlogs` | `ApplyDropRollup`, `TriggerPartialSnapshot`, `PrepareFails`, `Ingest`, `IngestRuns`, `IngestEnds` |
| `case CommitTransaction` | `CommitTxn`, `CommitTxnFails`, `CommitDone` |
| `case RollbackTransaction` | `RollbackTxn`, `RollbackTxnFails` |
| handlers of DROP_ROLLUP and ALTER_JOB, behind `job_handle.go` | `HandleCommittedBinlog`, `ExecuteDropRollup`, `DropRollupNotFound`, `HandleAlterJob`, `HandleBinlogFails` |
| the end of `handleBinlog`, `lockBinlog` | `StartPartialSnapshot`, `FinishBinlog` |
| the snapshots, each as one step | `FinishFullSync`, `FinishPartialSync` |
| outside | `SourceWrites`, `TargetAborts`, `TargetReplacesTable`, `Crash` |

`Returns(p)` and `Fails(p, err)` are what the callers make of the way `handleUpsert` returns: the
three callers differ in nothing else.

| run | instance | shows |
|---|---|---|
| `incremental` | 2 tables, 3 replicas on 2 backends, a window of 1, log of 3, batches of 2, any 2 of rpc/lostReply/meta/abort/publishTimeout/tableGone/crash | `NoLoss`, `AppliedOnceUnlessRetried`, `IngestComplete`, `RollupsFollow`, `WindowRespected`, `NoLostWakeup`, `RefinesReplay`, `Replicated` |

Bounds. Two tables have different snapshot seqs and exchanged target ids; two replicas on one
backend with a window of 1 make a goroutine wait; a tablet with two replicas lets one fail while the
other goes on. A log of 3 has an upsert, a rollup dropped behind it and a schema change in any order
behind that, and a batch boundary. Two faults are a lost commit and what then goes wrong in the
rollback, or a crash in a recovery. `LockInterval` is 1, so that the source collects as early as it
ever may. `MaxTxn` (6) is above what two faults can use.

Fairness. `WF(JobAction)`: the run loop ticks on a timer. `WF(IngestAction)`: a call to a backend ends,
for its RPC has a timeout, and goroutines are scheduled. A replica's goroutine that has not been
woken is not helped by this: that it is woken is what `NoLostWakeup` says, and `Replicated` needs it.

Seen in the code while translating it, and excepted by name in the properties:

* `handleUpsertWithRetry` (`job.go:1866`–`1880`) repeats an upsert after an error of category Meta. If
  the rollback before that finds the transaction committed, which needs a commit whose answer is
  lost or a PUBLISH_TIMEOUT, the progress is already past the binlog; the second call starts at
  `Done` all the same and commits the binlog again under a new transaction. The refinement and
  `AppliedOnceUnlessRetried` hold up to that (`retried`).
* `AppliedBinlogs` is not stored: after a restart a rollup that was dropped before its turn is dropped
  again, and the handler fails until `recoverIncrementalSync` has marked the binlog as unknown, from
  where `determineBinlogState` finds it done (`DropRollupNotFound`).

## 7. Which table is the copy: `TableNames`

The source identifies a table by its id, SQL at the target by its name, and a binlog has the names of
the moment it was written, a snapshot those of the moment it was taken. `TableNames` is the handlers
of CREATE, DROP, RENAME, REPLACE, RECOVER_INFO and finished ALTER_JOB, `TableMapping`, and the
parts of full and partial sync that look at names. A target table has a name and the upserts
whose rows it holds; `names` has the source's names after every binlog, so that a snapshot can be
ahead of the log.

| code | actions |
|---|---|
| `job_handle.go`, `determineBinlogState` | `StartHandle`, `SkipBinlog`, `SnapshotUnknownReplace`, `Recover`, `FinishBinlog` |
| `handleUpsert`, `GetDestTableIdBySrc` | `HandleUpsert` |
| `handle/create_table.go`, `drop_table.go`, `replace_table.go`, `recover_info.go`, `alter_job_v2.go`; `handleRenameTable` | `CreateTable`, `CreateExistingTable`, `DropTable`, `DropUnknownTable`, `RenameTable`, `ReplaceSkipped`, `ReplaceBySnapshot`, `ReplaceTable`, `RestoreChangedTable`, `StatementFails` |
| full sync | `BackupAll`, `RestoreAll` |
| partial sync | `BackupTable`, `BackupIdNotMatch`, `BackupTableNotFound`, `RestoreTable` |
| outside | `SourceWrites`, `FullSyncAsked`, `HandleFails`, `Crash` |

Simplifications: an upsert is one step and a snapshot is taken at one commit seq (`IncrementalSync`,
`Pipeline` and `SnapshotSync` have their steps); `TableNameMapping` is left out, because only the full
sync that wrote it reads it. Views, materialized views, the check of table signatures and recovered
partitions are not modelled.

| run | instance | shows |
|---|---|---|
| `table_names` | 3 source tables compete for 2 names, all logs of 4, 1 of rpc/lostReply/crash/fullsync | `OneSource`: a copy has rows of its own source table only; `Mirror`: a job that has handled the whole log has every source table at the target, under its name, with all its rows and no others |

Bounds. A third table for two names is needed to create a table under a name just freed; four binlogs
are a schema change, a drop and a rename while the job lags, and a write behind them, and are enough
for each of the four cases below. Random simulation of logs of 9 with 3 names and 3 faults found no
violation either. Deadlock is not checked: the log is bounded, and the target may refuse a statement
for ever.

The code does not keep these two promises always. The history variable `strayed` says when it does
not: it becomes TRUE in one of four situations, and FALSE with the next full sync, which rebuilds
the mapping; the properties hold whenever it is FALSE, and fail if one of the first three is left out.

* `GivesUp`. `handlePartialSyncTableNotFound` (`job.go:569`–`590`, under a FIXME) sets the commit seq
  of a dropped table to MaxInt64. The comment in `handle/drop_table.go:31`–`33` says that the DROP
  then deletes the entry, but the generic handler (`job_handle.go:61`–`72`) filters the DROP, as it does
  every binlog up to that seq. So the target table is never dropped, the entry stays, and the
  job never leaves DBTablesIncrementalSync. If the table is recovered, its RECOVER_INFO and all
  later binlogs are filtered too.
* `ReplacesAnother`. While the job lags: a schema change of t1, DROP of t2 under the name Y, RENAME of
  t1 to Y. The partial snapshot of t1 is restored as Y, in place of the copy of t2. What the log has of
  t2 until its DROP finds no table; when the mapping of t2 is deleted for that, the lookup falls back
  to the name that t2 has at the source *now* (`job.go:1703`), which may be another copy's.
  Then the DROP of t2 drops Y, by name and with FORCE: the copy of t1, without any fault.
* `NamesAnother`. `determineBinlogState` answers, its comment says (`job.go:3590`), whether a binlog is
  committed, but `isRenameTableCommitted` (`job.go:3448`) only looks whether a table has the new
  name: if that is another table, a RENAME that failed is taken for committed. The statements
  themselves, DROP, RENAME and REPLACE, never name another's copy unless one of these four came
  before: the proof shows it (section 8).
* `FiltersHalf`. A REPLACE whose origin table was restored by a later snapshot (it was recovered in the
  meantime) is filtered by the generic handler, although the table that takes its name is not synced.
  The branch of `handle/replace_table.go:58`–`61` for this case is never reached.

## 8. Proofs

`BinlogReplayProofs` proves, for any set of tables, any set of binlogs and logs of any length, the
four properties of `BinlogReplay`: `ReplayTypeOK`, `ReplayNoLoss`, `ReplayNoGap`, `ReplayForward`.
`NoLoss` is inductive with the type invariant: a write adds a binlog above the checkpoint, a replay
only adds to what a table holds, and the guards of `Checkpoint` and `Restore` are what the step to a
higher checkpoint needs. `NoGap` needs more: a replay may repeat a binlog, so the order of
`applied` is not increasing; the step of `Replay` uses that everything earlier is covered, by the
restore or by an element of `applied`.

`SnapshotSyncProofs` proves `PermitsCounted`: the limiter counts the holders, for any finite set of
jobs, any limit and any faults, assuming only `LimiterAssumption` (the jobs are finitely many and
`Nil` is no key). The inductive invariant adds the types of `permits` and `permitKey`. The argument:
a step does one of three things to the limiter for one job (`PermitStep`: nothing, `ReleasePermit`,
`Hold`), which `StepIsPermitStep` shows action by action, or it is `Crash`, which forgets all
(`EmptyLimiter`). `ReleasedCounts` says that what a release leaves is the number of the *other*
holders of each key, from which `PermitStepKeepsCount` follows. `Release` clamps the counter at 0;
because the count is exact the clamp never swallows a permit.

`SnapshotSyncProofs` also proves the other properties of `SnapshotSync`, for any sets of jobs and
tables and any number of faults, assuming only `LimiterAssumption` and `SnapshotAssumption`: the
types (`SnapshotTypes`), the invariants `MapMatchesTarget`, `ReplayStartsEarlyEnough` and
`BinlogsKept`, and the action properties `TargetNeverGoesBack` and `SnapshotIsFresh`. The jobs share
nothing but the limiter, so the inductive invariant `SnapshotInv` is `Good` for each job: a relation of
its source, its backups and restores, its target, its progress, the row of the progress and the
commit seq at which it asked for the snapshot. None of the properties is inductive; what they need is
where the sync stands when a crash takes it back:

- the volatile progress adds to the row only a position within one stored sub state, and the backup
  or restore it waits for is of this sync (`VolatileOK`);
- of the backups of this sync one at most is not cancelled, it is not older than the request, and
  while a full sync runs what is locked covers it (`BackupsOK`);
- one restore runs at a time, it is the newest, and what it will bring is not older than what the
  target holds (`RestoresOK`), so that the end of a restore of an earlier sync does no harm;
- until the sync is over, a table of the target is not newer than the request, or is what the snapshot
  of this sync holds (`TargetOK`); this makes the next snapshot the newer one;
- with the row at `PersistRestoreInfo`, a table is at the commit seq of the map or an alias of this sync
  is, which then takes its place (`MapOK`).

The proof has two layers. The lemmas `...IsGood` say of the values of one job that what a call makes of
them is good; the lemmas `...Moves` say that each action makes such values. `JobMoves` is what all actions
of a job come to, and `MovesKeepJobs` carries it to the invariant. The proof went beyond the run in one
place: the restore of a dropped table may still run when `SkipDroppedTable` has put the job back to the
incremental sync, and may end during any later sync. It takes more faults to see it than the run
has. `RestoreOK` says of such a restore that it holds no table the source still has, but the one
of a partial sync, so the properties hold all the same.

`ClusterProofs` proves the type invariant (`ClusterTypeOK`) and the three safety invariants of
`Cluster` for any finite sets of syncers and jobs, any initial owners and any faults, assuming only
`ClusterAssumption`. There are two inductive invariants, each with the type invariant:

- `KnownInv` gives `ClusterAssignedJobsKnown`. It is `Knows(s)` for each syncer: besides the
  invariant itself it says, also after a failed `Recover`, that a checker on its way to `Recover`
  has read every job of its own that it does not run yet. A step of one syncer leaves the others at
  rest (`Rests`) or gives them jobs and makes their stamp old; the steps of the checker itself are
  either outside of handleUpdate (`Busy`) or the four of `UpdateKeepsKnown`.
- `OwnerInv` gives `ClusterRunnerOwns` and `ClusterOwnerRegistered`. They need three more facts: a
  process that is down runs nothing (`DeadRunNothing`); a syncer that runs has its row
  (`UpRegistered`), for only a rebalance removes one; what a checker has read is still its own at
  `Recover` (`ReadJobsOwned`), or was removed and then `Recover` fails. `CommitKeepsOwners` is the
  heart of it: a rebalance takes jobs from dead syncers only, so either one of them runs, and is
  evicted, or nobody who runs has lost a job.

What the proofs of a rebalance use of the arithmetic of `RebalanceLoad` is only that orphans go to
receivers and that receivers have a row: how many each gets, and the panic, is for TLC.

`IncrementalSyncProofs` proves of `IngestBinlog` `BackendsNotOverrun` and `WaitersWoken`, for any finite set of replicas, any
flag above 0 and any failing calls (`WindowAssumption`). The inductive invariant `WindowInv` adds to
the two properties the types, that the waiters of a window are distinct goroutines of its backend
which do wait (`WaitersWait`), and that a handler that is done has no goroutine left
(`TasksMatchHandlers`): without the first a wake-up could go to a goroutine that is in a call,
without the second a new job would start goroutines over running ones. The step that needs care is
`Release`: it makes room for one and wakes one, so what is in a call or on its way to one stays
enough to fill the window, also when a newcomer overtakes the woken goroutine.

It then proves that `IncrementalSync` implements `IngestBinlog` (`ImplementsIngest`:
`IncSpec => IngestSpec`), for every value of the constants. The invariant it needs is `IngestQuiet`: the
goroutines of a job are done whenever the job goroutine is not waiting for them. Every action of the
job leaves the ingest variables alone (`LeavesIngestAlone`), is a step of the ingest job, or starts
one where none runs.
`WindowsHoldInSync` follows: the windows hold through every retry, rollback, snapshot and restart of
the incremental sync.

It also proves what `IncrementalSync` says of the log and the target, for any tables, binlogs, batch
sizes, lock intervals, faults and bounds: the types (`IncTypes`), `NoLoss` (`SyncLosesNothing`),
`AppliedOnceUnlessRetried` (`NotAppliedAgain`), `IngestComplete` (`CommittedIsComplete`),
`RollupsFollow` (`RollupsAreGone`), and that it implements `BinlogReplay` up to the retry of
`handleUpsertWithRetry` (`ImplementsReplay`: `IncSpec => RefinesReplay`). All follow from one inductive
invariant, `IncInv`. `NoLoss` is about the row only, and a restart makes the row the progress; so
`IncInv` says the same of both (`ProgressOK`), in terms of what the target has:

- `Seen` is what of the log the job can rely on: all of it, or what there was when a snapshot was asked
  for. `TargetInv` has everything up to the checkpoint at the target, and nothing beyond `Seen`.
- `TxnOK` says of a txn under way that what is before its binlog is at the target, and the binlog itself
  for the tables that are left out of the txn; that the txn of the target is this one; and before the
  commit that no index is left out which the target still has. Then a commit, when it takes effect,
  whether or not its answer arrives, is a `Replay`, and the row may pass the binlog afterwards.
- `OnceOK` says that without a retry nothing is applied above the checkpoint but by the txn that the
  progress names, and then that txn is committed: its rollback finds it, so the binlog is not
  applied again.
- `RowFollows`: from the begin of a txn to its end the row is that of the same txn.
- `PlaceOK` says what is passed where the job goroutine stands: the binlog of the batch is the
  next one, which `GetBinlog` relies on when `BINLOG_TOO_OLD` makes it start at the binlog the job has
  locked; an upsert that runs through `recoverIncrementalSync` or the retry is in its txn.
- `IngestTracks`: while no goroutine has failed, the job has the infos of exactly the tablets that are
  done, all of them of the tables of the txn (`IngestComplete`).

The proof has a lemma for each action (`...Keeps`). Most steps apply nothing to the target, and for
those `Quiet` and the lemmas around it reduce the invariant to the progress they leave; the others are
the commit (`Commits`) and the end of a snapshot (`SnapshotEnds`). `ReplayStep` then maps every step: a
commit is `Replay`, or, after a retry, `ReplayBehind`; the end of a snapshot is `Restore`; a write is
`Write`; any other step leaves the two clusters alone and stores the old checkpoint or the commit
seq of the progress (`CheckpointMoves`), which the invariant of the next state makes a `Checkpoint`.
The assumptions are `IncrementalAssumption`, `BinlogAssumption` (a rollup and a schema change are of one
table, a DROP_ROLLUP writes no rows, there is a table and the log is not empty when the sync starts),
`TxnAssumption` and `TabletAssumption` (`Nil` is no txn, a tablet is of one table) and
`WindowAssumption`.

`JobManagerProofs` proves the type invariant (`TypesHold`) and both safety invariants of `JobManager`
(`OneGoroutineManagesAJob`, `EveryInterruptIsSent`), for any names, any finite set of concurrent
requests and any bounds and faults (`ManagerAssumption`). The inductive invariant `ManagerInv` adds
`JobsNamed` (what the map, the goroutines, the requests and the rows name exists) and `SignalsSent`,
which says of a deleted job that it has *at least* as many signals as messages, since `Delete` may
drop its message; without it the counter could go below 0 in `ReceiveInterrupt`. The step that
matters is `Exit`, which takes a job out of the map by its *name*: another live goroutine of the
name would be the one of the map, hence the same object, hence the same goroutine (`RunOnce`). That
the last object of a row exists (`LastOf`, a `Max`) is the least-number principle, taken from
`WellFoundedInduction`, because the induction theorems cannot be instantiated.

`PipelineProofs` proves of `Pipeline`, for any tables, binlogs, batch sizes, faults and bounds, the types
(`PipelineTypes`), `ResultsInOrder` (`PipelineResultsInOrder`), and, where no fault of category Meta
and no missing table makes the code drop its list of txns (`ForgettingFaults`),
`RecordedTxnsResolved` (`PipelineTxnsResolved`). The assumptions are `LogAssumption` (a log is not
empty, there is a table) and `ContextAssumption` (`Nil` is no context). The inductive invariant is in
strata, each of which uses those below it:

- `Shape` says more than the types: every commit seq is within the log and every txn among those
  begun; where the goroutine stands in each sub state (`Control`); and that the stored progress follows
  the one in memory in all fields but those a rollback changes before it stores them (`DiskFollows`).
- `Ordered` says of a context how its goroutines, the results they sent and the txns the job lists line
  up: the goroutines are a chain of links from the one whose signal is due, the results on the
  channel are of the first running txns, and the others belong to goroutines in the order of the
  chain. So a result that arrives is that of the oldest running txn, which `TakeResult` relies
  on without looking.
- `Resolved` says that an open txn is listed in the stored progress; that the txn under way is between its
  begin and the list at one program point only; and that a rollback has dealt with what is below its
  cursor. `CommitTookEffect` says what a commit whose answer has arrived has left at the target.

Between the strata stand the lemmas `...Effect`: what an action does to the variables a stratum is
about, so that the next one need not expand it again.

`PipelineReplayProofs` goes on from there to what `Pipeline` promises of the target: `LosesOnlySilenced`
(`PipelineLosesOnlySilenced`), `DummyMakesFullSync` (`PipelineDummyMakesFullSync`), `NoPanic` where no DDL
handler fails with an error of category Meta (`PipelineNoPanic`; with one it can fail, section 3), and, where no
user skips a binlog by silence, that `Pipeline` implements `BinlogReplay` (`PipelineImplementsReplay`).
Its strata:

- `Positions` (`PipelinePositions`) orders the marks: what is collected is locked, what is locked is passed by
  the checkpoint (`Marks`); the row of the storage says what the memory says (`RowState`); a snapshot asked
  for is not older than anything at the target (`Fresh`); a context is not behind the checkpoint
  (`Ahead`), which is the assertion of `getNextBinlogs`; the running txns are those of rising binlogs
  after the context's start and are not committed, but for the one whose answer is taken (`Listing`); a
  txn that is committed and still listed is of a binlog after the checkpoint (`Above`).
- `Passed` (`PipelinePassed`) says that what the job takes for done is at the target or in a running
  txn: what the map of table commit seqs leaves out (`FiltersHold`), what a rollback finds committed
  (`CommitsPassed`), what the context has consumed (`Consumed`), what a partial snapshot does not
  bring (`PartialMissing`). `PassedNow` makes the two properties of the checkpoint of it: a step that
  moves `disk.prevCommitSeq` is the end of a binlog, the end of a commit, a rollback that finds its
  txn committed, or the end of a snapshot.
- The refinement needs two facts more: the target has all that the checkpoint has passed (`Synced`, where
  nothing is silent), and a txn is launched for tables of its binlog (`Subsets`). Then each action is a
  step of `BinlogReplay` or leaves its variables alone (`...Replays`): a commit and a DDL are `Replay`,
  the end of a snapshot is `Restore`, a move of the checkpoint is `Checkpoint`.
- `AppliedOnceUnlessLost` (`PipelineAppliesOnce`) is about what the target has *above* the checkpoint, which
  none of the strata before limits. `OnceHolds` does, as long as no commit is lost: a progress and its row
  name the same seqs (`RowSync`); no txn that is listed is committed, but for the one whose answer is taken
  (`Unsettled`); a table was restored to the checkpoint or to what the map says of it (`Bases`), so that
  a running txn is newer than the restore of its tables (`Newer`); the binlogs a context that is seen has
  consumed without a txn are upserts (`OnlyUpserts`), as a DDL ends the context. Then whatever was
  applied is behind the checkpoint or about to be, but for one binlog: the `RENAME_COLUMN` or `TRUNCATE_TABLE` a
  handler has applied and not recorded (`Unrecorded`). `unknownCommitSeq` names it, or the progress still stands
  at it, nothing but upserts that the target has lies between the checkpoint and it, and no txn runs; so it is the
  next binlog to be applied, and the handler either finds that it took effect or repeats a
  `TRUNCATE_TABLE` (`Caught`). A commit and a DDL therefore append a newer binlog (`CommitNewer`,
  `ExecuteNewer`).

`TableNamesProofs` proves the types (`NamesTypesHold`) and both invariants of `TableNames`
(`RowsHaveOneSource`, `CaughtUpIsMirror`), for any finite sets of source tables and names, any names at
the start, logs of any length and any faults. `NamesAssumption` says that the ids of the source tables
are numbers, that at the start no two tables have one name, and that `Nil` is none of the values. The
inductive invariant `NamesInv` is `Types`, and `TruthBefore` while `strayed` is FALSE:

- `Types` has three parts. `SourceOK`: each binlog says what became of the names, and no two tables of
  the source have one name at any time. `TargetOK`: no two tables of the target have one name. `JobOK`:
  in a handler the progress is its row, one binlog past its checkpoint; the marks are within the log,
  and a job in `DBIncrementalSync` has none for single tables. That there is a free id for every table
  of a full snapshot is a counting argument (`FreeIdsCount`, `FreeIdFacts`): each table keeps its id or
  takes one by its rank.
- `Truth` is said of the progress and of its row, since a crash makes the row the progress. `Owned`: no two
  source tables are mapped to one copy, and a copy has rows of its own table only; `OneSource` is a part
  of it. `Good`, for each source table out of a full sync, says that the copy is what the table was
  after the binlog of its own mark, or of the checkpoint if that is later (`InPlace`), or that a partial
  sync is about to restore it, or that the next binlog is in doubt and half done on it (`Half`): a DROP
  that took effect and left no table of the name, a RENAME that took effect, or any REPLACE, which
  is answered by a full sync.
- `IsCopy` asks for *all* rows only of a table that the rest of the log does not drop (`Alive`). Otherwise
  an upsert of a table that is already dropped, which the job skips, would break the induction; such a
  copy has no rows but those of its table, and goes with its DROP.

`Mirror` follows: a job that has caught up has no mark ahead of the log and nothing in doubt, so
`Good` leaves `InPlace` at the end of the log. Each action has a lemma `...Types` and a lemma
`...Truth`. Most handlers follow one pattern: the tables that the binlog is not about stay in their
places (`UntouchedInPlace`, `OthersGood`), the one it is about moves to the next binlog
(`CopyMoves`), and its owner stays the only one (`OwnedStays`, `OwnedChanges`). A handler ends in one of
two ways: its effect is kept with the new progress (`HandlerTruth`), or its answer is lost and the binlog is
in doubt (`LostTruth`); a RENAME that is found to be at the target afterwards is `CommittedRename`. The
four conditions of `strayed` appear where they are needed and nowhere else: `NamesAnother` in
`CommittedRename`, `ReplacesAnother` in `RestoreTableTruth`, `GivesUp` in `NotFoundTruth`, `FiltersHalf` in
`SkipTruth`. The lemmas of the statements (`DropTruth`, `RenameTruth`, `SwapTruth`, `ReplaceDropTruth`) need
none: as long as `Truth` holds, the name of the binlog leads to the copy of its table. `RestoreAllTruth`
needs none of them, nor `TruthBefore`: what a full sync leaves is right whatever misled the job before.

Every safety property that a passing run checks is a theorem. Only model-checked, because out of
the prover's reach, are the liveness properties (`Replicated` of `Pipeline` and of `IncrementalSync`,
`TxnsSettle`, `SkipFulfilled`, `SnapshotEnds`, `RequestsEnd`, `JobsTakenOver`) and what a recursive
function or a fold computes for every input (the sums of `Cluster`).
## 9. Not modelled, and the plan

Done: `JobProgress`, `Pipeline`, `BinlogReplay`, `SnapshotSync`, `JobManager`, `Cluster`,
`IngestBinlog`, `IncrementalSync`, `TableNames`, and the proofs above. Next, in this order:

1. Table jobs (`TableFullSync`, `TableIncrementalSync`), and transactions with sub transactions.
2. BARRIER and the remaining handlers of `handle/` and `record/`: columns, partitions, views,
   properties, comments. `Pipeline` has them as its four classes of binlogs; what one of them
   does to the target beyond that is a statement of its own.

Not modelled, and why:

* The frontend RPC (`pkg/rpc/fe.go`): a redirect to the master and the retry on other frontends happen
  inside one call. Its callers see an answer, an error, or an error after the effect, and these
  are the faults `rpc` and `lostReply` of the models.
* The metadata caches (`meta.go`, `thrift_meta.go`): what a stale entry does to the job is in the models
  (`tableGone`, `stale`, `GetDestTableIdBySrc`); the lookups themselves keep no promise beyond a
  map.
* Generated code (`pkg/rpc/kitex_gen`, `pkg/rpc/thrift`), which is nearly all of the lines of
  Go in the repository: encoders and decoders of messages.
* Formatting of SQL and JSON, error texts, metrics, command line tools and dashboards: they keep no
  state a property could be about.
