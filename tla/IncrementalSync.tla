-------------------------- MODULE IncrementalSync --------------------------
(***************************************************************************)
(* Incremental synchronisation of one database job without the pipeline    *)
(* (-feature_pipeline_commit=false): incrementalSyncInternal of            *)
(* pkg/ccr/job.go with the upsert state machine handleUpsert, its retry,   *)
(* the recovery of a transaction after a restart, and the ingest job of    *)
(* the transaction (IngestBinlog).                                         *)
(*                                                                         *)
(* The variables of BinlogReplay are the ones of this module: log and dest *)
(* are the two clusters, ckpt is the prev_commit_seq of the progress row.  *)
(* So the refinement mapping is the identity.                              *)
(*                                                                         *)
(* pc says where the job goroutine is: "idle" between two ticks, "loop" at *)
(* the head of the for loop of incrementalSyncInternal, "batch" at the     *)
(* head of the loop of handleBinlogs, "upsert" in handleUpsert, "ingest"   *)
(* while it waits for the ingest job, "committed" when the commit took     *)
(* effect and the progress does not say so, "ddl" in a DDL handler, and    *)
(* "handled" at the end of handleBinlog.                                   *)
(***************************************************************************)
EXTENDS BinlogReplay, IngestBinlog, FiniteSetsExt, Functions

CONSTANTS Nil,
          DestTableId,   \* target table id of a source table (may equal another source id)
          BatchSize,     \* flag binlog_batch_size
          LockInterval,  \* the 256 of lockBinlog
          InitialLogs,   \* the logs the job may find when incremental sync starts
          FaultKinds,    \* the faults this instance allows
          MaxFaults,     \* bound: how many of them
          MaxSeq,        \* bound: the length of the log
          MaxTxn         \* bound: the number of transactions

ASSUME IncrementalAssumption ==
    /\ BatchSize \in Nat \ {0} /\ LockInterval \in Nat \ {0}
    /\ MaxFaults \in Nat /\ MaxSeq \in Nat /\ MaxTxn \in Nat

Kinds == {"UPSERT",       \* data of some tables
          "DROP_ROLLUP",  \* drops the rollup of b.rollup and changes no table
          "ALTER_JOB"}    \* a finished schema change: a partial snapshot is taken

\* A rollup and a schema change are of one table; a database without tables has no full sync.
ASSUME BinlogAssumption ==
    /\ Binlogs \subseteq [kind : Kinds, tables : SUBSET Tables, rollup : Tables \cup {Nil}]
    /\ \A b \in Binlogs :
          /\ b.kind = "DROP_ROLLUP" => b.tables = {} /\ b.rollup \in Tables
          /\ b.kind # "DROP_ROLLUP" => b.rollup = Nil
          /\ b.kind = "ALTER_JOB" => \E t \in Tables : b.tables = {t}
    /\ InitialLogs \subseteq Seq(Binlogs) \ {<<>>}
    /\ Nil \notin Tables /\ Tables # {}

VARIABLES rollups,  \* the target tables that have their rollup index
          txns,     \* the transactions begun at the target, by txn id
          locked,   \* the source keeps the binlogs after this one
          asked,    \* the length of the log when the job last asked for a snapshot
          prog,     \* j.progress
          disk,     \* the progress row of the storage
          pc,
          batch,    \* the binlogs pos+1..next of the batch are not handled yet
          attempt,  \* which call of handleUpsert it is
          extra,    \* j.Extra: AppliedBinlogs, PartialSnapshotParams
          retried,  \* has handleUpsertWithRetry rolled a txn back and handled the binlog again?
          budget    \* faults left

targetVars == <<dest, rollups, txns>>
progVars == <<prog, disk, ckpt>>
incVars == <<log, dest, ckpt, rollups, txns, locked, asked, prog, disk, pc, batch, attempt, extra,
             retried, budget, handler, task, infos, jobErr, inflights, waiters>>

Method == INSTANCE JobProgress

Seqs == 0..MaxSeq

\* The inMemoryData of handleUpsert.
TxnData == [seq : Seqs, tables : SUBSET Tables, txnId : 0..MaxTxn,
            infos : SUBSET Replicas,
            skipped : SUBSET Tables]  \* tables ingested without the index the source dropped

ASSUME TxnAssumption == Nil \notin TxnData

UpsertStates == {"BeginTransaction", "IngestBinlog", "CommitTransaction", "RollbackTransaction"}

IncProgress == [syncState : Method!SyncStates,
                subSyncState : UpsertStates \cup {"Done", "BeginCreateSnapshot"},
                commitSeq : Seqs, prevCommitSeq : Seqs, unknownCommitSeq : Seqs,
                lockedCommitSeq : Seqs, tableCommitSeqMap : [Tables -> Seqs],
                prevTxnId : {-1} \cup 1..MaxTxn, partialTable : Tables \cup {Nil},
                stale : SUBSET Tables,  \* TableMapping has an id the target dropped
                persistData : TxnData \cup {Nil}, inMemoryData : TxnData \cup {Nil}]

Txns == [status : {"PREPARE", "COMMITTED", "ABORTED"}, data : TxnData]

IncTypeOK ==
    /\ log \in Seq(Binlogs) /\ Len(log) <= MaxSeq
    /\ dest \in [Tables -> [base : Seqs, applied : Seq(Seqs)]]
    /\ ckpt = disk.prevCommitSeq /\ prog.prevCommitSeq = ckpt
    /\ rollups \subseteq Tables
    /\ txns \in Seq(Txns) /\ Len(txns) <= MaxTxn
    /\ locked \in Seqs /\ asked \in Seqs
    /\ prog \in IncProgress /\ disk \in IncProgress
    /\ pc \in {"idle", "loop", "batch", "upsert", "ingest", "committed", "ddl", "handled"}
    /\ batch \in [pos : Seqs, next : Seqs]
    /\ attempt \in {"recover", "first", "rollback", "second"}
    /\ extra \in [applied : SUBSET Seqs, partialTable : Tables \cup {Nil}]
    /\ retried \in BOOLEAN /\ budget \in 0..MaxFaults
    /\ IngestTypeOK
-----------------------------------------------------------------------------
Fault(k) == k \in FaultKinds /\ budget > 0 /\ budget' = budget - 1

Goto(l) == pc' = l

\* Persist: the row of the storage, and what a restart loads from it.
Stored(p) == /\ disk' = Method!Persisted(p)
             /\ ckpt' = p.prevCommitSeq

\* A method of the progress that forgets to store it.
PersistForgets(p) == prog' = p /\ UNCHANGED <<disk, ckpt>>

Persist(p) == prog' = p /\ Stored(p)
Volatile(p) == prog' = p /\ UNCHANGED <<disk, ckpt>>

Apply(s, ts) == dest' = [t \in Tables |->
    IF t \in ts THEN [dest[t] EXCEPT !.applied = Append(@, s)] ELSE dest[t]]

\* A snapshot of table t taken at seq has its rollup unless a binlog up to seq drops it.
Restored(seqOf, ts) ==
    /\ dest' = [t \in Tables |->
           IF t \in ts THEN [base |-> seqOf[t], applied |-> <<>>] ELSE dest[t]]
    /\ rollups' = {t \in Tables : IF t \in ts THEN \A s \in 1..seqOf[t] : log[s].rollup # t
                                  ELSE t \in rollups}

NoMap == Method!NoMap

InTxn == prog.subSyncState \in UpsertStates
Data == prog.inMemoryData

\* updateInMemory: what a restart finds in PersistData.
Loaded == [prog EXCEPT !.inMemoryData =
              IF prog.inMemoryData = Nil THEN prog.persistData ELSE prog.inMemoryData]

\* DoneSubCheckpoint in the place of NextSubCheckpoint.
CheckpointDone(p, sub) == Method!DoneSubCheckpoint(p, sub, p.inMemoryData)

SubCheckpoint(p, sub) == Method!NextSubCheckpoint(p, sub, p.inMemoryData)

StartSnapshot(p, seq, syncState) ==
    [Method!NextWithPersist(p, seq, syncState, "BeginCreateSnapshot") EXCEPT !.persistData = Nil]

NewSnapshot(p) == StartSnapshot([p EXCEPT !.partialTable = Nil], p.commitSeq, "DBFullSync")

NewPartialSnapshot(p, t) ==
    StartSnapshot([p EXCEPT !.partialTable = t], p.commitSeq, "DBPartialSync")
-----------------------------------------------------------------------------
(* How a call of handleUpsert returns; p is the progress it leaves. *)

Keep(p) == IF p = prog THEN UNCHANGED progVars ELSE Persist(p)

\* Without an error: handleBinlog goes on, recoverIncrementalSync leaves the tick, and a txn
\* that handleUpsertWithRetry has rolled back is followed by the second call.
Returns(p) ==
    /\ Persist(p)
    /\ CASE attempt = "recover" -> Goto("idle") /\ UNCHANGED <<attempt, retried>>
         [] attempt = "rollback" -> /\ attempt' = "second" /\ retried' = TRUE /\ UNCHANGED pc
         [] OTHER -> Goto("handled") /\ UNCHANGED <<attempt, retried>>

\* With an error: the first call is repeated when the category is Meta, after a rollback if the
\* txn needs one.  From any other call the error reaches handleError in the run loop.
Fails(p, err) ==
    /\ IF attempt = "first" /\ err = "meta"
       THEN /\ attempt' = IF p.subSyncState = "RollbackTransaction" THEN "rollback" ELSE "second"
            /\ Keep(p) /\ Goto("upsert")
       ELSE /\ Keep(IF err = "meta" THEN NewSnapshot(p) ELSE p)
            /\ Goto("idle") /\ UNCHANGED attempt
    /\ UNCHANGED retried

\* The rollback of handleUpsert.
FailsAndRollsBack(err) == Fails(SubCheckpoint(prog, "RollbackTransaction"), err)

\* A finished txn is not looked at again: NextSubVolatile overwrites its data.
Cleared(p) == [p EXCEPT !.inMemoryData = Nil, !.persistData = Nil]

\* The loop of committed looks the *target* ids of the tables up in a map keyed by source ids.
RaiseTableCommitSeq(p) ==
    [t \in Tables |->
        LET m == p.tableCommitSeqMap
        IN IF t \in {DestTableId[u] : u \in p.inMemoryData.tables} /\ m[t] > 0 /\ m[t] < p.commitSeq
           THEN p.commitSeq ELSE m[t]]

\* committed, as one store: it stores the map first, and a restart between goes on as before.
Committed(p) ==
    Cleared(Method!Done([p EXCEPT !.prevTxnId = p.inMemoryData.txnId,
                                  !.tableCommitSeqMap = RaiseTableCommitSeq(p)]))

RolledBack(p) == Cleared(Method!Rollback(p))
-----------------------------------------------------------------------------
(* A tick of the run loop, and the loop of incrementalSyncInternal. *)

Unchanged == UNCHANGED <<targetVars, locked, batch, attempt, extra, retried, budget, ingestVars>>

\* recoverIncrementalSync: an upsert goes on with its txn, anything else starts over.
RecoverIncrementalSync ==
    /\ pc = "idle" /\ Method!IsIncrementalSync(prog) /\ ~Method!IsDone(prog)
    /\ IF InTxn
       THEN /\ Volatile(Loaded) /\ attempt' = "recover" /\ Goto("upsert")
       ELSE /\ Persist(RolledBack(prog)) /\ UNCHANGED <<pc, attempt>>
    /\ UNCHANGED <<log, targetVars, locked, batch, extra, retried, budget, ingestVars>>

EnterLoop ==
    /\ pc = "idle" /\ Method!IsIncrementalSync(prog) /\ Method!IsDone(prog)
    /\ Goto("loop") /\ UNCHANGED <<log, progVars>> /\ Unchanged

\* BINLOG_TOO_OLD is treated as OK: the source answers with what it still has, at worst the
\* binlogs after the one the job has locked.
GetBinlog ==
    /\ pc = "loop" /\ prog.commitSeq < Len(log)
    /\ LET from == Max({prog.commitSeq, locked})
       IN batch' = [pos |-> from, next |-> Min({from + BatchSize, Len(log)})]
    /\ Goto("batch")
    /\ UNCHANGED <<log, targetVars, progVars, locked, attempt, extra, retried, budget, ingestVars>>

NoPrevTxn == [prog EXCEPT !.prevTxnId = -1]

\* BINLOG_TOO_NEW: the previous txn is waited for and forgotten.
NoMoreBinlogs ==
    /\ pc = "loop" /\ prog.commitSeq >= Len(log)
    /\ IF prog.prevTxnId # -1 THEN Persist(NoPrevTxn) ELSE UNCHANGED progVars
    /\ Goto("idle")
    /\ UNCHANGED log /\ Unchanged

GetBinlogFails ==
    /\ pc = "loop" /\ Fault("rpc") /\ Goto("idle")
    /\ UNCHANGED <<log, targetVars, progVars, locked, batch, attempt, extra, retried, ingestVars>>

EndOfBatch ==
    /\ pc = "batch" /\ batch.pos = batch.next
    /\ Goto("loop") /\ UNCHANGED <<log, progVars>> /\ Unchanged

\* handleBinlogInternal: StartHandle, then the handler of the binlog's type.
HandleBinlog ==
    /\ pc = "batch" /\ batch.pos < batch.next
    /\ LET s == batch.pos + 1
       IN /\ Persist(Method!StartHandle(prog, s))
          /\ Goto(IF log[s].kind = "UPSERT" THEN "upsert" ELSE "ddl")
    /\ attempt' = "first"
    /\ UNCHANGED <<log, targetVars, locked, batch, extra, retried, budget, ingestVars>>
-----------------------------------------------------------------------------
(* handleUpsert, by the sub sync state. *)

AtUpsert(sub) == pc = "upsert" /\ prog.subSyncState = sub

Binlog == batch.pos + 1

\* The filter off by one: the first binlog after the snapshot is dropped.
RelatedTablesOffByOne(s) == {t \in log[s].tables : s > prog.tableCommitSeqMap[t] + 1}

\* getRelatedTableRecords: the records that no snapshot and no earlier try has covered.
RelatedTables(s) == {t \in log[s].tables : s > prog.tableCommitSeqMap[t]}

\* GetDestTableIdBySrc finds every table: the tables are never dropped here.
BuildUpsert ==
    /\ AtUpsert("Done") /\ RelatedTables(Binlog) # {}
    /\ Volatile(Method!NextSubVolatile(prog, "BeginTransaction",
                    [seq |-> Binlog, tables |-> RelatedTables(Binlog), txnId |-> 0,
                     infos |-> {}, skipped |-> {}]))
    /\ UNCHANGED <<log, pc>> /\ Unchanged

SkipUpsert ==
    /\ AtUpsert("Done") /\ RelatedTables(Binlog) = {}
    /\ Goto("handled")
    /\ UNCHANGED <<log, progVars>> /\ Unchanged

BuildUpsertFails ==
    /\ AtUpsert("Done") /\ RelatedTables(Binlog) # {}
    /\ \/ Fault("rpc") /\ Fails(prog, "error")
       \/ Fault("meta") /\ Fails(prog, "meta")
    /\ UNCHANGED <<log, targetVars, locked, batch, extra, ingestVars>>

Begun(p, id) == [p EXCEPT !.inMemoryData.txnId = id]
NewTxn(data) == txns' = Append(txns, [status |-> "PREPARE", data |-> data])

BeginTxn ==
    /\ AtUpsert("BeginTransaction") /\ Data.tables \cap prog.stale = {} /\ Len(txns) < MaxTxn
    /\ LET p == Begun(prog, Len(txns) + 1)
       IN NewTxn(p.inMemoryData) /\ Persist(SubCheckpoint(p, "IngestBinlog"))
    /\ UNCHANGED <<log, dest, rollups, locked, pc, batch, attempt, extra, retried, budget,
                   ingestVars>>

\* The begin may have taken effect: the label of the next try is another one.
BeginTxnFails ==
    /\ AtUpsert("BeginTransaction") /\ Data.tables \cap prog.stale = {}
    /\ Fails(prog, "error")
    /\ \/ Fault("rpc") /\ UNCHANGED txns
       \/ Fault("lostReply") /\ Len(txns) < MaxTxn /\ NewTxn(Data)
    /\ UNCHANGED <<log, dest, rollups, locked, batch, extra, ingestVars>>

\* The stale entries of TableMapping are left.
BeginTxnTableNotFoundKeeps ==
    /\ AtUpsert("BeginTransaction") /\ Data.tables \cap prog.stale # {}
    /\ Persist(RolledBack(prog)) /\ Goto("idle")
    /\ UNCHANGED log /\ UNCHANGED <<targetVars, locked, batch, attempt, extra, retried, budget,
                                    ingestVars>>

\* Table not found: the progress goes back, and the stale entries are deleted from TableMapping
\* after it was stored.
BeginTxnTableNotFound ==
    /\ AtUpsert("BeginTransaction") /\ Data.tables \cap prog.stale # {}
    /\ LET p == RolledBack(prog)
       IN prog' = [p EXCEPT !.stale = @ \ Data.tables] /\ Stored(p)
    /\ Goto("idle")
    /\ UNCHANGED log /\ UNCHANGED <<targetVars, locked, batch, attempt, extra, retried, budget,
                                    ingestVars>>

(* case IngestBinlog: applyDroppedBinlogs, then the goroutines of the ingest job. *)

\* The later binlogs that drop an index of a table of the txn at the source.
Dropping(kind) ==
    {s \in Data.seq..Len(log) : /\ log[s].kind = kind /\ s \notin extra.applied
                                /\ IF kind = "ALTER_JOB" THEN log[s].tables \cap Data.tables # {}
                                   ELSE log[s].rollup \in Data.tables}

\* IsBinlogCommitted
IsBinlogCommitted(s, t) ==
    \/ s \in extra.applied
    \/ prog.syncState = "DBTablesIncrementalSync" /\ s <= prog.tableCommitSeqMap[t]

\* The binlog is only noted as applied.
ApplyDropRollupForgets ==
    /\ AtUpsert("IngestBinlog")
    /\ \E s \in Dropping("DROP_ROLLUP") : extra' = [extra EXCEPT !.applied = @ \cup {s}]
    /\ UNCHANGED <<log, targetVars, progVars, locked, pc, batch, attempt, retried, budget,
                   ingestVars>>

\* The rollup is dropped at the target before its turn (it may be gone already).
ApplyDropRollup ==
    /\ AtUpsert("IngestBinlog")
    /\ \E s \in Dropping("DROP_ROLLUP") :
        /\ rollups' = IF IsBinlogCommitted(s, log[s].rollup) THEN rollups
                      ELSE rollups \ {log[s].rollup}
        /\ extra' = [extra EXCEPT !.applied = @ \cup {s}]
    /\ UNCHANGED <<log, dest, txns, progVars, locked, pc, batch, attempt, retried, budget,
                   ingestVars>>

\* errTriggerPartialSnapshot: the txn is rolled back, and handleBinlog takes the snapshot.
TriggerPartialSnapshot ==
    /\ AtUpsert("IngestBinlog")
    /\ \E s \in Dropping("ALTER_JOB") : \E t \in log[s].tables :
          extra' = [extra EXCEPT !.partialTable = t]
    /\ Persist(SubCheckpoint(prog, "RollbackTransaction"))
    /\ UNCHANGED <<log, targetVars, locked, pc, batch, attempt, retried, budget, ingestVars>>

\* The indexes the source has dropped are left out.
SkippedTables == {t \in Data.tables : \E s \in 1..Len(log) : log[s].rollup = t}

Ingest ==
    /\ AtUpsert("IngestBinlog")
    /\ Dropping("DROP_ROLLUP") = {} /\ Dropping("ALTER_JOB") = {}
    /\ Volatile([prog EXCEPT !.inMemoryData.skipped = SkippedTables])
    /\ StartIngest(Data.tables) /\ Goto("ingest")
    /\ UNCHANGED <<log, targetVars, locked, batch, attempt, extra, retried, budget>>

\* A step of Prepare fails.
PrepareFails ==
    /\ AtUpsert("IngestBinlog")
    /\ \/ Fault("rpc") /\ FailsAndRollsBack("error")
       \/ Fault("meta") /\ FailsAndRollsBack("meta")
    /\ UNCHANGED <<log, targetVars, locked, batch, extra, ingestVars>>

IngestRuns ==
    /\ pc = "ingest"
    /\ \/ IngestStep /\ UNCHANGED budget
       \/ \E b \in Tablets : \/ Fault("meta") /\ HandleFails(b, "meta")
                             \/ Fault("rpc") /\ HandleFails(b, "error")
       \/ \E r \in Replicas : Fault("rpc") /\ IngestReplicaFails(r)
    /\ UNCHANGED <<log, targetVars, progVars, locked, pc, batch, attempt, extra, retried>>

IngestEnds ==
    /\ pc = "ingest" /\ IngestDone
    /\ IF jobErr = "ok"
       THEN /\ Persist(SubCheckpoint([prog EXCEPT !.inMemoryData.infos = infos], "CommitTransaction"))
            /\ Goto("upsert") /\ UNCHANGED <<attempt, retried>>
       ELSE FailsAndRollsBack(jobErr)
    /\ UNCHANGED <<log, targetVars, locked, batch, extra, budget, ingestVars>>

(* case CommitTransaction *)

Txn == txns[Data.txnId]
Resolve(status) == txns' = [txns EXCEPT ![Data.txnId] = [status |-> status, data |-> Data]]

\* A second commit of a committed txn is answered with OK or with an error.
CommitTxn ==
    /\ AtUpsert("CommitTransaction")
    /\ \/ Txn.status = "PREPARE" /\ Resolve("COMMITTED") /\ Apply(Data.seq, Data.tables)
       \/ Txn.status = "COMMITTED" /\ UNCHANGED <<txns, dest>>
    /\ Goto("committed")
    /\ UNCHANGED <<log, rollups, progVars, locked, batch, attempt, extra, retried, budget,
                   ingestVars>>

\* Refused, lost, or in effect without the job learning of it.  The wait after PUBLISH_TIMEOUT
\* fails with a Meta error when the frontend it asks does not know the txn.
CommitTxnFails ==
    /\ AtUpsert("CommitTransaction")
    /\ \/ /\ Txn.status \in {"ABORTED", "COMMITTED"} /\ FailsAndRollsBack("error")
          /\ UNCHANGED <<txns, dest, budget>>
       \/ /\ Txn.status = "PREPARE" /\ Fault("rpc") /\ FailsAndRollsBack("error")
          /\ UNCHANGED <<txns, dest>>
       \/ /\ Txn.status = "PREPARE" /\ Resolve("COMMITTED") /\ Apply(Data.seq, Data.tables)
          /\ \/ Fault("lostReply") /\ FailsAndRollsBack("error")
             \/ Fault("publishTimeout") /\ FailsAndRollsBack("meta")
    /\ UNCHANGED <<log, rollups, locked, batch, extra, ingestVars>>

CommitDone ==
    /\ pc = "committed"
    /\ Returns(Committed(prog))
    /\ UNCHANGED <<log, targetVars, locked, batch, extra, budget, ingestVars>>

(* case RollbackTransaction *)

\* rollback that takes every answer for a success.
RollbackTxnForgetsCommit ==
    /\ AtUpsert("RollbackTransaction")
    /\ IF Txn.status = "PREPARE" THEN Resolve("ABORTED") ELSE UNCHANGED txns
    /\ Returns(RolledBack(prog))
    /\ UNCHANGED <<log, dest, rollups, locked, batch, extra, budget, ingestVars>>

\* The txn is found committed when the answer to its commit was lost; one that the wait after
\* PUBLISH_TIMEOUT did not find may be unknown here too.
RollbackTxn ==
    /\ AtUpsert("RollbackTransaction")
    /\ \/ /\ Txn.status \in {"PREPARE", "ABORTED"} /\ Resolve("ABORTED")
          /\ Returns(RolledBack(prog))
       \/ /\ Txn.status = "COMMITTED" /\ UNCHANGED txns
          /\ \/ Returns(Committed(prog))
             \/ attempt = "rollback" /\ Returns(RolledBack(prog))
    /\ UNCHANGED <<log, dest, rollups, locked, batch, extra, budget, ingestVars>>

RollbackTxnFails ==
    /\ AtUpsert("RollbackTransaction")
    /\ Fails(prog, "error")
    /\ \/ Fault("rpc") /\ UNCHANGED txns
       \/ Fault("lostReply") /\ Txn.status = "PREPARE" /\ Resolve("ABORTED")
    /\ UNCHANGED <<log, dest, rollups, locked, batch, extra, ingestVars>>
-----------------------------------------------------------------------------
(* The DDL handlers: every handler waits for the previous txn first. *)

Handling(kind) == pc = "ddl" /\ log[Binlog].kind = kind

DropsRollup == Handling("DROP_ROLLUP")
Rollup == log[Binlog].rollup

\* determineBinlogState for a binlog of unknown state, then the check of the generic handler.
IsAlreadyDropped ==
    \/ prog.unknownCommitSeq = prog.commitSeq /\ Rollup \notin rollups
    \/ IsBinlogCommitted(Binlog, Rollup)

HandleCommittedBinlog ==
    /\ DropsRollup /\ IsAlreadyDropped
    /\ Volatile(NoPrevTxn) /\ Goto("handled")
    /\ UNCHANGED log /\ Unchanged

ExecuteDropRollup ==
    /\ DropsRollup /\ ~IsAlreadyDropped /\ Rollup \in rollups
    /\ rollups' = rollups \ {Rollup}
    /\ \/ Goto("handled") /\ UNCHANGED budget
       \/ Fault("lostReply") /\ Goto("idle")
    /\ Volatile(NoPrevTxn)
    /\ UNCHANGED <<log, dest, txns, locked, batch, attempt, extra, retried, ingestVars>>

\* The target has no such rollup: the handler fails until the state of the binlog is unknown.
DropRollupNotFound ==
    /\ DropsRollup /\ ~IsAlreadyDropped /\ Rollup \notin rollups
    /\ Volatile(NoPrevTxn) /\ Goto("idle")
    /\ UNCHANGED log /\ Unchanged

HandleBinlogFails ==
    /\ pc = "ddl" /\ Fault("rpc") /\ Goto("idle")
    /\ UNCHANGED <<log, targetVars, progVars, locked, batch, attempt, extra, retried, ingestVars>>

AlteredTable == CHOOSE t \in Tables : t \in log[Binlog].tables

HandleAlterJob ==
    /\ Handling("ALTER_JOB")
    /\ IF IsBinlogCommitted(Binlog, AlteredTable)
       THEN Volatile(NoPrevTxn) /\ Goto("handled") /\ UNCHANGED extra
       ELSE /\ Persist(NewPartialSnapshot(NoPrevTxn, AlteredTable)) /\ Goto("idle")
            /\ extra' = [extra EXCEPT !.partialTable = Nil]
    /\ UNCHANGED <<log, targetVars, locked, batch, attempt, retried, budget, ingestVars>>
-----------------------------------------------------------------------------
(* The end of handleBinlog. *)

StartPartialSnapshot ==
    /\ pc = "handled" /\ extra.partialTable # Nil
    /\ Persist(NewPartialSnapshot(prog, extra.partialTable))
    /\ extra' = [extra EXCEPT !.partialTable = Nil]
    /\ Goto("idle")
    /\ UNCHANGED <<log, targetVars, locked, batch, attempt, retried, budget, ingestVars>>

AfterHandleBinlog(p, s) ==
    IF p.tableCommitSeqMap # NoMap /\ \A t \in Tables : p.tableCommitSeqMap[t] <= s
    THEN [p EXCEPT !.tableCommitSeqMap = NoMap, !.syncState = "DBIncrementalSync"]
    ELSE p

\* lockBinlog: only every LockInterval seqs.
LockNeeded(p) == p.lockedCommitSeq + LockInterval <= p.prevCommitSeq

Locked(p) == [p EXCEPT !.lockedCommitSeq = p.prevCommitSeq]

\* The progress is stored only if it is not done yet, without the LockedCommitSeq.
FinishBinlog ==
    /\ pc = "handled" /\ extra.partialTable = Nil
    /\ LET after == AfterHandleBinlog(prog, Binlog)
           p == IF Method!IsDone(after) THEN after ELSE Method!Done(after)
       IN /\ IF Method!IsDone(after) THEN UNCHANGED <<disk, ckpt>> ELSE Stored(p)
          /\ \/ /\ LockNeeded(p) /\ prog' = Locked(p) /\ locked' = p.prevCommitSeq
                /\ batch' = [batch EXCEPT !.pos = @ + 1] /\ Goto("batch") /\ UNCHANGED budget
             \/ /\ ~LockNeeded(p) /\ prog' = p /\ UNCHANGED locked
                /\ batch' = [batch EXCEPT !.pos = @ + 1] /\ Goto("batch") /\ UNCHANGED budget
             \/ /\ LockNeeded(p) /\ Fault("rpc") /\ prog' = p
                /\ Goto("idle") /\ UNCHANGED <<locked, batch>>
    /\ UNCHANGED <<log, targetVars, attempt, extra, retried, ingestVars>>
-----------------------------------------------------------------------------
(* The snapshots, each as one step: what fullSync and partialSync leave behind. *)

SnapshotSeqs == asked..Len(log)

FinishFullSync ==
    /\ pc = "idle" /\ prog.syncState = "DBFullSync"
    /\ \E seqs \in [Tables -> SnapshotSeqs] : \E seq \in SnapshotSeqs :
          /\ Restored(seqs, Tables)
          /\ Persist(Cleared(Method!NextWithPersist([prog EXCEPT !.tableCommitSeqMap = seqs],
                         Min(Range(seqs) \cup {seq}), "DBTablesIncrementalSync", "Done")))
    /\ UNCHANGED <<log, txns, locked, pc, batch, attempt, extra, retried, budget, ingestVars>>

FinishPartialSync ==
    /\ pc = "idle" /\ prog.syncState = "DBPartialSync"
    /\ \E seq \in SnapshotSeqs :
          LET seqs == [prog.tableCommitSeqMap EXCEPT ![prog.partialTable] = seq]
          IN /\ Restored(seqs, {prog.partialTable})
             /\ Persist(Cleared(Method!NextWithPersist([prog EXCEPT !.tableCommitSeqMap = seqs],
                            prog.commitSeq, "DBTablesIncrementalSync", "Done")))
    /\ UNCHANGED <<log, txns, locked, pc, batch, attempt, extra, retried, budget, ingestVars>>
-----------------------------------------------------------------------------
(* The environment. *)

\* A table has one rollup, dropped once.
SourceWrites ==
    /\ Len(log) < MaxSeq
    /\ \E b \in Binlogs : /\ b.rollup = Nil \/ \A s \in 1..Len(log) : log[s].rollup # b.rollup
                          /\ log' = Append(log, b)
    /\ UNCHANGED <<progVars, pc>> /\ Unchanged

TargetAborts ==
    /\ \E i \in DOMAIN txns : /\ txns[i].status = "PREPARE" /\ Fault("abort")
                              /\ txns' = [txns EXCEPT ![i].status = "ABORTED"]
    /\ UNCHANGED <<log, dest, rollups, progVars, locked, pc, batch, attempt, extra, retried,
                   ingestVars>>

\* An operator replaces a target table: the TableMapping of the job has its old id.
TargetReplacesTable ==
    /\ pc = "idle" /\ Method!IsDone(prog) /\ Fault("tableGone")
    /\ \E t \in Tables : /\ prog' = [prog EXCEPT !.stale = @ \cup {t}]
                         /\ disk' = [disk EXCEPT !.stale = @ \cup {t}]
    /\ UNCHANGED <<log, targetVars, ckpt, locked, pc, batch, attempt, extra, retried, ingestVars>>

NoExtra == [applied |-> {}, partialTable |-> Nil]
NoBatch == [pos |-> 0, next |-> 0]

\* The process stops and starts again: only the storage survives.
Crash ==
    /\ Fault("crash")
    /\ prog' = disk /\ Goto("idle") /\ batch' = NoBatch /\ extra' = NoExtra
    /\ attempt' = "first" /\ StopIngest
    /\ UNCHANGED <<log, targetVars, disk, ckpt, locked, retried>>
-----------------------------------------------------------------------------
InitialProgress(seqs) ==
    [syncState |-> "DBTablesIncrementalSync", subSyncState |-> "Done",
     commitSeq |-> Min(Range(seqs)), prevCommitSeq |-> Min(Range(seqs)), unknownCommitSeq |-> 0,
     lockedCommitSeq |-> 0, tableCommitSeqMap |-> seqs, prevTxnId |-> -1, partialTable |-> Nil,
     stale |-> {}, persistData |-> Nil, inMemoryData |-> Nil]

\* Incremental sync starts when a full sync has restored table t up to seqs[t].
IncInit ==
    /\ log \in InitialLogs /\ Len(log) <= MaxSeq
    /\ \E seqs \in [Tables -> 1..Len(log)] :
        /\ dest = [t \in Tables |-> [base |-> seqs[t], applied |-> <<>>]]
        /\ rollups = {t \in Tables : \A s \in 1..seqs[t] : log[s].rollup # t}
        /\ prog = InitialProgress(seqs) /\ disk = prog /\ ckpt = prog.prevCommitSeq
    /\ txns = <<>> /\ locked = 0 /\ asked = 1
    /\ pc = "idle" /\ batch = NoBatch /\ attempt = "first" /\ extra = NoExtra
    /\ retried = FALSE /\ budget = MaxFaults
    /\ NoIngest

UpsertStep ==
    \/ BuildUpsert \/ SkipUpsert \/ BuildUpsertFails
    \/ BeginTxn \/ BeginTxnFails \/ BeginTxnTableNotFound
    \/ ApplyDropRollup \/ TriggerPartialSnapshot \/ Ingest \/ PrepareFails \/ IngestEnds
    \/ CommitTxn \/ CommitTxnFails \/ CommitDone
    \/ RollbackTxn \/ RollbackTxnFails

JobStep ==
    \/ RecoverIncrementalSync \/ EnterLoop \/ GetBinlog \/ NoMoreBinlogs \/ GetBinlogFails
    \/ EndOfBatch \/ HandleBinlog \/ UpsertStep
    \/ HandleCommittedBinlog \/ ExecuteDropRollup \/ DropRollupNotFound \/ HandleBinlogFails
    \/ HandleAlterJob \/ StartPartialSnapshot \/ FinishBinlog
    \/ FinishFullSync \/ FinishPartialSync

\* A snapshot is asked for.
Asks == disk.subSyncState # "BeginCreateSnapshot" /\ disk'.subSyncState = "BeginCreateSnapshot"

JobAction == JobStep /\ asked' = IF Asks THEN Len(log) ELSE asked
IngestAction == IngestRuns /\ UNCHANGED asked
Environment == (SourceWrites \/ TargetAborts \/ TargetReplacesTable \/ Crash) /\ UNCHANGED asked

IncNext == JobAction \/ IngestAction \/ Environment

IncSpec == IncInit /\ [][IncNext]_incVars

\* The run loop ticks as long as the process lives, and the goroutines of a job run.
IncFairness == WF_incVars(JobAction) /\ WF_incVars(IngestAction)

IncFairSpec == IncSpec /\ IncFairness
-----------------------------------------------------------------------------
\* A binlog behind the checkpoint is replayed on some of its tables.
ReplayBehind ==
    \E s \in 1..ckpt : \E ts \in SUBSET log[s].tables : Apply(s, ts) /\ UNCHANGED <<log, ckpt>>

\* Incremental sync without the pipeline implements the replay of the log: it applies a binlog
\* after the earlier ones of its tables, and stores a checkpoint only over what the target has,
\* whichever call of handleUpsert, snapshot or restart moved it.  Excepted is the retry of
\* handleUpsertWithRetry: when the rollback finds the txn committed, the checkpoint is past it.
RefinesReplay == Init /\ [][Next \/ (retried /\ ReplayBehind)]_vars

\* A committed txn is not committed again under a new label: the answer to a commit or a begin
\* may be lost, the txn aborted, the process restarted between the commit and the row of the
\* progress.  Excepted is the retry of handleUpsertWithRetry after a rollback, whose second call
\* leaves a progress that is done at the seq before its binlog.
AppliedOnceUnlessRetried ==
    retried \/ \A t \in Tables : IsInjective(dest[t].applied)

\* What is committed is complete: the target is given a commit info of every replica of the
\* tables of the txn, although the goroutines of the ingest job share one error and whoever
\* fails leaves the others running.
IngestComplete ==
    \A i \in DOMAIN txns :
        txns[i].status = "COMMITTED" => txns[i].data.infos = ReplicasOf(txns[i].data.tables)

\* A rollup at the target is complete: an upsert that leaves out an index the source has dropped
\* meanwhile (applyDroppedBinlogs) never reaches a table that still has it.  And once the
\* checkpoint is past the binlog that drops it, in its turn or earlier, the rollup is gone.
RollupsFollow ==
    /\ \A i \in DOMAIN txns :
           txns[i].status = "COMMITTED" => txns[i].data.skipped \cap rollups = {}
    /\ \A s \in 1..ckpt : log[s].kind = "DROP_ROLLUP" => log[s].rollup \notin rollups

\* Every binlog the source writes is replicated, through retries, rollbacks, snapshots, the
\* waits for the window of a backend, and restarts.
Replicated == \A s \in 1..MaxSeq : s \in DOMAIN log ~> s <= ckpt
=============================================================================
