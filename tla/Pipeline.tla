------------------------------ MODULE Pipeline ------------------------------
(***************************************************************************)
(* Incremental synchronisation of one database job in the default          *)
(* "pipeline commit" mode: pkg/ccr/job_pipeline.go, with the parts of      *)
(* pkg/ccr/job.go it calls (handleBinlog, afterHandleBinlog, applyTxn,     *)
(* NewSnapshot, handleError, lockBinlog) and the ingest goroutines.        *)
(*                                                                         *)
(* The source cluster writes a log of binlogs; the job reads it in         *)
(* batches, begins one target transaction per upsert binlog, lets          *)
(* goroutines ingest several of them at once, commits them in log order    *)
(* and persists its progress after each.  A DDL binlog is executed only    *)
(* when no transaction is running.  The process may crash at any step; a   *)
(* call to a cluster may fail, and it may fail after it took effect.       *)
(*                                                                         *)
(* pc says where the job goroutine is: "idle" between two ticks, "loop" at *)
(* the head of the for loop of pipelineSync, and a name of its own where a *)
(* call to the target took effect and the progress does not say so yet.    *)
(***************************************************************************)
EXTENDS JobProgress, FiniteSetsExt, Functions

CONSTANTS BatchSize,             \* flag binlog_batch_size
          MaxPipelineIngesting,  \* flag max_pipeline_ingesting_num
          LockInterval,          \* the 256 of lockBinlog
          DestTableId,           \* target table id of a source table (may equal another source id)
          SourceBinlogs,         \* the binlogs the source may write
          InitialLogs,           \* the logs the job may find when incremental sync starts
          FaultKinds,            \* the faults this instance allows
          MaxFaults              \* bound: how many of them

ASSUME PipelineAssumption ==
    /\ BatchSize \in Nat \ {0} /\ MaxPipelineIngesting \in Nat \ {0}
    /\ LockInterval \in Nat \ {0} /\ MaxFaults \in Nat

Kinds == {"UPSERT",          \* data of some tables
          "RENAME_COLUMN",   \* a DDL whose effect can be recognised at the target
          "TRUNCATE_TABLE",  \* a DDL that may be executed twice
          "ALTER_JOB",       \* a finished schema change: a partial snapshot is taken
          "DUMMY"}           \* a full snapshot is taken

\* The record of a DDL names one table.
Binlogs == [kind : {"UPSERT"}, tables : SUBSET Tables \ {{}}]
           \cup [kind : Kinds \ {"UPSERT", "DUMMY"}, tables : {{t} : t \in Tables}]
           \cup [kind : {"DUMMY"}, tables : {{}}]

ASSUME LogAssumption == /\ SourceBinlogs \subseteq Binlogs
                        /\ InitialLogs \subseteq Seq(Binlogs) \ {<<>>}
                        /\ Tables # {}

VARIABLES
    \* the source cluster
    log,       \* every binlog written so far; the commit seq of a binlog is its index
    locked,    \* the commit seq the job has locked: what is above it is kept
    gc,        \* binlogs 1..gc have been collected
    asked,     \* the length of the log when the job last asked for a snapshot
    \* the target cluster
    txns,      \* txn id -> status, and whether the job wrote the txn to its storage
    dest,      \* table -> the commit seq its last restore covers, and the binlogs applied since
    \* the job
    prog,      \* j.progress
    disk,      \* the progress row of the storage
    pipe,      \* j.pipelineCtx with its goroutines, or Nil
    pc, more,  \* the job goroutine, and pipelineSync's hasMoreBinlogs
    cursor,    \* how many running txns the RollbackPipeline loop has done
    extra,     \* j.Extra: the partial snapshot asked for, the binlog to skip
    interrupt, \* j.Extra.InterruptSignal > 0
    \* the faults
    budget,    \* faults left
    lost       \* did a commit take effect that the job was not told of?

srcVars == <<log, locked, gc>>
destVars == <<txns, dest>>
vars == <<log, locked, gc, asked, txns, dest, prog, disk, pipe, pc, more, cursor, extra, interrupt,
          budget, lost>>

Errors == {"ok", "error", "meta", "partial"}

Workers == [ctx : TxnContext, prev : Nat, next : Nat, result : Errors \cup {"running"}]
Results == [ctx : TxnContext, err : Errors]

\* JobPipelineContext.  Binlogs is the part pos+1..next of the log; a TxnLink
\* channel is a number, and tokens has the channels that hold a signal.
Contexts == [next : Seqs, pos : Seqs, close : BOOLEAN, link : Nat, tokens : SUBSET Nat,
             workers : SUBSET Workers, commitCh : Seq(Results)]

ASSUME ContextAssumption == Nil \notin Contexts

Extras == [partialTable : Tables \cup {Nil},
           skipBy : {"no", "silence", "fullsync", "partialsync"},
           skipSeq : Seqs, skipTable : Tables \cup {Nil}]

PCs == {"idle", "loop", "fetched", "begun", "committed", "rollback", "handling", "handled",
        "dead"}

TypeOK ==
    /\ log \in Seq(Binlogs) /\ Len(log) <= MaxSeq
    /\ locked \in Seqs /\ gc \in Seqs /\ asked \in Seqs
    /\ txns \in Seq([status : {"PREPARE", "COMMITTED", "ABORTED"}, recorded : BOOLEAN])
    /\ Len(txns) <= MaxTxn
    /\ dest \in [Tables -> [base : Seqs, applied : Seq(Seqs)]]
    /\ prog \in Progress /\ disk \in Progress
    /\ pipe \in Contexts \cup {Nil}
    /\ pc \in PCs /\ more \in BOOLEAN /\ cursor \in Nat
    /\ extra \in Extras /\ interrupt \in BOOLEAN
    /\ budget \in 0..MaxFaults /\ lost \in BOOLEAN
-----------------------------------------------------------------------------
(* The source: its log and what a snapshot of it contains. *)

SeqsOf(t) == {s \in 1..Len(log) : t \in log[s].tables}

\* The commit seqs a snapshot may report for a table, the seq up to which it holds the table:
\* a table is copied at some moment between the request and now, each table at its own.
SnapshotSeqs == asked..Len(log)

HasBinlogs(p) == p.pos < p.next
HasNonUpsertBinlog(p) == HasBinlogs(p) /\ log[p.pos + 1].kind # "UPSERT"
HasUpsertBinlog(p) == HasBinlogs(p) /\ log[p.pos + 1].kind = "UPSERT"

(* The target: what table t holds of the log. *)

Covered(t, s) == s <= dest[t].base \/ \E i \in DOMAIN dest[t].applied : dest[t].applied[i] = s

Apply(s, ts) == dest' = [t \in Tables |->
    IF t \in ts THEN [dest[t] EXCEPT !.applied = Append(@, s)] ELSE dest[t]]

Restored(seqOf, ts) == dest' = [t \in Tables |->
    IF t \in ts THEN [base |-> seqOf[t], applied |-> <<>>] ELSE dest[t]]

(* The job: storing the progress, returning from sync(), faults. *)

Persist(p) == prog' = p /\ disk' = Persisted(p)
Volatile(p) == prog' = p /\ UNCHANGED disk

Goto(l) == pc' = l

Fault(k) == k \in FaultKinds /\ budget > 0 /\ budget' = budget - 1

AtLoop(sub) == pc = "loop" /\ ~interrupt /\ prog.subSyncState = sub

\* The PipelineInMemoryData of the running step.
Data == prog.inMemoryData
Running == Data.running

HasAvailableSlot == Len(Running) < MaxPipelineIngesting

NewSnapshot(p, seq) ==
    NextWithPersist([p EXCEPT !.partialTable = Nil], seq, "DBFullSync", "BeginCreateSnapshot")

NewPartialSnapshot(p, t) ==
    NextWithPersist([p EXCEPT !.partialTable = t], p.commitSeq, "DBPartialSync",
                    "BeginCreateSnapshot")

\* handleError: an error of category Meta makes a new full snapshot.
HandleError(p, err) ==
    IF err = "meta" THEN Persist(NewSnapshot(p, p.commitSeq)) ELSE Volatile(p)

\* resetPipeline, return err: the running txns are left to the next tick.
ResetAndFail(err) == pipe' = Nil /\ Goto("idle") /\ HandleError(prog, err)

\* The filter off by one: the first binlog after the snapshot is dropped.
RelatedTablesOffByOne(s) == {t \in log[s].tables : s > prog.tableCommitSeqMap[t] + 1}

\* ... and the other way: the last binlog a snapshot has is applied on top of it.
RelatedTablesInclusive(s) == {t \in log[s].tables : s >= prog.tableCommitSeqMap[t]}

\* The records of an upsert binlog that no snapshot has covered (getDbSyncTableRecords).
RelatedTables(s) == {t \in log[s].tables : s > prog.tableCommitSeqMap[t]}

\* IsBinlogCommitted: a DDL of a table that a snapshot has covered.
IsBinlogCommitted(s) ==
    /\ prog.syncState = "DBTablesIncrementalSync"
    /\ \A t \in log[s].tables : s <= prog.tableCommitSeqMap[t]

AfterHandleBinlog(p, seq) ==
    IF p.tableCommitSeqMap # NoMap /\ \A t \in Tables : p.tableCommitSeqMap[t] <= seq
    THEN [p EXCEPT !.tableCommitSeqMap = NoMap, !.syncState = "DBIncrementalSync"]
    ELSE p

\* The loop of applyTxn looks the *target* ids of the txn up in a map keyed by source ids.
BumpTableCommitSeq(m, ctx) ==
    [t \in Tables |->
        IF t \in {DestTableId[u] : u \in ctx.tables} /\ m[t] > 0 /\ m[t] < ctx.commitSeq
        THEN ctx.commitSeq ELSE m[t]]

ApplyTxn(p, ctx) ==
    AfterHandleBinlog([p EXCEPT !.prevTxnId = ctx.txnId, !.commitSeq = ctx.commitSeq,
                                !.tableCommitSeqMap = BumpTableCommitSeq(@, ctx)],
                      ctx.commitSeq)

\* lockBinlog(PrevCommitSeq): not needed yet, done, or failed.
LockBinlog(p) ==
    LET seq == p.prevCommitSeq
    IN IF p.lockedCommitSeq + LockInterval > seq
       THEN Persist(p) /\ UNCHANGED <<locked, budget>>
       ELSE /\ prog' = [p EXCEPT !.lockedCommitSeq = seq]
            /\ disk' = Persisted(p)
            /\ locked' = seq
            /\ UNCHANGED budget

LockBinlogFails(p) ==
    /\ p.lockedCommitSeq + LockInterval <= p.prevCommitSeq
    /\ Fault("rpc") /\ Persist(p) /\ UNCHANGED locked
-----------------------------------------------------------------------------
(* A tick of the run loop enters pipelineSync. *)

\* A context that starts at the binlog of the checkpoint instead of after it.
NewContextOneBack(seq) ==
    [next |-> seq - 1, pos |-> seq - 1, close |-> FALSE, link |-> 0, tokens |-> {0},
     workers |-> {}, commitCh |-> <<>>]

NewContext(seq) == [next |-> seq, pos |-> seq, close |-> FALSE, link |-> 0, tokens |-> {0},
                    workers |-> {}, commitCh |-> <<>>]

\* initializePipelineContext: an existing context is kept, and reopened.
InitializedContext ==
    IF pipe = Nil THEN NewContext(prog.commitSeq) ELSE [pipe EXCEPT !.close = FALSE]

DrainStaledBinlogs ==
    IF pipe = Nil THEN Nil
    ELSE [pipe EXCEPT !.pos = IF prog.prevCommitSeq <= @ THEN @
                              ELSE Min({prog.prevCommitSeq, pipe.next})]

\* The skip request that sync() finds fulfilled is forgotten.
ResetSkip ==
    LET done == \/ extra.skipBy = "silence" /\ extra.skipSeq <= prog.prevCommitSeq
                \/ extra.skipBy = "fullsync" /\ prog.syncState = "DBFullSync"
                \/ /\ extra.skipBy = "partialsync" /\ prog.syncState = "DBPartialSync"
                   /\ prog.partialTable = extra.skipTable
    IN IF done THEN [extra EXCEPT !.skipBy = "no"] ELSE extra

IsNeedRollbackPipeline == pipe = Nil /\ prog.subSyncState # "Done"

\* rollbackPipeline: load what was persisted unless it is still in memory, then roll back.
LoadedData == IF prog.inMemoryData = Nil THEN prog.persistData ELSE prog.inMemoryData

RollbackPipeline ==
    LET p == [prog EXCEPT !.inMemoryData = LoadedData]
    IN IF p.subSyncState = "RollbackPipeline" THEN Volatile(p)
       ELSE Persist(NextSubCheckpoint(p, "RollbackPipeline", LoadedData))

EnterSync ==
    /\ pc = "idle" /\ ~interrupt /\ IsIncrementalSync(prog)
    /\ extra' = ResetSkip
    /\ IF IsNeedRollbackPipeline THEN RollbackPipeline ELSE UNCHANGED <<prog, disk>>
    /\ pipe' = DrainStaledBinlogs
    /\ more' = TRUE
    /\ Goto("loop")
    /\ UNCHANGED <<srcVars, destVars, cursor, interrupt, budget, lost>>

\* hasInterruptSignal at the head of the loop, and consumeInterruptSignals in run().
LeaveOnInterrupt ==
    /\ pc = "loop" /\ interrupt /\ Goto("idle")
    /\ UNCHANGED <<srcVars, destVars, prog, disk, pipe, more, cursor, extra, interrupt, budget,
                   lost>>

ConsumeInterruptSignals ==
    /\ pc = "idle" /\ interrupt /\ interrupt' = FALSE
    /\ UNCHANGED <<srcVars, destVars, prog, disk, pipe, pc, more, cursor, extra, budget, lost>>
-----------------------------------------------------------------------------
(* case Done *)

\* The partial snapshot that an ingest job asked for.
StartPartialSnapshot ==
    /\ AtLoop("Done") /\ extra.partialTable # Nil
    /\ Persist(NewPartialSnapshot(prog, extra.partialTable))
    /\ extra' = [extra EXCEPT !.partialTable = Nil]
    /\ pipe' = Nil /\ Goto("idle")
    /\ UNCHANGED <<srcVars, destVars, more, cursor, interrupt, budget, lost>>

\* recoverIncrementalSync: CommitSeq is not known to be synced, go back to PrevCommitSeq.
RecoverIncrementalSync ==
    /\ AtLoop("Done") /\ extra.partialTable = Nil /\ ~IsDone(prog)
    /\ Persist(Rollback(prog))
    /\ pipe' = Nil /\ Goto("idle")
    /\ UNCHANGED <<srcVars, destVars, more, cursor, extra, interrupt, budget, lost>>

AtDone == AtLoop("Done") /\ extra.partialTable = Nil /\ IsDone(prog)

\* maySkipBinlog
SkipByFullSync ==
    /\ AtDone /\ extra.skipBy = "fullsync"
    /\ Persist(NewSnapshot(prog, prog.commitSeq))
    /\ pipe' = Nil /\ Goto("idle")
    /\ UNCHANGED <<srcVars, destVars, more, cursor, extra, interrupt, budget, lost>>

SkipByPartialSync ==
    /\ AtDone /\ extra.skipBy = "partialsync"
    /\ Persist(NewPartialSnapshot(prog, extra.skipTable))
    /\ pipe' = Nil /\ Goto("idle")
    /\ UNCHANGED <<srcVars, destVars, more, cursor, extra, interrupt, budget, lost>>

NoForcedSync == extra.skipBy \in {"no", "silence"}

StartPipeline ==
    /\ AtDone /\ NoForcedSync
    /\ pipe' = InitializedContext
    /\ ~HasNonUpsertBinlog(InitializedContext)
    /\ Volatile(NextSubVolatile(prog, "LaunchTransaction", EmptyData))
    /\ UNCHANGED <<srcVars, destVars, pc, more, cursor, extra, interrupt, budget, lost>>

\* A silent skip of every DDL up to the seq asked for.
IsSilencedUpTo(seq) == extra.skipBy = "silence" /\ seq <= extra.skipSeq

IsSilenced(seq) == extra.skipBy = "silence" /\ seq = extra.skipSeq

\* handleBinlogInternal: StartHandle, and a binlog the user asked to skip is skipped.
HandleBinlog ==
    /\ AtDone /\ NoForcedSync
    /\ pipe' = InitializedContext
    /\ HasNonUpsertBinlog(InitializedContext)
    /\ LET seq == InitializedContext.pos + 1
       IN /\ Persist(StartHandle(prog, seq))
          /\ Goto(IF IsSilenced(seq) THEN "handled" ELSE "handling")
    /\ UNCHANGED <<srcVars, destVars, more, cursor, extra, interrupt, budget, lost>>

\* handleNonBarrierBinlog waits until the previous txn is visible.
Handling(kinds) == pc = "handling" /\ log[prog.commitSeq].kind \in kinds

NoPrevTxn == [prog EXCEPT !.prevTxnId = -1]

\* determineBinlogState: is the binlog of unknown state in effect at the target?
IsBinlogStateUnknown == prog.unknownCommitSeq = prog.commitSeq

\* The answer for DUMMY of the fallback in determineBinlogState, which the registered
\* handler keeps from being used.
DetermineBinlogStateFallback == log[prog.commitSeq].kind = "DUMMY"

DetermineBinlogState ==
    /\ log[prog.commitSeq].kind = "RENAME_COLUMN"
    /\ \A t \in log[prog.commitSeq].tables : Covered(t, prog.commitSeq)

IsAlreadyHandled ==
    \/ IsBinlogStateUnknown /\ DetermineBinlogState
    \/ log[prog.commitSeq].tables # {} /\ IsBinlogCommitted(prog.commitSeq)

\* Nothing to do: the binlog took effect before a crash, or a snapshot covers it.
HandleCommittedBinlog ==
    /\ Handling(Kinds) /\ IsAlreadyHandled
    /\ Volatile(NoPrevTxn) /\ Goto("handled")
    /\ UNCHANGED <<srcVars, destVars, pipe, more, cursor, extra, interrupt, budget, lost>>

ExecuteDDL ==
    /\ Handling({"RENAME_COLUMN", "TRUNCATE_TABLE"}) /\ ~IsAlreadyHandled
    /\ Apply(prog.commitSeq, log[prog.commitSeq].tables)
    /\ Volatile(NoPrevTxn) /\ Goto("handled")
    /\ UNCHANGED <<srcVars, txns, pipe, more, cursor, extra, interrupt, budget, lost>>

\* The DDL is in effect but its answer is lost: the pipeline context is kept.
ExecuteDDLLosesReply ==
    /\ Handling({"RENAME_COLUMN", "TRUNCATE_TABLE"}) /\ ~IsAlreadyHandled
    /\ Fault("lostReply")
    /\ Apply(prog.commitSeq, log[prog.commitSeq].tables)
    /\ Volatile(NoPrevTxn) /\ Goto("idle")
    /\ UNCHANGED <<srcVars, txns, pipe, more, cursor, extra, interrupt, lost>>

\* The handler fails before it does anything; with an error of category Meta,
\* handleError makes a new snapshot.  The pipeline context is kept in both cases.
HandleBinlogFails ==
    /\ Handling(Kinds) /\ ~IsAlreadyHandled
    /\ \/ Fault("rpc") /\ HandleError(prog, "error")
       \/ Fault("ddlMeta") /\ HandleError(NoPrevTxn, "meta")
    /\ Goto("idle")
    /\ UNCHANGED <<srcVars, destVars, pipe, more, cursor, extra, interrupt, lost>>

\* The handlers that take a snapshot: back to the run loop, with the context reset.
HandleBySnapshot ==
    /\ \/ /\ Handling({"ALTER_JOB"}) /\ ~IsAlreadyHandled
          /\ \E t \in log[prog.commitSeq].tables : Persist(NewPartialSnapshot(NoPrevTxn, t))
       \/ /\ Handling({"DUMMY"}) /\ ~IsAlreadyHandled
          /\ Persist(NewSnapshot(NoPrevTxn, prog.commitSeq))
    /\ pipe' = Nil /\ Goto("idle")
    /\ UNCHANGED <<srcVars, destVars, more, cursor, extra, interrupt, budget, lost>>

\* handleBinlog after the handler: progress done, the binlog consumed.
HandledProgress == Done(AfterHandleBinlog(prog, prog.commitSeq))

FinishBinlog ==
    /\ pc = "handled"
    /\ LockBinlog(HandledProgress)
    /\ pipe' = [pipe EXCEPT !.pos = @ + 1] /\ Goto("loop")
    /\ UNCHANGED <<log, gc, destVars, more, cursor, extra, interrupt, lost>>

FinishBinlogLockFails ==
    /\ pc = "handled"
    /\ LockBinlogFails(HandledProgress)
    /\ Goto("idle")
    /\ UNCHANGED <<log, gc, destVars, pipe, more, cursor, extra, interrupt, lost>>
-----------------------------------------------------------------------------
(* case LaunchTransaction *)

NeedsBinlogs == AtLoop("LaunchTransaction") /\ ~HasBinlogs(pipe)

\* Binlogs are asked for after PrevCommitSeq instead of after the ones fetched.
GetNextBinlogsAgain ==
    /\ NeedsBinlogs /\ pipe.next >= prog.prevCommitSeq /\ prog.prevCommitSeq < Len(log)
    /\ LET from == prog.prevCommitSeq
       IN pipe' = [pipe EXCEPT !.pos = from, !.next = Min({from + BatchSize, Len(log)})]
    /\ more' = TRUE /\ Goto("fetched")
    /\ UNCHANGED <<srcVars, destVars, prog, disk, cursor, extra, interrupt, budget, lost>>

\* getNextBinlogs.  BINLOG_TOO_OLD is treated as OK: the source answers with what it still has.
GetNextBinlogs ==
    /\ NeedsBinlogs /\ pipe.next >= prog.prevCommitSeq /\ pipe.next < Len(log)
    /\ LET from == Max({pipe.next, gc})
       IN pipe' = [pipe EXCEPT !.pos = from, !.next = Min({from + BatchSize, Len(log)})]
    /\ more' = TRUE /\ Goto("fetched")
    /\ UNCHANGED <<srcVars, destVars, prog, disk, cursor, extra, interrupt, budget, lost>>

\* BINLOG_TOO_NEW: no more binlogs; the previous txn is waited for and forgotten.
NoMoreBinlogs ==
    /\ NeedsBinlogs /\ pipe.next >= prog.prevCommitSeq /\ pipe.next >= Len(log)
    /\ IF prog.prevTxnId # -1 THEN Persist(NoPrevTxn) ELSE UNCHANGED <<prog, disk>>
    /\ more' = FALSE /\ Goto("fetched")
    /\ UNCHANGED <<srcVars, destVars, pipe, cursor, extra, interrupt, budget, lost>>

\* An error of getNextBinlogs leaves the context, and the running txns, as they are.
GetNextBinlogsFails ==
    /\ NeedsBinlogs /\ pipe.next >= prog.prevCommitSeq /\ Fault("rpc")
    /\ Goto("idle")
    /\ UNCHANGED <<srcVars, destVars, prog, disk, pipe, more, cursor, extra, interrupt, lost>>

\* The panic of getNextBinlogs: the goroutine of the job ends (runJob recovers).
PanicOnStaleContext ==
    /\ NeedsBinlogs /\ pipe.next < prog.prevCommitSeq
    /\ Goto("dead")
    /\ UNCHANGED <<srcVars, destVars, prog, disk, pipe, more, cursor, extra, interrupt, budget,
                   lost>>

MayLaunch == pc = "fetched" \/ (AtLoop("LaunchTransaction") /\ HasBinlogs(pipe))
StillMore == IF pc = "loop" THEN TRUE ELSE more
NextSeq == pipe.pos + 1

ToCommitPipeline(p) == NextSubVolatile(p, "CommitPipeline", p.inMemoryData)

NothingToLaunch ==
    /\ MayLaunch /\ ~HasUpsertBinlog(pipe)
    /\ Volatile(ToCommitPipeline(prog)) /\ more' = StillMore /\ Goto("loop")
    /\ UNCHANGED <<srcVars, destVars, pipe, cursor, extra, interrupt, budget, lost>>

\* buildTxnContext finds no related table record: the binlog is consumed without a txn.
SkipUpsert ==
    /\ MayLaunch /\ HasUpsertBinlog(pipe) /\ RelatedTables(NextSeq) = {}
    /\ pipe' = [pipe EXCEPT !.pos = @ + 1]
    /\ Volatile(ToCommitPipeline(prog)) /\ more' = StillMore /\ Goto("loop")
    /\ UNCHANGED <<srcVars, destVars, cursor, extra, interrupt, budget, lost>>

NeedsTxn == MayLaunch /\ HasUpsertBinlog(pipe) /\ RelatedTables(NextSeq) # {}
NewTxn == Append(txns, [status |-> "PREPARE", recorded |-> FALSE])

\* beginTxn succeeds at the target; the txn is not in the running list yet.
BeginTxn ==
    /\ NeedsTxn /\ Len(txns) < MaxTxn
    /\ txns' = NewTxn
    /\ more' = StillMore /\ Goto("begun")
    /\ UNCHANGED <<srcVars, dest, prog, disk, pipe, cursor, extra, interrupt, budget, lost>>

\* buildTxnContext or beginTxn fails; the begin may have taken effect.
BeginTxnFails ==
    /\ NeedsTxn
    /\ \/ Fault("rpc") /\ ResetAndFail("error") /\ UNCHANGED txns
       \/ Fault("meta") /\ ResetAndFail("meta") /\ UNCHANGED txns
       \/ /\ Fault("lostReply") /\ ResetAndFail("error")
          /\ Len(txns) < MaxTxn /\ txns' = NewTxn
       \/ /\ Fault("tableGone") /\ Persist(Rollback(prog)) /\ UNCHANGED txns
          /\ pipe' = Nil /\ Goto("idle")
    /\ UNCHANGED <<srcVars, dest, more, cursor, extra, interrupt, lost>>

BegunTxn == [txnId |-> Len(txns), commitSeq |-> NextSeq, tables |-> RelatedTables(NextSeq)]

WithBegunTxn == [prog EXCEPT !.inMemoryData.running = Append(@, BegunTxn)]

Recorded == txns' = [txns EXCEPT ![Len(txns)].recorded = TRUE]

Launched(result) ==
    [pipe EXCEPT !.pos = @ + 1, !.link = @ + 1,
                 !.workers = @ \cup {[ctx |-> BegunTxn, prev |-> pipe.link,
                                      next |-> pipe.link + 1, result |-> result]}]

\* The end of beginTxn (the running list grows and is persisted) and launchIngestJob.
LaunchIngestJob ==
    /\ pc = "begun"
    /\ Recorded
    /\ LET p == PersistInMemoryData(WithBegunTxn)
       IN prog' = ToCommitPipeline(p) /\ disk' = Persisted(p)
    /\ pipe' = Launched("running")
    /\ Goto("loop")
    /\ UNCHANGED <<srcVars, dest, more, cursor, extra, interrupt, budget, lost>>

\* applyDroppedBinlogs finds a later schema change that dropped an index of a table of the
\* txn: the pipeline is closed, and the txn's turn to commit becomes a partial snapshot.
LaunchTriggersPartialSnapshot ==
    /\ pc = "begun"
    /\ \E s \in NextSeq..Len(log) : \E t \in BegunTxn.tables :
        /\ log[s].kind = "ALTER_JOB" /\ t \in log[s].tables
        /\ extra' = [extra EXCEPT !.partialTable = t]
    /\ Recorded
    /\ LET p == PersistInMemoryData(WithBegunTxn)
       IN prog' = ToCommitPipeline(p) /\ disk' = Persisted(p)
    /\ pipe' = [Launched("partial") EXCEPT !.close = TRUE]
    /\ Goto("loop")
    /\ UNCHANGED <<srcVars, dest, more, cursor, interrupt, budget, lost>>

\* prepareIngestJob fails.
LaunchIngestJobFails ==
    /\ pc = "begun"
    /\ Recorded
    /\ LET p == PersistInMemoryData(WithBegunTxn)
       IN \/ Fault("rpc") /\ Persist(p)
          \/ Fault("meta") /\ Persist(NewSnapshot(p, p.commitSeq))
    /\ pipe' = Nil /\ Goto("idle")
    /\ UNCHANGED <<srcVars, dest, more, cursor, extra, interrupt, lost>>
-----------------------------------------------------------------------------
(* The goroutine of an ingest job. *)

\* Ingest ends, with or without an error.
Ingest(w) ==
    /\ w.result = "running"
    /\ \E r \in {"ok", "error", "meta"} :
        /\ IF r = "ok" THEN UNCHANGED budget
           ELSE Fault(IF r = "meta" THEN "meta" ELSE "rpc")
        /\ pipe' = [pipe EXCEPT !.workers = (@ \ {w}) \cup {[w EXCEPT !.result = r]}]
    /\ UNCHANGED <<srcVars, destVars, prog, disk, pc, more, cursor, extra, interrupt, lost>>

\* TxnLink.Done that does not wait for the previous txn.
SendResultUnordered(w) ==
    /\ w.result # "running"
    /\ pipe' = [pipe EXCEPT !.workers = @ \ {w},
                            !.commitCh = Append(@, [ctx |-> w.ctx, err |-> w.result])]
    /\ UNCHANGED <<srcVars, destVars, prog, disk, pc, more, cursor, extra, interrupt, budget,
                   lost>>

\* TxnLink.Done that does not notify the next txn.
SendResultSilent(w) ==
    /\ w.result # "running" /\ w.prev \in pipe.tokens
    /\ pipe' = [pipe EXCEPT !.workers = @ \ {w},
                            !.tokens = @ \ {w.prev},
                            !.commitCh = Append(@, [ctx |-> w.ctx, err |-> w.result])]
    /\ UNCHANGED <<srcVars, destVars, prog, disk, pc, more, cursor, extra, interrupt, budget,
                   lost>>

\* TxnLink.Done: wait for the previous txn, send the result, notify the next one.
SendResult(w) ==
    /\ w.result # "running" /\ w.prev \in pipe.tokens
    /\ pipe' = [pipe EXCEPT !.workers = @ \ {w},
                            !.tokens = (@ \ {w.prev}) \cup {w.next},
                            !.commitCh = Append(@, [ctx |-> w.ctx, err |-> w.result])]
    /\ UNCHANGED <<srcVars, destVars, prog, disk, pc, more, cursor, extra, interrupt, budget,
                   lost>>

WorkerStep == pipe # Nil /\ \E w \in pipe.workers : Ingest(w) \/ SendResult(w)
-----------------------------------------------------------------------------
(* case CommitPipeline *)

\* takeNextCommitableTxn returns the oldest result.
TakeResult ==
    /\ AtLoop("CommitPipeline") /\ Running # <<>> /\ pipe.commitCh # <<>>
    /\ LET r == Head(pipe.commitCh)
       IN \/ /\ r.err = "partial"
             /\ Persist(NextSubCheckpoint(prog, "RollbackPipeline", Data))
             /\ pipe' = [pipe EXCEPT !.commitCh = Tail(@)]
             /\ UNCHANGED pc
          \/ /\ r.err = "ok" /\ r.ctx.txnId = Head(Running).txnId
             /\ LET p == [prog EXCEPT !.inMemoryData.commitable = r.ctx]
                IN Persist(NextSubCheckpoint(p, "CommitPipelineTransaction", p.inMemoryData))
             /\ pipe' = [pipe EXCEPT !.commitCh = Tail(@)]
             /\ UNCHANGED pc
          \/ /\ r.err = "ok" /\ r.ctx.txnId # Head(Running).txnId
             /\ ResetAndFail("error")
          \/ /\ r.err \in {"error", "meta"}
             /\ ResetAndFail(r.err)
    /\ UNCHANGED <<srcVars, destVars, more, cursor, extra, interrupt, budget, lost>>

\* No result is there (or none is expected): determine the next state.
NoResult == AtLoop("CommitPipeline") /\ (Running = <<>> \/ pipe.commitCh = <<>>)

\* The request to skip is only looked at before a DDL.
MustFinishIgnoresSkip == HasNonUpsertBinlog(pipe) \/ pipe.close

MustFinish == extra.skipBy # "no" \/ HasNonUpsertBinlog(pipe) \/ pipe.close
MayLaunchMore == ~pipe.close /\ more /\ HasAvailableSlot

FinishPipeline ==
    /\ NoResult /\ MustFinish /\ Running = <<>>
    /\ Persist(NextSubCheckpoint(prog, "Done", EmptyData))
    /\ UNCHANGED <<srcVars, destVars, pipe, pc, more, cursor, extra, interrupt, budget, lost>>

LaunchMore ==
    /\ NoResult /\ ~(MustFinish /\ Running = <<>>) /\ MayLaunchMore
    /\ Volatile(NextSubVolatile(prog, "LaunchTransaction", Data))
    /\ UNCHANGED <<srcVars, destVars, pipe, pc, more, cursor, extra, interrupt, budget, lost>>

YieldPipeline ==
    /\ NoResult /\ ~MustFinish /\ ~MayLaunchMore /\ ~more /\ Running = <<>>
    /\ Persist(DoneSubCheckpoint(prog, "CommitPipeline", Data))
    /\ Goto("idle")
    /\ UNCHANGED <<srcVars, destVars, pipe, more, cursor, extra, interrupt, budget, lost>>
-----------------------------------------------------------------------------
(* case CommitPipelineTransaction *)

Commitable == prog.inMemoryData.commitable

\* commitTxn takes effect at the target and answers OK (or PUBLISH_TIMEOUT, waited for).
CommitTxn ==
    /\ AtLoop("CommitPipelineTransaction")
    /\ txns[Commitable.txnId].status = "PREPARE"
    /\ txns' = [txns EXCEPT ![Commitable.txnId].status = "COMMITTED"]
    /\ Apply(Commitable.commitSeq, Commitable.tables)
    /\ Goto("committed")
    /\ UNCHANGED <<srcVars, prog, disk, pipe, more, cursor, extra, interrupt, budget, lost>>

\* commitTxn fails: the target aborted the txn, the call was lost, or its answer was.
CommitTxnFails ==
    /\ AtLoop("CommitPipelineTransaction")
    /\ ResetAndFail("error")
    /\ \/ /\ txns[Commitable.txnId].status = "ABORTED"
          /\ UNCHANGED <<destVars, budget, lost>>
       \/ /\ txns[Commitable.txnId].status = "PREPARE" /\ Fault("rpc")
          /\ UNCHANGED <<destVars, lost>>
       \/ /\ txns[Commitable.txnId].status = "PREPARE" /\ Fault("lostReply")
          /\ txns' = [txns EXCEPT ![Commitable.txnId].status = "COMMITTED"]
          /\ Apply(Commitable.commitSeq, Commitable.tables)
          /\ lost' = TRUE
    /\ UNCHANGED <<srcVars, more, cursor, extra, interrupt>>

\* applyTxn, consumeCommitableTxn and the checkpoint.
CommittedProgress ==
    LET p == ApplyTxn(prog, Commitable)
        data == [running |-> Tail(Running), commitable |-> Nil]
    IN DoneSubCheckpoint([p EXCEPT !.inMemoryData = data], "CommitPipeline", data)

FinishCommit ==
    /\ pc = "committed"
    /\ LockBinlog(CommittedProgress)
    /\ Goto("loop")
    /\ UNCHANGED <<log, gc, destVars, pipe, more, cursor, extra, interrupt, lost>>

FinishCommitLockFails ==
    /\ pc = "committed"
    /\ LockBinlogFails(CommittedProgress)
    /\ Goto("idle")
    /\ UNCHANGED <<log, gc, destVars, pipe, more, cursor, extra, interrupt, lost>>
-----------------------------------------------------------------------------
(* case RollbackPipeline *)

StartRollback ==
    /\ AtLoop("RollbackPipeline")
    /\ Volatile([prog EXCEPT !.inMemoryData = LoadedData])
    /\ cursor' = 0 /\ Goto("rollback")
    /\ UNCHANGED <<srcVars, destVars, pipe, more, extra, interrupt, budget, lost>>

\* rollbackTxn that takes every answer for a success.
RollbackTxnForgetsAbort ==
    /\ pc = "rollback" /\ cursor < Len(Running)
    /\ LET ctx == Running[cursor + 1]
       IN IF txns[ctx.txnId].status = "COMMITTED"
          THEN Volatile(ApplyTxn(prog, ctx)) ELSE UNCHANGED <<prog, disk>>
    /\ cursor' = cursor + 1
    /\ UNCHANGED <<srcVars, destVars, pipe, pc, more, extra, interrupt, budget, lost>>

\* rollbackTxn: a txn found committed is applied to the progress.
RollbackTxn ==
    /\ pc = "rollback" /\ cursor < Len(Running)
    /\ LET ctx == Running[cursor + 1]
       IN IF txns[ctx.txnId].status = "COMMITTED"
          THEN Volatile(ApplyTxn(prog, ctx)) /\ UNCHANGED txns
          ELSE /\ txns' = [txns EXCEPT ![ctx.txnId].status = "ABORTED"]
               /\ UNCHANGED <<prog, disk>>
    /\ cursor' = cursor + 1
    /\ UNCHANGED <<srcVars, dest, pipe, pc, more, extra, interrupt, budget, lost>>

RollbackTxnFails ==
    /\ pc = "rollback" /\ cursor < Len(Running)
    /\ Fault("rpc") /\ Goto("idle") /\ cursor' = 0
    /\ UNCHANGED <<srcVars, destVars, prog, disk, pipe, more, extra, interrupt, lost>>

FinishRollback ==
    /\ pc = "rollback" /\ cursor = Len(Running)
    /\ Persist(NextSubCheckpoint(prog, "Done", EmptyData))
    /\ cursor' = 0 /\ Goto("loop")
    /\ UNCHANGED <<srcVars, destVars, pipe, more, extra, interrupt, budget, lost>>
-----------------------------------------------------------------------------
(* The snapshots, each as one step: what fullSync and partialSync leave behind. *)

\* The loop that computes the minimum starts at the largest seq and never runs.
SmallestOfNone(seqs) == MaxSeq + 1

Smallest(seqs) == Min(Range(seqs))

\* seqs: the commit seq of each table in the snapshot; seq: the one of the snapshot itself.
FinishFullSync ==
    /\ pc = "idle" /\ prog.syncState = "DBFullSync"
    /\ \E seqs \in [Tables -> SnapshotSeqs] : \E seq \in SnapshotSeqs :
          /\ Restored(seqs, Tables)
          /\ Persist(NextWithPersist([prog EXCEPT !.tableCommitSeqMap = seqs],
                                     Min({Smallest(seqs), seq}), "DBTablesIncrementalSync",
                                     "Done"))
    /\ extra' = ResetSkip
    /\ UNCHANGED <<srcVars, txns, pipe, pc, more, cursor, interrupt, budget, lost>>

FinishPartialSync ==
    /\ pc = "idle" /\ prog.syncState = "DBPartialSync"
    /\ \E seq \in SnapshotSeqs :
          LET seqs == [prog.tableCommitSeqMap EXCEPT ![prog.partialTable] = seq] IN
          /\ Restored(seqs, {prog.partialTable})
          /\ Persist(NextWithPersist([prog EXCEPT !.tableCommitSeqMap = seqs],
                                     prog.commitSeq, "DBTablesIncrementalSync", "Done"))
    /\ extra' = ResetSkip
    /\ UNCHANGED <<srcVars, txns, pipe, pc, more, cursor, interrupt, budget, lost>>
-----------------------------------------------------------------------------
(* The environment. *)

SourceWrites ==
    /\ Len(log) < MaxSeq
    /\ \E b \in SourceBinlogs : log' = Append(log, b)
    /\ UNCHANGED <<locked, gc, destVars, prog, disk, pipe, pc, more, cursor, extra, interrupt,
                   budget, lost>>

\* The source collects binlogs the job does not lock.
SourceCollects ==
    /\ gc < locked /\ gc' = locked
    /\ UNCHANGED <<log, locked, destVars, prog, disk, pipe, pc, more, cursor, extra, interrupt,
                   budget, lost>>

\* The target aborts a txn that was open for too long.
TargetAborts ==
    /\ \E i \in DOMAIN txns :
        /\ txns[i].status = "PREPARE" /\ Fault("abort")
        /\ txns' = [txns EXCEPT ![i].status = "ABORTED"]
    /\ UNCHANGED <<srcVars, dest, prog, disk, pipe, pc, more, cursor, extra, interrupt, lost>>

\* A request of the HTTP service: it raises the interrupt signal; job_skip_binlog also
\* says what to skip.  It takes j.lock, so it finds the job between two ticks.
Interrupt ==
    /\ ~interrupt /\ pc # "dead" /\ Fault("interrupt") /\ interrupt' = TRUE
    /\ UNCHANGED <<srcVars, destVars, prog, disk, pipe, pc, more, cursor, extra, lost>>

SkipBinlog ==
    /\ pc = "idle"
    /\ \/ /\ Fault("silence")
          /\ \E s \in 1..MaxSeq : extra' = [extra EXCEPT !.skipBy = "silence", !.skipSeq = s]
       \/ /\ Fault("fullsync")
          /\ extra' = [extra EXCEPT !.skipBy = "fullsync"]
       \/ /\ Fault("partialsync")
          /\ \E t \in Tables :
                extra' = [extra EXCEPT !.skipBy = "partialsync", !.skipTable = t]
    /\ UNCHANGED <<srcVars, destVars, prog, disk, pipe, pc, more, cursor, interrupt, lost>>

NoExtra == [partialTable |-> Nil, skipBy |-> "no", skipSeq |-> 0, skipTable |-> Nil]

\* The process stops and starts again: only the storage survives.
Crash ==
    /\ Fault("crash")
    /\ prog' = disk /\ pipe' = Nil /\ Goto("idle") /\ cursor' = 0 /\ more' = TRUE
    /\ extra' = NoExtra /\ interrupt' = FALSE
    /\ lost' = (lost \/ pc = "committed")
    /\ UNCHANGED <<srcVars, destVars, disk>>
-----------------------------------------------------------------------------
\* Incremental sync starts when a full sync has restored table t up to seqs[t].
InitialProgress(seqs) ==
    [syncState |-> "DBTablesIncrementalSync", subSyncState |-> "Done",
     commitSeq |-> Smallest(seqs), prevCommitSeq |-> Smallest(seqs), unknownCommitSeq |-> 0,
     lockedCommitSeq |-> 0, tableCommitSeqMap |-> seqs, prevTxnId |-> -1,
     partialTable |-> Nil, persistData |-> EmptyData, inMemoryData |-> Nil]

Init ==
    /\ log \in InitialLogs /\ Len(log) <= MaxSeq
    /\ locked = 0 /\ gc = 0 /\ asked = 1
    /\ txns = <<>>
    /\ \E seqs \in [Tables -> 1..Len(log)] :
        /\ dest = [t \in Tables |-> [base |-> seqs[t], applied |-> <<>>]]
        /\ prog = InitialProgress(seqs) /\ disk = prog
    /\ pipe = Nil /\ pc = "idle" /\ more = TRUE /\ cursor = 0
    /\ extra = NoExtra /\ interrupt = FALSE
    /\ budget = MaxFaults /\ lost = FALSE

\* The job goroutine.
JobAction ==
    \/ EnterSync \/ LeaveOnInterrupt \/ ConsumeInterruptSignals
    \/ StartPartialSnapshot \/ RecoverIncrementalSync \/ SkipByFullSync \/ SkipByPartialSync
    \/ StartPipeline \/ HandleBinlog
    \/ HandleCommittedBinlog \/ ExecuteDDL \/ ExecuteDDLLosesReply \/ HandleBinlogFails
    \/ HandleBySnapshot \/ FinishBinlog \/ FinishBinlogLockFails
    \/ GetNextBinlogs \/ NoMoreBinlogs \/ GetNextBinlogsFails \/ PanicOnStaleContext
    \/ NothingToLaunch \/ SkipUpsert \/ BeginTxn \/ BeginTxnFails
    \/ LaunchIngestJob \/ LaunchTriggersPartialSnapshot \/ LaunchIngestJobFails
    \/ TakeResult \/ FinishPipeline \/ LaunchMore \/ YieldPipeline
    \/ CommitTxn \/ CommitTxnFails \/ FinishCommit \/ FinishCommitLockFails
    \/ StartRollback \/ RollbackTxn \/ RollbackTxnFails \/ FinishRollback
    \/ FinishFullSync \/ FinishPartialSync

\* A snapshot is asked for.
Asks == disk.subSyncState # "BeginCreateSnapshot" /\ disk'.subSyncState = "BeginCreateSnapshot"

JobStep == JobAction /\ asked' = IF Asks THEN Len(log) ELSE asked

Environment == SourceWrites \/ SourceCollects \/ TargetAborts \/ Interrupt \/ SkipBinlog \/ Crash

Next == JobStep \/ ((WorkerStep \/ Environment) /\ UNCHANGED asked)

Spec == Init /\ [][Next]_vars

\* The run loop ticks as long as the process lives, and an ingest goroutine ends.
Fairness == WF_vars(JobStep) /\ WF_vars(WorkerStep /\ UNCHANGED asked)

FairSpec == Spec /\ Fairness
-----------------------------------------------------------------------------
(* What the job promises. *)

\* A step of the checkpoint passes over binlogs the target has, or over the one that the user
\* asked to skip by silence, and over nothing else.
LosesOnlySilenced ==
    [][\A s \in disk.prevCommitSeq + 1..disk'.prevCommitSeq : \A t \in log[s].tables :
          Covered(t, s)' \/ (extra.skipBy = "silence" /\ s = extra.skipSeq)]_vars

\* A binlog is applied once: never twice, and never when a restored snapshot has it already.
\* A DDL that may be executed twice is left out.
AppliedOnce ==
    \A t \in Tables : \A i \in DOMAIN dest[t].applied :
        log[dest[t].applied[i]].kind # "TRUNCATE_TABLE"
            => /\ dest[t].base < dest[t].applied[i]
               /\ \A k \in 1..i - 1 : dest[t].applied[k] < dest[t].applied[i]

\* ... unless a commit took effect and the job did not learn of it.
AppliedOnceUnlessLost == lost \/ AppliedOnce

\* The filter by table commit seq is only dropped once the log is past every snapshot.
SnapshotNotReplayed ==
    \A t \in Tables : \A i \in DOMAIN dest[t].applied : dest[t].base < dest[t].applied[i]

\* A txn the job has recorded is committed or rolled back, or still on its list.
RecordedTxnsResolved ==
    \A i \in DOMAIN txns :
        txns[i].recorded /\ txns[i].status = "PREPARE"
            => /\ disk.subSyncState # "Done"
               /\ \E k \in DOMAIN disk.persistData.running :
                    disk.persistData.running[k].txnId = i

\* The checkpoint only passes a DUMMY binlog when a full snapshot taken after it is restored (or
\* when it is skipped on request).
DummyMakesFullSync ==
    [][\A s \in disk.prevCommitSeq + 1..disk'.prevCommitSeq :
          log[s].kind = "DUMMY" => s = extra.skipSeq \/ \A t \in Tables : dest'[t].base >= s]_vars

\* The assertion of getNextBinlogs.
NoPanic == pc # "dead"

\* setCommitableTxn never refuses a result: the links keep the results in launch order.
ResultsInOrder ==
    pipe # Nil /\ pipe.commitCh # <<>> /\ prog.subSyncState = "CommitPipeline"
        => /\ Running # <<>>
           /\ Head(pipe.commitCh).ctx = Head(Running)

\* Once faults stop, every binlog reaches every table it changes.
Replicated ==
    \A s \in 1..MaxSeq :
        (Len(log) >= s) ~> (\A t \in Tables : s \in SeqsOf(t) => Covered(t, s))

\* Once faults stop, every recorded txn is committed or aborted: none is left open.
TxnsSettle == []<>(\A i \in DOMAIN txns : txns[i].recorded => txns[i].status # "PREPARE")

\* A request to skip by a full or partial sync makes the job take the snapshot, whatever the
\* pipeline is doing when it comes, and is then forgotten.
SkipFulfilled == (extra.skipBy \in {"fullsync", "partialsync"}) ~> (extra.skipBy = "no")

\* The pipeline keeps the promise of BinlogReplay: what the job does to the target and to the
\* stored PrevCommitSeq is an ordered replay with a checkpoint that never runs ahead.
Replication == INSTANCE BinlogReplay WITH ckpt <- disk.prevCommitSeq

ImplementsReplay == Replication!Spec
=============================================================================
