------------------------- MODULE PipelineReplayProofs -------------------------
(***************************************************************************)
(* What Pipeline does to the target, and what its checkpoint says of it,   *)
(* for every set of tables, every log, every set of faults and bound on    *)
(* them, and any length of a run.                                          *)
(*                                                                         *)
(* The strata stand on those of PipelineProofs:                            *)
(*                                                                         *)
(* 4. Positions: the row of the storage says what the memory says          *)
(*    (RowState); the marks in the log are in order (Marks); a snapshot    *)
(*    asked for is not older than anything at the target (Fresh); a        *)
(*    context is not behind the checkpoint (Ahead); the running txns are   *)
(*    those of rising binlogs after it, uncommitted but for the one whose  *)
(*    answer is taken (Listing), and a txn that is committed and still     *)
(*    listed is of a binlog after it (Above).                              *)
(* 5. Passed: what the job takes for done is at the target or in a running *)
(*    txn - what the map of table commit seqs filters (FiltersHold), what  *)
(*    a rollback finds committed (CommitsPassed), what the context has     *)
(*    consumed (Consumed), what a partial snapshot does not bring          *)
(*    (PartialMissing).                                                    *)
(* 6. The replay: where nothing is skipped by silence the target has all   *)
(*    that the checkpoint has passed (Synced), a txn is launched for       *)
(*    tables of its binlog (Subsets), and every step is a step of          *)
(*    BinlogReplay or none.                                                *)
(* 7. The order: as long as no commit is lost, a progress and its row name *)
(*    the same seqs (RowSync) and no txn that is listed is committed       *)
(*    (Unsettled); a table was restored to the checkpoint or to what the   *)
(*    map says of it (Bases); a running txn is newer than the restore of   *)
(*    its tables (Newer); what was applied is behind the checkpoint or     *)
(*    about to be, but for the one binlog a handler has applied and not    *)
(*    recorded (Caught); and so every table has its binlogs in order, each *)
(*    once (Once).                                                         *)
(***************************************************************************)
EXTENDS PipelineProofs
\* The checkpoint.
Ckpt == prog.prevCommitSeq

\* A batch of binlogs is fetched: it starts where the last one ended, or at what is still kept.
LEMMA FetchEffect ==
    ASSUME Shape, GetNextBinlogs
    PROVE  /\ pc = "loop" /\ pc' = "fetched" /\ Sub = "LaunchTransaction" /\ Live
           /\ UNCHANGED <<srcVars, destVars, prog, disk, cursor, extra, interrupt, budget, lost>>
           /\ pipe # Nil /\ pipe.pos = pipe.next /\ Ckpt <= pipe.next
           /\ pipe' \in ContextsAt(N, M) /\ pipe' # Nil /\ SameLinks(pipe, pipe')
           /\ pipe'.pos \in {pipe.next, gc} /\ pipe.next <= pipe'.pos /\ gc <= pipe'.pos
           /\ pipe'.pos <= pipe'.next
<1>1. /\ pc = "loop" /\ pc' = "fetched" /\ Sub = "LaunchTransaction"
      /\ UNCHANGED <<srcVars, destVars, prog, disk, cursor, extra, interrupt, budget, lost>>
      /\ pipe.next < Len(log) /\ Ckpt <= pipe.next /\ ~HasBinlogs(pipe)
  BY DEF GetNextBinlogs, NeedsBinlogs, AtLoop, Goto, Sub, Ckpt
<1>2. PICK from : from = Max({pipe.next, gc})
  OBVIOUS
<1>3. PICK to : to = Min({from + BatchSize, Len(log)})
  OBVIOUS
<1>4. pipe' = [pipe EXCEPT !.pos = from, !.next = to]
  BY <1>2, <1>3 DEF GetNextBinlogs
<1>5. /\ Live /\ pipe # Nil /\ pipe \in ContextsAt(N, M) /\ pipe.next \in 0..N /\ gc \in 0..N
      /\ N \in Nat /\ N = Len(log) /\ pipe.pos \in 0..N /\ pipe.pos <= pipe.next
  <2>1. Live
    BY <1>1 DEF Live, LiveStates
  <2> QED
    BY <1>1, <2>1, LiveFacts, ShapeFacts DEF Shape, Typed, SourceTyped, N
<1>6. from \in 0..N /\ pipe.next <= from /\ gc <= from /\ from \in {pipe.next, gc}
  BY <1>2, <1>5, MaxMinOfTwo
<1>7. to \in 0..N /\ from <= to
  BY <1>3, <1>5, <1>6, PipelineAssumption, MaxMinOfTwo
<1>8. /\ pipe' \in ContextsAt(N, M) /\ pipe' # Nil /\ SameLinks(pipe, pipe')
      /\ pipe'.pos = from /\ pipe'.next = to
  BY <1>4, <1>5, <1>6, <1>7, ShapeFacts DEF ContextsAt, SameLinks
<1>9. pipe.pos = pipe.next
  BY <1>1, <1>5 DEF HasBinlogs
<1> QED
  BY <1>1, <1>5, <1>6, <1>7, <1>8, <1>9

\* The oldest result is taken: its txn is the oldest one that runs.
LEMMA TakeResultEffect ==
    ASSUME Shape, Ordered, TakeResult
    PROVE  /\ Live /\ pc = "loop" /\ Sub = "CommitPipeline" /\ pipe # Nil /\ Running # <<>>
           /\ UNCHANGED <<srcVars, destVars, more, cursor, extra, interrupt, budget, lost>>
           /\ \/ /\ pc' = "loop" /\ Sub' = "RollbackPipeline" /\ Same(prog, prog')
                 /\ extra.partialTable # Nil
                 /\ prog'.persistData = Data /\ Data' = Data
                 /\ disk'.subSyncState = "RollbackPipeline" /\ KeepsSync(prog, disk')
                 /\ pipe' # Nil /\ pipe'.pos = pipe.pos /\ pipe'.next = pipe.next
              \/ /\ pc' = "loop" /\ Sub' = "CommitPipelineTransaction" /\ Same(prog, prog')
                 /\ prog'.persistData = Data' /\ Data'.running = Running /\ Data' # Nil
                 /\ Commitable' = Head(Running)
                 /\ disk'.subSyncState = "CommitPipelineTransaction"
                 /\ pipe' # Nil /\ pipe'.pos = pipe.pos /\ pipe'.next = pipe.next
              \/ /\ pc' = "idle" /\ pipe' = Nil /\ prog' = prog /\ disk' = disk
              \/ /\ pc' = "idle" /\ pipe' = Nil /\ AsksFor(prog, prog', "DBFullSync")
<1>1. PICK r : r = Head(pipe.commitCh)
  OBVIOUS
<1>2. /\ r \in ResultsAt(N, M) /\ Live /\ pc = "loop" /\ Sub = "CommitPipeline"
      /\ pipe # Nil /\ Running # <<>> /\ pipe.commitCh # <<>>
      /\ UNCHANGED <<srcVars, destVars, more, cursor, extra, interrupt, budget, lost>>
  BY <1>1, TakeResultTyped
<1>3. pipe \in ContextsAt(N, M) /\ Data \in DataAt(N, M) /\ Data = prog.inMemoryData
  BY <1>2, CommitFacts
<1>4. pipe.commitCh \in Seq(ResultsAt(N, M))
  BY <1>3, ContextParts, ShapeFacts
<1>10. PICK ch0 \in Seq(ResultsAt(N, M)) : ch0 = pipe.commitCh
  BY <1>4
<1>11. /\ Tail(ch0) \in Seq(ResultsAt(N, M)) /\ ch0[1] = r /\ 1 \in 1..Len(ch0)
  BY <1>1, <1>2, <1>10
<1>12. PICK ch \in Seq(ResultsAt(N, M)) : ch = Tail(pipe.commitCh)
  BY <1>10, <1>11
<1>13. r.ctx = Head(Running)
  BY <1>1, <1>2, OrderedIsInOrder DEF ResultsInOrder, Sub
<1>5. CASE /\ r.err = "partial" /\ pc' = "loop" /\ Sub' = "RollbackPipeline"
           /\ Keeps(prog, prog') /\ KeepsSync(prog, prog')
           /\ prog'.persistData = Data /\ prog'.inMemoryData = Data
           /\ disk'.subSyncState = "RollbackPipeline" /\ KeepsSync(prog, disk')
           /\ pipe' = [pipe EXCEPT !.commitCh = Tail(@)]
  <2>1. pipe'.pos = pipe.pos /\ pipe'.next = pipe.next /\ pipe' # Nil
    <3>1. pipe' = [pipe EXCEPT !.commitCh = ch]
      BY <1>5, <1>12
    <3>2. pipe' \in ContextsAt(N, M)
      BY <1>3, <3>1 DEF ContextsAt
    <3> QED
      BY <1>3, <3>1, <3>2, ShapeFacts DEF ContextsAt
  <2>2. extra.partialTable # Nil
    <3>1. PartialKnown
      BY <1>2 DEF Ordered
    <3> QED
      BY <1>5, <1>10, <1>11, <3>1 DEF PartialKnown
  <2> QED
    BY <1>2, <1>5, <2>1, <2>2 DEF Same, Data
<1>6. CASE /\ r.err = "ok" /\ pc' = "loop" /\ Sub' = "CommitPipelineTransaction"
           /\ Keeps(prog, prog') /\ KeepsSync(prog, prog')
           /\ prog'.persistData = [Data EXCEPT !.commitable = r.ctx]
           /\ prog'.inMemoryData = [Data EXCEPT !.commitable = r.ctx]
           /\ disk'.subSyncState = "CommitPipelineTransaction"
           /\ pipe' = [pipe EXCEPT !.commitCh = Tail(@)]
  <2>1. pipe'.pos = pipe.pos /\ pipe'.next = pipe.next /\ pipe' # Nil
    <3>1. pipe' = [pipe EXCEPT !.commitCh = ch]
      BY <1>6, <1>12
    <3>2. pipe' \in ContextsAt(N, M)
      BY <1>3, <3>1 DEF ContextsAt
    <3> QED
      BY <1>3, <3>1, <3>2, ShapeFacts DEF ContextsAt
  <2>2. PICK d : d = [Data EXCEPT !.commitable = r.ctx]
    OBVIOUS
  <2>3. d \in DataAt(N, M) /\ d.running = Data.running /\ d.commitable = r.ctx
    BY <1>2, <1>3, <2>2 DEF DataAt, ResultsAt
  <2>4. prog'.persistData = d /\ prog'.inMemoryData = d /\ d # Nil
    BY <1>6, <2>2, <2>3, ShapeFacts
  <2> QED
    BY <1>2, <1>13, <1>6, <2>1, <2>3, <2>4 DEF Same, Data, Running, Commitable
<1>7. CASE r.err = "ok" /\ r.ctx.txnId # Head(Running).txnId
  BY <1>7, <1>13
<1>8. CASE /\ r.err \in {"error", "meta"} /\ ResetAndFail(r.err) /\ pc' = "idle" /\ pipe' = Nil
  BY <1>2, <1>8, ResetAndFailEffect
<1> QED
  BY <1>1, <1>5, <1>6, <1>7, <1>8, TakeResultTyped
-----------------------------------------------------------------------------
\* The row of the job is in the job's state, but for the states it moves through in memory only.
RowState ==
    \/ disk.subSyncState = Sub
    \/ /\ Sub \in {"LaunchTransaction", "CommitPipeline"}
       /\ disk.subSyncState \in {"Done"} \cup LiveStates

\* A persisted progress and its row are in the same state.
LEMMA PersistRow ==
    ASSUME Shape', NEW p, Persist(p)
    PROVE  disk'.subSyncState = Sub'
<1>1. PICK q : q = prog'
  OBVIOUS
<1>2. q \in ProgressAt(Len(log)', Len(txns)') /\ q = p
  BY <1>1 DEF Shape, Typed, JobTyped, Persist
<1>3. disk' = [q EXCEPT !.inMemoryData = Nil, !.lockedCommitSeq = 0]
  BY <1>2 DEF Persist, Persisted
<1> QED
  BY <1>1, <1>2, <1>3 DEF ProgressAt, Sub

\* So are they after a request for a snapshot.
LEMMA AskedRow ==
    ASSUME Shape', NEW p, NEW s, AsksFor(p, prog', s)
    PROVE  disk'.subSyncState = Sub' /\ Sub' = "BeginCreateSnapshot"
<1>1. DiskFollows' /\ Sub' = "BeginCreateSnapshot"
  BY DEF Shape, AsksFor, Sub
<1> QED
  BY <1>1 DEF DiskFollows, Snapshotting
-----------------------------------------------------------------------------
\* A step that moves neither the job's state nor the row's.
LEMMA SameRow ==
    ASSUME RowState, Sub' = Sub, disk'.subSyncState = disk.subSyncState
    PROVE  RowState'
BY DEF RowState, Sub, LiveStates

\* A row in the state of the progress says what the memory says.
LEMMA EqualRow ==
    ASSUME disk'.subSyncState = Sub'
    PROVE  RowState'
BY DEF RowState, Sub

\* A launch leaves the row behind: it is in the state of the last launch or commit.
LEMMA LaunchRow ==
    ASSUME RowState, Sub' \in {"LaunchTransaction", "CommitPipeline"},
           disk'.subSyncState \in {disk.subSyncState, "Done"} \cup LiveStates,
           Sub \in {"Done"} \cup LiveStates
    PROVE  RowState'
BY DEF RowState, Sub, LiveStates

\* The steps that move the checkpoint write the row.
LEMMA LockRow ==
    ASSUME Shape, FinishBinlog \/ FinishBinlogLockFails \/ FinishCommit \/ FinishCommitLockFails
    PROVE  disk'.subSyncState = Sub'
<1>1. CASE FinishBinlog \/ FinishBinlogLockFails
  <2>1. PICK p : p = HandledProgress
    OBVIOUS
  <2>2. pc = "handled" /\ disk' = Persisted(p) /\ Sub' = "Done"
    BY <1>1, <2>1, FinishBinlogEffect
       DEF FinishBinlog, FinishBinlogLockFails, LockBinlog, LockBinlogFails, Persist
  <2>3. p \in ProgressAt(N, M) /\ p.subSyncState = "Done"
    BY <2>1, <2>2, HandledTyped
  <2> QED
    BY <2>2, <2>3, ShapeFacts, PersistedTyped
<1>2. CASE FinishCommit \/ FinishCommitLockFails
  <2>1. PICK p : p = CommittedProgress
    OBVIOUS
  <2>2. pc = "committed" /\ disk' = Persisted(p) /\ Sub' = "CommitPipeline"
    BY <1>2, <2>1, FinishCommitEffect
       DEF FinishCommit, FinishCommitLockFails, LockBinlog, LockBinlogFails, Persist
  <2>3. p \in ProgressAt(N, M) /\ p.subSyncState = "CommitPipeline"
    BY <2>1, <2>2, CommittedTyped
  <2> QED
    BY <2>2, <2>3, ShapeFacts, PersistedTyped
<1> QED
  BY <1>1, <1>2

\* The states of the row and of the job stay together.
LEMMA NextRow ==
    ASSUME Shape, Ordered, Shape', RowState, [Next]_vars
    PROVE  RowState'
<1>1. CASE EnterSync
  <2>1. CASE prog' = prog /\ disk' = disk
    BY <2>1, SameRow DEF Sub
  <2>2. CASE Sub = "RollbackPipeline" /\ Sub' = "RollbackPipeline" /\ disk' = disk
    BY <2>2, SameRow
  <2>3. CASE Sub' = "RollbackPipeline" /\ disk'.subSyncState = "RollbackPipeline"
    BY <2>3, EqualRow
  <2> QED
    BY <1>1, <2>1, <2>2, <2>3, EnterSyncEffect
<1>2. CASE \/ StartPartialSnapshot \/ RecoverIncrementalSync \/ SkipByFullSync
           \/ SkipByPartialSync \/ HandleBinlog \/ FinishPipeline \/ YieldPipeline
           \/ FinishRollback \/ HandleBySnapshot \/ FinishFullSync \/ FinishPartialSync
  <2>1. \E p : Persist(p)
    BY <1>2
       DEF StartPartialSnapshot, RecoverIncrementalSync, SkipByFullSync, SkipByPartialSync,
           HandleBinlog, FinishPipeline, YieldPipeline, FinishRollback, HandleBySnapshot,
           FinishFullSync, FinishPartialSync
  <2> QED
    BY <2>1, PersistRow, EqualRow
<1>3. CASE StartPipeline
  <2>1. disk' = disk /\ Sub' = "LaunchTransaction" /\ Sub = "Done"
    BY <1>3, StartPipelineEffect
  <2> QED
    BY <2>1, LaunchRow
<1>4. CASE HandleCommittedBinlog \/ ExecuteDDL \/ ExecuteDDLLosesReply
  BY <1>4, ExecuteEffect, SameRow
<1>5. CASE HandleBinlogFails
  BY <1>5, HandleBinlogFailsEffect, SameRow, AskedRow, EqualRow DEF Sub
<1>6. CASE \/ FinishBinlog \/ FinishBinlogLockFails \/ FinishCommit \/ FinishCommitLockFails
  BY <1>6, LockRow, EqualRow
<1>7. CASE NoMoreBinlogs
  <2>1. (prog' = prog /\ disk' = disk) \/ Persist(NoPrevTxn)
    BY <1>7 DEF NoMoreBinlogs
  <2> QED
    BY <2>1, SameRow, PersistRow, EqualRow DEF Sub
<1>8. CASE NothingToLaunch \/ SkipUpsert
  <2>1. disk' = disk /\ Sub' = "CommitPipeline" /\ Sub = "LaunchTransaction"
    BY <1>8, SkippedEffect
  <2> QED
    BY <2>1, LaunchRow DEF LiveStates
<1>9. CASE BeginTxnFails
  <2>1. \/ prog' = prog /\ disk' = disk
        \/ \E p : Persist(p)
    BY <1>9 DEF BeginTxnFails, ResetAndFail, HandleError, Volatile
  <2> QED
    BY <2>1, SameRow, PersistRow, EqualRow DEF Sub
<1>10. CASE LaunchIngestJob \/ LaunchTriggersPartialSnapshot
  <2>1. disk'.subSyncState = "LaunchTransaction" /\ Sub' = "CommitPipeline"
        /\ Sub = "LaunchTransaction"
    BY <1>10, LaunchEffect
  <2> QED
    BY <2>1, LaunchRow DEF LiveStates
<1>11. CASE LaunchIngestJobFails
  <2>1. \/ disk'.subSyncState = "LaunchTransaction" /\ Sub' = "LaunchTransaction"
        \/ AsksFor(prog, prog', "DBFullSync")
    BY <1>11, LaunchFailsEffect
  <2> QED
    BY <2>1, AskedRow, EqualRow
<1>12. CASE TakeResult
  <2>1. \/ Sub' = disk'.subSyncState
        \/ prog' = prog /\ disk' = disk
        \/ AsksFor(prog, prog', "DBFullSync")
    BY <1>12, TakeResultEffect
  <2> QED
    BY <2>1, SameRow, AskedRow, EqualRow DEF Sub
<1>13. CASE LaunchMore
  <2>1. disk' = disk /\ Sub' = "LaunchTransaction" /\ Sub = "CommitPipeline"
    BY <1>13, LaunchMoreEffect
  <2> QED
    BY <2>1, LaunchRow DEF LiveStates
<1>14. CASE StartRollback \/ RollbackTxn
  <2>1. disk' = disk /\ Sub' = Sub
    BY <1>14, StartRollbackEffect, RollbackTxnEffect
  <2> QED
    BY <2>1, SameRow
<1>15. CASE prog' = prog /\ disk' = disk
  BY <1>15, SameRow DEF Sub
<1>16. CASE \/ LeaveOnInterrupt \/ ConsumeInterruptSignals \/ GetNextBinlogs
            \/ GetNextBinlogsFails \/ PanicOnStaleContext \/ BeginTxn \/ CommitTxn
            \/ CommitTxnFails \/ RollbackTxnFails
  <2>1. prog' = prog /\ disk' = disk
    BY <1>16, CommitTxnFailsEffect
       DEF LeaveOnInterrupt, ConsumeInterruptSignals, GetNextBinlogs, GetNextBinlogsFails,
           PanicOnStaleContext, BeginTxn, CommitTxn, RollbackTxnFails
  <2> QED
    BY <1>15, <2>1
<1>17. CASE WorkerStep
  BY <1>15, <1>17, WorkerTyped
<1>18. CASE Environment
  <2>1. CASE Crash
    <3>1. prog' = disk /\ disk' = disk
      BY <2>1 DEF Crash
    <3> QED
      BY <3>1, EqualRow DEF Sub
  <2>2. CASE ~Crash
    BY <1>15, <1>18, <2>2, EnvironmentEffect DEF Environment
  <2> QED
    BY <2>1, <2>2
<1>19. CASE UNCHANGED vars
  BY <1>15, <1>19 DEF vars
<1> QED
  BY <1>1, <1>2, <1>3, <1>4, <1>5, <1>6, <1>7, <1>8, <1>9, <1>10, <1>11, <1>12, <1>13, <1>14,
     <1>16, <1>17, <1>18, <1>19 DEF Next, JobStep, JobAction
-----------------------------------------------------------------------------
\* No txn becomes committed.
NoCommit ==
    \A i \in 1..Len(txns') : txns'[i].status = "COMMITTED" =>
        i \in 1..M /\ txns[i].status = "COMMITTED"

\* The commit of the txn whose turn it is: its answer arrives, or it does not.
Commits ==
    /\ Live /\ Sub = "CommitPipelineTransaction" /\ pc = "loop" /\ pipe # Nil
    /\ txns[Commitable.txnId].status = "PREPARE"
    /\ txns' = [txns EXCEPT ![Commitable.txnId].status = "COMMITTED"]
    /\ Apply(Commitable.commitSeq, Commitable.tables)
    /\ UNCHANGED <<srcVars, prog, disk, extra>>
    /\ \/ pipe' = pipe /\ pc' = "committed"
       \/ pipe' = Nil /\ pc' = "idle" /\ lost'

\* A step that changes no txn commits none.
LEMMA SameTxnsCommit ==
    ASSUME Shape, txns' = txns
    PROVE  NoCommit
BY DEF NoCommit, M

\* A txn just begun is not committed.
LEMMA NewTxnCommits ==
    ASSUME Shape, Len(txns) < MaxTxn, txns' = NewTxn
    PROVE  NoCommit
<1>1. /\ NewTxn \in Seq(TxnRecords) /\ Len(NewTxn) = M + 1 /\ M \in Nat
      /\ NewTxn[M + 1] = [status |-> "PREPARE", recorded |-> FALSE]
      /\ \A i \in 1..M : NewTxn[i] = txns[i]
  BY NewTxnTyped, ShapeFacts
<1>2. ASSUME NEW i \in 1..Len(txns'), txns'[i].status = "COMMITTED"
      PROVE  i \in 1..M /\ txns[i].status = "COMMITTED"
  <2>1. txns'[M + 1].status = "PREPARE"
    BY <1>1
  <2>2. i # M + 1
    BY <1>2, <2>1
  <2>3. i \in 1..M
    BY <1>1, <2>2
  <2> QED
    BY <1>1, <1>2, <2>3
<1> QED
  BY <1>2 DEF NoCommit

\* An abort commits nothing, nor does the record of a txn.
LEMMA AbortCommits ==
    ASSUME Shape,
           \/ Recorded
           \/ \E i \in 1..M : txns[i].status # "COMMITTED"
                              /\ txns' = [txns EXCEPT ![i].status = "ABORTED"]
    PROVE  NoCommit
<1>1. CASE Recorded
  BY <1>1, RecordedSettles DEF NoCommit
<1>2. CASE \E i \in 1..M : txns[i].status # "COMMITTED"
                           /\ txns' = [txns EXCEPT ![i].status = "ABORTED"]
  <2>1. PICK i \in 1..M : txns[i].status # "COMMITTED"
                          /\ txns' = [txns EXCEPT ![i].status = "ABORTED"]
    BY <1>2
  <2> QED
    BY <2>1, StatusSettles DEF NoCommit
<1> QED
  BY <1>1, <1>2

\* What a step may do to the target.
LEMMA NextTarget ==
    ASSUME Shape, [Next]_vars
    PROVE  \/ dest' = dest /\ NoCommit
           \/ Commits
           \/ (ExecuteDDL \/ ExecuteDDLLosesReply) /\ txns' = txns /\ NoCommit
           \/ (FinishFullSync \/ FinishPartialSync) /\ txns' = txns /\ NoCommit
<1>1. CASE CommitTxn
  <2>1. Sub = "CommitPipelineTransaction" /\ Live /\ pc = "loop"
    BY <1>1 DEF CommitTxn, AtLoop, Sub, Live, LiveStates
  <2> QED
    BY <1>1, <2>1, CommitableFacts DEF CommitTxn, Commits, Goto
<1>2. CASE CommitTxnFails
  <2>1. /\ pc = "loop" /\ Sub = "CommitPipelineTransaction" /\ pipe' = Nil /\ pc' = "idle"
        /\ UNCHANGED <<srcVars, prog, disk, more, cursor, extra, interrupt>>
        /\ \/ UNCHANGED <<destVars, lost>>
           \/ /\ lost' = TRUE /\ txns[Commitable.txnId].status = "PREPARE"
              /\ txns' = [txns EXCEPT ![Commitable.txnId].status = "COMMITTED"]
              /\ Apply(Commitable.commitSeq, Commitable.tables)
    BY <1>2, CommitTxnFailsEffect
       DEF CommitTxnFails
  <2>2. Live /\ pipe # Nil
    BY <2>1, CommitableFacts DEF Live, LiveStates
  <2> QED
    BY <2>1, <2>2, SameTxnsCommit DEF Commits, destVars
<1>3. CASE RollbackTxn
  <2>1. /\ pc = "rollback" /\ cursor < Len(Running) /\ dest' = dest
        /\ \/ txns' = txns
           \/ /\ txns[Running[cursor + 1].txnId].status # "COMMITTED"
              /\ txns' = [txns EXCEPT ![Running[cursor + 1].txnId].status = "ABORTED"]
    BY <1>3, RollbackTxnEffect
  <2> QED
    BY <2>1, RollingTxn, SameTxnsCommit, AbortCommits
<1>4. CASE TargetAborts
  <2>1. PICK i \in DOMAIN txns : txns[i].status = "PREPARE"
                                 /\ txns' = [txns EXCEPT ![i].status = "ABORTED"]
    BY <1>4 DEF TargetAborts
  <2>2. i \in 1..M
    BY <2>1, ShapeFacts DEF Shape, Typed, TargetTyped, M
  <2> QED
    BY <1>4, <2>1, <2>2, AbortCommits DEF TargetAborts
<1>5. CASE BeginTxn
  BY <1>5, NewTxnCommits DEF BeginTxn
<1>6. CASE BeginTxnFails
  BY <1>6, NewTxnCommits, SameTxnsCommit DEF BeginTxnFails
<1>7. CASE LaunchIngestJob \/ LaunchTriggersPartialSnapshot \/ LaunchIngestJobFails
  BY <1>7, AbortCommits
     DEF LaunchIngestJob, LaunchTriggersPartialSnapshot, LaunchIngestJobFails
<1>8. CASE dest' = dest /\ txns' = txns
  BY <1>8, SameTxnsCommit
<1>9. CASE JobStep
  <2>1. CASE \/ EnterSync \/ LeaveOnInterrupt \/ ConsumeInterruptSignals
             \/ StartPartialSnapshot \/ RecoverIncrementalSync \/ SkipByFullSync
             \/ SkipByPartialSync \/ StartPipeline \/ HandleBinlog
    BY <1>8, <2>1
       DEF EnterSync, LeaveOnInterrupt, ConsumeInterruptSignals, StartPartialSnapshot,
           RecoverIncrementalSync, SkipByFullSync, SkipByPartialSync, StartPipeline,
           HandleBinlog, destVars
  <2>2. CASE \/ HandleCommittedBinlog \/ HandleBinlogFails \/ HandleBySnapshot \/ FinishBinlog
             \/ FinishBinlogLockFails \/ GetNextBinlogs \/ NoMoreBinlogs \/ GetNextBinlogsFails
    BY <1>8, <2>2
       DEF HandleCommittedBinlog, HandleBinlogFails, HandleBySnapshot, FinishBinlog,
           FinishBinlogLockFails, GetNextBinlogs, NoMoreBinlogs, GetNextBinlogsFails, destVars
  <2>3. CASE \/ PanicOnStaleContext \/ NothingToLaunch \/ SkipUpsert \/ TakeResult
             \/ FinishPipeline \/ LaunchMore \/ YieldPipeline \/ FinishCommit
             \/ FinishCommitLockFails \/ StartRollback \/ RollbackTxnFails \/ FinishRollback
    BY <1>8, <2>3
       DEF PanicOnStaleContext, NothingToLaunch, SkipUpsert, TakeResult, FinishPipeline,
           LaunchMore, YieldPipeline, FinishCommit, FinishCommitLockFails, StartRollback,
           RollbackTxnFails, FinishRollback, destVars
  <2>4. CASE ExecuteDDL \/ ExecuteDDLLosesReply
    BY <2>4, ExecuteEffect, SameTxnsCommit
  <2>5. CASE FinishFullSync \/ FinishPartialSync
    BY <2>5, SnapshotEffect, SameTxnsCommit
  <2> QED
    BY <1>1, <1>2, <1>3, <1>5, <1>6, <1>7, <1>9, <2>1, <2>2, <2>3, <2>4, <2>5
       DEF JobStep, JobAction
<1>10. CASE WorkerStep
  BY <1>8, <1>10, WorkerTyped DEF destVars
<1>11. CASE Environment
  BY <1>4, <1>8, <1>11
     DEF Environment, SourceWrites, SourceCollects, Interrupt, SkipBinlog, Crash, destVars
<1>12. CASE UNCHANGED vars
  BY <1>8, <1>12 DEF vars
<1> QED
  BY <1>9, <1>10, <1>11, <1>12 DEF Next
-----------------------------------------------------------------------------
Rising(R) == \A j, k \in 1..Len(R) : j < k =>
    R[j].commitSeq < R[k].commitSeq /\ R[j].txnId < R[k].txnId
Between(R, a, b) == \A k \in 1..Len(R) : a < R[k].commitSeq /\ R[k].commitSeq <= b
CommittedAbove(R) == \A k \in 1..Len(R) :
    txns[R[k].txnId].status = "COMMITTED" => Ckpt < R[k].commitSeq
Uncommitted(R) == \A k \in 1..Len(R) : txns[R[k].txnId].status # "COMMITTED"

\* The marks in the log: collected, locked, checkpoint, commit seq.
Marks ==
    /\ gc <= locked /\ locked <= Ckpt
    /\ Ckpt <= prog.commitSeq /\ Ckpt <= disk.commitSeq
    /\ Live => prog.commitSeq = Ckpt

\* A snapshot that is asked for is not older than anything the target has.
Fresh ==
    /\ Snapshotting =>
        /\ prog.commitSeq <= asked
        /\ \A t \in Tables : /\ dest[t].base <= asked
                             /\ \A i \in DOMAIN dest[t].applied : dest[t].applied[i] <= asked
    /\ Snapshotting /\ pipe # Nil =>
        prog.syncState = "DBFullSync" /\ extra.partialTable = Nil /\ pipe.next <= asked

\* A context is not behind the checkpoint, or it has no binlogs left.
Ahead ==
    pipe # Nil /\ ~Snapshotting /\ ~(Sub = "Done" /\ pc = "idle")
        => Ckpt <= pipe.pos \/ pipe.pos = pipe.next

\* The running txns are those of binlogs between the checkpoint and the position, in order; one of
\* them is committed only while the job takes the answer.
Listing ==
    /\ Live /\ pipe # Nil =>
        /\ Rising(Running) /\ Between(Running, Ckpt, pipe.pos)
        /\ \A k \in 1..Len(Running) :
              /\ txns[Running[k].txnId].status = "COMMITTED" => k = 1 /\ pc = "committed"
              /\ pc = "begun" => Running[k].txnId < M
        /\ pc # "committed" => Uncommitted(Stored)
    /\ pc = "begun" => txns[M].status # "COMMITTED"
    /\ Sub = "CommitPipelineTransaction" /\ pipe # Nil => Stored = Running

\* A txn that is committed, and still listed, is of a binlog after the checkpoint.
Above ==
    /\ CommittedAbove(Stored)
    /\ (Live \/ Sub = "RollbackPipeline") /\ Data # Nil => CommittedAbove(Running)
    /\ disk.subSyncState \in {"Done", "BeginCreateSnapshot"} => Uncommitted(Stored)

Positions == RowState /\ Marks /\ Fresh /\ Ahead /\ Listing /\ Above

\* The seqs of a state are positions in its log.
LEMMA Numbers ==
    ASSUME Shape
    PROVE  /\ N \in Nat /\ Ckpt \in 0..N /\ prog.commitSeq \in 0..N /\ disk.commitSeq \in 0..N
           /\ gc \in 0..N /\ locked \in 0..N /\ asked \in 0..N
           /\ prog.tableCommitSeqMap \in [Tables -> 0..N]
           /\ disk.tableCommitSeqMap \in [Tables -> 0..N]
           /\ disk.prevCommitSeq = Ckpt
           /\ pipe # Nil => pipe.pos \in 0..N /\ pipe.next \in 0..N /\ pipe.pos <= pipe.next
<1>1. pipe # Nil => pipe.pos \in 0..N /\ pipe.next \in 0..N /\ pipe.pos <= pipe.next
  BY ShapeFacts DEF ContextsAt, Control
<1>2. prog \in ProgressAt(N, M) /\ disk \in ProgressAt(N, M) /\ N \in Nat
  BY ShapeFacts
<1> QED
  BY <1>1, <1>2 DEF Shape, Typed, SourceTyped, ProgressAt, Ckpt, DiskFollows, N

\* The same of the state after a step.
LEMMA NextNumbers ==
    ASSUME Shape'
    PROVE  /\ N' \in Nat /\ Ckpt' \in 0..N' /\ prog'.commitSeq \in 0..N'
           /\ disk'.commitSeq \in 0..N'
           /\ gc' \in 0..N' /\ locked' \in 0..N' /\ asked' \in 0..N'
           /\ prog'.tableCommitSeqMap \in [Tables -> 0..N']
           /\ disk'.tableCommitSeqMap \in [Tables -> 0..N']
           /\ disk'.prevCommitSeq = Ckpt'
           /\ Sub' # "RollbackPipeline" =>
                /\ disk'.commitSeq = prog'.commitSeq
                /\ disk'.tableCommitSeqMap = prog'.tableCommitSeqMap
           /\ pipe' # Nil => pipe'.pos \in 0..N' /\ pipe'.next \in 0..N' /\ pipe'.pos <= pipe'.next
<1>1. Typed' /\ Control' /\ DiskFollows'
  BY DEF Shape
<1>2. prog' \in ProgressAt(N', M') /\ disk' \in ProgressAt(N', M') /\ N' \in Nat
      /\ pipe' \in ContextsAt(N', M') \cup {Nil}
      /\ gc' \in 0..N' /\ locked' \in 0..N' /\ asked' \in 0..N'
  BY <1>1 DEF Typed, SourceTyped, JobTyped, N, M
<1>3. pipe' # Nil => pipe'.pos \in 0..N' /\ pipe'.next \in 0..N' /\ pipe'.pos <= pipe'.next
  BY <1>1, <1>2 DEF ContextsAt, Control
<1> QED
  BY <1>1, <1>2, <1>3 DEF ProgressAt, Ckpt, DiskFollows, Sub

\* The marks stay where they are.
LEMMA MarksStay ==
    ASSUME Shape, Shape', Marks, gc' = gc, locked' = locked,
           Ckpt' = Ckpt, prog'.commitSeq = prog.commitSeq,
           Live' => Live \/ prog.commitSeq = Ckpt,
           Sub' = "RollbackPipeline" => disk'.commitSeq \in {disk.commitSeq, prog.commitSeq}
    PROVE  Marks'
<1>1. disk'.commitSeq \in {disk.commitSeq, prog.commitSeq}
  BY NextNumbers
<1> QED
  BY <1>1 DEF Marks, Live

\* The marks move on.
LEMMA MarksMove ==
    ASSUME Shape, Shape', Marks, gc' = gc, locked' \in {locked, Ckpt'},
           Ckpt <= Ckpt', Ckpt' <= prog'.commitSeq, Sub' # "RollbackPipeline",
           Live' => prog'.commitSeq = Ckpt'
    PROVE  Marks'
<1>1. disk'.commitSeq = prog'.commitSeq
  BY NextNumbers
<1>2. PICK g \in Nat, l \in Nat, m \in Nat, c \in Nat, d \in Nat :
         g = gc /\ l = locked /\ m = locked' /\ c = Ckpt /\ d = Ckpt'
  BY Numbers, NextNumbers
<1>3. g <= l /\ l <= c /\ c <= d /\ m \in {l, d}
  BY <1>2 DEF Marks
<1>4. g <= m /\ m <= d
  BY <1>3
<1> QED
  BY <1>1, <1>2, <1>4 DEF Marks, Live

\* A step that keeps the commit seqs and the map of a progress record, and the state, keeps the
\* marks.
LEMMA SameMarks ==
    ASSUME Shape, Shape', Marks, gc' = gc, locked' = locked, Same(prog, prog'),
           Live' => Live \/ prog.commitSeq = Ckpt,
           Sub' = "RollbackPipeline" => disk'.commitSeq \in {disk.commitSeq, prog.commitSeq}
    PROVE  Marks'
<1>1. Ckpt' = Ckpt /\ prog'.commitSeq = prog.commitSeq
  BY DEF Same, Keeps, KeepsSync, Ckpt
<1> QED
  BY <1>1, MarksStay

\* A request for a snapshot keeps the marks.
LEMMA AskedMarks ==
    ASSUME Shape, Shape', Marks, gc' = gc, locked' = locked, NEW s, AsksFor(prog, prog', s)
    PROVE  Marks'
<1>1. Ckpt' = Ckpt /\ prog'.commitSeq = prog.commitSeq /\ Sub' = "BeginCreateSnapshot"
  BY DEF AsksFor, Ckpt, Sub
<1> QED
  BY <1>1, MarksStay DEF Live, LiveStates

\* So does a rollback to the checkpoint.
LEMMA RolledMarks ==
    ASSUME Shape, Shape', Marks, gc' = gc, locked' = locked, RollsBack(prog, prog')
    PROVE  Marks'
<1>1. Ckpt' = Ckpt /\ prog'.commitSeq = Ckpt /\ Sub' = "Done"
  BY DEF RollsBack, Ckpt, Sub
<1> QED
  BY <1>1, MarksMove, Numbers DEF Live, LiveStates
-----------------------------------------------------------------------------
\* Handling a binlog: its commit seq is not below the checkpoint.
LEMMA HandleBinlogMarks ==
    ASSUME Shape, Shape', Marks, Ahead, HandleBinlog
    PROVE  Marks' /\ pipe' # Nil /\ Ckpt <= pipe'.pos /\ Ckpt' = Ckpt
<1>1. /\ pc = "loop" /\ Sub = "Done" /\ IsDone(prog) /\ UNCHANGED srcVars
      /\ pipe' = InitializedContext /\ HasNonUpsertBinlog(InitializedContext)
      /\ Keeps(prog, prog') /\ Sub' = "Done" /\ prog'.commitSeq = pipe'.pos + 1
  BY HandleBinlogEffect
<1>2. pipe' # Nil /\ pipe'.pos < pipe'.next
  BY <1>1, InitializedTyped DEF HasNonUpsertBinlog, HasBinlogs
<1>3. Ckpt <= pipe'.pos
  <2>1. CASE pipe = Nil
    <3>1. pipe' = NewContext(prog.commitSeq)
      BY <1>1, <2>1 DEF InitializedContext
    <3>2. pipe'.pos = prog.commitSeq /\ Ckpt = prog.commitSeq
      BY <1>1, <3>1 DEF NewContext, IsDone, Ckpt
    <3> QED
      BY <3>2, Numbers
  <2>2. CASE pipe # Nil
    <3>1. pipe'.pos = pipe.pos /\ pipe'.next = pipe.next
      BY <1>1, <2>2, InitializedTyped
    <3>2. ~Snapshotting
      BY <1>1 DEF Snapshotting
    <3>3. Ckpt <= pipe.pos \/ pipe.pos = pipe.next
      BY <1>1, <2>2, <3>2 DEF Ahead
    <3> QED
      BY <1>2, <2>2, <3>1, <3>3, Numbers
  <2> QED
    BY <2>1, <2>2
<1>4. Ckpt' = Ckpt
  BY <1>1 DEF Keeps, Ckpt
<1>5. Ckpt' <= prog'.commitSeq
  <2>1. pipe'.pos \in Nat /\ Ckpt \in Nat
    BY <1>2, Numbers, NextNumbers
  <2> QED
    BY <1>1, <1>3, <1>4, <2>1
<1>6. Marks'
  <2>1. Sub' # "RollbackPipeline" /\ ~Live' /\ gc' = gc /\ locked' = locked
    BY <1>1 DEF Live, LiveStates, srcVars
  <2>2. Ckpt <= Ckpt'
    BY <1>4, Numbers
  <2> QED
    BY <1>5, <2>1, <2>2, MarksMove
<1> QED
  BY <1>2, <1>3, <1>4, <1>6

\* The commit whose answer arrived moves the checkpoint to its binlog.
LEMMA CommitMarks ==
    ASSUME Shape, Shape', Ordered, Marks, Listing, FinishCommit \/ FinishCommitLockFails
    PROVE  /\ Marks' /\ pipe # Nil /\ Running # <<>> /\ Commitable = Head(Running)
           /\ Ckpt < Ckpt' /\ Ckpt' = Commitable.commitSeq /\ Ckpt' <= pipe.pos
           /\ prog'.commitSeq = Ckpt'
<1>1. /\ pc = "committed" /\ Sub = "CommitPipelineTransaction" /\ Sub' = "CommitPipeline"
      /\ gc' = gc /\ locked' \in {locked, Commitable.commitSeq}
      /\ prog'.commitSeq = Commitable.commitSeq
      /\ Ckpt' = Commitable.commitSeq
  BY FinishCommitEffect DEF Ckpt
<1>2. /\ pipe # Nil /\ Running # <<>> /\ Running \in Seq(TxnsAt(N, M)) /\ Live
  BY <1>1, CommitableFacts DEF Live, LiveStates
<1>3. Commitable = Head(Running)
  BY <1>1, <1>2 DEF Ordered
<1>4. PICK R \in Seq(TxnsAt(N, M)) : R = Running
  BY <1>2
<1>5. R # <<>> /\ 1 \in 1..Len(R) /\ Head(R) = R[1]
  BY <1>2, <1>4
<1>6. Between(R, Ckpt, pipe.pos)
  BY <1>2, <1>4 DEF Listing
<1>7. Ckpt < Commitable.commitSeq /\ Commitable.commitSeq <= pipe.pos
  BY <1>3, <1>4, <1>5, <1>6 DEF Between
<1>8. Marks'
  BY <1>1, <1>7, MarksMove, Numbers, NextNumbers
<1> QED
  BY <1>1, <1>2, <1>3, <1>7, <1>8

\* A binlog that is handled becomes the checkpoint.
LEMMA FinishBinlogMarks ==
    ASSUME Shape, Shape', Marks, FinishBinlog \/ FinishBinlogLockFails
    PROVE  Marks' /\ Ckpt <= Ckpt' /\ Ckpt' = prog.commitSeq /\ prog'.commitSeq = Ckpt'
<1>1. /\ Sub' = "Done" /\ gc' = gc /\ locked' \in {locked, prog.commitSeq}
      /\ prog'.commitSeq = prog.commitSeq /\ Ckpt' = prog.commitSeq
  BY FinishBinlogEffect DEF Ckpt
<1>2. Ckpt <= prog.commitSeq
  BY DEF Marks
<1>3. Marks'
  BY <1>1, <1>2, MarksMove, NextNumbers DEF Live, LiveStates
<1> QED
  BY <1>1, <1>2, <1>3

\* A txn found committed in a rollback is of a binlog after the checkpoint.
LEMMA RollbackTxnMarks ==
    ASSUME Shape, Shape', Marks, Above, RollbackTxn
    PROVE  Marks'
<1>1. /\ pc = "rollback" /\ cursor < Len(Running) /\ Sub = "RollbackPipeline"
      /\ UNCHANGED srcVars /\ disk' = disk /\ Keeps(prog, prog') /\ Sub' = Sub
      /\ \/ /\ txns[Running[cursor + 1].txnId].status = "COMMITTED"
            /\ prog'.commitSeq = Running[cursor + 1].commitSeq
         \/ prog' = prog
  BY RollbackTxnEffect, RollingFacts
<1>2. Data # Nil /\ cursor + 1 \in 1..Len(Running) /\ Running[cursor + 1].commitSeq \in 1..N
  BY <1>1, RollingFacts, RollingTxn
<1>3. Ckpt' = Ckpt /\ gc' = gc /\ locked' = locked
  BY <1>1 DEF Keeps, Ckpt, srcVars
<1>4. CASE prog' = prog
  BY <1>1, <1>3, <1>4, MarksStay DEF Live, LiveStates, Sub
<1>5. CASE /\ txns[Running[cursor + 1].txnId].status = "COMMITTED"
           /\ prog'.commitSeq = Running[cursor + 1].commitSeq
  <2>1. CommittedAbove(Running)
    BY <1>1, <1>2 DEF Above
  <2>2. Ckpt < prog'.commitSeq
    BY <1>2, <1>5, <2>1 DEF CommittedAbove
  <2>3. Ckpt' <= prog'.commitSeq
    BY <1>3, <2>2, Numbers, NextNumbers
  <2> QED
    BY <1>1, <1>3, <2>3 DEF Marks, Live, LiveStates
<1> QED
  BY <1>1, <1>4, <1>5

\* A snapshot is not older than the checkpoint.
LEMMA SnapshotMarks ==
    ASSUME Shape, Shape', Marks, Fresh, FinishFullSync \/ FinishPartialSync
    PROVE  Marks' /\ Ckpt <= Ckpt' /\ prog'.commitSeq = Ckpt'
<1>1. /\ Snapshotting /\ Sub' = "Done" /\ UNCHANGED srcVars
      /\ prog'.prevCommitSeq = prog'.commitSeq
      /\ prog'.commitSeq \in SnapshotSeqs \/ prog'.commitSeq = prog.commitSeq
  BY SnapshotEffect
<1>2. PICK c \in Nat, p \in Nat, a \in Nat, n \in Nat, d \in Nat :
        c = Ckpt /\ p = prog.commitSeq /\ a = asked /\ n = Len(log) /\ d = prog'.commitSeq
  <2>1. Ckpt \in Nat /\ prog.commitSeq \in Nat /\ asked \in Nat /\ Len(log) \in Nat
    BY Numbers DEF N
  <2>2. prog'.commitSeq \in Nat
    BY NextNumbers
  <2> QED
    BY <2>1, <2>2
<1>3. c <= p /\ p <= a
  BY <1>1, <1>2 DEF Marks, Fresh
<1>4. d \in a..n \/ d = p
  BY <1>1, <1>2 DEF SnapshotSeqs
<1>5. c <= d
  BY <1>3, <1>4
<1>6. Ckpt <= Ckpt' /\ prog'.commitSeq = Ckpt'
  BY <1>1, <1>2, <1>5 DEF Ckpt
<1>7. gc' = gc /\ locked' \in {locked, Ckpt'} /\ Sub' # "RollbackPipeline" /\ ~Live'
  BY <1>1 DEF srcVars, Live, LiveStates
<1>8. Ckpt' <= prog'.commitSeq
  BY <1>6, NextNumbers
<1> QED
  BY <1>6, <1>7, <1>8, MarksMove

\* A step of the environment, or none, keeps the marks.
LEMMA OutsideMarks ==
    ASSUME Shape, Shape', RowState, Marks, Environment \/ WorkerStep \/ UNCHANGED vars
    PROVE  Marks'
<1>1. CASE Crash
  <2>1. prog' = disk /\ disk' = disk /\ UNCHANGED srcVars
    BY <1>1 DEF Crash
  <2>2. Ckpt' = Ckpt /\ prog'.commitSeq = disk.commitSeq /\ disk'.commitSeq = disk.commitSeq
    BY <2>1, Numbers DEF Ckpt
  <2>3. Live' => Live
    BY <2>1 DEF RowState, Live, LiveStates, Sub
  <2>4. Live => disk.commitSeq = prog.commitSeq
    BY DEF Shape, DiskFollows, Live, LiveStates
  <2> QED
    BY <2>1, <2>2, <2>3, <2>4 DEF Marks, srcVars
<1>2. CASE SourceCollects
  <2>1. gc' = locked /\ locked' = locked /\ prog' = prog /\ disk' = disk
    BY <1>2 DEF SourceCollects
  <2> QED
    BY <2>1, Numbers DEF Marks, Ckpt, Live, Sub
<1>3. CASE prog' = prog /\ disk' = disk /\ gc' = gc /\ locked' = locked
  BY <1>3 DEF Marks, Ckpt, Live, Sub
<1>4. CASE SourceWrites \/ TargetAborts \/ Interrupt \/ SkipBinlog
  BY <1>3, <1>4 DEF SourceWrites, TargetAborts, Interrupt, SkipBinlog, srcVars
<1>5. CASE WorkerStep
  BY <1>3, <1>5, WorkerTyped DEF srcVars
<1>6. CASE UNCHANGED vars
  BY <1>3, <1>6 DEF vars
<1> QED
  BY <1>1, <1>2, <1>4, <1>5, <1>6 DEF Environment

\* The marks hold.
LEMMA NextMarks ==
    ASSUME Shape, Shape', Ordered, Positions, [Next]_vars
    PROVE  Marks'
<1> USE DEF Positions
<1>1. CASE EnterSync
  <2>1. Same(prog, prog') /\ gc' = gc /\ locked' = locked
    BY <1>1, EnterSyncEffect DEF srcVars
  <2>2. \/ prog' = prog /\ disk' = disk
        \/ Sub' = "RollbackPipeline" /\ (disk' = disk \/ KeepsSync(prog, disk'))
    BY <1>1, EnterSyncEffect
  <2> QED
    BY <2>1, <2>2, SameMarks DEF Live, LiveStates, Sub, KeepsSync
<1>2. CASE StartPartialSnapshot \/ RecoverIncrementalSync \/ SkipByFullSync \/ SkipByPartialSync
  BY <1>2, LeaveDoneEffect, AskedMarks, RolledMarks DEF srcVars
<1>3. CASE StartPipeline
  BY <1>3, StartPipelineEffect, SameMarks DEF IsDone, Ckpt, srcVars
<1>4. CASE HandleBinlog
  BY <1>4, HandleBinlogMarks
<1>5. CASE HandleCommittedBinlog \/ ExecuteDDL \/ ExecuteDDLLosesReply
  BY <1>5, ExecuteEffect, SameMarks DEF Live, srcVars
<1>6. CASE prog' = prog /\ disk' = disk /\ gc' = gc /\ locked' = locked
  BY <1>6 DEF Marks, Ckpt, Live, Sub
<1>7. CASE HandleBinlogFails \/ HandleBySnapshot
  BY <1>6, <1>7, HandleBinlogFailsEffect, HandleBySnapshotEffect, AskedMarks DEF srcVars
<1>8. CASE FinishBinlog \/ FinishBinlogLockFails
  BY <1>8, FinishBinlogMarks
<1>9. CASE NoMoreBinlogs
  <2>1. Same(prog, prog') /\ Sub' = Sub /\ Sub = "LaunchTransaction" /\ UNCHANGED srcVars
    BY <1>9, NoMoreBinlogsEffect DEF NoMoreBinlogs, NeedsBinlogs, AtLoop, Sub
  <2> QED
    BY <2>1, SameMarks DEF Live, srcVars
<1>10. CASE NothingToLaunch \/ SkipUpsert
  BY <1>10, SkippedEffect, SameMarks DEF srcVars
<1>11. CASE BeginTxnFails
  BY <1>6, <1>11, BeginTxnFailsEffect, AskedMarks, RolledMarks DEF srcVars
<1>12. CASE LaunchIngestJob \/ LaunchTriggersPartialSnapshot
  <2>1. /\ Same(prog, prog') /\ Sub' = "CommitPipeline" /\ Sub = "LaunchTransaction"
        /\ UNCHANGED srcVars
    BY <1>12, LaunchEffect
  <2> QED
    BY <2>1, SameMarks DEF Live, LiveStates, srcVars
<1>13. CASE LaunchIngestJobFails
  <2>1. /\ UNCHANGED srcVars /\ Sub = "LaunchTransaction"
        /\ \/ Same(prog, prog') /\ Sub' = "LaunchTransaction"
           \/ AsksFor(prog, prog', "DBFullSync")
    BY <1>13, LaunchFailsEffect
  <2> QED
    BY <2>1, SameMarks, AskedMarks DEF Live, LiveStates, srcVars
<1>14. CASE TakeResult
  <2>1. /\ UNCHANGED srcVars /\ Live
        /\ \/ Same(prog, prog') /\ Sub' = "RollbackPipeline" /\ KeepsSync(prog, disk')
           \/ Same(prog, prog') /\ Sub' = "CommitPipelineTransaction"
           \/ prog' = prog /\ disk' = disk
           \/ AsksFor(prog, prog', "DBFullSync")
    BY <1>14, TakeResultEffect
  <2> QED
    BY <1>6, <2>1, SameMarks, AskedMarks DEF KeepsSync, srcVars
<1>15. CASE FinishPipeline \/ LaunchMore
  <2>1. /\ UNCHANGED srcVars /\ Live /\ Same(prog, prog') /\ Sub' # "RollbackPipeline"
    BY <1>15, FinishPipelineEffect, LaunchMoreEffect DEF Live, LiveStates
  <2> QED
    BY <2>1, SameMarks DEF srcVars
<1>16. CASE YieldPipeline
  <2>1. /\ UNCHANGED srcVars /\ Live /\ prog'.commitSeq = prog.commitSeq
        /\ prog'.prevCommitSeq = prog.commitSeq /\ Sub' = "CommitPipeline"
    BY <1>16, YieldPipelineEffect DEF Live, LiveStates, KeepsSync
  <2>2. Ckpt' = Ckpt
    BY <2>1 DEF Marks, Ckpt
  <2> QED
    BY <2>1, <2>2, MarksStay DEF srcVars
<1>17. CASE FinishCommit \/ FinishCommitLockFails
  BY <1>17, CommitMarks
<1>18. CASE StartRollback
  <2>1. /\ UNCHANGED srcVars /\ Same(prog, prog') /\ Sub' = Sub /\ disk' = disk
    BY <1>18, StartRollbackEffect
  <2> QED
    BY <2>1, SameMarks DEF Live, srcVars
<1>19. CASE RollbackTxn
  BY <1>19, RollbackTxnMarks
<1>20. CASE FinishRollback
  <2>1. /\ UNCHANGED srcVars /\ Same(prog, prog') /\ Sub' = "Done"
    BY <1>20, FinishRollbackEffect
  <2> QED
    BY <2>1, SameMarks DEF Live, LiveStates, srcVars
<1>21. CASE FinishFullSync \/ FinishPartialSync
  BY <1>21, SnapshotMarks
<1>22. CASE CommitTxnFails
  BY <1>6, <1>22, CommitTxnFailsEffect DEF srcVars
<1>23. CASE \/ LeaveOnInterrupt \/ ConsumeInterruptSignals \/ GetNextBinlogs
            \/ GetNextBinlogsFails \/ PanicOnStaleContext \/ BeginTxn \/ CommitTxn
            \/ RollbackTxnFails
  BY <1>6, <1>23
     DEF LeaveOnInterrupt, ConsumeInterruptSignals, GetNextBinlogs, GetNextBinlogsFails,
         PanicOnStaleContext, BeginTxn, CommitTxn, RollbackTxnFails, srcVars
<1>24. CASE Environment \/ WorkerStep \/ UNCHANGED vars
  BY <1>24, OutsideMarks
<1> QED
  BY <1>1, <1>2, <1>3, <1>4, <1>5, <1>7, <1>8, <1>9, <1>10, <1>11, <1>12, <1>13, <1>14, <1>15,
     <1>16, <1>17, <1>18, <1>19, <1>20, <1>21, <1>22, <1>23, <1>24 DEF Next, JobStep, JobAction
-----------------------------------------------------------------------------
\* No step of the job writes a binlog.
LEMMA JobKeepsLog ==
    ASSUME JobAction
    PROVE  log' = log
<1>1. CASE \/ EnterSync \/ LeaveOnInterrupt \/ ConsumeInterruptSignals
           \/ StartPartialSnapshot \/ RecoverIncrementalSync \/ SkipByFullSync
           \/ SkipByPartialSync \/ StartPipeline \/ HandleBinlog \/ HandleCommittedBinlog
           \/ ExecuteDDL \/ ExecuteDDLLosesReply \/ HandleBinlogFails \/ HandleBySnapshot
  BY <1>1
     DEF EnterSync, LeaveOnInterrupt, ConsumeInterruptSignals, StartPartialSnapshot,
         RecoverIncrementalSync, SkipByFullSync, SkipByPartialSync, StartPipeline, HandleBinlog,
         HandleCommittedBinlog, ExecuteDDL, ExecuteDDLLosesReply, HandleBinlogFails,
         HandleBySnapshot, srcVars
<1>2. CASE \/ FinishBinlog \/ FinishBinlogLockFails \/ GetNextBinlogs \/ NoMoreBinlogs
           \/ GetNextBinlogsFails \/ PanicOnStaleContext \/ NothingToLaunch \/ SkipUpsert
           \/ BeginTxn \/ BeginTxnFails \/ LaunchIngestJob \/ LaunchTriggersPartialSnapshot
           \/ LaunchIngestJobFails
  BY <1>2
     DEF FinishBinlog, FinishBinlogLockFails, GetNextBinlogs, NoMoreBinlogs,
         GetNextBinlogsFails, PanicOnStaleContext, NothingToLaunch, SkipUpsert, BeginTxn,
         BeginTxnFails, LaunchIngestJob, LaunchTriggersPartialSnapshot, LaunchIngestJobFails,
         srcVars
<1>3. CASE \/ TakeResult \/ FinishPipeline \/ LaunchMore \/ YieldPipeline \/ CommitTxn
           \/ CommitTxnFails \/ FinishCommit \/ FinishCommitLockFails \/ StartRollback
           \/ RollbackTxn \/ RollbackTxnFails \/ FinishRollback \/ FinishFullSync
           \/ FinishPartialSync
  BY <1>3
     DEF TakeResult, FinishPipeline, LaunchMore, YieldPipeline, CommitTxn, CommitTxnFails,
         FinishCommit, FinishCommitLockFails, StartRollback, RollbackTxn, RollbackTxnFails,
         FinishRollback, FinishFullSync, FinishPartialSync, srcVars
<1> QED
  BY <1>1, <1>2, <1>3 DEF JobAction

\* While a snapshot is taken the job does nothing else.
LEMMA WhileSnapshotting ==
    ASSUME Shape, Snapshotting, JobAction
    PROVE  ConsumeInterruptSignals \/ ((FinishFullSync \/ FinishPartialSync) /\ ~Snapshotting')
<1>1. pc = "idle" /\ ~IsIncrementalSync(prog)
  BY DEF Shape, Control, DiskFollows, SyncOK, Snapshotting, Sub
<1>2. \/ EnterSync \/ ConsumeInterruptSignals \/ FinishFullSync \/ FinishPartialSync
  BY <1>1
     DEF JobAction, LeaveOnInterrupt, StartPartialSnapshot, RecoverIncrementalSync,
         SkipByFullSync, SkipByPartialSync, StartPipeline, HandleBinlog, HandleCommittedBinlog,
         ExecuteDDL, ExecuteDDLLosesReply, HandleBinlogFails, HandleBySnapshot, FinishBinlog,
         FinishBinlogLockFails, GetNextBinlogs, NoMoreBinlogs, GetNextBinlogsFails,
         PanicOnStaleContext, NothingToLaunch, SkipUpsert, BeginTxn, BeginTxnFails,
         LaunchIngestJob, LaunchTriggersPartialSnapshot, LaunchIngestJobFails, TakeResult,
         FinishPipeline, LaunchMore, YieldPipeline, CommitTxn, CommitTxnFails, FinishCommit,
         FinishCommitLockFails, StartRollback, RollbackTxn, RollbackTxnFails, FinishRollback,
         AtLoop, AtDone, Handling, NeedsBinlogs, NeedsTxn, MayLaunch, NoResult
<1>3. ~EnterSync
  BY <1>1 DEF EnterSync
<1>4. CASE FinishFullSync \/ FinishPartialSync
  BY <1>4, SnapshotEffect DEF Snapshotting
<1> QED
  BY <1>2, <1>3, <1>4

\* Why a partial snapshot is asked for: an ingest job wants it, the user does, or a schema change.
AskedWhy ==
    \/ Sub = "Done" /\ extra.partialTable # Nil /\ prog'.partialTable = extra.partialTable
    \/ IsDone(prog)
    \/ /\ pc = "handling" /\ log[prog.commitSeq].kind = "ALTER_JOB"
       /\ prog'.partialTable \in log[prog.commitSeq].tables

\* What a request for a snapshot leaves of the context: nothing, but after an error of a handler.
AskedContext ==
    /\ pipe' = Nil
       \/ (pipe' = pipe /\ prog'.syncState = "DBFullSync" /\ extra'.partialTable = Nil)
    /\ \E s : AsksFor(prog, prog', s)
    /\ prog'.syncState = "DBPartialSync" => AskedWhy

\* The requests of case Done leave no context.
LEMMA LeaveDoneAsks ==
    ASSUME Shape, Snapshotting',
           StartPartialSnapshot \/ RecoverIncrementalSync \/ SkipByFullSync \/ SkipByPartialSync
    PROVE  AskedContext
<1>1. /\ pipe' = Nil
      /\ \/ AsksFor(prog, prog', "DBPartialSync") /\ AskedWhy
         \/ AsksFor(prog, prog', "DBFullSync")
         \/ RollsBack(prog, prog')
  BY LeaveDoneEffect DEF AskedWhy, AtDone
<1> QED
  BY <1>1 DEF AskedContext, AsksFor, RollsBack, Snapshotting, Sub

\* The requests of a DDL handler leave no context, but after an error of category Meta.
LEMMA HandleAsks ==
    ASSUME Shape, ~Snapshotting, Snapshotting', HandleBinlogFails \/ HandleBySnapshot
    PROVE  AskedContext
<1>1. CASE HandleBinlogFails
  <2>1. /\ pipe' = pipe /\ extra' = extra /\ pc = "handling"
        /\ prog' = prog \/ AsksFor(prog, prog', "DBFullSync")
    BY <1>1, HandleBinlogFailsEffect
  <2>2. AsksFor(prog, prog', "DBFullSync")
    BY <2>1 DEF Snapshotting, Sub
  <2>3. extra'.partialTable = Nil
    BY <2>1, HandlingFacts
  <2> QED
    BY <2>1, <2>2, <2>3 DEF AskedContext, AsksFor
<1>2. CASE HandleBySnapshot
  <2>1. /\ pipe' = Nil
        /\ \/ AsksFor(prog, prog', "DBPartialSync") /\ AskedWhy
           \/ AsksFor(prog, prog', "DBFullSync")
    BY <1>2, HandleBySnapshotEffect DEF AskedWhy
  <2> QED
    BY <2>1 DEF AskedContext, AsksFor
<1> QED
  BY <1>1, <1>2

\* The requests of the pipeline's own errors leave no context.
LEMMA ErrorAsks ==
    ASSUME Shape, Ordered, ~Snapshotting, Snapshotting',
           BeginTxnFails \/ LaunchIngestJobFails \/ TakeResult
    PROVE  AskedContext
<1>1. CASE BeginTxnFails
  <2>1. /\ pipe' = Nil
        /\ \/ prog' = prog \/ AsksFor(prog, prog', "DBFullSync") \/ RollsBack(prog, prog')
    BY <1>1, BeginTxnFailsEffect
  <2> QED
    BY <2>1 DEF AskedContext, AsksFor, RollsBack, Snapshotting, Sub
<1>2. CASE LaunchIngestJobFails
  <2>1. /\ pipe' = Nil
        /\ Sub' = "LaunchTransaction" \/ AsksFor(prog, prog', "DBFullSync")
    BY <1>2, LaunchFailsEffect
  <2> QED
    BY <2>1 DEF AskedContext, AsksFor, Snapshotting
<1>3. CASE TakeResult
  <2>1. \/ Sub' = "RollbackPipeline" \/ Sub' = "CommitPipelineTransaction" \/ prog' = prog
        \/ pipe' = Nil /\ AsksFor(prog, prog', "DBFullSync")
    BY <1>3, TakeResultEffect
  <2> QED
    BY <2>1 DEF AskedContext, AsksFor, Snapshotting, Sub
<1> QED
  BY <1>1, <1>2, <1>3

\* How a snapshot comes to be asked for.
LEMMA SnapshotAsked ==
    ASSUME Shape, Ordered, ~Snapshotting, Snapshotting', JobAction
    PROVE  AskedContext
<1>1. CASE StartPartialSnapshot \/ RecoverIncrementalSync \/ SkipByFullSync \/ SkipByPartialSync
  BY <1>1, LeaveDoneAsks
<1>2. CASE HandleBinlogFails \/ HandleBySnapshot
  BY <1>2, HandleAsks
<1>3. CASE BeginTxnFails \/ LaunchIngestJobFails \/ TakeResult
  BY <1>3, ErrorAsks
<1>4. CASE Sub' = Sub
  BY <1>4 DEF Snapshotting
<1>5. CASE EnterSync
  <2>1. prog' = prog \/ Sub' = "RollbackPipeline"
    BY <1>5, EnterSyncEffect
  <2> QED
    BY <2>1 DEF Snapshotting, Sub
<1>6. CASE \/ HandleCommittedBinlog \/ ExecuteDDL \/ ExecuteDDLLosesReply \/ NoMoreBinlogs
           \/ RollbackTxn
  BY <1>4, <1>6, ExecuteEffect, NoMoreBinlogsEffect, RollbackTxnEffect
<1>7. CASE StartPipeline \/ HandleBinlog \/ FinishBinlog \/ FinishBinlogLockFails
  BY <1>7, StartPipelineEffect, HandleBinlogEffect, FinishBinlogEffect DEF Snapshotting
<1>8. CASE NothingToLaunch \/ SkipUpsert \/ FinishPipeline \/ LaunchMore \/ YieldPipeline
  BY <1>8, SkippedEffect, FinishPipelineEffect, LaunchMoreEffect, YieldPipelineEffect
     DEF Snapshotting
<1>9. CASE LaunchIngestJob \/ LaunchTriggersPartialSnapshot
  <2>1. Sub' = "CommitPipeline"
    BY <1>9, LaunchEffect
  <2> QED
    BY <2>1 DEF Snapshotting
<1>10. CASE FinishCommit \/ FinishCommitLockFails \/ StartRollback \/ FinishRollback
  BY <1>10, FinishCommitEffect, StartRollbackEffect, FinishRollbackEffect DEF Snapshotting
<1>11. CASE FinishFullSync \/ FinishPartialSync
  BY <1>11, SnapshotEffect DEF Snapshotting
<1>12. CASE \/ LeaveOnInterrupt \/ ConsumeInterruptSignals \/ GetNextBinlogs
            \/ GetNextBinlogsFails \/ PanicOnStaleContext \/ BeginTxn \/ CommitTxn
            \/ CommitTxnFails \/ RollbackTxnFails
  <2>1. prog' = prog
    BY <1>12, CommitTxnFailsEffect
       DEF LeaveOnInterrupt, ConsumeInterruptSignals, GetNextBinlogs, GetNextBinlogsFails,
           PanicOnStaleContext, BeginTxn, CommitTxn, RollbackTxnFails
  <2> QED
    BY <1>4, <2>1 DEF Sub
<1> QED
  BY <1>1, <1>2, <1>3, <1>5, <1>6, <1>7, <1>8, <1>9, <1>10, <1>11, <1>12 DEF JobAction

\* The elements of a sequence of seqs are seqs.
LEMMA SeqsOfSeq ==
    ASSUME NEW n \in Nat, NEW q \in Seq(1..n), NEW i \in DOMAIN q
    PROVE  q[i] \in 1..n
BY SMTT(30)

\* Everything the target has is within the log.
LEMMA TargetWithin ==
    ASSUME Shape'
    PROVE  \A t \in Tables : /\ dest'[t].base <= N'
                             /\ \A i \in DOMAIN dest'[t].applied : dest'[t].applied[i] <= N'
<1>1. dest' \in [Tables -> [base : 0..N', applied : Seq(1..N')]] /\ N' \in Nat
  BY NextNumbers DEF Shape, Typed, TargetTyped, N
<1>2. ASSUME NEW t \in Tables
      PROVE  /\ dest'[t].base <= N'
             /\ \A i \in DOMAIN dest'[t].applied : dest'[t].applied[i] <= N'
  <2>1. dest'[t].base \in 0..N' /\ dest'[t].applied \in Seq(1..N')
    BY <1>1
  <2>2. PICK n \in Nat : n = N'
    BY <1>1
  <2>3. PICK q \in Seq(1..n) : q = dest'[t].applied
    BY <2>1, <2>2
  <2>4. \A i \in DOMAIN q : q[i] \in 1..n
    BY SeqsOfSeq
  <2> QED
    BY <2>1, <2>2, <2>3, <2>4
<1> QED
  BY <1>2

\* A snapshot that is asked for is not older than what the target has.
LEMMA NextFresh ==
    ASSUME Shape, Shape', Ordered, Fresh, [Next]_vars
    PROVE  Fresh'
<1>1. CASE ~Snapshotting'
  BY <1>1 DEF Fresh
<1>2. CASE JobStep /\ Snapshotting' /\ ~Snapshotting
  <2>1. JobAction /\ AskedContext /\ log' = log
    BY <1>2, SnapshotAsked, JobKeepsLog DEF JobStep
  <2>2. Asks
    BY <1>2 DEF Shape, DiskFollows, Asks
  <2>3. asked' = Len(log) /\ N' = Len(log)
    BY <1>2, <2>1, <2>2 DEF JobStep, N
  <2>4. prog'.commitSeq <= asked' /\ (pipe' # Nil => pipe'.next <= asked')
    BY <2>3, NextNumbers
  <2>5. \A t \in Tables : /\ dest'[t].base <= asked'
                          /\ \A i \in DOMAIN dest'[t].applied : dest'[t].applied[i] <= asked'
    BY <2>3, TargetWithin
  <2> QED
    BY <2>1, <2>4, <2>5 DEF Fresh, AskedContext
<1>3. CASE JobStep /\ Snapshotting' /\ Snapshotting
  <2>1. ConsumeInterruptSignals /\ asked' = asked
    <3>1. ConsumeInterruptSignals
      BY <1>3, WhileSnapshotting DEF JobStep
    <3>2. ~Asks
      BY <1>3 DEF Shape, DiskFollows, Asks
    <3> QED
      BY <1>3, <3>1, <3>2 DEF JobStep
  <2> QED
    BY <2>1 DEF ConsumeInterruptSignals, Fresh, Snapshotting, Sub, destVars
<1>4. CASE UNCHANGED asked /\ Crash /\ Snapshotting'
  <2>1. prog' = disk /\ pipe' = Nil /\ dest' = dest /\ asked' = asked
    BY <1>4 DEF Crash, destVars
  <2>2. Snapshotting
    BY <1>4, <2>1 DEF Shape, DiskFollows, Snapshotting, Sub
  <2>3. disk.commitSeq = prog.commitSeq
    BY <2>2 DEF Shape, DiskFollows, Snapshotting
  <2> QED
    BY <2>1, <2>2, <2>3 DEF Fresh
<1>5. CASE UNCHANGED asked /\ Environment /\ ~Crash
  <2>1. /\ UNCHANGED <<dest, prog, pipe>> /\ extra'.partialTable = extra.partialTable
    BY <1>5, EnvironmentEffect DEF Environment
  <2> QED
    BY <1>5, <2>1 DEF Fresh, Snapshotting, Sub
<1>6. CASE UNCHANGED asked /\ WorkerStep
  <2>1. UNCHANGED <<dest, prog, extra>> /\ pipe # Nil /\ pipe'.next = pipe.next
    BY <1>6, WorkerTyped DEF destVars
  <2> QED
    BY <1>6, <2>1 DEF Fresh, Snapshotting, Sub
<1>7. CASE UNCHANGED vars
  BY <1>7 DEF vars, Fresh, Snapshotting, Sub
<1> QED
  BY <1>1, <1>2, <1>3, <1>4, <1>5, <1>6, <1>7 DEF Next
-----------------------------------------------------------------------------
\* A step that moves neither the checkpoint nor the context keeps the context ahead.
LEMMA SameAhead ==
    ASSUME Ahead, ~Snapshotting, ~(Sub = "Done" /\ pc = "idle"), Ckpt' = Ckpt,
           pipe' # Nil => pipe # Nil /\ pipe'.pos = pipe.pos /\ pipe'.next = pipe.next
    PROVE  Ahead'
BY DEF Ahead

\* A binlog is consumed.
LEMMA ConsumedAhead ==
    ASSUME Shape, Ahead, ~Snapshotting, ~(Sub = "Done" /\ pc = "idle"), Ckpt' = Ckpt,
           pipe # Nil, pipe.pos + 1 <= pipe.next, pipe'.pos = pipe.pos + 1
    PROVE  Ahead'
<1>1. PICK p \in Nat, n \in Nat, c \in Nat : p = pipe.pos /\ n = pipe.next /\ c = Ckpt
  BY Numbers
<1>2. c <= p
  <2>1. p # n
    BY <1>1
  <2> QED
    BY <1>1, <2>1 DEF Ahead
<1>3. Ckpt' <= pipe'.pos
  BY <1>1, <1>2
<1> QED
  BY <1>3 DEF Ahead

\* Ahead says nothing of a job that waits for its snapshot, or has just got it.
LEMMA SnapshotAhead ==
    ASSUME Shape, Snapshotting,
           ConsumeInterruptSignals \/ FinishFullSync \/ FinishPartialSync
    PROVE  Ahead'
<1>1. CASE ConsumeInterruptSignals
  BY <1>1 DEF ConsumeInterruptSignals, Ahead, Snapshotting, Sub
<1>2. CASE FinishFullSync \/ FinishPartialSync
  BY <1>2, SnapshotEffect DEF Ahead
<1> QED
  BY <1>1, <1>2

\* A tick drops what the checkpoint has passed.
LEMMA EnterAhead ==
    ASSUME Shape, EnterSync
    PROVE  Ahead'
<1>1. /\ Same(prog, prog')
      /\ pipe = Nil => pipe' = Nil
      /\ pipe # Nil =>
           /\ pipe'.next = pipe.next
           /\ \/ Ckpt <= pipe.pos /\ pipe'.pos = pipe.pos
              \/ pipe'.pos = Ckpt
              \/ pipe'.pos = pipe.next
  BY EnterSyncEffect DEF Ckpt
<1>2. Ckpt' = Ckpt /\ Ckpt \in Nat
  BY <1>1, Numbers DEF Same, Keeps, Ckpt
<1>3. CASE pipe = Nil
  BY <1>1, <1>3 DEF Ahead
<1>4. CASE pipe # Nil
  <2>1. Ckpt' <= pipe'.pos \/ pipe'.pos = pipe'.next
    BY <1>1, <1>2, <1>4
  <2> QED
    BY <2>1 DEF Ahead
<1> QED
  BY <1>3, <1>4

\* A pipeline, or a handler, starts with a context that is not behind.
LEMMA StartAhead ==
    ASSUME Shape, Shape', Ahead, Marks, StartPipeline \/ HandleBinlog
    PROVE  Ahead'
<1>1. CASE HandleBinlog
  BY <1>1, HandleBinlogMarks DEF Ahead
<1>2. CASE StartPipeline
  <2>1. /\ pc = "loop" /\ Sub = "Done" /\ pipe' = InitializedContext /\ Same(prog, prog')
    BY <1>2, StartPipelineEffect
  <2>2. Ckpt' = Ckpt /\ ~Snapshotting
    BY <2>1 DEF Same, Keeps, Ckpt, Snapshotting
  <2>3. CASE pipe = Nil
    <3>1. pipe' = NewContext(prog.commitSeq)
      BY <2>1, <2>3 DEF InitializedContext
    <3> QED
      BY <3>1 DEF Ahead, NewContext
  <2>4. CASE pipe # Nil
    BY <2>1, <2>2, <2>4, InitializedTyped, SameAhead
  <2> QED
    BY <2>3, <2>4
<1> QED
  BY <1>1, <1>2

\* A handler leaves its context where it is, or moves it past its binlog.
LEMMA HandleAhead ==
    ASSUME Shape, Shape', Ahead, Marks,
           \/ HandleCommittedBinlog \/ ExecuteDDL \/ ExecuteDDLLosesReply \/ HandleBinlogFails
           \/ HandleBySnapshot \/ FinishBinlog \/ FinishBinlogLockFails
    PROVE  Ahead'
<1>1. CASE HandleCommittedBinlog \/ ExecuteDDL \/ ExecuteDDLLosesReply
  <2>1. pc = "handling" /\ pipe' = pipe /\ Same(prog, prog')
    BY <1>1, ExecuteEffect
  <2>2. Ckpt' = Ckpt /\ ~Snapshotting
    BY <2>1, HandlingFacts DEF Same, Keeps, Ckpt, Snapshotting
  <2> QED
    BY <2>1, <2>2, SameAhead
<1>2. CASE HandleBinlogFails
  <2>1. /\ pc = "handling" /\ pc' = "idle"
        /\ prog' = prog \/ AsksFor(prog, prog', "DBFullSync")
    BY <1>2, HandleBinlogFailsEffect
  <2>2. (Sub' = "Done" /\ pc' = "idle") \/ Snapshotting'
    BY <2>1, HandlingFacts DEF AsksFor, Snapshotting, Sub
  <2> QED
    BY <2>2 DEF Ahead
<1>3. CASE HandleBySnapshot
  BY <1>3, HandleBySnapshotEffect DEF Ahead
<1>4. CASE FinishBinlog \/ FinishBinlogLockFails
  <2>1. /\ pc = "handled" /\ Sub' = "Done" /\ Ckpt' = prog.commitSeq
        /\ pc' = "idle" \/ (pc' = "loop" /\ pipe'.pos = pipe.pos + 1)
    BY <1>4, FinishBinlogEffect DEF Ckpt
  <2>2. prog.commitSeq = pipe.pos + 1
    BY <2>1, HandlingFacts
  <2> QED
    BY <2>1, <2>2, Numbers DEF Ahead
<1> QED
  BY <1>1, <1>2, <1>3, <1>4

\* Fetching and launching move the context forward.
LEMMA LaunchAhead ==
    ASSUME Shape, Shape', Ordered, Positions,
           \/ GetNextBinlogs \/ NoMoreBinlogs \/ GetNextBinlogsFails \/ PanicOnStaleContext
           \/ NothingToLaunch \/ SkipUpsert \/ BeginTxn \/ BeginTxnFails \/ LaunchIngestJob
           \/ LaunchTriggersPartialSnapshot \/ LaunchIngestJobFails
    PROVE  Ahead'
<1>1. Ahead
  BY DEF Positions
<1>2. Live => ~Snapshotting /\ ~(Sub = "Done" /\ pc = "idle")
  BY DEF Live, LiveStates, Snapshotting
<1>3. CASE GetNextBinlogs
  <2>1. /\ prog' = prog /\ pipe # Nil /\ Ckpt <= pipe.next /\ pipe.next <= pipe'.pos
    BY <1>3, FetchEffect
  <2>2. pipe.next \in Nat /\ Ckpt \in Nat /\ pipe'.pos \in Nat
    <3>1. pipe' # Nil
      BY <1>3, FetchEffect
    <3> QED
      BY <2>1, <3>1, Numbers, NextNumbers
  <2>3. Ckpt' <= pipe'.pos
    BY <2>1, <2>2 DEF Ckpt
  <2> QED
    BY <2>3 DEF Ahead
<1>4. CASE NoMoreBinlogs \/ GetNextBinlogsFails \/ PanicOnStaleContext
  <2>1. /\ Sub = "LaunchTransaction" /\ pipe' = pipe /\ (prog' = prog \/ NoMoreBinlogs)
    BY <1>4
       DEF NoMoreBinlogs, GetNextBinlogsFails, PanicOnStaleContext, NeedsBinlogs, AtLoop, Sub
  <2>2. Ckpt' = Ckpt
    BY <2>1, NoMoreBinlogsEffect DEF Same, Keeps, Ckpt
  <2> QED
    BY <1>1, <1>2, <2>1, <2>2, SameAhead DEF Live, LiveStates
<1>5. CASE NothingToLaunch \/ SkipUpsert
  <2>1. /\ Live /\ Same(prog, prog')
        /\ \/ pipe' = pipe
           \/ HasUpsertBinlog(pipe) /\ pipe'.pos = pipe.pos + 1
    BY <1>5, SkippedEffect
  <2>2. Ckpt' = Ckpt /\ pipe # Nil
    <3>1. pc # "idle"
      BY <1>5, SkippedEffect
    <3> QED
      BY <2>1, <3>1, LiveFacts DEF Same, Keeps, Ckpt
  <2>3. CASE pipe' = pipe
    BY <1>1, <1>2, <2>1, <2>2, <2>3, SameAhead
  <2>4. CASE HasUpsertBinlog(pipe) /\ pipe'.pos = pipe.pos + 1
    <3>1. pipe.pos + 1 <= pipe.next
      BY <2>2, <2>4, Numbers DEF HasUpsertBinlog, HasBinlogs
    <3> QED
      BY <1>1, <1>2, <2>1, <2>2, <2>4, <3>1, ConsumedAhead
  <2> QED
    BY <2>1, <2>3, <2>4
<1>6. CASE BeginTxn
  <2>1. prog' = prog /\ pipe' = pipe /\ Live
    BY <1>6, LaunchFacts DEF BeginTxn, NeedsTxn
  <2> QED
    BY <1>1, <1>2, <2>1, SameAhead DEF Ckpt
<1>7. CASE BeginTxnFails \/ LaunchIngestJobFails
  <2>1. pipe' = Nil
    BY <1>7, BeginTxnFailsEffect, LaunchFailsEffect
  <2> QED
    BY <2>1 DEF Ahead
<1>8. CASE LaunchIngestJob \/ LaunchTriggersPartialSnapshot
  <2>1. /\ pc = "begun" /\ Sub = "LaunchTransaction" /\ Same(prog, prog')
        /\ pipe.pos + 1 <= pipe.next /\ pipe'.pos = pipe.pos + 1
    BY <1>8, LaunchEffect
  <2>2. Live /\ Ckpt' = Ckpt
    BY <2>1 DEF Live, LiveStates, Same, Keeps, Ckpt
  <2>3. pipe # Nil
    BY <2>1, <2>2, LiveFacts
  <2> QED
    BY <1>1, <1>2, <2>1, <2>2, <2>3, ConsumedAhead
<1> QED
  BY <1>3, <1>4, <1>5, <1>6, <1>7, <1>8

\* A commit moves the checkpoint to a running txn, which is not past the context.
LEMMA CommitAhead ==
    ASSUME Shape, Shape', Ordered, Positions,
           \/ TakeResult \/ FinishPipeline \/ LaunchMore \/ YieldPipeline
           \/ CommitTxn \/ CommitTxnFails \/ FinishCommit \/ FinishCommitLockFails
    PROVE  Ahead'
<1>1. Ahead /\ Marks /\ Listing
  BY DEF Positions
<1>2. Live => ~Snapshotting /\ ~(Sub = "Done" /\ pc = "idle")
  BY DEF Live, LiveStates, Snapshotting
<1>3. CASE TakeResult
  <2>1. /\ Live /\ pipe # Nil
        /\ \/ Same(prog, prog') /\ pipe'.pos = pipe.pos /\ pipe'.next = pipe.next
           \/ pipe' = Nil
    BY <1>3, TakeResultEffect
  <2>2. CASE pipe' = Nil
    BY <2>2 DEF Ahead
  <2>3. CASE Same(prog, prog') /\ pipe'.pos = pipe.pos /\ pipe'.next = pipe.next
    <3>1. Ckpt' = Ckpt
      BY <2>3 DEF Same, Keeps, Ckpt
    <3> QED
      BY <1>1, <1>2, <2>1, <2>3, <3>1, SameAhead
  <2> QED
    BY <2>1, <2>2, <2>3
<1>4. CASE FinishPipeline \/ LaunchMore
  <2>1. Live /\ pipe' = pipe /\ Same(prog, prog')
    BY <1>4, FinishPipelineEffect, LaunchMoreEffect DEF Live, LiveStates
  <2>2. Ckpt' = Ckpt
    BY <2>1 DEF Same, Keeps, Ckpt
  <2> QED
    BY <1>1, <1>2, <2>1, <2>2, SameAhead
<1>5. CASE YieldPipeline
  <2>1. Live /\ pipe' = pipe /\ prog'.prevCommitSeq = prog.commitSeq
    BY <1>5, YieldPipelineEffect DEF Live, LiveStates
  <2>2. Ckpt' = Ckpt
    BY <1>1, <2>1 DEF Marks, Ckpt
  <2> QED
    BY <1>1, <1>2, <2>1, <2>2, SameAhead
<1>6. CASE CommitTxn
  <2>1. Live /\ pipe' = pipe /\ prog' = prog
    BY <1>6 DEF CommitTxn, AtLoop, Live, LiveStates, Sub
  <2> QED
    BY <1>1, <1>2, <2>1, SameAhead DEF Ckpt
<1>7. CASE CommitTxnFails
  BY <1>7, CommitTxnFailsEffect DEF Ahead
<1>8. CASE FinishCommit \/ FinishCommitLockFails
  <2>1. Ckpt' <= pipe.pos /\ pipe' = pipe
    BY <1>1, <1>8, CommitMarks, FinishCommitEffect
  <2> QED
    BY <2>1 DEF Ahead
<1> QED
  BY <1>3, <1>4, <1>5, <1>6, <1>7, <1>8

\* A rollback leaves no context ahead of anything.
LEMMA RollbackAhead ==
    ASSUME Shape, Ahead, StartRollback \/ RollbackTxn \/ RollbackTxnFails \/ FinishRollback
    PROVE  Ahead'
<1>1. Sub = "RollbackPipeline" /\ pipe' = pipe /\ prog'.prevCommitSeq = prog.prevCommitSeq
  <2>1. CASE RollbackTxnFails
    BY <2>1, RollingFacts DEF RollbackTxnFails
  <2>2. CASE RollbackTxn
    BY <2>2, RollbackTxnEffect, RollingFacts DEF Keeps
  <2>3. CASE StartRollback \/ FinishRollback
    BY <2>3, StartRollbackEffect, FinishRollbackEffect DEF Same, Keeps
  <2> QED
    BY <2>1, <2>2, <2>3
<1> QED
  BY <1>1, SameAhead DEF Ckpt, Snapshotting

\* A context is not behind the checkpoint, or it has no binlogs left.
LEMMA NextAhead ==
    ASSUME Shape, Shape', Ordered, Positions, [Next]_vars
    PROVE  Ahead'
<1>1. Ahead /\ Marks
  BY DEF Positions
<1>2. CASE JobStep /\ Snapshotting
  BY <1>2, WhileSnapshotting, SnapshotAhead DEF JobStep
<1>3. CASE JobStep /\ ~Snapshotting
  <2>1. CASE EnterSync
    BY <2>1, EnterAhead
  <2>2. CASE StartPipeline \/ HandleBinlog
    BY <1>1, <2>2, StartAhead
  <2>3. CASE \/ StartPartialSnapshot \/ RecoverIncrementalSync \/ SkipByFullSync
             \/ SkipByPartialSync
    BY <2>3, LeaveDoneEffect DEF Ahead
  <2>4. CASE LeaveOnInterrupt \/ ConsumeInterruptSignals
    BY <1>1, <1>3, <2>4
       DEF LeaveOnInterrupt, ConsumeInterruptSignals, Ahead, Snapshotting, Sub, Ckpt
  <2>5. CASE FinishFullSync \/ FinishPartialSync
    BY <1>3, <2>5, SnapshotEffect
  <2> QED
    BY <1>1, <1>3, <2>1, <2>2, <2>3, <2>4, <2>5, HandleAhead, LaunchAhead, CommitAhead,
       RollbackAhead
       DEF JobStep, JobAction
<1>4. CASE Crash
  BY <1>4 DEF Crash, Ahead
<1>5. CASE Environment /\ ~Crash
  <2>1. UNCHANGED <<prog, pipe, pc>>
    BY <1>5, EnvironmentEffect DEF Environment
  <2> QED
    BY <1>1, <2>1 DEF Ahead, Snapshotting, Sub, Ckpt
<1>6. CASE WorkerStep
  <2>1. /\ UNCHANGED <<prog, pc>> /\ pipe # Nil /\ pipe'.pos = pipe.pos
        /\ pipe'.next = pipe.next
    BY <1>6, WorkerTyped
  <2> QED
    BY <1>1, <2>1 DEF Ahead, Snapshotting, Sub, Ckpt
<1>7. CASE UNCHANGED vars
  BY <1>1, <1>7 DEF vars, Ahead, Snapshotting, Sub, Ckpt
<1> QED
  BY <1>2, <1>3, <1>4, <1>5, <1>6, <1>7 DEF Next
-----------------------------------------------------------------------------
\* The running list, and a member of it, have their types.
LEMMA ListTyped ==
    ASSUME Shape
    PROVE  /\ Data # Nil => Running \in Seq(TxnsAt(N, M))
           /\ Stored \in Seq(TxnsAt(N, M))
           /\ \A R \in Seq(TxnsAt(N, M)) : \A k \in 1..Len(R) :
                 R[k] \in TxnsAt(N, M) /\ R[k].txnId \in 1..M /\ R[k].commitSeq \in 1..N
<1>1. Data # Nil => Data \in DataAt(N, M)
  BY ShapeFacts DEF Data
<1>2. prog.persistData \in DataAt(N, M)
  BY ShapeFacts
<1>3. Data # Nil => Running \in Seq(TxnsAt(N, M))
  BY <1>1 DEF DataAt, Running
<1>4. Stored \in Seq(TxnsAt(N, M))
  BY <1>2 DEF DataAt, Stored
<1>5. ASSUME NEW R \in Seq(TxnsAt(N, M)), NEW k \in 1..Len(R)
      PROVE  R[k] \in TxnsAt(N, M) /\ R[k].txnId \in 1..M /\ R[k].commitSeq \in 1..N
  <2>1. R[k] \in TxnsAt(N, M)
    OBVIOUS
  <2> QED
    BY <2>1 DEF TxnsAt
<1> QED
  BY <1>3, <1>4, <1>5

\* A list of running txns and the next one.
LEMMA RisingAppend ==
    ASSUME NEW n \in Nat, NEW m \in Nat, NEW R \in Seq(TxnsAt(n, m)), NEW ctx \in TxnsAt(n, m),
           NEW a \in Nat, NEW b \in Nat, Rising(R), Between(R, a, b), a <= b,
           ctx.commitSeq = b + 1, \A k \in 1..Len(R) : R[k].txnId < ctx.txnId,
           NEW S, S = Append(R, ctx)
    PROVE  Rising(S) /\ Between(S, a, b + 1)
<1>1. /\ Len(S) = Len(R) + 1 /\ S[Len(R) + 1] = ctx /\ Len(R) \in Nat
      /\ \A k \in 1..Len(R) : S[k] = R[k]
  BY SMTT(30)
<1>2. ASSUME NEW k \in 1..Len(R)
      PROVE  R[k].commitSeq \in Nat /\ R[k].txnId \in Nat
  <2>1. R[k] \in TxnsAt(n, m)
    OBVIOUS
  <2>2. PICK x : x = R[k]
    OBVIOUS
  <2>3. x.txnId \in 1..m /\ x.commitSeq \in 1..n
    <3>1. x \in TxnsAt(n, m)
      BY <2>1, <2>2
    <3> HIDE <2>1, <2>2
    <3> QED
      BY <3>1 DEF TxnsAt
  <2> QED
    BY <2>2, <2>3
<1>3. \A k \in 1..Len(R) : a < R[k].commitSeq /\ R[k].commitSeq <= b
  BY DEF Between
<1>4. Rising(S)
  <2> SUFFICES ASSUME NEW j \in 1..Len(S), NEW k \in 1..Len(S), j < k
               PROVE  S[j].commitSeq < S[k].commitSeq /\ S[j].txnId < S[k].txnId
    BY DEF Rising
  <2>1. j \in 1..Len(R)
    BY <1>1
  <2>2. CASE k \in 1..Len(R)
    BY <1>1, <2>1, <2>2 DEF Rising
  <2>3. CASE k = Len(R) + 1
    BY <1>1, <1>2, <1>3, <2>1, <2>3
  <2> QED
    BY <1>1, <2>2, <2>3
<1>5. Between(S, a, b + 1)
  <2> SUFFICES ASSUME NEW k \in 1..Len(S)
               PROVE  a < S[k].commitSeq /\ S[k].commitSeq <= b + 1
    BY DEF Between
  <2>1. CASE k \in 1..Len(R)
    BY <1>1, <1>2, <1>3, <2>1
  <2>2. CASE k = Len(R) + 1
    BY <1>1, <2>2
  <2> QED
    BY <1>1, <2>1, <2>2
<1> QED
  BY <1>4, <1>5

\* ... and without the first.
LEMMA RisingTail ==
    ASSUME NEW n \in Nat, NEW m \in Nat, NEW R \in Seq(TxnsAt(n, m)), R # <<>>,
           NEW a, NEW b, Rising(R), Between(R, a, b), NEW S, S = Tail(R)
    PROVE  /\ Rising(S) /\ Between(S, Head(R).commitSeq, b) /\ S \in Seq(TxnsAt(n, m))
           /\ \A k \in 1..Len(S) : k + 1 \in 1..Len(R) /\ S[k] = R[k + 1]
<1>1. /\ Len(S) = Len(R) - 1 /\ Len(R) \in Nat /\ Len(S) \in Nat /\ Head(R) = R[1]
      /\ S \in Seq(TxnsAt(n, m))
  OBVIOUS
<1>2. \A k \in 1..Len(S) : k + 1 \in 1..Len(R) /\ S[k] = R[k + 1]
  BY <1>1
<1>3. Rising(S)
  <2> SUFFICES ASSUME NEW j \in 1..Len(S), NEW k \in 1..Len(S), j < k
               PROVE  S[j].commitSeq < S[k].commitSeq /\ S[j].txnId < S[k].txnId
    BY DEF Rising
  <2>1. j + 1 < k + 1 /\ j + 1 \in 1..Len(R) /\ k + 1 \in 1..Len(R)
    BY <1>2
  <2> QED
    BY <1>2, <2>1 DEF Rising
<1>4. Between(S, Head(R).commitSeq, b)
  <2> SUFFICES ASSUME NEW k \in 1..Len(S)
               PROVE  R[1].commitSeq < S[k].commitSeq /\ S[k].commitSeq <= b
    BY <1>1 DEF Between
  <2>1. 1 < k + 1 /\ 1 \in 1..Len(R) /\ k + 1 \in 1..Len(R)
    BY <1>1, <1>2
  <2> QED
    BY <1>2, <2>1 DEF Rising, Between
<1> QED
  BY <1>1, <1>2, <1>3, <1>4

\* Without a commit, a list that has no committed txn keeps having none.
LEMMA UncommittedKept ==
    ASSUME Shape, Settles, NoCommit, NEW R \in Seq(TxnsAt(N, M)), Uncommitted(R)
    PROVE  Uncommitted(R)'
<1> SUFFICES ASSUME NEW k \in 1..Len(R), txns'[R[k].txnId].status = "COMMITTED"
             PROVE  FALSE
  BY DEF Uncommitted
<1>1. R[k].txnId \in 1..M
  BY ListTyped
<1>2. R[k].txnId \in 1..Len(txns')
  BY <1>1 DEF Settles, M
<1> QED
  BY <1>2 DEF NoCommit, Uncommitted

\* ... and those that are committed stay after the checkpoint.
LEMMA CommittedAboveKept ==
    ASSUME Shape, Settles, NoCommit, Ckpt' = Ckpt,
           NEW R \in Seq(TxnsAt(N, M)), CommittedAbove(R)
    PROVE  CommittedAbove(R)'
<1> SUFFICES ASSUME NEW k \in 1..Len(R), txns'[R[k].txnId].status = "COMMITTED"
             PROVE  Ckpt' < R[k].commitSeq
  BY DEF CommittedAbove
<1>1. R[k].txnId \in 1..M
  BY ListTyped
<1>2. R[k].txnId \in 1..Len(txns')
  BY <1>1 DEF Settles, M
<1> QED
  BY <1>2 DEF NoCommit, CommittedAbove

\* No pipeline is under way, or it has no context.
LEMMA NoListing ==
    ASSUME Shape', ~Live' \/ pipe' = Nil
    PROVE  Listing'
<1>1. Control'
  BY DEF Shape
<1>2. pc' # "begun"
  BY <1>1 DEF Control, Live, LiveStates
<1>3. ~(Live' /\ pipe' # Nil)
  OBVIOUS
<1>4. ~(Sub' = "CommitPipelineTransaction" /\ pipe' # Nil)
  BY <1>3 DEF Live, LiveStates
<1> QED
  BY <1>2, <1>3, <1>4 DEF Listing

\* The running list stays, and no txn is committed.
LEMMA SameListing ==
    ASSUME Shape, Shape', Listing, Settles, NoCommit, Live, pipe # Nil, pipe' # Nil,
           Running' = Running, Ckpt' = Ckpt, pipe'.pos \in {pipe.pos} \cup pipe.pos..N',
           \/ pc' = pc /\ (pc = "begun" => Len(txns') = M)
           \/ pc # "committed" /\ pc' \notin {"begun", "committed"},
           \/ Stored' = Stored
           \/ Stored' = Running /\ pc # "committed",
           Sub' = "CommitPipelineTransaction" =>
              (Sub = "CommitPipelineTransaction" /\ Stored' = Stored) \/ Stored' = Running
    PROVE  Listing'
<1>1. Data # Nil
  BY DEF Shape, Control
<1>2. PICK R \in Seq(TxnsAt(N, M)) : R = Running
  BY <1>1, ListTyped
<1>3. PICK T \in Seq(TxnsAt(N, M)) : T = Stored
  BY ListTyped
<1>4. Rising(R) /\ Between(R, Ckpt, pipe.pos)
  BY <1>2 DEF Listing
<1>5. Between(R, Ckpt', pipe'.pos)
  <2>1. N \in Nat /\ N' \in Nat /\ pipe.pos \in 0..N
    BY Numbers, NextNumbers
  <2>2. pipe.pos \in Nat /\ pipe'.pos \in Nat /\ pipe.pos <= pipe'.pos
    BY <2>1
  <2>3. \A k \in 1..Len(R) : R[k].commitSeq \in Nat
    BY ListTyped, SMTT(30)
  <2> QED
    BY <1>4, <2>2, <2>3 DEF Between
<1>6. \A k \in 1..Len(R) : R[k].txnId \in 1..M /\ R[k].txnId \in 1..Len(txns')
  BY ListTyped DEF Settles, M
<1>7. ASSUME NEW k \in 1..Len(R)
      PROVE  /\ txns'[R[k].txnId].status = "COMMITTED" => k = 1 /\ pc' = "committed"
             /\ pc' = "begun" => R[k].txnId < Len(txns')
  <2>1. txns'[R[k].txnId].status = "COMMITTED" => k = 1 /\ pc = "committed"
    BY <1>2, <1>6 DEF NoCommit, Listing
  <2>2. pc = "begun" => R[k].txnId < M
    BY <1>2 DEF Listing
  <2> QED
    BY <2>1, <2>2
<1>8. PICK Q : Q = Stored'
  OBVIOUS
<1>12. pc' # "committed" => Uncommitted(Q)'
  <2> SUFFICES ASSUME pc' # "committed"
               PROVE  Uncommitted(Q)'
    OBVIOUS
  <2>1. pc # "committed"
    OBVIOUS
  <2>2. Uncommitted(T) /\ Uncommitted(R)
    BY <1>2, <1>3, <2>1 DEF Listing, Uncommitted
  <2>3. Uncommitted(T)' /\ Uncommitted(R)'
    BY <2>2, UncommittedKept
  <2>4. Q = T \/ Q = R
    BY <1>2, <1>3, <1>8
  <2> QED
    BY <2>3, <2>4
<1>9. pc' = "begun" => txns'[Len(txns')].status # "COMMITTED"
  <2>1. pc' = "begun" => pc = "begun" /\ Len(txns') = M
    OBVIOUS
  <2>2. pc = "begun" => M \in 1..M
    BY DEF Shape, Control, M
  <2> QED
    BY <2>1, <2>2 DEF Listing, NoCommit
<1>10. Sub' = "CommitPipelineTransaction" => Stored' = Running'
  BY DEF Listing
<1>11. Running' = R
  BY <1>2
<1> QED
  BY <1>4, <1>5, <1>7, <1>8, <1>9, <1>10, <1>11, <1>12 DEF Listing, M, Uncommitted, Rising, Between
-----------------------------------------------------------------------------
\* The first of the running txns is committed: the others are not.
LEMMA CommitsListed ==
    ASSUME Shape, Shape', Ordered, Listing, Commits,
           NEW R \in Seq(TxnsAt(N, M)), R = Running
    PROVE  /\ 1 \in 1..Len(R) /\ Commitable = R[1]
           /\ \A k \in 1..Len(R) : /\ txns'[R[k].txnId].status = "COMMITTED" => k = 1
                                   /\ Ckpt < R[k].commitSeq
<1>1. /\ Live /\ pipe # Nil /\ Sub = "CommitPipelineTransaction" /\ pc = "loop"
      /\ txns' = [txns EXCEPT ![Commitable.txnId].status = "COMMITTED"]
  BY DEF Commits
<1>2. R # <<>> /\ Commitable = Head(R)
  BY <1>1, CommitableFacts DEF Ordered
<1>3. 1 \in 1..Len(R) /\ Commitable = R[1]
  BY <1>2
<1>4. Commitable.txnId \in 1..M
  BY <1>3, ListTyped
<1>5. \A k \in 1..M : k # Commitable.txnId => txns'[k] = txns[k]
  BY <1>1, <1>4, StatusTyped
<1>6. Rising(R) /\ Between(R, Ckpt, pipe.pos)
      /\ \A k \in 1..Len(R) : txns[R[k].txnId].status # "COMMITTED"
  BY <1>1 DEF Listing
<1>7. ASSUME NEW k \in 1..Len(R), k # 1
      PROVE  R[k].txnId # Commitable.txnId
  <2>1. 1 < k
    BY <1>7
  <2>2. R[1].txnId < R[k].txnId
    BY <1>3, <1>6, <2>1 DEF Rising
  <2>3. R[1].txnId \in Nat /\ R[k].txnId \in Nat
    BY <1>3, ListTyped
  <2> QED
    BY <1>3, <2>2, <2>3
<1>8. \A k \in 1..Len(R) : k # 1 => txns'[R[k].txnId] = txns[R[k].txnId]
  BY <1>5, <1>7, ListTyped
<1> QED
  BY <1>3, <1>6, <1>8 DEF Between

\* The txn that is committed is the first of the list.
LEMMA CommitsListing ==
    ASSUME Shape, Shape', Ordered, Listing, Commits
    PROVE  Listing'
<1>1. /\ Live /\ pipe # Nil /\ Sub = "CommitPipelineTransaction" /\ pc = "loop"
      /\ prog' = prog
      /\ (pc' = "committed" /\ pipe' = pipe) \/ pipe' = Nil
  BY DEF Commits
<1>2. CASE pipe' = Nil
  BY <1>2, NoListing
<1>3. CASE pc' = "committed" /\ pipe' = pipe
  <2>1. Data # Nil
    BY <1>1 DEF Shape, Control
  <2>2. PICK R \in Seq(TxnsAt(N, M)) : R = Running
    BY <2>1, ListTyped
  <2>3. \A k \in 1..Len(R) : txns'[R[k].txnId].status = "COMMITTED" => k = 1
    BY <2>2, CommitsListed
  <2>4. Rising(R) /\ Between(R, Ckpt', pipe'.pos) /\ Stored' = Running'
    BY <1>1, <1>3, <2>2 DEF Listing, Ckpt, Stored, Running, Data
  <2>5. Running' = R
    BY <1>1, <2>2 DEF Running, Data
  <2> QED
    BY <1>3, <2>3, <2>4, <2>5 DEF Listing, Rising, Between
<1> QED
  BY <1>1, <1>2, <1>3

\* The list loses its first txn when the checkpoint reaches it.
LEMMA FinishCommitListing ==
    ASSUME Shape, Shape', Ordered, Marks, Listing, Settles, NoCommit,
           FinishCommit \/ FinishCommitLockFails
    PROVE  Listing'
<1>1. /\ pc = "committed" /\ pc' \in {"loop", "idle"} /\ pipe' = pipe
      /\ Sub = "CommitPipelineTransaction" /\ Sub' = "CommitPipeline" /\ Live
      /\ Running' = Tail(Running) /\ prog'.persistData = Data' /\ txns' = txns
  BY FinishCommitEffect DEF Live, LiveStates, destVars
<1>2. /\ pipe # Nil /\ Running # <<>> /\ Commitable = Head(Running)
      /\ Ckpt' = Commitable.commitSeq
  BY CommitMarks
<1>3. Data # Nil
  BY <1>1, <1>2 DEF Shape, Control
<1>4. PICK R \in Seq(TxnsAt(N, M)) : R = Running
  BY <1>3, ListTyped
<1>5. PICK S : S = Tail(R)
  OBVIOUS
<1>6. /\ Rising(R) /\ Between(R, Ckpt, pipe.pos)
      /\ \A k \in 1..Len(R) : txns[R[k].txnId].status = "COMMITTED" => k = 1
  BY <1>1, <1>2, <1>4 DEF Listing
<1>7. /\ Rising(S) /\ Between(S, Head(R).commitSeq, pipe.pos) /\ S \in Seq(TxnsAt(N, M))
      /\ \A k \in 1..Len(S) : k + 1 \in 1..Len(R) /\ S[k] = R[k + 1]
  <2>1. R # <<>> /\ N \in Nat /\ M \in Nat
    BY <1>2, <1>4, ShapeFacts
  <2>2. PICK a, b : a = Ckpt /\ b = pipe.pos
    OBVIOUS
  <2>3. Rising(R) /\ Between(R, a, b)
    BY <1>6, <2>2
  <2>4. Rising(S)
    BY <1>5, <2>1, <2>3, RisingTail
  <2>5. Between(S, Head(R).commitSeq, b)
    BY <1>5, <2>1, <2>3, RisingTail
  <2>6. S \in Seq(TxnsAt(N, M))
    BY <1>5, <2>1, <2>3, RisingTail
  <2>7. \A k \in 1..Len(S) : k + 1 \in 1..Len(R) /\ S[k] = R[k + 1]
    BY <1>5, <2>1, <2>3, RisingTail
  <2> QED
    BY <2>2, <2>4, <2>5, <2>6, <2>7
<1>8. \A k \in 1..Len(S) : txns'[S[k].txnId].status # "COMMITTED"
  <2> SUFFICES ASSUME NEW k \in 1..Len(S), txns'[S[k].txnId].status = "COMMITTED"
               PROVE  FALSE
    OBVIOUS
  <2>1. k + 1 \in 1..Len(R) /\ k + 1 # 1 /\ S[k] = R[k + 1]
    BY <1>7
  <2> QED
    BY <1>1, <1>6, <2>1
<1>9. Running' = S /\ Stored' = S
  BY <1>1, <1>4, <1>5 DEF Running, Stored
<1>10. Between(S, Ckpt', pipe'.pos)
  BY <1>1, <1>2, <1>4, <1>7
<1> QED
  BY <1>1, <1>7, <1>8, <1>9, <1>10 DEF Listing, Uncommitted, Rising, Between

\* The txn begun joins a list that has no committed txn.
LEMMA LaunchedUncommitted ==
    ASSUME Shape, Listing, pc = "begun", Recorded, NEW ctx \in TxnsAt(N, M), ctx.txnId = M,
           NEW R \in Seq(TxnsAt(N, M)), R = Running, NEW S, S = Append(R, ctx)
    PROVE  Uncommitted(S)' /\ S \in Seq(TxnsAt(N, M))
<1>1. Live /\ pipe # Nil
  BY DEF Shape, Control, Live, LiveStates
<1>2. /\ \A k \in 1..Len(R) : txns[R[k].txnId].status # "COMMITTED"
      /\ txns[M].status # "COMMITTED"
  BY <1>1 DEF Listing
<1>3. \A i \in 1..M : txns'[i].status = txns[i].status
  BY RecordedTyped
<1>4. ASSUME NEW k \in 1..Len(S)
      PROVE  txns'[S[k].txnId].status # "COMMITTED"
  <2>1. (k \in 1..Len(R) /\ S[k] = R[k]) \/ S[k] = ctx
    OBVIOUS
  <2>2. M \in 1..M
    BY DEF TxnsAt
  <2>3. CASE k \in 1..Len(R) /\ S[k] = R[k]
    BY <1>2, <1>3, <2>3, ListTyped
  <2>4. CASE S[k] = ctx
    BY <1>2, <1>3, <2>2, <2>4
  <2> QED
    BY <2>1, <2>3, <2>4
<1>5. S \in Seq(TxnsAt(N, M))
  OBVIOUS
<1> QED
  BY <1>4, <1>5 DEF Uncommitted

\* A launch adds a txn after all others.
LEMMA LaunchListing ==
    ASSUME Shape, Shape', Marks, Ahead, Listing, LaunchIngestJob \/ LaunchTriggersPartialSnapshot
    PROVE  Listing'
<1>1. PICK ctx \in TxnsAt(N, M) :
        /\ pc = "begun" /\ pc' = "loop" /\ Sub = "LaunchTransaction"
        /\ Recorded /\ ctx.txnId = M /\ ctx.commitSeq = pipe.pos + 1
        /\ pipe.pos + 1 <= pipe.next
        /\ Same(prog, prog') /\ Sub' = "CommitPipeline"
        /\ Data'.running = Append(Running, ctx)
        /\ prog'.persistData = Data'
        /\ pipe' \in ContextsAt(N, M) /\ pipe'.pos = pipe.pos + 1 /\ pipe'.next = pipe.next
  BY LaunchEffect
<1>2. Live /\ Ckpt' = Ckpt
  BY <1>1 DEF Live, LiveStates, Same, Keeps, Ckpt
<1>3. pipe # Nil /\ Data # Nil
  BY <1>1, <1>2, LiveFacts
<1>4. PICK R \in Seq(TxnsAt(N, M)) : R = Running
  BY <1>3, ListTyped
<1>5. PICK p \in Nat, n \in Nat, c \in Nat : p = pipe.pos /\ n = pipe.next /\ c = Ckpt
  BY <1>3, Numbers
<1>6. c <= p
  <2>1. p + 1 <= n
    BY <1>1, <1>5
  <2>2. p # n
    BY <2>1
  <2> QED
    BY <1>2, <1>3, <1>5, <2>2 DEF Ahead, Live, LiveStates, Snapshotting
<1>7. /\ Rising(R) /\ Between(R, c, p)
      /\ \A k \in 1..Len(R) : /\ R[k].txnId < M
                              /\ txns[R[k].txnId].status # "COMMITTED"
      /\ txns[M].status # "COMMITTED"
  BY <1>1, <1>2, <1>3, <1>4, <1>5 DEF Listing
<1>8. PICK S : S = Append(R, ctx)
  OBVIOUS
<1>9. Rising(S) /\ Between(S, c, p + 1)
  BY <1>1, <1>5, <1>6, <1>7, <1>8, RisingAppend, ShapeFacts, ZenonT(60)
<1>11. Uncommitted(S)'
  BY <1>1, <1>4, <1>8, LaunchedUncommitted
<1>12. Running' = S /\ Stored' = S
  BY <1>1, <1>4, <1>8 DEF Running, Stored
<1>13. Between(S, Ckpt', pipe'.pos)
  BY <1>1, <1>2, <1>5, <1>9
<1> QED
  BY <1>1, <1>9, <1>11, <1>12, <1>13 DEF Listing, Uncommitted, Rising, Between

\* A txn that is begun is not in the list yet.
LEMMA BeginListing ==
    ASSUME Shape, Shape', Listing, Settles, NoCommit, BeginTxn
    PROVE  Listing'
<1>1. /\ MayLaunch /\ Len(txns) < MaxTxn /\ txns' = NewTxn /\ pc' = "begun"
      /\ prog' = prog /\ disk' = disk /\ pipe' = pipe
  BY DEF BeginTxn, NeedsTxn, Goto
<1>2. Live /\ pc # "idle" /\ Sub = "LaunchTransaction"
  BY <1>1, LaunchFacts
<1>3. pipe # Nil /\ Data # Nil /\ pc # "committed"
  BY <1>1, <1>2, LiveFacts DEF Shape, Control
<1>4. PICK R \in Seq(TxnsAt(N, M)) : R = Running
  BY <1>3, ListTyped
<1>5. PICK T \in Seq(TxnsAt(N, M)) : T = Stored
  BY ListTyped
<1>6. /\ Rising(R) /\ Between(R, Ckpt, pipe.pos) /\ Uncommitted(T) /\ Uncommitted(R)
  BY <1>2, <1>3, <1>4, <1>5 DEF Listing, Uncommitted
<1>7. Uncommitted(T)' /\ Uncommitted(R)'
  BY <1>6, UncommittedKept
<1>8. Len(txns') = M + 1 /\ txns'[M + 1].status = "PREPARE" /\ M \in Nat
  BY <1>1, NewTxnTyped, ShapeFacts
<1>9. \A k \in 1..Len(R) : R[k].txnId < M + 1
  <2>1. \A k \in 1..Len(R) : R[k].txnId \in 1..M
    BY ListTyped
  <2> QED
    BY <1>8, <2>1
<1>10. Running' = R /\ Stored' = T /\ Ckpt' = Ckpt /\ Sub' = Sub /\ M' = M + 1
  BY <1>1, <1>4, <1>5, <1>8 DEF Running, Data, Stored, Ckpt, Sub, M
<1>11. txns'[M'].status # "COMMITTED"
  BY <1>8, <1>10
<1>12. \A k \in 1..Len(R) : txns'[R[k].txnId].status # "COMMITTED"
  BY <1>7 DEF Uncommitted
<1>13. Rising(R) /\ Between(R, Ckpt', pipe'.pos)
  BY <1>1, <1>6, <1>10
<1> QED
  BY <1>1, <1>2, <1>7, <1>9, <1>10, <1>11, <1>12, <1>13 DEF Listing, Uncommitted, Rising, Between
-----------------------------------------------------------------------------
\* The list over the start of a tick.
LEMMA EnterListing ==
    ASSUME Shape, Shape', Listing, Settles, NoCommit, Live', pipe' # Nil,
           EnterSync \/ LeaveOnInterrupt \/ ConsumeInterruptSignals
    PROVE  Listing'
<1>1. CASE EnterSync
  <2>1. /\ pc = "idle" /\ pc' = "loop" /\ pipe # Nil /\ prog' = prog /\ UNCHANGED destVars
        /\ \/ Ckpt <= pipe.pos /\ pipe'.pos = pipe.pos
           \/ Ckpt > pipe.pos /\ Ckpt <= pipe.next /\ pipe'.pos = Ckpt
           \/ Ckpt > pipe.next /\ pipe'.pos = pipe.next
    BY <1>1, EnterSyncEffect DEF Ckpt, Live, LiveStates, Sub
  <2>2. pipe'.pos \in {pipe.pos} \cup pipe.pos..N'
    <3>1. /\ pipe.pos \in Nat /\ pipe.next \in Nat /\ Ckpt \in Nat
          /\ pipe.pos <= pipe.next /\ pipe'.pos \in 0..N' /\ N' \in Nat
      BY <2>1, Numbers, NextNumbers
    <3>2. PICK p \in Nat, n \in Nat, c \in Nat, q \in Nat, z \in Nat :
            p = pipe.pos /\ n = pipe.next /\ c = Ckpt /\ q = pipe'.pos /\ z = N'
      BY <3>1
    <3>3. p <= n /\ q <= z /\ (q = p \/ (c > p /\ q = c) \/ (c > n /\ q = n))
      BY <2>1, <3>1, <3>2
    <3>4. p <= q
      BY <3>3
    <3> QED
      BY <3>2, <3>3, <3>4
  <2>3. Live /\ Running' = Running /\ Ckpt' = Ckpt /\ Stored' = Stored /\ Sub' = Sub
    BY <2>1 DEF Live, Sub, Running, Data, Ckpt, Stored
  <2> QED
    BY <2>1, <2>2, <2>3, SameListing DEF Listing
<1>2. CASE LeaveOnInterrupt \/ ConsumeInterruptSignals
  <2>1. /\ prog' = prog /\ pipe' = pipe /\ pipe # Nil
        /\ pc' = pc \/ (pc = "loop" /\ pc' = "idle")
        /\ pc \in {"loop", "idle"}
    BY <1>2 DEF LeaveOnInterrupt, ConsumeInterruptSignals, Goto
  <2>2. Live /\ Running' = Running /\ Ckpt' = Ckpt /\ Stored' = Stored /\ Sub' = Sub
    BY <2>1 DEF Live, Sub, Running, Data, Ckpt, Stored
  <2> QED
    BY <2>1, <2>2, SameListing DEF Listing
<1> QED
  BY <1>1, <1>2

\* The list over the start of a pipeline: it is empty.
LEMMA StartListing ==
    ASSUME Shape, Shape', RowState, Above, Settles, NoCommit, StartPipeline
    PROVE  Listing'
<1>1. /\ Sub = "Done" /\ Sub' = "LaunchTransaction" /\ pc' = "loop" /\ Data' = EmptyData
      /\ prog'.persistData = prog.persistData
  BY StartPipelineEffect
<1>2. PICK T \in Seq(TxnsAt(N, M)) : T = Stored
  BY ListTyped
<1>3. Uncommitted(T)
  BY <1>1, <1>2 DEF Above, RowState, Uncommitted
<1>4. Uncommitted(T)'
  BY <1>3, UncommittedKept
<1>5. Stored' = T
  BY <1>1, <1>2 DEF Stored
<1>6. Running' = <<>> /\ 1..Len(<<>>) = {}
  BY <1>1, EmptyRuns DEF Running
<1> QED
  BY <1>1, <1>4, <1>5, <1>6 DEF Listing, Rising, Between, Uncommitted

\* Outside the pipeline there is nothing to list.
LEMMA DoneListing ==
    ASSUME Shape, Shape',
           \/ StartPartialSnapshot \/ RecoverIncrementalSync \/ SkipByFullSync
           \/ SkipByPartialSync
           \/ HandleBinlog \/ HandleCommittedBinlog \/ ExecuteDDL \/ ExecuteDDLLosesReply
           \/ HandleBinlogFails \/ HandleBySnapshot \/ FinishBinlog \/ FinishBinlogLockFails
           \/ StartRollback \/ RollbackTxn \/ RollbackTxnFails \/ FinishRollback
           \/ FinishFullSync \/ FinishPartialSync
    PROVE  Listing'
<1>1. CASE StartPartialSnapshot \/ RecoverIncrementalSync \/ SkipByFullSync \/ SkipByPartialSync
  BY <1>1, LeaveDoneEffect, NoListing
<1>2. CASE HandleBinlog
  BY <1>2, HandleBinlogEffect, NoListing DEF Live, LiveStates
<1>3. CASE HandleCommittedBinlog \/ ExecuteDDL \/ ExecuteDDLLosesReply
  <2>1. Sub' = "Done"
    BY <1>3, ExecuteEffect, HandlingFacts
  <2> QED
    BY <2>1, NoListing DEF Live, LiveStates
<1>4. CASE HandleBinlogFails \/ HandleBySnapshot
  <2>1. pc = "handling" /\ (prog' = prog \/ pipe' = Nil \/ AsksFor(prog, prog', "DBFullSync"))
    BY <1>4, HandleBinlogFailsEffect, HandleBySnapshotEffect
  <2>2. pipe' = Nil \/ Sub' \in {"Done", "BeginCreateSnapshot"}
    BY <2>1, HandlingFacts DEF AsksFor, Sub
  <2> QED
    BY <2>2, NoListing DEF Live, LiveStates
<1>5. CASE FinishBinlog \/ FinishBinlogLockFails
  BY <1>5, FinishBinlogEffect, NoListing DEF Live, LiveStates
<1>6. CASE StartRollback \/ RollbackTxn \/ RollbackTxnFails \/ FinishRollback
  <2>1. Sub' \in {"RollbackPipeline", "Done"}
    <3>1. CASE RollbackTxnFails
      BY <3>1, RollingFacts DEF RollbackTxnFails, Sub
    <3>2. CASE RollbackTxn
      BY <3>2, RollbackTxnEffect, RollingFacts
    <3> QED
      BY <1>6, <3>1, <3>2, StartRollbackEffect, FinishRollbackEffect
  <2> QED
    BY <2>1, NoListing DEF Live, LiveStates
<1>7. CASE FinishFullSync \/ FinishPartialSync
  BY <1>7, SnapshotEffect, NoListing DEF Live, LiveStates
<1> QED
  BY <1>1, <1>2, <1>3, <1>4, <1>5, <1>6, <1>7

\* The list over a fetch, and over an upsert that is skipped.
LEMMA FetchListing ==
    ASSUME Shape, Shape', Listing, Settles, NoCommit, Live', pipe' # Nil,
           \/ GetNextBinlogs \/ NoMoreBinlogs \/ GetNextBinlogsFails \/ PanicOnStaleContext
           \/ NothingToLaunch \/ SkipUpsert
    PROVE  Listing'
<1>1. CASE GetNextBinlogs
  <2>1. /\ prog' = prog /\ pipe # Nil /\ pipe.pos = pipe.next /\ pipe.next <= pipe'.pos
        /\ pc = "loop" /\ pc' = "fetched" /\ Live
    BY <1>1, FetchEffect
  <2>2. pipe.pos \in Nat /\ pipe'.pos \in 0..N' /\ N' \in Nat
    BY <2>1, Numbers, NextNumbers
  <2>3. pipe'.pos \in pipe.pos..N'
    BY <2>1, <2>2
  <2>4. Running' = Running /\ Ckpt' = Ckpt /\ Stored' = Stored /\ Sub' = Sub
    BY <2>1 DEF Sub, Running, Data, Ckpt, Stored
  <2> QED
    BY <2>1, <2>3, <2>4, SameListing DEF Listing
<1>2. CASE NoMoreBinlogs \/ GetNextBinlogsFails \/ PanicOnStaleContext
  <2>1. /\ Sub = "LaunchTransaction" /\ pc = "loop" /\ pc' \in {"fetched", "idle", "dead"}
        /\ pipe' = pipe /\ (prog' = prog \/ NoMoreBinlogs)
    BY <1>2
       DEF NoMoreBinlogs, GetNextBinlogsFails, PanicOnStaleContext, NeedsBinlogs, AtLoop, Sub,
           Goto
  <2>2. Sub' = Sub /\ Data' = Data /\ prog'.persistData = prog.persistData /\ Ckpt' = Ckpt
    BY <2>1, NoMoreBinlogsEffect DEF Same, Keeps, Ckpt, Sub, Data
  <2>3. Live /\ Running' = Running /\ Stored' = Stored
    BY <2>1, <2>2 DEF Live, LiveStates, Running, Stored
  <2> QED
    BY <2>1, <2>2, <2>3, SameListing DEF Listing
<1>3. CASE NothingToLaunch \/ SkipUpsert
  <2>1. /\ Live /\ Same(prog, prog') /\ Sub' = "CommitPipeline" /\ Data' = Data
        /\ prog'.persistData = prog.persistData /\ Sub = "LaunchTransaction"
        /\ pc # "idle" /\ pc' = "loop"
        /\ pipe' = pipe \/ pipe'.pos = pipe.pos + 1
    BY <1>3, SkippedEffect
  <2>2. pipe # Nil /\ pc # "committed"
    BY <2>1, LiveFacts DEF Shape, Control
  <2>3. pipe.pos \in Nat /\ pipe'.pos \in 0..N' /\ N' \in Nat
    BY <2>2, Numbers, NextNumbers
  <2>4. pipe'.pos \in {pipe.pos} \cup pipe.pos..N'
    BY <2>1, <2>3
  <2>5. Running' = Running /\ Ckpt' = Ckpt /\ Stored' = Stored
    BY <2>1 DEF Running, Ckpt, Stored, Same, Keeps
  <2> QED
    BY <2>1, <2>2, <2>4, <2>5, SameListing
<1> QED
  BY <1>1, <1>2, <1>3

\* The list over the steps of CommitPipeline.
LEMMA ResultListing ==
    ASSUME Shape, Shape', Ordered, Marks, Listing, Settles, NoCommit, Live', pipe' # Nil,
           TakeResult \/ FinishPipeline \/ LaunchMore \/ YieldPipeline
    PROVE  Listing'
<1>1. CASE TakeResult
  <2>1. /\ Live /\ pc = "loop" /\ pipe # Nil
        /\ \/ pc' = "loop" /\ Sub' = "RollbackPipeline"
           \/ /\ pc' = "loop" /\ Sub' = "CommitPipelineTransaction" /\ Same(prog, prog')
              /\ prog'.persistData = Data' /\ Data'.running = Running
              /\ pipe'.pos = pipe.pos
           \/ pipe' = Nil
    BY <1>1, TakeResultEffect
  <2>2. /\ pc' = "loop" /\ Sub' = "CommitPipelineTransaction" /\ Same(prog, prog')
        /\ prog'.persistData = Data' /\ Data'.running = Running
        /\ pipe'.pos = pipe.pos
    BY <2>1 DEF Live, LiveStates
  <2>3. Running' = Running /\ Stored' = Running /\ Ckpt' = Ckpt
    BY <2>2 DEF Running, Stored, Same, Keeps, Ckpt
  <2> QED
    BY <2>1, <2>2, <2>3, SameListing
<1>2. CASE FinishPipeline
  BY <1>2, FinishPipelineEffect DEF Live, LiveStates
<1>3. CASE LaunchMore
  <2>1. /\ Live /\ pc = "loop" /\ pc' = "loop" /\ pipe' = pipe /\ Same(prog, prog')
        /\ Sub' = "LaunchTransaction" /\ Data' = Data /\ prog'.persistData = prog.persistData
    BY <1>3, LaunchMoreEffect DEF Live, LiveStates
  <2>2. Running' = Running /\ Stored' = Stored /\ Ckpt' = Ckpt
    BY <2>1 DEF Running, Stored, Same, Keeps, Ckpt
  <2> QED
    BY <2>1, <2>2, SameListing
<1>4. CASE YieldPipeline
  <2>1. /\ Live /\ pc = "loop" /\ pc' = "idle" /\ pipe' = pipe
        /\ prog'.prevCommitSeq = prog.commitSeq
        /\ Sub' = "CommitPipeline" /\ Data' = Data /\ prog'.persistData = Data
    BY <1>4, YieldPipelineEffect DEF Live, LiveStates
  <2>2. Running' = Running /\ Stored' = Running /\ Ckpt' = Ckpt
    BY <2>1 DEF Running, Stored, Marks, Ckpt
  <2> QED
    BY <2>1, <2>2, SameListing
<1> QED
  BY <1>1, <1>2, <1>3, <1>4

\* A step of the environment or of a goroutine keeps the context, and the place of the job.
LEMMA OutsideListing ==
    ASSUME Shape, Shape', Listing, Settles, NoCommit, Live', pipe' # Nil,
           Environment \/ WorkerStep \/ UNCHANGED vars
    PROVE  Listing'
<1>1. /\ prog' = prog /\ pc' = pc /\ pipe # Nil /\ pipe'.pos = pipe.pos
      /\ txns' = txns \/ TargetAborts
  <2>1. CASE Environment
    <3>1. ~Crash
      BY DEF Crash
    <3> QED
      BY <2>1, <3>1, EnvironmentEffect
         DEF Environment, SourceWrites, SourceCollects, Interrupt, SkipBinlog, destVars
  <2>2. CASE WorkerStep
    BY <2>2, WorkerTyped DEF destVars
  <2>3. CASE UNCHANGED vars
    BY <2>3 DEF vars
  <2> QED
    BY <2>1, <2>2, <2>3
<1>2. Len(txns') = M
  <2>1. CASE TargetAborts
    BY <2>1, StatusTyped DEF TargetAborts, M
  <2> QED
    BY <1>1, <2>1 DEF M
<1>3. Live /\ Running' = Running /\ Ckpt' = Ckpt /\ Stored' = Stored /\ Sub' = Sub
  BY <1>1 DEF Live, Sub, Running, Data, Ckpt, Stored
<1> QED
  BY <1>1, <1>2, <1>3, SameListing DEF Listing

\* The running txns are in order, between the checkpoint and the position.
LEMMA NextListing ==
    ASSUME Shape, Shape', Ordered, Positions, Settles, [Next]_vars
    PROVE  Listing'
<1>1. RowState /\ Marks /\ Ahead /\ Listing /\ Above
  BY DEF Positions
<1>2. CASE ~(Live' /\ pipe' # Nil)
  BY <1>2, NoListing
<1>3. CASE Commits
  BY <1>1, <1>3, CommitsListing
<1>4. CASE Live' /\ pipe' # Nil /\ NoCommit
  <2>1. CASE EnterSync \/ LeaveOnInterrupt \/ ConsumeInterruptSignals
    BY <1>1, <1>4, <2>1, EnterListing
  <2>2. CASE StartPipeline
    BY <1>1, <1>4, <2>2, StartListing
  <2>3. CASE \/ StartPartialSnapshot \/ RecoverIncrementalSync \/ SkipByFullSync
             \/ SkipByPartialSync
             \/ HandleBinlog \/ HandleCommittedBinlog \/ ExecuteDDL \/ ExecuteDDLLosesReply
             \/ HandleBinlogFails \/ HandleBySnapshot \/ FinishBinlog \/ FinishBinlogLockFails
             \/ StartRollback \/ RollbackTxn \/ RollbackTxnFails \/ FinishRollback
             \/ FinishFullSync \/ FinishPartialSync
    BY <2>3, DoneListing
  <2>4. CASE \/ GetNextBinlogs \/ NoMoreBinlogs \/ GetNextBinlogsFails \/ PanicOnStaleContext
             \/ NothingToLaunch \/ SkipUpsert
    BY <1>1, <1>4, <2>4, FetchListing
  <2>5. CASE BeginTxn
    BY <1>1, <1>4, <2>5, BeginListing
  <2>6. CASE BeginTxnFails \/ LaunchIngestJobFails \/ CommitTxnFails
    BY <1>4, <2>6, BeginTxnFailsEffect, LaunchFailsEffect, CommitTxnFailsEffect
  <2>7. CASE LaunchIngestJob \/ LaunchTriggersPartialSnapshot
    BY <1>1, <2>7, LaunchListing
  <2>8. CASE TakeResult \/ FinishPipeline \/ LaunchMore \/ YieldPipeline
    BY <1>1, <1>4, <2>8, ResultListing
  <2>9. CASE CommitTxn
    <3>1. Commits
      BY <2>9 DEF CommitTxn, Commits, AtLoop, Live, LiveStates, Sub, Goto, Shape, Control
    <3> QED
      BY <1>3, <3>1
  <2>10. CASE FinishCommit \/ FinishCommitLockFails
    BY <1>1, <1>4, <2>10, FinishCommitListing
  <2>11. CASE Environment \/ WorkerStep \/ UNCHANGED vars
    BY <1>1, <1>4, <2>11, OutsideListing
  <2> QED
    BY <2>1, <2>2, <2>3, <2>4, <2>5, <2>6, <2>7, <2>8, <2>9, <2>10, <2>11
       DEF Next, JobStep, JobAction
<1>5. NoCommit \/ Commits
  BY NextTarget
<1> QED
  BY <1>2, <1>3, <1>4, <1>5
-----------------------------------------------------------------------------
\* A list the job has: the stored one, or the running one where it counts, or none.
Held(R) ==
    \/ R = <<>>
    \/ R = Stored
    \/ R = Running /\ Data # Nil /\ (Live \/ Sub = "RollbackPipeline")

\* None of the list is committed once the step is taken.
UncommittedNext(R) == \A k \in 1..Len(R) : txns'[R[k].txnId].status # "COMMITTED"

\* What a list may become in a step that commits nothing.
Follows(R) == (Held(R) /\ Ckpt' = Ckpt) \/ UncommittedNext(R)

ListsFollow ==
    /\ Follows(Stored')
    /\ (Live' \/ Sub' = "RollbackPipeline") /\ Data' # Nil => Follows(Running')
    /\ disk'.subSyncState \in {"Done", "BeginCreateSnapshot"} => UncommittedNext(Stored')

\* What Held makes of the progress.
LEMMA HeldTyped ==
    ASSUME Shape, NEW R, Held(R)
    PROVE  R \in Seq(TxnsAt(N, M))
<1>1. CASE R = <<>>
  BY <1>1
<1>2. CASE R = Stored
  BY <1>2, ListTyped
<1>3. CASE R = Running /\ Data # Nil
  BY <1>3, ListTyped
<1> QED
  BY <1>1, <1>2, <1>3 DEF Held

\* The lists are ones the job had, and the checkpoint stays.
LEMMA HeldLists ==
    ASSUME Shape, Settles, NoCommit, Ckpt' = Ckpt,
           NEW Q, Q = Stored', Held(Q),
           NEW P, P = Running',
           (Live' \/ Sub' = "RollbackPipeline") /\ Data' # Nil => Held(P),
           disk'.subSyncState \in {"Done", "BeginCreateSnapshot"} =>
              Q = <<>> \/ (Q = Stored /\ Uncommitted(Q))
    PROVE  ListsFollow
<1>1. disk'.subSyncState \in {"Done", "BeginCreateSnapshot"} => UncommittedNext(Q)
  <2> SUFFICES ASSUME disk'.subSyncState \in {"Done", "BeginCreateSnapshot"}
               PROVE  UncommittedNext(Q)
    OBVIOUS
  <2>1. Uncommitted(Q) /\ Q \in Seq(TxnsAt(N, M))
    BY HeldTyped DEF Uncommitted
  <2> QED
    BY <2>1, UncommittedKept DEF Uncommitted, UncommittedNext
<1> QED
  BY <1>1 DEF ListsFollow, Follows

\* Nothing on the stored list is committed, and nothing runs.
LEMMA UncommittedLists ==
    ASSUME Shape, Settles, NoCommit, NEW Q \in Seq(TxnsAt(N, M)), Q = Stored', Uncommitted(Q),
           ~Live', Sub' # "RollbackPipeline"
    PROVE  ListsFollow
<1>1. UncommittedNext(Q)
  BY UncommittedKept DEF Uncommitted, UncommittedNext
<1> QED
  BY <1>1 DEF ListsFollow, Follows

\* While the pipeline runs, the lists have no committed txn.
LEMMA ListingLists ==
    ASSUME Listing', Live', pipe' # Nil, pc' # "committed"
    PROVE  ListsFollow
<1>1. UncommittedNext(Running') /\ UncommittedNext(Stored')
  BY DEF Listing, Uncommitted, UncommittedNext
<1> QED
  BY <1>1 DEF ListsFollow, Follows

\* The progress is the same.
LEMMA SameLists ==
    ASSUME Shape, Above, Settles, NoCommit, prog' = prog, disk' = disk
    PROVE  ListsFollow
<1>1. Ckpt' = Ckpt /\ Live' = Live /\ Sub' = Sub /\ Data' = Data
  BY DEF Ckpt, Live, Sub, Data
<1>2. PICK Q : Q = Stored'
  OBVIOUS
<1>3. PICK P : P = Running'
  OBVIOUS
<1>4. Q = Stored /\ P = Running
  BY <1>2, <1>3 DEF Stored, Running, Data
<1>5. Held(Q) /\ ((Live \/ Sub = "RollbackPipeline") /\ Data # Nil => Held(P))
  BY <1>4 DEF Held
<1>6. disk'.subSyncState \in {"Done", "BeginCreateSnapshot"} => Uncommitted(Q)
  BY <1>4 DEF Above, Uncommitted
<1> QED
  BY <1>1, <1>2, <1>3, <1>4, <1>5, <1>6, HeldLists

\* The stored list is emptied.
LEMMA EmptiedLists ==
    ASSUME Stored' = <<>>, ~Live', Sub' # "RollbackPipeline"
    PROVE  ListsFollow
BY DEF ListsFollow, Follows, UncommittedNext

\* What is loaded for a rollback is what was stored.
LEMMA EnterLists ==
    ASSUME Shape, RowState, Above, Settles, NoCommit, EnterSync
    PROVE  ListsFollow
<1>1. CASE prog' = prog /\ disk' = disk
  BY <1>1, SameLists
<1>2. CASE ~(prog' = prog /\ disk' = disk)
  <2>1. /\ Sub # "Done" /\ ~Snapshotting /\ Sub' = "RollbackPipeline" /\ Same(prog, prog')
        /\ Data' = LoadedData
        /\ \/ Sub = "RollbackPipeline" /\ disk' = disk /\ prog'.persistData = prog.persistData
           \/ prog'.persistData = LoadedData /\ disk'.subSyncState = "RollbackPipeline"
    BY <1>2, EnterSyncEffect
  <2>2. Ckpt' = Ckpt
    BY <2>1 DEF Same, Keeps, Ckpt
  <2>3. Live \/ Sub = "RollbackPipeline"
    <3>1. Sub \in SubSyncStates
      BY ShapeFacts DEF ProgressAt, Sub
    <3> QED
      BY <2>1, <3>1 DEF SubSyncStates, Live, LiveStates, Snapshotting
  <2>4. disk'.subSyncState = "RollbackPipeline"
    BY <2>1 DEF RowState, Sub
  <2>5. PICK P : P = Running'
    OBVIOUS
  <2>6. PICK Q : Q = Stored'
    OBVIOUS
  <2>7. PICK L : L = LoadedData.running
    OBVIOUS
  <2>8. Held(L)
    BY <2>3, <2>7 DEF LoadedData, Held, Stored, Running, Data
  <2>9. P = L /\ (Q = L \/ Q = Stored)
    BY <2>1, <2>5, <2>6, <2>7 DEF Running, Stored
  <2>10. Held(P) /\ Held(Q)
    BY <2>8, <2>9 DEF Held
  <2> QED
    BY <2>2, <2>4, <2>5, <2>6, <2>10, HeldLists
<1> QED
  BY <1>1, <1>2

\* A snapshot is asked for.
LEMMA AskedLists ==
    ASSUME NEW s, AsksFor(prog, prog', s)
    PROVE  ListsFollow
<1>1. Stored' = <<>> /\ Sub' = "BeginCreateSnapshot"
  BY EmptyRuns DEF AsksFor, Stored, Sub
<1> QED
  BY <1>1, EmptiedLists DEF Live, LiveStates

\* Nothing on the stored list is committed, and the list is kept.
LEMMA KeptLists ==
    ASSUME Shape, Settles, NoCommit, Uncommitted(Stored), prog'.persistData = prog.persistData,
           Sub' = "Done"
    PROVE  ListsFollow
<1>1. PICK Q \in Seq(TxnsAt(N, M)) : Q = Stored
  BY ListTyped
<1>2. Uncommitted(Q) /\ Q = Stored'
  BY <1>1 DEF Uncommitted, Stored
<1> QED
  BY <1>2, UncommittedLists DEF Live, LiveStates

\* Between two runs of the pipeline.
LEMMA DoneLists ==
    ASSUME Shape, RowState, Above, Settles, NoCommit,
           \/ StartPartialSnapshot \/ RecoverIncrementalSync \/ SkipByFullSync
           \/ SkipByPartialSync
           \/ HandleBinlog \/ HandleCommittedBinlog \/ ExecuteDDL \/ ExecuteDDLLosesReply
           \/ HandleBinlogFails \/ HandleBySnapshot \/ FinishBinlog \/ FinishBinlogLockFails
    PROVE  ListsFollow
<1>1. Sub = "Done" => Uncommitted(Stored)
  BY DEF RowState, Above
<1>2. CASE StartPartialSnapshot \/ RecoverIncrementalSync \/ SkipByFullSync \/ SkipByPartialSync
  <2>1. /\ Sub = "Done"
        /\ \/ \E s : AsksFor(prog, prog', s)
           \/ RollsBack(prog, prog')
    BY <1>2, LeaveDoneEffect
  <2>2. CASE \E s : AsksFor(prog, prog', s)
    BY <2>2, AskedLists
  <2>3. CASE RollsBack(prog, prog')
    BY <1>1, <2>1, <2>3, KeptLists DEF RollsBack, Sub
  <2> QED
    BY <2>1, <2>2, <2>3
<1>3. CASE HandleBinlog
  BY <1>1, <1>3, HandleBinlogEffect, KeptLists
<1>4. CASE HandleCommittedBinlog \/ ExecuteDDL \/ ExecuteDDLLosesReply
  <2>1. Sub = "Done" /\ Sub' = "Done" /\ prog'.persistData = prog.persistData
    BY <1>4, ExecuteEffect, HandlingFacts
  <2> QED
    BY <1>1, <2>1, KeptLists
<1>5. CASE HandleBinlogFails \/ HandleBySnapshot
  <2>1. \/ prog' = prog /\ disk' = disk
        \/ \E s : AsksFor(prog, prog', s)
    BY <1>5, HandleBinlogFailsEffect, HandleBySnapshotEffect
  <2> QED
    BY <2>1, SameLists, AskedLists
<1>6. CASE FinishBinlog \/ FinishBinlogLockFails
  BY <1>1, <1>6, FinishBinlogEffect, KeptLists
<1> QED
  BY <1>2, <1>3, <1>4, <1>5, <1>6

\* The pipeline leaves with a context lost.
LEMMA ResetLists ==
    ASSUME Shape, Ordered, Listing, Above, Settles, NoCommit,
           BeginTxnFails \/ CommitTxnFails \/ TakeResult, ~Live' \/ pipe' = Nil
    PROVE  ListsFollow
<1>1. CASE BeginTxnFails
  <2>1. /\ MayLaunch
        /\ \/ prog' = prog /\ disk' = disk
           \/ AsksFor(prog, prog', "DBFullSync")
           \/ RollsBack(prog, prog')
    BY <1>1, BeginTxnFailsEffect DEF NeedsTxn
  <2>2. Live /\ pc # "idle" /\ pc # "committed"
    BY <2>1, LaunchFacts DEF Shape, Control
  <2>3. Uncommitted(Stored)
    BY <2>2, LiveFacts DEF Listing
  <2>4. CASE RollsBack(prog, prog')
    BY <2>3, <2>4, KeptLists DEF RollsBack, Sub
  <2> QED
    BY <2>1, <2>4, SameLists, AskedLists
<1>2. CASE CommitTxnFails
  BY <1>2, CommitTxnFailsEffect, SameLists
<1>3. CASE TakeResult
  <2>1. /\ Live /\ Sub = "CommitPipeline" /\ pipe # Nil
        /\ \/ /\ Sub' = "RollbackPipeline" /\ Same(prog, prog')
              /\ prog'.persistData = Data /\ Data' = Data
              /\ disk'.subSyncState = "RollbackPipeline"
           \/ prog' = prog /\ disk' = disk
           \/ AsksFor(prog, prog', "DBFullSync")
    BY <1>3, TakeResultEffect DEF Live, LiveStates
  <2>2. CASE /\ Sub' = "RollbackPipeline" /\ Same(prog, prog')
             /\ prog'.persistData = Data /\ Data' = Data
             /\ disk'.subSyncState = "RollbackPipeline"
    <3>1. Data # Nil
      BY <2>1 DEF Shape, Control
    <3>2. PICK Q : Q = Stored'
      OBVIOUS
    <3>3. PICK P : P = Running'
      OBVIOUS
    <3>4. Q = Running /\ P = Running
      BY <2>2, <3>2, <3>3 DEF Running, Stored
    <3>5. Held(Q) /\ Held(P)
      BY <2>1, <3>1, <3>4 DEF Held
    <3>6. Ckpt' = Ckpt
      BY <2>2 DEF Same, Keeps, Ckpt
    <3> QED
      BY <2>2, <3>2, <3>3, <3>5, <3>6, HeldLists
  <2> QED
    BY <2>1, <2>2, SameLists, AskedLists
<1> QED
  BY <1>1, <1>2, <1>3

\* A launch that fails leaves the txn it recorded, not committed.
LEMMA LaunchFailsLists ==
    ASSUME Shape, Listing, LaunchIngestJobFails
    PROVE  ListsFollow
<1>1. PICK ctx \in TxnsAt(N, M) :
        /\ pc = "begun" /\ Recorded /\ ctx.txnId = M
        /\ \/ /\ Data'.running = Append(Running, ctx) /\ prog'.persistData = Data'
           \/ AsksFor(prog, prog', "DBFullSync")
  BY LaunchFailsEffect
<1>2. CASE AsksFor(prog, prog', "DBFullSync")
  BY <1>2, AskedLists
<1>3. CASE Data'.running = Append(Running, ctx) /\ prog'.persistData = Data'
  <2>1. Data # Nil
    <3>1. Live /\ pc # "idle"
      BY <1>1 DEF Shape, Control, Live, LiveStates
    <3> QED
      BY <3>1, LiveFacts
  <2>2. PICK R \in Seq(TxnsAt(N, M)) : R = Running
    BY <2>1, ListTyped
  <2>3. PICK S : S = Append(R, ctx)
    OBVIOUS
  <2>4. UncommittedNext(S)
    BY <1>1, <2>2, <2>3, LaunchedUncommitted DEF Uncommitted, UncommittedNext
  <2>5. Running' = S /\ Stored' = S
    BY <1>3, <2>2, <2>3 DEF Running, Stored
  <2> QED
    BY <2>4, <2>5 DEF ListsFollow, Follows
<1> QED
  BY <1>1, <1>2, <1>3

\* A rollback works on the stored list.
LEMMA RollbackLists ==
    ASSUME Shape, RowState, Above, Settles, NoCommit,
           StartRollback \/ RollbackTxn \/ RollbackTxnFails \/ FinishRollback
    PROVE  ListsFollow
<1>1. CASE RollbackTxnFails
  BY <1>1, SameLists DEF RollbackTxnFails
<1>2. CASE FinishRollback
  <2>1. Stored' = <<>> /\ Sub' = "Done"
    BY <1>2, FinishRollbackEffect, EmptyRuns DEF Stored
  <2> QED
    BY <2>1, EmptiedLists DEF Live, LiveStates
<1>3. CASE StartRollback \/ RollbackTxn
  <2>1. /\ Sub = "RollbackPipeline" /\ disk' = disk /\ Ckpt' = Ckpt
        /\ prog'.persistData = prog.persistData /\ Data' \in {Data, LoadedData}
    <3>1. CASE StartRollback
      BY <3>1, StartRollbackEffect DEF Same, Keeps, Ckpt
    <3>2. CASE RollbackTxn
      BY <3>2, RollbackTxnEffect, RollingFacts DEF Keeps, Ckpt
    <3> QED
      BY <1>3, <3>1, <3>2
  <2>2. disk'.subSyncState = "RollbackPipeline"
    BY <2>1 DEF RowState
  <2>3. PICK P : P = Running'
    OBVIOUS
  <2>4. PICK Q : Q = Stored'
    OBVIOUS
  <2>5. Held(Q)
    BY <2>1, <2>4 DEF Held, Stored
  <2>6. Data' # Nil => Held(P)
    BY <2>1, <2>3 DEF LoadedData, Held, Stored, Running, Data
  <2> QED
    BY <2>1, <2>2, <2>3, <2>4, <2>5, <2>6, HeldLists
<1> QED
  BY <1>1, <1>2, <1>3

\* What is outside the job changes no list.
LEMMA OutsideLists ==
    ASSUME Shape, Above, Settles, NoCommit, Environment \/ WorkerStep \/ UNCHANGED vars
    PROVE  ListsFollow
<1>1. CASE Crash
  <2>1. prog' = disk /\ disk' = disk
    BY <1>1 DEF Crash
  <2>2. disk.persistData = prog.persistData /\ disk.inMemoryData = Nil /\ Ckpt = disk.prevCommitSeq
    BY DEF Shape, DiskFollows, Ckpt
  <2>3. PICK P : P = Running'
    OBVIOUS
  <2>4. PICK Q : Q = Stored'
    OBVIOUS
  <2>5. Q = Stored /\ Ckpt' = Ckpt /\ Data' = Nil
    BY <2>1, <2>2, <2>4 DEF Stored, Ckpt, Data
  <2>6. Held(Q)
    BY <2>5 DEF Held
  <2>7. disk'.subSyncState \in {"Done", "BeginCreateSnapshot"} => Uncommitted(Q)
    BY <2>1, <2>5 DEF Above, Uncommitted
  <2> QED
    BY <2>3, <2>4, <2>5, <2>6, <2>7, HeldLists
<1>2. CASE ~Crash
  <2>1. prog' = prog /\ disk' = disk
    BY <1>2, EnvironmentEffect, WorkerTyped DEF Environment, vars
  <2> QED
    BY <2>1, SameLists
<1> QED
  BY <1>1, <1>2

\* What the lists of the job become in a step that commits nothing.
LEMMA NextLists ==
    ASSUME Shape, Shape', Ordered, Positions, Settles, NoCommit, Listing', [Next]_vars
    PROVE  ListsFollow
<1>1. RowState /\ Marks /\ Ahead /\ Listing /\ Above
  BY DEF Positions
<1>3. CASE Live' /\ pipe' # Nil /\ pc' # "committed"
  BY <1>3, ListingLists
<1>4. CASE ~(Live' /\ pipe' # Nil /\ pc' # "committed")
  <2>1. CASE EnterSync
    BY <1>1, <1>4, <2>1, EnterLists
  <2>2. CASE \/ StartPartialSnapshot \/ RecoverIncrementalSync \/ SkipByFullSync
             \/ SkipByPartialSync
             \/ HandleBinlog \/ HandleCommittedBinlog \/ ExecuteDDL \/ ExecuteDDLLosesReply
             \/ HandleBinlogFails \/ HandleBySnapshot \/ FinishBinlog \/ FinishBinlogLockFails
    BY <1>1, <1>4, <2>2, DoneLists
  <2>3. CASE StartPipeline
    <3>1. Sub' = "LaunchTransaction" /\ pc' = "loop" /\ pipe' # Nil
      BY <2>3, StartPipelineEffect, InitializedTyped
    <3> QED
      BY <1>4, <3>1 DEF Live, LiveStates
  <2>4. CASE \/ LeaveOnInterrupt \/ ConsumeInterruptSignals \/ GetNextBinlogs
             \/ GetNextBinlogsFails \/ PanicOnStaleContext \/ BeginTxn
    <3>1. prog' = prog /\ disk' = disk
      BY <2>4
         DEF LeaveOnInterrupt, ConsumeInterruptSignals, GetNextBinlogs,
             GetNextBinlogsFails, PanicOnStaleContext, BeginTxn
    <3> QED
      BY <1>1, <1>4, <3>1, SameLists
  <2>5. CASE NoMoreBinlogs
    <3>1. /\ Sub = "LaunchTransaction" /\ pipe' = pipe /\ pc = "loop" /\ pc' = "fetched"
          /\ Sub' = Sub
      BY <2>5, NoMoreBinlogsEffect DEF NoMoreBinlogs, NeedsBinlogs, AtLoop, Sub, Goto
    <3> QED
      BY <1>4, <3>1, LiveFacts DEF Live, LiveStates
  <2>6. CASE NothingToLaunch \/ SkipUpsert
    <3>1. Live /\ pc # "idle" /\ Sub' = "CommitPipeline" /\ pc' = "loop"
          /\ (pipe' = pipe \/ pipe' \in ContextsAt(N, M))
      BY <2>6, SkippedEffect
    <3> QED
      BY <1>4, <3>1, LiveFacts, ShapeFacts DEF Live, LiveStates
  <2>7. CASE LaunchIngestJob \/ LaunchTriggersPartialSnapshot
    <3>1. Sub' = "CommitPipeline" /\ pc' = "loop" /\ pipe' \in ContextsAt(N, M)
      BY <2>7, LaunchEffect
    <3> QED
      BY <1>4, <3>1, ShapeFacts DEF Live, LiveStates
  <2>8. CASE LaunchIngestJobFails
    BY <1>1, <2>8, LaunchFailsLists
  <2>9. CASE BeginTxnFails \/ CommitTxnFails
    BY <1>1, <1>4, <2>9, ResetLists, BeginTxnFailsEffect, CommitTxnFailsEffect
  <2>10. CASE TakeResult
    <3>1. pc' # "committed"
      BY <2>10, TakeResultEffect
    <3> QED
      BY <1>1, <1>4, <2>10, <3>1, ResetLists
  <2>11. CASE FinishPipeline
    <3>1. Stored' = <<>> /\ Sub' = "Done"
      BY <2>11, FinishPipelineEffect, EmptyRuns DEF Stored
    <3> QED
      BY <3>1, EmptiedLists DEF Live, LiveStates
  <2>12. CASE LaunchMore \/ YieldPipeline
    <3>1. Live /\ Live' /\ pc = "loop" /\ pc' \in {"loop", "idle"} /\ pipe' = pipe
      BY <2>12, LaunchMoreEffect, YieldPipelineEffect DEF Live, LiveStates
    <3> QED
      BY <1>4, <3>1, LiveFacts
  <2>13. CASE CommitTxn
    <3>1. /\ Live /\ pc # "idle" /\ Live' /\ Sub = "CommitPipelineTransaction" /\ pc = "loop"
          /\ txns[Commitable.txnId].status = "PREPARE"
          /\ txns' = [txns EXCEPT ![Commitable.txnId].status = "COMMITTED"]
      BY <2>13 DEF CommitTxn, AtLoop, Live, LiveStates, Sub, Goto
    <3>2. Commitable.txnId \in 1..M
      BY <3>1, CommitableFacts
    <3>3. Len(txns') = M /\ txns'[Commitable.txnId].status = "COMMITTED"
      BY <3>1, <3>2, StatusSettles
    <3> QED
      BY <3>1, <3>2, <3>3 DEF NoCommit
  <2>14. CASE FinishCommit \/ FinishCommitLockFails
    <3>1. Sub = "CommitPipelineTransaction" /\ Sub' = "CommitPipeline" /\ pc = "committed"
          /\ pc' \in {"loop", "idle"} /\ pipe' = pipe
      BY <2>14, FinishCommitEffect
    <3> QED
      BY <1>4, <3>1, LiveFacts DEF Live, LiveStates
  <2>15. CASE StartRollback \/ RollbackTxn \/ RollbackTxnFails \/ FinishRollback
    BY <1>1, <1>4, <2>15, RollbackLists
  <2>16. CASE FinishFullSync \/ FinishPartialSync
    <3>1. Stored' = <<>> /\ Sub' = "Done"
      BY <2>16, SnapshotEffect, EmptyRuns DEF Stored
    <3> QED
      BY <3>1, EmptiedLists DEF Live, LiveStates
  <2>17. CASE Environment \/ WorkerStep \/ UNCHANGED vars
    BY <1>1, <1>4, <2>17, OutsideLists
  <2> QED
    BY <2>1, <2>2, <2>3, <2>4, <2>5, <2>6, <2>7, <2>8, <2>9, <2>10, <2>11, <2>12, <2>13, <2>14,
       <2>15, <2>16, <2>17 DEF Next, JobStep, JobAction
<1> QED
  BY <1>3, <1>4

\* A held list is one of those that Above is about.
LEMMA HeldAbove ==
    ASSUME Shape, Above, NEW R, Held(R)
    PROVE  R \in Seq(TxnsAt(N, M)) /\ CommittedAbove(R)
<1>1. CASE R = <<>>
  BY <1>1 DEF CommittedAbove
<1>2. CASE R = Stored
  BY <1>2, ListTyped DEF Above
<1>3. CASE R = Running /\ Data # Nil /\ (Live \/ Sub = "RollbackPipeline")
  BY <1>3, ListTyped DEF Above
<1> QED
  BY <1>1, <1>2, <1>3 DEF Held

\* The txn that commits is of a binlog after the checkpoint.
LEMMA CommitsAbove ==
    ASSUME Shape, Shape', RowState, Ordered, Listing, Commits
    PROVE  Above'
<1>1. /\ Live /\ pipe # Nil /\ Sub = "CommitPipelineTransaction"
      /\ prog' = prog /\ disk' = disk
  BY DEF Commits
<1>2. Data # Nil
  BY <1>1 DEF Shape, Control
<1>3. PICK R \in Seq(TxnsAt(N, M)) : R = Running
  BY <1>2, ListTyped
<1>4. \A k \in 1..Len(R) : txns'[R[k].txnId].status = "COMMITTED" => Ckpt < R[k].commitSeq
  BY <1>3, CommitsListed
<1>5. Running' = R /\ Stored' = R /\ Ckpt' = Ckpt
  BY <1>1, <1>3 DEF Listing, Running, Data, Stored, Ckpt
<1>6. disk'.subSyncState = "CommitPipelineTransaction"
  BY <1>1 DEF RowState
<1> QED
  BY <1>4, <1>5, <1>6 DEF Above, CommittedAbove

\* A committed txn that is still listed is of a binlog after the checkpoint.
LEMMA NextAbove ==
    ASSUME Shape, Shape', Ordered, Positions, Settles, Listing', [Next]_vars
    PROVE  Above'
<1>1. CASE Commits
  BY <1>1, CommitsAbove DEF Positions
<1>2. CASE NoCommit
  <2>1. ListsFollow
    BY <1>2, NextLists
  <2>2. ASSUME NEW R, Follows(R)
        PROVE  \A k \in 1..Len(R) :
                  txns'[R[k].txnId].status = "COMMITTED" => Ckpt' < R[k].commitSeq
    <3>1. CASE UncommittedNext(R)
      BY <3>1 DEF UncommittedNext
    <3>2. CASE Held(R) /\ Ckpt' = Ckpt
      <4>1. R \in Seq(TxnsAt(N, M)) /\ CommittedAbove(R)
        BY <3>2, HeldAbove DEF Positions
      <4> QED
        BY <1>2, <3>2, <4>1, CommittedAboveKept DEF CommittedAbove
    <3> QED
      BY <2>2, <3>1, <3>2 DEF Follows
  <2>3. CommittedAbove(Stored)'
    BY <2>1, <2>2 DEF ListsFollow, CommittedAbove
  <2>4. ((Live \/ Sub = "RollbackPipeline") /\ Data # Nil => CommittedAbove(Running))'
    BY <2>1, <2>2 DEF ListsFollow, CommittedAbove
  <2>5. (disk.subSyncState \in {"Done", "BeginCreateSnapshot"} => Uncommitted(Stored))'
    BY <2>1 DEF ListsFollow, UncommittedNext, Uncommitted
  <2> QED
    BY <2>3, <2>4, <2>5 DEF Above
<1> QED
  BY <1>1, <1>2, NextTarget

\* Initially nothing was begun and nothing asked for.
LEMMA InitPositions ==
    ASSUME Init
    PROVE  Positions
<1>1. /\ locked = 0 /\ gc = 0 /\ pipe = Nil /\ pc = "idle" /\ disk = prog
  BY DEF Init
<1>2. PICK seqs \in [Tables -> 1..Len(log)] : prog = InitialProgress(seqs)
  BY DEF Init
<1>3. /\ prog.subSyncState = "Done" /\ prog.prevCommitSeq = prog.commitSeq
      /\ prog.persistData = EmptyData
  BY <1>2 DEF InitialProgress
<1>4. Ckpt \in Nat
  BY InitShape, Numbers
<1>5. Sub = "Done" /\ ~Live /\ ~Snapshotting /\ Stored = <<>>
  BY <1>3, EmptyRuns DEF Sub, Live, LiveStates, Snapshotting, Stored
<1>6. RowState
  BY <1>1 DEF RowState, Sub
<1>7. Marks
  BY <1>1, <1>3, <1>4, <1>5 DEF Marks, Ckpt
<1>8. Fresh /\ Ahead /\ Listing
  BY <1>1, <1>5 DEF Fresh, Ahead, Listing
<1>9. Above
  BY <1>5 DEF Above, CommittedAbove, Uncommitted
<1> QED
  BY <1>6, <1>7, <1>8, <1>9 DEF Positions

\* The marks, the context and the lists keep their order.
LEMMA NextPositions ==
    ASSUME Shape, Ordered, Positions, [Next]_vars
    PROVE  Positions'
<1>1. Shape' /\ Settles
  BY NextShape, NextSettles
<1>2. RowState' /\ Marks' /\ Ahead' /\ Listing'
  BY <1>1, NextRow, NextMarks, NextAhead, NextListing DEF Positions
<1>3. Fresh'
  BY <1>1, NextFresh DEF Positions
<1>4. Above'
  BY <1>1, <1>2, NextAbove
<1> QED
  BY <1>2, <1>3, <1>4 DEF Positions

\* The orders of the marks in the log are an invariant: what is collected is locked, what is
\* locked is passed by the checkpoint, and so on.
THEOREM PipelinePositions == Spec => [](Shape /\ Ordered /\ Positions)
<1>1. Init => Shape /\ Ordered /\ Positions
  BY InitShape, InitResolved, InitPositions
<1>2. Shape /\ Ordered /\ Positions /\ [Next]_vars => (Shape /\ Ordered /\ Positions)'
  BY NextShape, NextOrder, NextPositions
<1> QED
  BY <1>1, <1>2, PTL DEF Spec
-----------------------------------------------------------------------------
\* A context never falls behind the checkpoint: the job drops it before a snapshot is taken.
NoStale ==
    /\ pipe # Nil => ~Snapshotting /\ Ckpt <= pipe.next
    /\ NoPanic

\* The checkpoint stays, and so does the end of the batch.
LEMMA SameStale ==
    ASSUME Shape, NoStale, Ckpt' = Ckpt, ~Snapshotting', pc' # "dead",
           pipe' # Nil => pipe # Nil /\ pipe'.next = pipe.next
    PROVE  NoStale'
BY DEF NoStale, NoPanic

\* Without a context nothing is stale.
LEMMA NoContextStale ==
    ASSUME pipe' = Nil, pc' # "dead"
    PROVE  NoStale'
BY DEF NoStale, NoPanic

\* The next binlog is the first of the context.
LEMMA StartNoStale ==
    ASSUME Shape, NoStale, StartPipeline \/ HandleBinlog
    PROVE  NoStale'
<1>1. /\ pc = "loop" /\ Sub = "Done" /\ IsDone(prog) /\ pipe' = InitializedContext
      /\ Ckpt' = Ckpt /\ ~Snapshotting' /\ pc' # "dead"
  <2>1. CASE StartPipeline
    BY <2>1, StartPipelineEffect DEF Same, Keeps, Ckpt, Snapshotting
  <2>2. CASE HandleBinlog
    BY <2>2, HandleBinlogEffect DEF Keeps, Ckpt, Snapshotting
  <2> QED
    BY <2>1, <2>2
<1>2. CASE pipe = Nil
  <2>1. pipe' = NewContext(prog.commitSeq)
    BY <1>1, <1>2, InitializedTyped
  <2>2. pipe'.next = Ckpt
    BY <1>1, <2>1 DEF NewContext, IsDone, Ckpt
  <2>3. Ckpt' <= pipe'.next
    BY <1>1, <2>2, Numbers
  <2> QED
    BY <1>1, <2>3 DEF NoStale, NoPanic
<1>3. CASE pipe # Nil
  BY <1>1, <1>3, InitializedTyped, SameStale
<1> QED
  BY <1>2, <1>3

\* Case Done and the handlers leave no stale context, if no handler's error asks for a
\* snapshot.
LEMMA DoneNoStale ==
    ASSUME Shape, Shape', Marks, NoStale, "ddlMeta" \notin FaultKinds,
           \/ StartPartialSnapshot \/ RecoverIncrementalSync \/ SkipByFullSync
           \/ SkipByPartialSync
           \/ HandleCommittedBinlog \/ ExecuteDDL \/ ExecuteDDLLosesReply
           \/ HandleBinlogFails \/ HandleBySnapshot \/ FinishBinlog \/ FinishBinlogLockFails
    PROVE  NoStale'
<1>1. CASE StartPartialSnapshot \/ RecoverIncrementalSync \/ SkipByFullSync \/ SkipByPartialSync
  BY <1>1, LeaveDoneEffect, NoContextStale
<1>2. CASE HandleCommittedBinlog \/ ExecuteDDL \/ ExecuteDDLLosesReply
  <2>1. /\ Sub = "Done" /\ Sub' = "Done" /\ Same(prog, prog') /\ pipe' = pipe
        /\ pc' \in {"handled", "idle"}
    BY <1>2, ExecuteEffect, HandlingFacts
  <2> QED
    BY <2>1, SameStale DEF Snapshotting, Same, Keeps, Ckpt
<1>3. CASE HandleBinlogFails
  <2>1. Sub = "Done" /\ prog' = prog /\ pipe' = pipe /\ pc' = "idle"
    BY <1>3, HandleBinlogFailsEffect, HandlingFacts
  <2> QED
    BY <2>1, SameStale DEF Snapshotting, Sub, Ckpt
<1>4. CASE HandleBySnapshot
  BY <1>4, HandleBySnapshotEffect, NoContextStale
<1>5. CASE FinishBinlog \/ FinishBinlogLockFails
  <2>1. /\ pc = "handled" /\ Sub' = "Done" /\ Ckpt' = prog.commitSeq
        /\ pc' \in {"idle", "loop"} /\ (pipe' = pipe \/ pipe'.next = pipe.next)
    BY <1>5, FinishBinlogEffect DEF Ckpt
  <2>2. prog.commitSeq = pipe.pos + 1 /\ pipe # Nil /\ pipe.pos < pipe.next
    BY <2>1, HandlingFacts
  <2>3. pipe.pos \in Nat /\ pipe.next \in Nat
    BY <2>2, Numbers
  <2>4. Ckpt' <= pipe'.next
    BY <2>1, <2>2, <2>3
  <2> QED
    BY <2>1, <2>4 DEF NoStale, NoPanic, Snapshotting
<1> QED
  BY <1>1, <1>2, <1>3, <1>4, <1>5

\* What is fetched comes after the checkpoint.
LEMMA FetchNoStale ==
    ASSUME Shape, Shape', NoStale,
           \/ GetNextBinlogs \/ NoMoreBinlogs \/ GetNextBinlogsFails \/ PanicOnStaleContext
           \/ NothingToLaunch \/ SkipUpsert \/ BeginTxn \/ BeginTxnFails
    PROVE  NoStale'
<1>1. CASE GetNextBinlogs
  <2>1. /\ prog' = prog /\ pipe # Nil /\ Ckpt <= pipe.next /\ pipe.next <= pipe'.pos
        /\ pipe'.pos <= pipe'.next /\ pipe' # Nil /\ Live /\ pc' = "fetched"
    BY <1>1, FetchEffect
  <2>2. Ckpt \in Nat /\ pipe.next \in Nat /\ pipe'.pos \in Nat /\ pipe'.next \in Nat
    BY <2>1, Numbers, NextNumbers
  <2>3. Ckpt' <= pipe'.next
    BY <2>1, <2>2 DEF Ckpt
  <2> QED
    BY <2>1, <2>3 DEF NoStale, NoPanic, Snapshotting, Live, LiveStates, Sub
<1>2. CASE NoMoreBinlogs \/ GetNextBinlogsFails
  <2>1. /\ Sub = "LaunchTransaction" /\ pipe' = pipe /\ pc' \in {"fetched", "idle"}
        /\ (prog' = prog \/ NoMoreBinlogs)
    BY <1>2 DEF NoMoreBinlogs, GetNextBinlogsFails, NeedsBinlogs, AtLoop, Sub, Goto
  <2>2. Ckpt' = Ckpt /\ Sub' = Sub
    BY <2>1, NoMoreBinlogsEffect DEF Same, Keeps, Ckpt, Sub
  <2> QED
    BY <2>1, <2>2, SameStale DEF Snapshotting
<1>3. CASE PanicOnStaleContext
  <2>1. pc = "loop" /\ Sub = "LaunchTransaction" /\ pipe.next < Ckpt
    BY <1>3 DEF PanicOnStaleContext, NeedsBinlogs, AtLoop, Sub, Ckpt
  <2>2. pipe # Nil
    BY <2>1, LiveFacts DEF Live, LiveStates
  <2>3. pipe.next \in Nat /\ Ckpt \in Nat /\ Ckpt <= pipe.next
    BY <2>2, Numbers DEF NoStale
  <2> QED
    BY <2>1, <2>3
<1>4. CASE NothingToLaunch \/ SkipUpsert
  <2>1. /\ Live /\ pc # "idle" /\ Same(prog, prog') /\ Sub' = "CommitPipeline" /\ pc' = "loop"
        /\ (pipe' = pipe \/ pipe'.next = pipe.next)
    BY <1>4, SkippedEffect
  <2>2. pipe # Nil
    BY <2>1, LiveFacts
  <2> QED
    BY <2>1, <2>2, SameStale DEF Snapshotting, Same, Keeps, Ckpt
<1>5. CASE BeginTxn
  <2>1. MayLaunch /\ prog' = prog /\ pipe' = pipe /\ pc' = "begun"
    BY <1>5 DEF BeginTxn, NeedsTxn, Goto
  <2>2. Live
    BY <2>1, LaunchFacts
  <2> QED
    BY <2>1, <2>2, SameStale DEF Snapshotting, Live, LiveStates, Sub, Ckpt
<1>6. CASE BeginTxnFails
  BY <1>6, BeginTxnFailsEffect, NoContextStale
<1> QED
  BY <1>1, <1>2, <1>3, <1>4, <1>5, <1>6

\* The checkpoint does not overtake what was fetched.
LEMMA CommitNoStale ==
    ASSUME Shape, Shape', Ordered, Marks, Listing, NoStale,
           \/ LaunchIngestJob \/ LaunchTriggersPartialSnapshot \/ LaunchIngestJobFails
           \/ TakeResult \/ FinishPipeline \/ LaunchMore \/ YieldPipeline
           \/ CommitTxn \/ CommitTxnFails \/ FinishCommit \/ FinishCommitLockFails
    PROVE  NoStale'
<1>1. CASE LaunchIngestJob \/ LaunchTriggersPartialSnapshot
  <2>1. /\ pc = "begun" /\ Sub = "LaunchTransaction" /\ Same(prog, prog')
        /\ Sub' = "CommitPipeline" /\ pipe'.next = pipe.next /\ pc' = "loop"
    BY <1>1, LaunchEffect
  <2>2. pipe # Nil
    BY <2>1, LiveFacts DEF Live, LiveStates
  <2> QED
    BY <2>1, <2>2, SameStale DEF Snapshotting, Same, Keeps, Ckpt
<1>2. CASE LaunchIngestJobFails \/ CommitTxnFails
  <2>1. pipe' = Nil /\ pc' = "idle"
    BY <1>2, LaunchFailsEffect, CommitTxnFailsEffect
  <2> QED
    BY <2>1, NoContextStale
<1>3. CASE TakeResult
  <2>1. /\ pipe # Nil /\ pc' # "dead"
        /\ \/ /\ Same(prog, prog') /\ Sub' \in {"RollbackPipeline", "CommitPipelineTransaction"}
              /\ pipe'.next = pipe.next
           \/ pipe' = Nil
    BY <1>3, TakeResultEffect
  <2> QED
    BY <2>1, SameStale, NoContextStale DEF Snapshotting, Same, Keeps, Ckpt
<1>4. CASE FinishPipeline \/ LaunchMore \/ YieldPipeline
  <2>1. /\ Live /\ pipe' = pipe /\ Sub' \in {"Done", "LaunchTransaction", "CommitPipeline"}
        /\ pc' \in {"loop", "idle"}
        /\ Same(prog, prog') \/ prog'.prevCommitSeq = prog.commitSeq
    BY <1>4, FinishPipelineEffect, LaunchMoreEffect, YieldPipelineEffect DEF Live, LiveStates
  <2>2. Ckpt' = Ckpt
    BY <2>1 DEF Marks, Same, Keeps, Ckpt
  <2> QED
    BY <2>1, <2>2, SameStale DEF Snapshotting
<1>5. CASE CommitTxn
  <2>1. Sub = "CommitPipelineTransaction" /\ pipe' = pipe /\ prog' = prog /\ pc' = "committed"
    BY <1>5 DEF CommitTxn, AtLoop, Sub, Goto
  <2> QED
    BY <2>1, SameStale DEF Snapshotting, Sub, Ckpt
<1>6. CASE FinishCommit \/ FinishCommitLockFails
  <2>1. Ckpt' <= pipe.pos /\ pipe' = pipe /\ pc' # "dead" /\ Sub' = "CommitPipeline"
        /\ pipe # Nil
    BY <1>6, CommitMarks, FinishCommitEffect
  <2>2. PICK c \in Nat, p \in Nat, n \in Nat : c = Ckpt' /\ p = pipe.pos /\ n = pipe.next
    BY <2>1, Numbers, NextNumbers
  <2>3. p <= n
    BY <2>1, <2>2, Numbers
  <2>4. Ckpt' <= pipe'.next
    BY <2>1, <2>2, <2>3
  <2> QED
    BY <2>1, <2>4 DEF NoStale, NoPanic, Snapshotting
<1> QED
  BY <1>1, <1>2, <1>3, <1>4, <1>5, <1>6

\* A rollback leaves no stale context.
LEMMA RollbackNoStale ==
    ASSUME Shape, NoStale, StartRollback \/ RollbackTxn \/ RollbackTxnFails \/ FinishRollback
    PROVE  NoStale'
<1>1. /\ pipe' = pipe /\ prog'.prevCommitSeq = prog.prevCommitSeq /\ pc' # "dead"
      /\ Sub' \in {"RollbackPipeline", "Done"}
  <2>1. CASE RollbackTxnFails
    BY <2>1, RollingFacts DEF RollbackTxnFails, Sub, Goto
  <2>2. CASE RollbackTxn
    BY <2>2, RollbackTxnEffect, RollingFacts DEF Keeps
  <2>3. CASE StartRollback \/ FinishRollback
    BY <2>3, StartRollbackEffect, FinishRollbackEffect DEF Same, Keeps
  <2> QED
    BY <2>1, <2>2, <2>3
<1> QED
  BY <1>1, SameStale DEF Snapshotting, Ckpt

\* A tick starts with no stale context.
LEMMA TickNoStale ==
    ASSUME Shape, NoStale, EnterSync \/ LeaveOnInterrupt \/ ConsumeInterruptSignals
    PROVE  NoStale'
<1>1. CASE EnterSync
  <2>1. /\ Same(prog, prog') /\ (Sub' = Sub \/ Sub' = "RollbackPipeline") /\ ~Snapshotting
        /\ (pipe = Nil => pipe' = Nil) /\ pc' = "loop"
        /\ (pipe # Nil => pipe'.next = pipe.next)
    BY <1>1, EnterSyncEffect DEF Sub
  <2> QED
    BY <2>1, SameStale DEF Snapshotting, Same, Keeps, Ckpt
<1>2. CASE LeaveOnInterrupt \/ ConsumeInterruptSignals
  BY <1>2 DEF LeaveOnInterrupt, ConsumeInterruptSignals, NoStale, NoPanic, Snapshotting, Sub,
              Ckpt, Goto
<1> QED
  BY <1>1, <1>2

\* What is outside the job leaves no stale context.
LEMMA OutsideNoStale ==
    ASSUME Shape, NoStale, Environment \/ WorkerStep \/ UNCHANGED vars
    PROVE  NoStale'
<1>1. CASE Crash
  BY <1>1, NoContextStale DEF Crash, Goto
<1>2. CASE ~Crash
  <2>1. /\ prog' = prog /\ pc' = pc
        /\ pipe' = pipe \/ (pipe # Nil /\ pipe'.next = pipe.next)
    BY <1>2, EnvironmentEffect, WorkerTyped DEF Environment, vars
  <2> QED
    BY <2>1 DEF NoStale, NoPanic, Snapshotting, Sub, Ckpt
<1> QED
  BY <1>1, <1>2

\* No step leaves a stale context.
LEMMA NextNoStale ==
    ASSUME Shape, Ordered, Positions, NoStale, "ddlMeta" \notin FaultKinds, [Next]_vars
    PROVE  NoStale'
<1>1. Shape' /\ Marks /\ Listing
  BY NextShape DEF Positions
<1>2. CASE FinishFullSync \/ FinishPartialSync
  <2>1. Snapshotting /\ pipe' = pipe /\ pc' = "idle"
    BY <1>2, SnapshotEffect
  <2> QED
    BY <2>1, NoContextStale DEF NoStale
<1>3. CASE Environment \/ WorkerStep \/ UNCHANGED vars
  BY <1>3, OutsideNoStale
<1>4. CASE EnterSync \/ LeaveOnInterrupt \/ ConsumeInterruptSignals
  BY <1>4, TickNoStale
<1>5. CASE StartPipeline \/ HandleBinlog
  BY <1>5, StartNoStale
<1>6. CASE StartRollback \/ RollbackTxn \/ RollbackTxnFails \/ FinishRollback
  BY <1>6, RollbackNoStale
<1> QED
  BY <1>1, <1>2, <1>3, <1>4, <1>5, <1>6, DoneNoStale, FetchNoStale, CommitNoStale
     DEF Next, JobStep, JobAction

\* The assertion of getNextBinlogs holds: the goroutine of a job never dies of a context that is
\* behind the checkpoint, provided no DDL handler fails with an error of category Meta.
THEOREM PipelineNoPanic ==
    ASSUME "ddlMeta" \notin FaultKinds
    PROVE  Spec => []NoPanic
<1>1. Init => Shape /\ Ordered /\ Positions /\ NoStale
  BY InitShape, InitResolved, InitPositions DEF Init, NoStale, NoPanic
<1>2. Shape /\ Ordered /\ Positions /\ NoStale /\ [Next]_vars
      => (Shape /\ Ordered /\ Positions /\ NoStale)'
  BY NextShape, NextOrder, NextPositions, NextNoStale
<1>3. NoStale => NoPanic
  BY DEF NoStale
<1> QED
  BY <1>1, <1>2, <1>3, PTL DEF Spec
-----------------------------------------------------------------------------
\* The log only grows, and what a table has it keeps.
Carries ==
    /\ N <= N' /\ \A s \in 1..N : log'[s] = log[s]
    /\ \A t \in Tables : \A s \in 1..N : Covered(t, s) => Covered(t, s)'

\* A binlog that is applied to a table is at the table, with all that was there.
LEMMA ApplyCovers ==
    ASSUME Shape, NEW r \in 1..N, NEW ts, Apply(r, ts)
    PROVE  \A t \in Tables : /\ \A s \in 1..N : Covered(t, s) => Covered(t, s)'
                             /\ t \in ts => Covered(t, r)'
<1>1. SUFFICES ASSUME NEW t \in Tables
               PROVE  /\ \A s \in 1..N : Covered(t, s) => Covered(t, s)'
                      /\ t \in ts => Covered(t, r)'
  OBVIOUS
<1>2. CASE t \notin ts
  <2>1. dest'[t] = dest[t]
    BY <1>2 DEF Apply
  <2> QED
    BY <1>2, <2>1 DEF Covered
<1>3. CASE t \in ts
  <2>1. PICK d : d = dest[t]
    OBVIOUS
  <2>2. d \in [base : 0..N, applied : Seq(1..N)]
    BY <2>1 DEF Shape, Typed, TargetTyped, N
  <2>3. dest'[t] = [d EXCEPT !.applied = Append(@, r)]
    BY <1>3, <2>1 DEF Apply
  <2>4. dest'[t].base = d.base /\ dest'[t].applied = Append(d.applied, r)
    BY <2>2, <2>3
  <2>5. PICK a \in Seq(1..N) : a = d.applied
    BY <2>2
  <2>6. PICK b : b = Append(a, r)
    OBVIOUS
  <2>7. /\ Len(a) \in Nat /\ DOMAIN a = 1..Len(a) /\ DOMAIN b = 1..Len(a) + 1
        /\ \A i \in 1..Len(a) : b[i] = a[i]
        /\ b[Len(a) + 1] = r
    BY <2>5, <2>6
  <2>8. \A s : (\E i \in DOMAIN a : a[i] = s) => \E i \in DOMAIN b : b[i] = s
    BY <2>7
  <2>9. \E i \in DOMAIN b : b[i] = r
    BY <2>7
  <2>10. dest[t].base = d.base /\ dest[t].applied = a /\ dest'[t].applied = b
    BY <2>1, <2>4, <2>5, <2>6
  <2>11. \A s \in 1..N : Covered(t, s) => Covered(t, s)'
    BY <2>4, <2>8, <2>10 DEF Covered
  <2>12. Covered(t, r)'
    BY <2>9, <2>10 DEF Covered
  <2> QED
    BY <2>11, <2>12
<1> QED
  BY <1>2, <1>3

\* A restored table has what it had: the snapshot was asked for after all of it.
LEMMA RestoreCovers ==
    ASSUME Shape, Shape', Fresh, FinishFullSync \/ FinishPartialSync
    PROVE  \A t \in Tables : \A s \in 1..N : Covered(t, s) => Covered(t, s)'
<1>1. SUFFICES ASSUME NEW t \in Tables, NEW s \in 1..N, Covered(t, s)
               PROVE  Covered(t, s)'
  OBVIOUS
<1>2. CASE dest'[t] = dest[t]
  BY <1>1, <1>2 DEF Covered
<1>3. CASE dest'[t].base \in SnapshotSeqs
  <2>1. Snapshotting
    BY SnapshotEffect
  <2>2. /\ dest[t].base <= asked
        /\ \A i \in DOMAIN dest[t].applied : dest[t].applied[i] <= asked
    BY <2>1 DEF Fresh
  <2>3. PICK b : b = dest'[t].base
    OBVIOUS
  <2>4. b \in asked..N
    BY <1>3, <2>3 DEF SnapshotSeqs, N
  <2>5. /\ asked \in Nat /\ N \in Nat
        /\ dest[t] \in [base : 0..N, applied : Seq(1..N)]
    BY Numbers DEF Shape, Typed, TargetTyped, N
  <2>6. PICK d \in 0..N : d = dest[t].base
    BY <2>5
  <2>7. CASE s <= dest[t].base
    <3>1. s <= d /\ d <= asked
      BY <2>2, <2>6, <2>7
    <3>2. s <= b
      BY <2>4, <2>5, <3>1
    <3> QED
      BY <2>3, <3>2 DEF Covered
  <2>8. CASE \E i \in DOMAIN dest[t].applied : dest[t].applied[i] = s
    <3>1. s <= asked
      BY <2>2, <2>8
    <3>2. s <= b
      BY <2>4, <2>5, <3>1
    <3> QED
      BY <2>3, <3>2 DEF Covered
  <2> QED
    BY <1>1, <2>7, <2>8 DEF Covered
<1>4. dest'[t] = dest[t] \/ dest'[t].base \in SnapshotSeqs
  BY SnapshotEffect
<1> QED
  BY <1>2, <1>3, <1>4

\* No step shortens the log or takes anything from the target.
LEMMA NextCarries ==
    ASSUME Shape, Shape', Fresh, [Next]_vars
    PROVE  Carries
<1>1. N <= N' /\ \A s \in 1..N : log'[s] = log[s]
  <2>1. CASE log' = log
    BY <2>1, ShapeFacts DEF N
  <2>2. CASE SourceWrites
    <3>1. PICK b : log' = Append(log, b)
      BY <2>2 DEF SourceWrites
    <3>2. log \in Seq(Binlogs)
      BY DEF Shape, Typed, SourceTyped
    <3> QED
      BY <3>1, <3>2 DEF N
  <2>3. log' = log \/ SourceWrites
    <3>1. CASE JobStep
      BY <3>1, JobKeepsLog DEF JobStep
    <3>2. CASE WorkerStep
      BY <3>2, WorkerTyped DEF srcVars
    <3>3. CASE Environment
      BY <3>3 DEF Environment, SourceCollects, TargetAborts, Interrupt, SkipBinlog, Crash, srcVars
    <3>4. CASE UNCHANGED vars
      BY <3>4 DEF vars
    <3> QED
      BY <3>1, <3>2, <3>3, <3>4 DEF Next
  <2> QED
    BY <2>1, <2>2, <2>3
<1>2. \A t \in Tables : \A s \in 1..N : Covered(t, s) => Covered(t, s)'
  <2>1. CASE dest' = dest
    BY <2>1 DEF Covered
  <2>2. CASE Commits
    <3>1. /\ Commitable.commitSeq \in 1..N
          /\ Apply(Commitable.commitSeq, Commitable.tables)
      BY <2>2, CommitableFacts DEF Commits
    <3>2. PICK r \in 1..N : r = Commitable.commitSeq
      BY <3>1
    <3>3. PICK ts : ts = Commitable.tables
      OBVIOUS
    <3> QED
      BY <3>1, <3>2, <3>3, ApplyCovers
  <2>3. CASE ExecuteDDL \/ ExecuteDDLLosesReply
    <3>1. pc = "handling" /\ Apply(prog.commitSeq, log[prog.commitSeq].tables)
      BY <2>3 DEF ExecuteDDL, ExecuteDDLLosesReply, Handling
    <3>2. PICK r \in 1..N : r = prog.commitSeq
      BY <3>1, HandlingFacts
    <3>3. PICK ts : ts = log[prog.commitSeq].tables
      OBVIOUS
    <3> QED
      BY <3>1, <3>2, <3>3, ApplyCovers
  <2>4. CASE FinishFullSync \/ FinishPartialSync
    BY <2>4, RestoreCovers
  <2> QED
    BY <2>1, <2>2, <2>3, <2>4, NextTarget
<1> QED
  BY <1>1, <1>2 DEF Carries
-----------------------------------------------------------------------------
\* The target has every binlog of a+1..c, and none of them asks for a full snapshot.
Passes(a, c) == \A s \in a + 1..c :
    log[s].kind # "DUMMY" /\ \A t \in log[s].tables : Covered(t, s)

\* ... or a txn on the list R carries it.
ReachedBy(R, a, c) == \A s \in a + 1..c :
    /\ log[s].kind # "DUMMY"
    /\ \A t \in log[s].tables :
          Covered(t, s) \/ \E k \in 1..Len(R) : R[k].commitSeq = s /\ t \in R[k].tables

\* What the map says a table has, it has.
Filtered(m) == \A t \in Tables : \A s \in Ckpt + 1..m[t] : t \in log[s].tables => Covered(t, s)

CommittedPassed(R) == \A k \in 1..Len(R) :
    txns[R[k].txnId].status = "COMMITTED" => Passes(Ckpt, R[k].commitSeq)

\* A binlog changes tables of the database.
LEMMA LogFacts ==
    ASSUME Shape
    PROVE  \A s \in 1..N : log[s] \in Binlogs /\ log[s].tables \subseteq Tables
<1>1. log \in Seq(Binlogs)
  BY DEF Shape, Typed, SourceTyped
<1>2. \A b \in Binlogs : b.tables \subseteq Tables
  BY DEF Binlogs
<1> QED
  BY <1>1, <1>2 DEF N

\* A part of what was passed stays passed.
LEMMA PassesKept ==
    ASSUME Shape, Carries, NEW a \in 0..N, NEW c \in 0..N, Passes(a, c),
           NEW b \in Nat, NEW d \in Nat, a <= b, d <= c
    PROVE  Passes(b, d)'
<1>1. SUFFICES ASSUME NEW s \in b + 1..d
               PROVE  /\ log'[s].kind # "DUMMY"
                      /\ \A t \in log'[s].tables : Covered(t, s)'
  BY DEF Passes
<1>2. N \in Nat
  BY ShapeFacts
<1>3. s \in a + 1..c /\ s \in 1..N
  BY <1>2
<1>4. log'[s] = log[s] /\ log[s].tables \subseteq Tables
  BY <1>3, LogFacts DEF Carries
<1>5. log[s].kind # "DUMMY" /\ \A t \in log[s].tables : Covered(t, s)
  BY <1>3 DEF Passes
<1> QED
  BY <1>3, <1>4, <1>5 DEF Carries

\* The same when a list carries the rest: a txn whose binlog is not in the part that counts may
\* leave the list.
LEMMA ReachedKept ==
    ASSUME Shape, Carries, NEW a \in 0..N, NEW c \in 0..N, NEW R, ReachedBy(R, a, c),
           NEW b \in Nat, NEW d \in Nat, a <= b, d <= c, NEW S,
           \A k \in 1..Len(R) : R[k].commitSeq > b => \E j \in 1..Len(S) : S[j] = R[k]
    PROVE  ReachedBy(S, b, d)'
<1>1. SUFFICES ASSUME NEW s \in b + 1..d
               PROVE  /\ log'[s].kind # "DUMMY"
                      /\ \A t \in log'[s].tables :
                            \/ Covered(t, s)'
                            \/ \E k \in 1..Len(S) : S[k].commitSeq = s /\ t \in S[k].tables
  BY DEF ReachedBy
<1>2. N \in Nat
  BY ShapeFacts
<1>3. s \in a + 1..c /\ s \in 1..N /\ s > b
  BY <1>2
<1>4. log'[s] = log[s] /\ log[s].tables \subseteq Tables
  BY <1>3, LogFacts DEF Carries
<1>5. /\ log[s].kind # "DUMMY"
      /\ \A t \in log[s].tables :
            Covered(t, s) \/ \E k \in 1..Len(R) : R[k].commitSeq = s /\ t \in R[k].tables
  BY <1>3 DEF ReachedBy
<1>6. ASSUME NEW t \in log[s].tables,
             \E k \in 1..Len(R) : R[k].commitSeq = s /\ t \in R[k].tables
      PROVE  \E k \in 1..Len(S) : S[k].commitSeq = s /\ t \in S[k].tables
  <2>1. PICK k \in 1..Len(R) : R[k].commitSeq = s /\ t \in R[k].tables
    BY <1>6
  <2>2. PICK j \in 1..Len(S) : S[j] = R[k]
    BY <1>3, <2>1
  <2> QED
    BY <2>1, <2>2
<1> QED
  BY <1>3, <1>4, <1>5, <1>6 DEF Carries

\* The map may lose entries, or gain those of binlogs that the checkpoint passes.
LEMMA FilterKept ==
    ASSUME Shape, Shape', Carries, NEW m \in [Tables -> 0..N], Filtered(m), Ckpt <= Ckpt',
           NEW q \in [Tables -> 0..N'], \A t \in Tables : q[t] <= m[t] \/ q[t] <= Ckpt'
    PROVE  Filtered(q)'
<1>1. PICK b \in Nat : b = Ckpt'
  BY NextNumbers
<1>2. PICK a \in 0..N : a = Ckpt
  BY Numbers
<1>3. N \in Nat /\ N' \in Nat /\ a <= b
  BY <1>1, <1>2, Numbers, NextNumbers
<1>4. SUFFICES ASSUME NEW t \in Tables, NEW s \in b + 1..q[t], t \in log'[s].tables
               PROVE  Covered(t, s)'
  BY <1>1 DEF Filtered
<1>5. PICK x \in 0..N' : x = q[t]
  OBVIOUS
<1>6. PICK y \in 0..N : y = m[t]
  OBVIOUS
<1>7. x <= y \/ x <= b
  BY <1>1, <1>5, <1>6
<1>8. s \in b + 1..x
  BY <1>4, <1>5
<1>9. s \in a + 1..y /\ s \in 1..N
  BY <1>3, <1>7, <1>8
<1>10. log'[s] = log[s]
  BY <1>9 DEF Carries
<1>11. Covered(t, s)
  BY <1>2, <1>4, <1>6, <1>9, <1>10 DEF Filtered
<1> QED
  BY <1>9, <1>11 DEF Carries

\* A committed txn stays within what the target has.
LEMMA CommittedPassedKept ==
    ASSUME Shape, Shape', Settles, Carries, NoCommit, NEW R \in Seq(TxnsAt(N, M)), Ckpt' = Ckpt,
           CommittedPassed(R)
    PROVE  CommittedPassed(R)'
<1>1. PICK a \in 0..N : a = Ckpt
  BY Numbers
<1>2. SUFFICES ASSUME NEW k \in 1..Len(R), txns'[R[k].txnId].status = "COMMITTED"
               PROVE  Passes(a, R[k].commitSeq)'
  BY <1>1 DEF CommittedPassed, Passes
<1>3. R[k].txnId \in 1..M /\ R[k].commitSeq \in 1..N
  BY ListTyped
<1>4. R[k].txnId \in 1..Len(txns')
  BY <1>3 DEF Settles, M
<1>5. PICK r \in 1..N : r = R[k].commitSeq
  BY <1>3
<1>6. Passes(a, r)
  <2>1. txns[R[k].txnId].status = "COMMITTED"
    BY <1>2, <1>4 DEF NoCommit
  <2> QED
    BY <1>1, <1>5, <2>1 DEF CommittedPassed
<1>7. a \in Nat /\ r \in 0..N /\ r \in Nat /\ a <= a /\ r <= r
  BY ShapeFacts
<1>8. Passes(a, r)'
  BY <1>6, <1>7, PassesKept
<1> QED
  BY <1>5, <1>8

\* Nothing on the list is committed.
LEMMA UncommittedPassed ==
    ASSUME NEW R, UncommittedNext(R)
    PROVE  CommittedPassed(R)'
BY DEF UncommittedNext, CommittedPassed

\* The tables hold what the maps of the job and of the storage say.
FiltersHold == Filtered(prog.tableCommitSeqMap) /\ Filtered(disk.tableCommitSeqMap)

\* What a committed txn, or a rollback, moves the progress to, the target has.
CommitsPassed ==
    /\ CommittedPassed(Stored)
    /\ (Live \/ Sub = "RollbackPipeline") /\ Data # Nil => CommittedPassed(Running)
    /\ Sub = "RollbackPipeline" =>
          Passes(Ckpt, prog.commitSeq) /\ Passes(Ckpt, disk.commitSeq)

\* What the job has consumed since the checkpoint is at the target or in a running txn.
Consumed ==
    /\ Sub = "Done" /\ extra.partialTable # Nil => Passes(Ckpt, prog.commitSeq)
    /\ Sub = "Done" /\ pipe # Nil /\ extra.partialTable = Nil => Passes(Ckpt, pipe.pos)
    /\ Live /\ pipe # Nil => ReachedBy(Running, Ckpt, pipe.pos)
    /\ pc = "handled" => IsSilenced(prog.commitSeq) \/ Passes(Ckpt, prog.commitSeq)

\* The target has every binlog of a+1..c but for table u.
PassesBut(u, a, c) == \A s \in a + 1..c :
    log[s].kind # "DUMMY" /\ \A t \in log[s].tables : t = u \/ Covered(t, s)

\* A partial snapshot brings all that is missing up to its seq.
PartialMissing ==
    prog.syncState = "DBPartialSync" => PassesBut(prog.partialTable, Ckpt, prog.commitSeq)

Passed == FiltersHold /\ CommitsPassed /\ Consumed /\ PartialMissing
-----------------------------------------------------------------------------
\* The checkpoint stays, and so do the maps and the seqs a rollback starts from.
Steady ==
    /\ Ckpt' = Ckpt
    /\ prog'.tableCommitSeqMap \in {prog.tableCommitSeqMap, disk.tableCommitSeqMap}
    /\ disk'.tableCommitSeqMap \in {prog.tableCommitSeqMap, disk.tableCommitSeqMap}
    /\ Sub' = "RollbackPipeline" =>
        /\ Sub = "RollbackPipeline" \/ Live
        /\ prog'.commitSeq \in {prog.commitSeq, disk.commitSeq}
        /\ disk'.commitSeq \in {prog.commitSeq, disk.commitSeq}
        /\ prog'.syncState \in {prog.syncState, disk.syncState}
        /\ disk'.syncState \in {prog.syncState, disk.syncState}
    /\ prog'.syncState = "DBIncrementalSync" =>
        "DBIncrementalSync" \in {prog.syncState, disk.syncState}

\* A step that leaves progress and row is steady.
LEMMA EqualSteady ==
    ASSUME Shape, prog' = prog, disk' = disk
    PROVE  Steady
BY DEF Steady, Ckpt, Sub

\* So is one that keeps the seqs and the map.
LEMMA SameSteady ==
    ASSUME Shape, Shape', Same(prog, prog'),
           Sub' = "RollbackPipeline" =>
              /\ Sub = "RollbackPipeline" \/ Live
              /\ disk' = disk \/ KeepsSync(prog, disk')
    PROVE  Steady
<1>1. Ckpt' = Ckpt /\ prog'.commitSeq = prog.commitSeq
      /\ prog'.tableCommitSeqMap = prog.tableCommitSeqMap
      /\ prog'.syncState = prog.syncState
  BY DEF Same, Keeps, KeepsSync, Ckpt
<1>2. CASE Sub' = "RollbackPipeline"
  BY <1>1, <1>2 DEF Steady, KeepsSync
<1>3. CASE Sub' # "RollbackPipeline"
  BY <1>1, <1>3, NextNumbers DEF Steady
<1> QED
  BY <1>2, <1>3

\* So is a request for a snapshot.
LEMMA AskedSteady ==
    ASSUME Shape, Shape', NEW s, s # "DBIncrementalSync", AsksFor(prog, prog', s)
    PROVE  Steady
<1>1. Ckpt' = Ckpt /\ Sub' # "RollbackPipeline"
      /\ prog'.tableCommitSeqMap = prog.tableCommitSeqMap /\ prog'.syncState = s
  BY DEF AsksFor, Ckpt, Sub
<1> QED
  BY <1>1, NextNumbers DEF Steady

\* So is the return to the checkpoint.
LEMMA RolledSteady ==
    ASSUME Shape, Shape', RollsBack(prog, prog')
    PROVE  Steady
<1>1. Ckpt' = Ckpt /\ Sub' # "RollbackPipeline"
      /\ prog'.tableCommitSeqMap = prog.tableCommitSeqMap /\ prog'.syncState = prog.syncState
  BY DEF RollsBack, Ckpt, Sub
<1> QED
  BY <1>1, NextNumbers DEF Steady

\* A step of the pipeline that keeps seqs, map and sync state.
LEMMA LiveSteady ==
    ASSUME Shape, Shape', Marks,
           \/ NoMoreBinlogs \/ NothingToLaunch \/ SkipUpsert \/ BeginTxnFails
           \/ LaunchIngestJob \/ LaunchTriggersPartialSnapshot \/ LaunchIngestJobFails
           \/ FinishPipeline \/ LaunchMore \/ YieldPipeline
    PROVE  Steady
<1>1. CASE NoMoreBinlogs
  <2>1. Same(prog, prog') /\ Sub' = "LaunchTransaction"
    BY <1>1, NoMoreBinlogsEffect DEF NoMoreBinlogs, NeedsBinlogs, AtLoop, Sub
  <2> QED
    BY <2>1, SameSteady
<1>2. CASE NothingToLaunch \/ SkipUpsert
  BY <1>2, SkippedEffect, SameSteady
<1>3. CASE BeginTxnFails
  BY <1>3, BeginTxnFailsEffect, EqualSteady, AskedSteady, RolledSteady
<1>4. CASE LaunchIngestJob \/ LaunchTriggersPartialSnapshot
  <2>1. Same(prog, prog') /\ Sub' = "CommitPipeline"
    BY <1>4, LaunchEffect
  <2> QED
    BY <2>1, SameSteady
<1>5. CASE LaunchIngestJobFails
  <2>1. \/ Same(prog, prog') /\ Sub' = "LaunchTransaction"
        \/ AsksFor(prog, prog', "DBFullSync")
    BY <1>5, LaunchFailsEffect
  <2> QED
    BY <2>1, SameSteady, AskedSteady
<1>6. CASE FinishPipeline \/ LaunchMore
  <2>1. Same(prog, prog') /\ Sub' # "RollbackPipeline"
    BY <1>6, FinishPipelineEffect, LaunchMoreEffect
  <2> QED
    BY <2>1, SameSteady
<1>7. CASE YieldPipeline
  <2>1. /\ Sub = "CommitPipeline" /\ KeepsSync(prog, prog') /\ Sub' = "CommitPipeline"
        /\ prog'.prevCommitSeq = prog.commitSeq
    BY <1>7, YieldPipelineEffect
  <2>2. Ckpt' = Ckpt
    BY <2>1 DEF Marks, Live, LiveStates, Ckpt
  <2> QED
    BY <2>1, <2>2, NextNumbers DEF Steady, KeepsSync
<1> QED
  BY <1>1, <1>2, <1>3, <1>4, <1>5, <1>6, <1>7

\* The steps that do not move the checkpoint or a map.
LEMMA NextSteady ==
    ASSUME Shape, Shape', Ordered, Positions, [Next]_vars
    PROVE  \/ Steady
           \/ FinishBinlog \/ FinishBinlogLockFails \/ FinishCommit \/ FinishCommitLockFails
           \/ RollbackTxn \/ FinishFullSync \/ FinishPartialSync
<1> USE DEF Positions
<1>1. CASE EnterSync
  <2>1. Same(prog, prog') /\ ~Snapshotting
    BY <1>1, EnterSyncEffect
  <2>2. \/ prog' = prog /\ disk' = disk
        \/ Sub' = "RollbackPipeline" /\ Sub # "Done" /\ (disk' = disk \/ KeepsSync(prog, disk'))
    BY <1>1, EnterSyncEffect
  <2>3. Sub # "Done" => Sub = "RollbackPipeline" \/ Live
    <3>1. Sub \in SubSyncStates
      BY ShapeFacts DEF ProgressAt, Sub
    <3> QED
      BY <2>1, <3>1 DEF SubSyncStates, Live, LiveStates, Snapshotting
  <2> QED
    BY <2>1, <2>2, <2>3, SameSteady, EqualSteady
<1>2. CASE StartPartialSnapshot \/ RecoverIncrementalSync \/ SkipByFullSync \/ SkipByPartialSync
  BY <1>2, LeaveDoneEffect, AskedSteady, RolledSteady
<1>3. CASE StartPipeline
  BY <1>3, StartPipelineEffect, SameSteady
<1>4. CASE HandleBinlog
  <2>1. /\ Ckpt' = Ckpt /\ prog'.tableCommitSeqMap = prog.tableCommitSeqMap /\ Sub' = "Done"
        /\ prog'.syncState = prog.syncState
    BY <1>4, HandleBinlogEffect DEF Keeps, Ckpt
  <2> QED
    BY <2>1, NextNumbers DEF Steady
<1>5. CASE HandleCommittedBinlog \/ ExecuteDDL \/ ExecuteDDLLosesReply
  <2>1. Same(prog, prog') /\ Sub' = "Done"
    BY <1>5, ExecuteEffect, HandlingFacts
  <2> QED
    BY <2>1, SameSteady
<1>6. CASE HandleBinlogFails \/ HandleBySnapshot
  BY <1>6, EqualSteady, HandleBinlogFailsEffect, HandleBySnapshotEffect, AskedSteady
<1>7. CASE \/ NoMoreBinlogs \/ NothingToLaunch \/ SkipUpsert \/ BeginTxnFails
           \/ LaunchIngestJob \/ LaunchTriggersPartialSnapshot \/ LaunchIngestJobFails
           \/ FinishPipeline \/ LaunchMore \/ YieldPipeline
  BY <1>7, LiveSteady
<1>8. CASE TakeResult
  <2>1. /\ Live
        /\ \/ Same(prog, prog') /\ KeepsSync(prog, disk')
           \/ Same(prog, prog') /\ Sub' = "CommitPipelineTransaction"
           \/ prog' = prog /\ disk' = disk
           \/ AsksFor(prog, prog', "DBFullSync")
    BY <1>8, TakeResultEffect
  <2> QED
    BY <2>1, SameSteady, EqualSteady, AskedSteady
<1>9. CASE StartRollback
  <2>1. Same(prog, prog') /\ Sub = "RollbackPipeline" /\ disk' = disk
    BY <1>9, StartRollbackEffect
  <2> QED
    BY <2>1, SameSteady
<1>10. CASE FinishRollback
  <2>1. Same(prog, prog') /\ Sub' = "Done"
    BY <1>10, FinishRollbackEffect
  <2> QED
    BY <2>1, SameSteady
<1>11. CASE CommitTxnFails
  BY <1>11, EqualSteady, CommitTxnFailsEffect
<1>12. CASE \/ LeaveOnInterrupt \/ ConsumeInterruptSignals \/ GetNextBinlogs
            \/ GetNextBinlogsFails \/ PanicOnStaleContext \/ BeginTxn \/ CommitTxn
            \/ RollbackTxnFails
  BY <1>12, EqualSteady
     DEF LeaveOnInterrupt, ConsumeInterruptSignals, GetNextBinlogs, GetNextBinlogsFails,
         PanicOnStaleContext, BeginTxn, CommitTxn, RollbackTxnFails
<1>13. CASE Crash
  <2>1. prog' = disk /\ disk' = disk
    BY <1>13 DEF Crash
  <2>2. Ckpt' = Ckpt
    BY <2>1, Numbers DEF Ckpt
  <2>3. Sub' = "RollbackPipeline" => Sub = "RollbackPipeline" \/ Live
    BY <2>1 DEF RowState, Sub, Live, LiveStates
  <2> QED
    BY <2>1, <2>2, <2>3 DEF Steady
<1>14. CASE (Environment /\ ~Crash) \/ WorkerStep \/ UNCHANGED vars
  <2>1. prog' = prog /\ disk' = disk
    BY <1>14, EnvironmentEffect, WorkerTyped DEF Environment, vars
  <2> QED
    BY <2>1, EqualSteady
<1> QED
  BY <1>1, <1>2, <1>3, <1>4, <1>5, <1>6, <1>7, <1>8, <1>9, <1>10, <1>11, <1>12, <1>13, <1>14
     DEF Next, JobStep, JobAction, Environment
-----------------------------------------------------------------------------
\* An entry may move to a seq up to which the target has all.
LEMMA FilterPassed ==
    ASSUME Shape, Shape', Carries, NEW m \in [Tables -> 0..N], Filtered(m), Ckpt' = Ckpt,
           NEW r \in 1..N, Passes(Ckpt, r),
           NEW q \in [Tables -> 0..N'], \A t \in Tables : q[t] = m[t] \/ q[t] = r
    PROVE  Filtered(q)'
<1>1. PICK a \in 0..N : a = Ckpt
  BY Numbers
<1>2. N \in Nat /\ N' \in Nat
  BY Numbers, NextNumbers
<1>3. SUFFICES ASSUME NEW t \in Tables, NEW s \in a + 1..q[t], t \in log'[s].tables
               PROVE  Covered(t, s)'
  BY <1>1 DEF Filtered
<1>4. PICK y \in 0..N : y = m[t]
  OBVIOUS
<1>5. CASE q[t] = m[t]
  <2>1. s \in a + 1..y
    BY <1>3, <1>4, <1>5
  <2>2. s \in 1..N
    BY <1>2, <2>1
  <2>3. log'[s] = log[s]
    BY <2>2 DEF Carries
  <2>4. Covered(t, s)
    BY <1>1, <1>3, <1>4, <2>1, <2>3 DEF Filtered
  <2> QED
    BY <2>2, <2>4 DEF Carries
<1>6. CASE q[t] = r
  <2>1. s \in a + 1..r
    BY <1>3, <1>6
  <2>2. s \in 1..N
    BY <1>2, <2>1
  <2>3. log'[s] = log[s]
    BY <2>2 DEF Carries
  <2>4. Covered(t, s)
    BY <1>1, <1>3, <2>1, <2>3 DEF Passes
  <2> QED
    BY <2>2, <2>4 DEF Carries
<1> QED
  BY <1>5, <1>6

\* A steady step keeps the filters.
LEMMA SteadyFilters ==
    ASSUME Shape, Shape', Carries, FiltersHold, Steady
    PROVE  FiltersHold'
<1>1. PICK p \in [Tables -> 0..N] : p = prog'.tableCommitSeqMap /\ Filtered(p)
  BY Numbers DEF Steady, FiltersHold
<1>2. PICK d \in [Tables -> 0..N] : d = disk'.tableCommitSeqMap /\ Filtered(d)
  BY Numbers DEF Steady, FiltersHold
<1>3. p \in [Tables -> 0..N'] /\ d \in [Tables -> 0..N']
  BY <1>1, <1>2, NextNumbers
<1>4. (\A t \in Tables : p[t] <= p[t]) /\ (\A t \in Tables : d[t] <= d[t])
  BY ShapeFacts
<1>5. Ckpt <= Ckpt'
  BY Numbers DEF Steady
<1>6. Filtered(p)' /\ Filtered(d)'
  BY <1>1, <1>2, <1>3, <1>4, <1>5, FilterKept
<1> QED
  BY <1>1, <1>2, <1>6 DEF FiltersHold, Filtered

\* A binlog, or a txn, that is done moves the checkpoint and may drop the map.
LEMMA DoneFilters ==
    ASSUME Shape, Shape', Ordered, Positions, Carries, FiltersHold,
           FinishBinlog \/ FinishBinlogLockFails \/ FinishCommit \/ FinishCommitLockFails
    PROVE  FiltersHold'
<1>1. PICK m \in [Tables -> 0..N] : m = prog.tableCommitSeqMap /\ Filtered(m)
  BY Numbers DEF FiltersHold
<1>2. PICK q \in [Tables -> 0..N'] : q = prog'.tableCommitSeqMap
  BY NextNumbers
<1>3. Ckpt <= Ckpt' /\ Sub' # "RollbackPipeline" /\ \A t \in Tables : q[t] <= m[t] \/ q[t] <= Ckpt'
  <2>1. CASE FinishBinlog \/ FinishBinlogLockFails
    <3>1. Ckpt <= Ckpt' /\ Sub' = "Done"
      BY <2>1, FinishBinlogMarks, FinishBinlogEffect DEF Positions
    <3>2. q = m \/ q = NoMap
      BY <1>1, <1>2, <2>1, FinishBinlogEffect
    <3>3. ASSUME NEW t \in Tables
          PROVE  q[t] <= m[t] \/ q[t] <= Ckpt'
      BY <3>2, ShapeFacts, NextNumbers DEF NoMap
    <3> QED
      BY <3>1, <3>3
  <2>2. CASE FinishCommit \/ FinishCommitLockFails
    <3>1. /\ Ckpt < Ckpt' /\ Ckpt' = Commitable.commitSeq /\ Sub' = "CommitPipeline"
          /\ Ckpt \in Nat /\ Ckpt' \in Nat
      BY <2>2, CommitMarks, FinishCommitEffect, Numbers, NextNumbers DEF Positions
    <3>2. \/ \A t \in Tables : q[t] = m[t] \/ q[t] = Ckpt'
          \/ q = NoMap
      BY <1>1, <1>2, <2>2, <3>1, FinishCommitEffect
    <3>3. ASSUME NEW t \in Tables
          PROVE  q[t] <= m[t] \/ q[t] <= Ckpt'
      BY <3>1, <3>2, ShapeFacts, NextNumbers DEF NoMap
    <3> QED
      BY <3>1, <3>3
  <2> QED
    BY <2>1, <2>2
<1>4. Filtered(q)'
  BY <1>1, <1>3, FilterKept
<1>5. disk'.tableCommitSeqMap = q
  BY <1>2, <1>3, NextNumbers
<1> QED
  BY <1>2, <1>4, <1>5 DEF FiltersHold, Filtered

\* A txn that the rollback finds committed.
LEMMA RollbackFilters ==
    ASSUME Shape, Shape', Positions, Carries, FiltersHold, CommitsPassed, RollbackTxn
    PROVE  FiltersHold'
<1>1. /\ pc = "rollback" /\ cursor < Len(Running) /\ Sub = "RollbackPipeline"
      /\ disk' = disk /\ Ckpt' = Ckpt
  BY RollbackTxnEffect, RollingFacts DEF Keeps, Ckpt
<1>2. Ckpt <= Ckpt'
  BY <1>1, Numbers
<1>3. PICK d \in [Tables -> 0..N] : d = disk'.tableCommitSeqMap /\ Filtered(d)
  BY <1>1, Numbers DEF FiltersHold
<1>4. PICK m \in [Tables -> 0..N] : m = prog.tableCommitSeqMap /\ Filtered(m)
  BY Numbers DEF FiltersHold
<1>5. PICK q \in [Tables -> 0..N'] : q = prog'.tableCommitSeqMap
  BY NextNumbers
<1>6. Filtered(d)'
  <2>1. d \in [Tables -> 0..N'] /\ \A t \in Tables : d[t] <= d[t]
    BY <1>3, NextNumbers, ShapeFacts
  <2> QED
    BY <1>2, <1>3, <2>1, FilterKept
<1> SUFFICES Filtered(q)'
  BY <1>3, <1>5, <1>6 DEF FiltersHold, Filtered
<1>7. CASE \A t \in Tables : q[t] <= m[t] \/ q[t] <= Ckpt'
  BY <1>2, <1>4, <1>7, FilterKept
<1>8. CASE /\ txns[Running[cursor + 1].txnId].status = "COMMITTED"
           /\ \A t \in Tables : q[t] = m[t] \/ q[t] = Running[cursor + 1].commitSeq
  <2>1. /\ Data # Nil /\ cursor + 1 \in 1..Len(Running)
        /\ Running[cursor + 1].commitSeq \in 1..N
    BY <1>1, RollingFacts, RollingTxn
  <2>2. PICK r \in 1..N : r = Running[cursor + 1].commitSeq
    BY <2>1
  <2>3. Passes(Ckpt, r)
    BY <1>1, <1>8, <2>1, <2>2 DEF CommitsPassed, CommittedPassed
  <2> QED
    BY <1>1, <1>4, <1>8, <2>2, <2>3, FilterPassed
<1>9. CASE prog' = prog
  <2>1. \A t \in Tables : q[t] <= m[t]
    BY <1>4, <1>5, <1>9, ShapeFacts
  <2> QED
    BY <1>7, <2>1
<1>10. CASE q = NoMap
  <2>1. \A t \in Tables : q[t] <= Ckpt'
    BY <1>10, NextNumbers DEF NoMap
  <2> QED
    BY <1>7, <2>1
<1>11. \/ prog' = prog \/ q = NoMap
       \/ /\ txns[Running[cursor + 1].txnId].status = "COMMITTED"
          /\ \A t \in Tables : q[t] = m[t] \/ q[t] = Running[cursor + 1].commitSeq
  BY <1>4, <1>5, RollbackTxnEffect
<1> QED
  BY <1>8, <1>9, <1>10, <1>11

\* A restored snapshot brings its filter with it.
LEMMA SnapshotFilters ==
    ASSUME Shape, Shape', Marks, Fresh, Carries, FiltersHold, FinishFullSync \/ FinishPartialSync
    PROVE  FiltersHold'
<1>1. Sub' = "Done" /\ Ckpt <= Ckpt'
  BY SnapshotEffect, SnapshotMarks
<1>2. PICK q \in [Tables -> 0..N'] : q = prog'.tableCommitSeqMap
  BY NextNumbers
<1>3. disk'.tableCommitSeqMap = q
  BY <1>1, <1>2, NextNumbers
<1>4. PICK a \in 0..N, b \in 0..N' : a = Ckpt /\ b = Ckpt'
  BY Numbers, NextNumbers
<1>5. ASSUME NEW t \in Tables, NEW s \in b + 1..q[t], t \in log'[s].tables
      PROVE  Covered(t, s)'
  <2>1. CASE q[t] = dest'[t].base
    <3>1. s <= q[t]
      BY <1>5, NextNumbers
    <3> QED
      BY <2>1, <3>1 DEF Covered
  <2>2. CASE q[t] = prog.tableCommitSeqMap[t]
    <3>1. PICK y \in 0..N : y = q[t]
      BY <2>2, Numbers
    <3>2. a <= b /\ s \in b + 1..y /\ N \in Nat
      BY <1>1, <1>4, <1>5, <3>1, ShapeFacts
    <3>3. s \in a + 1..y /\ s \in 1..N
      BY <3>1, <3>2
    <3>4. log'[s] = log[s]
      BY <3>3 DEF Carries
    <3>5. Covered(t, s)
      BY <1>4, <1>5, <2>2, <3>1, <3>3, <3>4 DEF FiltersHold, Filtered
    <3> QED
      BY <3>3, <3>5 DEF Carries
  <2>3. q[t] = dest'[t].base \/ q[t] = prog.tableCommitSeqMap[t]
    BY <1>2, SnapshotEffect
  <2> QED
    BY <2>1, <2>2, <2>3
<1> QED
  BY <1>2, <1>3, <1>4, <1>5 DEF FiltersHold, Filtered

\* No step makes a filter that leaves out what the target does not have.
LEMMA NextFilters ==
    ASSUME Shape, Shape', Ordered, Positions, Carries, FiltersHold, CommitsPassed, [Next]_vars
    PROVE  FiltersHold'
BY NextSteady, SteadyFilters, DoneFilters, RollbackFilters, SnapshotFilters DEF Positions
-----------------------------------------------------------------------------
\* What is passed up to the checkpoint itself says nothing.
LEMMA PassesNone ==
    ASSUME NEW a \in Nat, NEW c \in Nat, c <= a
    PROVE  Passes(a, c) /\ Passes(a, c)'
<1>1. a + 1..c = {}
  OBVIOUS
<1> QED
  BY <1>1 DEF Passes

\* A txn that is committed now carries the first binlog that the target does not have.
LEMMA CommitsPassedBy ==
    ASSUME Shape, Shape', Ordered, Positions, Carries, Consumed, Commits,
           NEW R \in Seq(TxnsAt(N, M)), R = Running
    PROVE  CommittedPassed(R)'
<1>1. /\ 1 \in 1..Len(R) /\ Commitable = R[1]
      /\ \A k \in 1..Len(R) : txns'[R[k].txnId].status = "COMMITTED" => k = 1
  BY CommitsListed DEF Positions
<1>2. Ckpt' = Ckpt /\ Live /\ pipe # Nil /\ Sub = "CommitPipelineTransaction" /\ pc = "loop"
  BY DEF Commits, Ckpt
<1>3. PICK a \in 0..N, p \in 0..N : a = Ckpt /\ p = pipe.pos
  BY <1>2, Numbers
<1>4. PICK x \in TxnsAt(N, M) : x = R[1]
  BY <1>1
<1>5. PICK r \in 1..N : r = x.commitSeq
  BY DEF TxnsAt
<1>6. Apply(r, x.tables)
  BY <1>1, <1>4, <1>5 DEF Commits
<1>7. Rising(R) /\ Between(R, a, p)
  BY <1>2, <1>3 DEF Positions, Listing
<1>8. ReachedBy(R, a, p)
  BY <1>2, <1>3 DEF Consumed
<1>9. N \in Nat /\ r <= p
  BY <1>1, <1>4, <1>5, <1>7, ShapeFacts DEF Between
<1>10. Passes(a, r)'
  <2>1. SUFFICES ASSUME NEW s \in a + 1..r
                 PROVE  /\ log'[s].kind # "DUMMY"
                        /\ \A t \in log'[s].tables : Covered(t, s)'
    BY DEF Passes
  <2>2. s \in a + 1..p /\ s \in 1..N
    BY <1>9
  <2>3. log'[s] = log[s] /\ log[s].tables \subseteq Tables
    BY <2>2, LogFacts DEF Carries
  <2>4. /\ log[s].kind # "DUMMY"
        /\ \A t \in log[s].tables :
              Covered(t, s) \/ \E k \in 1..Len(R) : R[k].commitSeq = s /\ t \in R[k].tables
    BY <1>8, <2>2 DEF ReachedBy
  <2>5. ASSUME NEW t \in log[s].tables,
               NEW k \in 1..Len(R), R[k].commitSeq = s, t \in R[k].tables
        PROVE  Covered(t, s)'
    <3>1. k = 1
      <4>1. CASE 1 < k
        <5>1. R[1].commitSeq < R[k].commitSeq
          BY <1>1, <1>7, <4>1 DEF Rising
        <5>2. r < s
          BY <1>4, <1>5, <2>5, <5>1
        <5> QED
          BY <2>1, <5>2, <1>9
      <4> QED
        BY <4>1
    <3>2. s = r /\ t \in x.tables
      BY <1>4, <1>5, <2>5, <3>1
    <3> QED
      BY <1>6, <2>3, <3>2, ApplyCovers
  <2> QED
    BY <2>2, <2>3, <2>4, <2>5 DEF Carries
<1>11. CommittedPassed(R)'
  <2>1. SUFFICES ASSUME NEW k \in 1..Len(R), txns'[R[k].txnId].status = "COMMITTED"
                 PROVE  Passes(a, R[k].commitSeq)'
    BY <1>2, <1>3 DEF CommittedPassed, Passes
  <2>2. k = 1
    BY <1>1, <2>1
  <2>3. R[k].commitSeq = r
    BY <1>4, <1>5, <2>2
  <2> QED
    BY <1>10, <2>3
<1> QED
  BY <1>11

\* What a rollback starts from, and what it finds committed.
LEMMA NextRolledPassed ==
    ASSUME Shape, Shape', Ordered, Positions, Carries, CommitsPassed, [Next]_vars,
           Sub' = "RollbackPipeline"
    PROVE  (Passes(Ckpt, prog.commitSeq) /\ Passes(Ckpt, disk.commitSeq))'
<1>1. PICK a \in 0..N, p \in 0..N, d \in 0..N :
         a = Ckpt /\ p = prog.commitSeq /\ d = disk.commitSeq
  BY Numbers
<1>2. N \in Nat /\ a \in Nat /\ p \in Nat /\ d \in Nat /\ a <= a /\ p <= p /\ d <= d
  BY ShapeFacts
<1>3. CASE Steady
  <2>1. /\ Ckpt' = a /\ prog'.commitSeq \in {p, d} /\ disk'.commitSeq \in {p, d}
        /\ Sub = "RollbackPipeline" \/ Live
    BY <1>1, <1>3 DEF Steady
  <2>2. Passes(a, p)' /\ Passes(a, d)'
    <3>1. CASE Sub = "RollbackPipeline"
      <4>1. Passes(a, p) /\ Passes(a, d)
        BY <1>1, <3>1 DEF CommitsPassed
      <4> QED
        BY <1>2, <4>1, PassesKept
    <3>2. CASE Live
      <4>1. p = a /\ d = a
        BY <1>1, <3>2 DEF Positions, Marks, Shape, DiskFollows, Live, LiveStates
      <4> QED
        BY <1>2, <4>1, PassesNone
    <3> QED
      BY <2>1, <3>1, <3>2
  <2>3. PICK x, y : x = prog'.commitSeq /\ y = disk'.commitSeq
    OBVIOUS
  <2>4. Passes(a, x)' /\ Passes(a, y)'
    BY <2>1, <2>2, <2>3
  <2> QED
    BY <2>1, <2>3, <2>4 DEF Passes
<1>4. CASE RollbackTxn
  <2>1. /\ pc = "rollback" /\ cursor < Len(Running) /\ Sub = "RollbackPipeline"
        /\ disk' = disk /\ Ckpt' = Ckpt
        /\ \/ /\ txns[Running[cursor + 1].txnId].status = "COMMITTED"
              /\ prog'.commitSeq = Running[cursor + 1].commitSeq
           \/ prog' = prog
    BY <1>4, RollbackTxnEffect, RollingFacts DEF Keeps, Ckpt
  <2>2. /\ Data # Nil /\ cursor + 1 \in 1..Len(Running)
        /\ Running[cursor + 1].commitSeq \in 1..N
    BY <2>1, RollingFacts, RollingTxn
  <2>3. Passes(a, p) /\ Passes(a, d)
    BY <1>1, <2>1 DEF CommitsPassed
  <2>4. Passes(a, p)' /\ Passes(a, d)'
    BY <1>2, <2>3, PassesKept
  <2>5. PICK x : x = prog'.commitSeq
    OBVIOUS
  <2>6. Passes(a, x)'
    <3>1. CASE prog' = prog
      BY <1>1, <2>4, <2>5, <3>1
    <3>2. CASE /\ txns[Running[cursor + 1].txnId].status = "COMMITTED"
               /\ prog'.commitSeq = Running[cursor + 1].commitSeq
      <4>1. x \in 1..N
        BY <2>2, <2>5, <3>2
      <4>2. Passes(a, x)
        BY <1>1, <2>1, <2>2, <2>5, <3>2 DEF CommitsPassed, CommittedPassed
      <4>3. x \in 0..N /\ x \in Nat /\ x <= x
        BY <1>2, <4>1
      <4> QED
        BY <1>2, <4>2, <4>3, PassesKept
    <3> QED
      BY <2>1, <3>1, <3>2
  <2>7. disk'.commitSeq = d
    BY <1>1, <2>1
  <2> QED
    BY <1>1, <2>1, <2>4, <2>5, <2>6, <2>7 DEF Passes
<1>5. ~(FinishBinlog \/ FinishBinlogLockFails \/ FinishCommit \/ FinishCommitLockFails
        \/ FinishFullSync \/ FinishPartialSync)
  BY FinishBinlogEffect, FinishCommitEffect, SnapshotEffect
<1> QED
  BY <1>3, <1>4, <1>5, NextSteady

\* No step commits a txn before the target has all binlogs before it.
LEMMA NextCommitsPassed ==
    ASSUME Shape, Shape', Ordered, Positions, Settles, Listing', Carries, CommitsPassed, Consumed,
           [Next]_vars
    PROVE  CommitsPassed'
<1>1. CASE Commits
  <2>1. Live /\ pipe # Nil /\ Sub = "CommitPipelineTransaction" /\ prog' = prog
    BY <1>1 DEF Commits
  <2>2. Data # Nil /\ Stored = Running
    BY <2>1 DEF Shape, Control, Positions, Listing
  <2>3. PICK R \in Seq(TxnsAt(N, M)) : R = Running
    BY <2>2, ListTyped
  <2>4. CommittedPassed(R)'
    BY <1>1, <2>3, CommitsPassedBy
  <2>5. Running' = R /\ Stored' = R /\ Sub' # "RollbackPipeline"
    BY <2>1, <2>2, <2>3 DEF Running, Data, Stored, Sub
  <2> QED
    BY <2>4, <2>5 DEF CommitsPassed, CommittedPassed
<1>2. CASE NoCommit
  <2>1. ListsFollow
    BY <1>2, NextLists
  <2>2. ASSUME NEW R, Follows(R)
        PROVE  CommittedPassed(R)'
    <3>1. CASE UncommittedNext(R)
      BY <3>1, UncommittedPassed
    <3>2. CASE Held(R) /\ Ckpt' = Ckpt
      <4>1. R \in Seq(TxnsAt(N, M))
        BY <3>2, HeldTyped
      <4>2. CommittedPassed(R)
        <5>1. CASE R = <<>>
          BY <5>1 DEF CommittedPassed
        <5>2. CASE R = Stored \/ (R = Running /\ Data # Nil /\ (Live \/ Sub = "RollbackPipeline"))
          BY <5>2 DEF CommitsPassed
        <5> QED
          BY <3>2, <5>1, <5>2 DEF Held
      <4> QED
        BY <1>2, <3>2, <4>1, <4>2, CommittedPassedKept
    <3> QED
      BY <2>2, <3>1, <3>2 DEF Follows
  <2>3. PICK Q, P : Q = Stored' /\ P = Running'
    OBVIOUS
  <2>4. CommittedPassed(Q)'
    BY <2>1, <2>2, <2>3 DEF ListsFollow
  <2>5. (Live' \/ Sub' = "RollbackPipeline") /\ Data' # Nil => CommittedPassed(P)'
    BY <2>1, <2>2, <2>3 DEF ListsFollow
  <2> QED
    BY <2>3, <2>4, <2>5, NextRolledPassed DEF CommitsPassed, CommittedPassed
<1> QED
  BY <1>1, <1>2, NextTarget
-----------------------------------------------------------------------------
\* What was passed but for one table stays so.
LEMMA PassesButKept ==
    ASSUME Shape, Carries, NEW a \in 0..N, NEW c \in 0..N, NEW u, PassesBut(u, a, c)
    PROVE  PassesBut(u, a, c)'
<1>1. SUFFICES ASSUME NEW s \in a + 1..c
               PROVE  /\ log'[s].kind # "DUMMY"
                      /\ \A t \in log'[s].tables : t = u \/ Covered(t, s)'
  BY DEF PassesBut
<1>2. s \in 1..N
  BY ShapeFacts
<1>3. log'[s] = log[s] /\ log[s].tables \subseteq Tables
  BY <1>2, LogFacts DEF Carries
<1>4. log[s].kind # "DUMMY" /\ \A t \in log[s].tables : t = u \/ Covered(t, s)
  BY DEF PassesBut
<1> QED
  BY <1>2, <1>3, <1>4 DEF Carries

\* What is passed is passed whatever table is left out.
LEMMA PassesBoth ==
    ASSUME NEW u, NEW a, NEW c, Passes(a, c)
    PROVE  PassesBut(u, a, c)
BY DEF Passes, PassesBut

\* A schema change asks for a snapshot of its one table, after all that came before it.
LEMMA HandledPassesBut ==
    ASSUME Shape, Consumed, pc = "handling", log[prog.commitSeq].kind = "ALTER_JOB",
           NEW u \in log[prog.commitSeq].tables
    PROVE  PassesBut(u, Ckpt, prog.commitSeq)
<1>1. /\ Sub = "Done" /\ pipe # Nil /\ extra.partialTable = Nil
      /\ prog.commitSeq = pipe.pos + 1 /\ prog.commitSeq \in 1..N
  BY HandlingFacts
<1>2. PICK a \in 0..N, p \in 0..N, c \in 1..N : a = Ckpt /\ p = pipe.pos /\ c = prog.commitSeq
  BY <1>1, Numbers
<1>3. Passes(a, p) /\ c = p + 1 /\ N \in Nat
  BY <1>1, <1>2, ShapeFacts DEF Consumed
<1>4. PICK v \in Tables : log[c].tables = {v}
  BY <1>2, HandlingFacts
<1>5. SUFFICES ASSUME NEW s \in a + 1..c
               PROVE  /\ log[s].kind # "DUMMY"
                      /\ \A t \in log[s].tables : t = u \/ Covered(t, s)
  BY <1>2 DEF PassesBut
<1>6. CASE s = c
  BY <1>2, <1>4, <1>6
<1>7. CASE s # c
  <2>1. s \in a + 1..p
    BY <1>3, <1>7
  <2> QED
    BY <1>3, <2>1 DEF Passes
<1> QED
  BY <1>6, <1>7

\* No step asks for a partial snapshot while another table misses something.
LEMMA NextPartialMissing ==
    ASSUME Shape, Shape', Ordered, Positions, Carries, Consumed, PartialMissing, [Next]_vars
    PROVE  PartialMissing'
<1>1. SUFFICES ASSUME prog'.syncState = "DBPartialSync"
               PROVE  PassesBut(prog.partialTable, Ckpt, prog.commitSeq)'
  BY DEF PartialMissing
<1>2. Snapshotting'
  BY <1>1 DEF Shape, DiskFollows, SyncOK, IsIncrementalSync, Snapshotting, Sub
<1>3. Ckpt' = Ckpt
  <2>1. ~(FinishBinlog \/ FinishBinlogLockFails \/ FinishCommit \/ FinishCommitLockFails
          \/ FinishFullSync \/ FinishPartialSync)
    BY <1>2, FinishBinlogEffect, FinishCommitEffect, SnapshotEffect DEF Snapshotting
  <2>2. ~RollbackTxn
    BY <1>2, RollbackTxnEffect, RollingFacts DEF Snapshotting
  <2> QED
    BY <2>1, <2>2, NextSteady DEF Steady
<1>4. PICK a \in 0..N, c \in 0..N : a = Ckpt /\ c = prog.commitSeq
  BY Numbers
<1>5. PICK u : u = prog'.partialTable
  OBVIOUS
<1>6. prog'.commitSeq = c /\ PassesBut(u, a, c)
  <2>1. CASE Snapshotting
    <3>1. prog' = prog \/ prog' = disk
      <4>1. CASE JobAction
        BY <1>2, <2>1, <4>1, WhileSnapshotting DEF ConsumeInterruptSignals
      <4>2. CASE WorkerStep \/ UNCHANGED vars
        BY <4>2, WorkerTyped DEF vars
      <4>3. CASE Environment
        BY <4>3, EnvironmentEffect DEF Environment, Crash
      <4> QED
        BY <4>1, <4>2, <4>3 DEF Next, JobStep
    <3>2. disk.commitSeq = prog.commitSeq /\ disk.syncState = prog.syncState
          /\ disk.partialTable = prog.partialTable
      BY <2>1 DEF Shape, DiskFollows, Snapshotting
    <3>3. prog'.commitSeq = c /\ u = prog.partialTable /\ prog.syncState = "DBPartialSync"
      BY <1>1, <1>4, <1>5, <3>1, <3>2
    <3> QED
      BY <1>4, <3>3 DEF PartialMissing
  <2>2. CASE ~Snapshotting
    <3>1. JobAction
      <4>1. ~(WorkerStep \/ UNCHANGED vars)
        BY <1>2, <2>2, WorkerTyped DEF vars, Snapshotting, Sub
      <4>2. CASE Environment
        <5>1. prog' = prog \/ prog' = disk
          BY <4>2, EnvironmentEffect DEF Environment, Crash
        <5> QED
          BY <1>2, <2>2, <5>1 DEF Shape, DiskFollows, Snapshotting, Sub
      <4> QED
        BY <4>1, <4>2 DEF Next, JobStep
    <3>2. AskedWhy /\ prog'.commitSeq = c
      BY <1>1, <1>2, <1>4, <2>2, <3>1, SnapshotAsked DEF AskedContext, AsksFor
    <3>3. CASE Sub = "Done" /\ extra.partialTable # Nil
      BY <1>4, <3>2, <3>3, PassesBoth DEF Consumed
    <3>4. CASE IsDone(prog)
      <4>1. a = c
        BY <1>4, <3>4 DEF IsDone, Ckpt
      <4>2. Passes(a, c)
        BY <4>1, PassesNone, ShapeFacts
      <4> QED
        BY <3>2, <4>2, PassesBoth
    <3>5. CASE /\ pc = "handling" /\ log[prog.commitSeq].kind = "ALTER_JOB"
               /\ prog'.partialTable \in log[prog.commitSeq].tables
      BY <1>4, <1>5, <3>2, <3>5, HandledPassesBut
    <3> QED
      BY <3>2, <3>3, <3>4, <3>5 DEF AskedWhy
  <2> QED
    BY <2>1, <2>2
<1>7. PassesBut(u, a, c)'
  BY <1>6, PassesButKept
<1> QED
  BY <1>3, <1>4, <1>5, <1>6, <1>7 DEF PassesBut
-----------------------------------------------------------------------------
\* The job is at no state in which Consumed says something.
LEMMA NotConsuming ==
    ASSUME Shape', Sub' # "Done", ~Live' \/ pipe' = Nil
    PROVE  Consumed'
<1>1. pc' # "handled"
  BY DEF Shape, Control
<1> QED
  BY <1>1 DEF Consumed

\* The job has no context, and its progress is done or nothing is asked for.
LEMMA NoContextConsumed ==
    ASSUME Shape', pipe' = Nil,
           Sub' = "Done" => extra'.partialTable = Nil \/ prog'.commitSeq = Ckpt'
    PROVE  Consumed'
<1>1. pc' # "handled"
  BY DEF Shape, Control
<1>2. CASE prog'.commitSeq = Ckpt'
  <2>1. PICK a \in Nat : a = Ckpt'
    BY NextNumbers
  <2>2. Passes(a, a)'
    BY <2>1, PassesNone
  <2>3. Passes(Ckpt, prog.commitSeq)'
    BY <1>2, <2>1, <2>2 DEF Passes
  <2> QED
    BY <1>1, <2>3 DEF Consumed
<1>3. CASE Sub' = "Done" => extra'.partialTable = Nil
  BY <1>1, <1>3 DEF Consumed
<1> QED
  BY <1>2, <1>3

\* What is passed, whatever the list carries.
LEMMA PassesReaches ==
    ASSUME NEW R, NEW a, NEW c, Passes(a, c)'
    PROVE  ReachedBy(R, a, c)'
BY DEF Passes, ReachedBy

\* With no running txn, what was reached was passed.
LEMMA ReachesPasses ==
    ASSUME NEW R, R = <<>>, NEW a, NEW c, ReachedBy(R, a, c)
    PROVE  Passes(a, c)
<1>1. 1..Len(R) = {}
  OBVIOUS
<1> QED
  BY <1>1 DEF Passes, ReachedBy

\* A list reaches no further than it did, or not beyond the checkpoint.
LEMMA ReachedLess ==
    ASSUME Shape, Carries, NEW a \in 0..N, NEW c \in 0..N, NEW R, ReachedBy(R, a, c),
           NEW d \in Nat, d <= c \/ d <= a
    PROVE  ReachedBy(R, a, d)'
<1>1. a \in Nat /\ N \in Nat /\ a <= a
  BY ShapeFacts
<1>2. CASE d <= c
  BY <1>1, <1>2, ReachedKept
<1>3. CASE d <= a
  BY <1>1, <1>3, PassesNone, PassesReaches
<1> QED
  BY <1>2, <1>3

\* A part of what was passed was passed.
LEMMA PassesLess ==
    ASSUME Shape, Carries, NEW a \in 0..N, NEW c \in 0..N, Passes(a, c),
           NEW d \in Nat, d <= c \/ d <= a
    PROVE  Passes(a, d)'
<1>1. a \in Nat /\ N \in Nat /\ a <= a
  BY ShapeFacts
<1>2. CASE d <= c
  BY <1>1, <1>2, PassesKept
<1>3. CASE d <= a
  BY <1>1, <1>3, PassesNone
<1> QED
  BY <1>2, <1>3

\* The job stays done, at the same seq and with a context that has not moved on.
LEMMA StillDone ==
    ASSUME Shape, Shape', Carries, Consumed, Ckpt' = Ckpt, Sub = "Done", Sub' = "Done",
           prog'.commitSeq = prog.commitSeq, extra'.partialTable = extra.partialTable,
           pipe' # Nil => pipe # Nil /\ (pipe'.pos <= pipe.pos \/ pipe'.pos <= Ckpt),
           pc' = "handled" => pc = "handled" /\ extra' = extra
    PROVE  Consumed'
<1>1. PICK a \in 0..N, c \in 0..N : a = Ckpt /\ c = prog.commitSeq
  BY Numbers
<1>2. N \in Nat /\ a \in Nat /\ c \in Nat /\ a <= a /\ c <= c
  BY ShapeFacts
<1>3. Passes(a, c) => Passes(a, c)'
  BY <1>2, PassesKept
<1>4. prog'.commitSeq = c /\ Ckpt' = a
  BY <1>1
<1>5. Passes(a, c)' <=> Passes(Ckpt, prog.commitSeq)'
  BY <1>4 DEF Passes
<1>6. extra'.partialTable # Nil => Passes(Ckpt, prog.commitSeq)'
  BY <1>1, <1>3, <1>5 DEF Consumed
<1>7. pc' = "handled" => IsSilenced(prog.commitSeq)' \/ Passes(Ckpt, prog.commitSeq)'
  BY <1>1, <1>3, <1>5 DEF Consumed, IsSilenced
<1>8. ASSUME pipe' # Nil, extra'.partialTable = Nil
      PROVE  Passes(Ckpt, pipe.pos)'
  <2>1. pipe # Nil
    BY <1>8
  <2>2. PICK p \in 0..N, d \in Nat : p = pipe.pos /\ d = pipe'.pos
    BY <1>8, <2>1, Numbers, NextNumbers
  <2>3. Passes(a, p) /\ (d <= p \/ d <= a)
    BY <1>1, <1>8, <2>1, <2>2 DEF Consumed
  <2>4. Passes(a, d)'
    BY <2>3, PassesLess
  <2> QED
    BY <1>4, <2>2, <2>4 DEF Passes
<1>9. ~Live'
  BY DEF Live, LiveStates
<1> QED
  BY <1>6, <1>7, <1>8, <1>9 DEF Consumed

\* The pipeline goes on with the same running txns and a context that has not moved on.
LEMMA StillLive ==
    ASSUME Shape, Shape', Carries, Consumed, Ckpt' = Ckpt, Live, Live', Running' = Running,
           pipe' # Nil => pipe # Nil /\ (pipe'.pos <= pipe.pos \/ pipe'.pos <= Ckpt)
    PROVE  Consumed'
<1>1. Sub' # "Done" /\ pc' # "handled"
  BY DEF Shape, Control, Live, LiveStates
<1>2. ASSUME pipe' # Nil
      PROVE  ReachedBy(Running, Ckpt, pipe.pos)'
  <2>1. pipe # Nil
    BY <1>2
  <2>2. PICK a \in 0..N, p \in 0..N, d \in Nat : a = Ckpt /\ p = pipe.pos /\ d = pipe'.pos
    BY <1>2, <2>1, Numbers, NextNumbers
  <2>3. PICK R : R = Running
    OBVIOUS
  <2>4. ReachedBy(R, a, p) /\ (d <= p \/ d <= a)
    BY <1>2, <2>1, <2>2, <2>3 DEF Consumed
  <2>5. ReachedBy(R, a, d)'
    BY <2>4, ReachedLess
  <2>6. Running' = R /\ Ckpt' = a
    BY <2>2, <2>3
  <2> QED
    BY <2>2, <2>5, <2>6 DEF ReachedBy
<1> QED
  BY <1>1, <1>2 DEF Consumed
-----------------------------------------------------------------------------
\* The next binlog is passed when the target has it.
LEMMA PassesNext ==
    ASSUME NEW a \in Nat, NEW p \in Nat, NEW q \in Nat, q = p + 1, Passes(a, p)',
           log'[q].kind # "DUMMY", \A t \in log'[q].tables : Covered(t, q)'
    PROVE  Passes(a, q)'
<1>1. SUFFICES ASSUME NEW s \in a + 1..q
               PROVE  log'[s].kind # "DUMMY" /\ \A t \in log'[s].tables : Covered(t, s)'
  BY DEF Passes
<1>2. CASE s = q
  BY <1>2
<1>3. CASE s # q
  <2>1. s \in a + 1..p
    BY <1>3
  <2> QED
    BY <2>1 DEF Passes
<1> QED
  BY <1>2, <1>3

\* A context that is made, or kept, starts where everything is passed.
LEMMA InitializedPasses ==
    ASSUME Shape, Shape', Carries, Consumed, Sub = "Done", extra.partialTable = Nil,
           IsDone(prog), pipe' = InitializedContext, Ckpt' = Ckpt
    PROVE  pipe' # Nil /\ Passes(Ckpt, pipe.pos)'
<1>1. PICK a \in 0..N : a = Ckpt
  BY Numbers
<1>2. PICK c : c = InitializedContext
  OBVIOUS
<1>3. /\ c # Nil
      /\ \/ pipe = Nil /\ c = NewContext(prog.commitSeq)
         \/ pipe # Nil /\ c.pos = pipe.pos
  BY <1>2, InitializedTyped
<1>4. pipe' = c
  BY <1>2
<1>5. PICK d \in Nat : d = pipe'.pos
  BY <1>3, <1>4, NextNumbers
<1>6. a \in Nat /\ N \in Nat /\ a <= a
  BY ShapeFacts
<1>7. Passes(a, d)'
  <2>1. CASE pipe = Nil
    <3>1. d = a
      BY <1>1, <1>3, <1>4, <1>5, <2>1 DEF NewContext, IsDone, Ckpt
    <3> QED
      BY <1>6, <3>1, PassesNone
  <2>2. CASE pipe # Nil
    <3>1. PICK p \in 0..N : p = pipe.pos
      BY <2>2, Numbers
    <3>2. d = p
      BY <1>3, <1>4, <1>5, <2>2, <3>1
    <3>3. Passes(a, p)
      BY <1>1, <2>2, <3>1 DEF Consumed
    <3> QED
      BY <1>6, <3>2, <3>3, PassesLess
  <2> QED
    BY <2>1, <2>2
<1>8. Ckpt' = a
  BY <1>1
<1> QED
  BY <1>3, <1>4, <1>5, <1>7, <1>8 DEF Passes

\* A pipeline starts with nothing consumed that the target does not have.
LEMMA StartConsumed ==
    ASSUME Shape, Shape', Carries, Consumed, StartPipeline
    PROVE  Consumed'
<1>1. /\ Sub = "Done" /\ extra.partialTable = Nil /\ IsDone(prog) /\ pipe' = InitializedContext
      /\ Ckpt' = Ckpt /\ Sub' = "LaunchTransaction" /\ pc' = "loop"
  BY StartPipelineEffect DEF Same, Keeps, Ckpt
<1>2. Passes(Ckpt, pipe.pos)'
  BY <1>1, InitializedPasses
<1>3. PICK a, p, R : a = Ckpt' /\ p = pipe'.pos /\ R = Running'
  OBVIOUS
<1>4. Passes(a, p)'
  BY <1>2, <1>3 DEF Passes
<1>5. ReachedBy(R, a, p)'
  BY <1>4, PassesReaches
<1>6. ReachedBy(Running, Ckpt, pipe.pos)'
  BY <1>3, <1>5 DEF ReachedBy
<1> QED
  BY <1>1, <1>6 DEF Consumed

\* A handler starts at the first binlog that is not consumed.
LEMMA HandleBinlogConsumed ==
    ASSUME Shape, Shape', Carries, Consumed, HandleBinlog
    PROVE  Consumed'
<1>1. /\ Sub = "Done" /\ extra.partialTable = Nil /\ IsDone(prog) /\ pipe' = InitializedContext
      /\ Ckpt' = Ckpt /\ Sub' = "Done" /\ extra' = extra
      /\ prog'.commitSeq = pipe'.pos + 1
      /\ pc' = IF IsSilenced(pipe'.pos + 1) THEN "handled" ELSE "handling"
  BY HandleBinlogEffect DEF Keeps, Ckpt
<1>2. Passes(Ckpt, pipe.pos)'
  BY <1>1, InitializedPasses
<1>3. ~Live'
  BY <1>1 DEF Live, LiveStates
<1>4. pc' = "handled" => IsSilenced(prog.commitSeq)'
  BY <1>1 DEF IsSilenced
<1> QED
  BY <1>1, <1>2, <1>3, <1>4 DEF Consumed

\* A binlog that is handled is at the target.
LEMMA HandledCovers ==
    ASSUME Shape, Shape', Positions, Carries, FiltersHold,
           HandleCommittedBinlog \/ ExecuteDDL \/ ExecuteDDLLosesReply,
           NEW q \in 1..N, q = prog.commitSeq
    PROVE  log[q].kind # "DUMMY" /\ \A t \in log[q].tables : Covered(t, q)'
<1>1. /\ pc = "handling"
      /\ \/ dest' = dest /\ IsAlreadyHandled
         \/ /\ Apply(prog.commitSeq, log[prog.commitSeq].tables)
            /\ log[prog.commitSeq].kind \in {"RENAME_COLUMN", "TRUNCATE_TABLE"}
  BY ExecuteEffect
<1>2. /\ log[q] \in Binlogs /\ log[q].tables \subseteq Tables
      /\ pipe # Nil /\ pipe.pos < pipe.next /\ q = pipe.pos + 1 /\ Sub = "Done"
  BY <1>1, HandlingFacts
<1>3. CASE /\ Apply(prog.commitSeq, log[prog.commitSeq].tables)
           /\ log[prog.commitSeq].kind \in {"RENAME_COLUMN", "TRUNCATE_TABLE"}
  BY <1>2, <1>3, ApplyCovers
<1>4. CASE dest' = dest /\ IsBinlogStateUnknown /\ DetermineBinlogState
  BY <1>4 DEF DetermineBinlogState, Covered
<1>5. CASE dest' = dest /\ log[q].tables # {} /\ IsBinlogCommitted(q)
  <2>1. log[q].kind # "DUMMY"
    BY <1>2, <1>5 DEF Binlogs
  <2>2. SUFFICES ASSUME NEW t \in log[q].tables
                 PROVE  Covered(t, q)
    BY <1>5, <2>1 DEF Covered
  <2>3. PICK a \in 0..N, p \in 0..N, x \in 0..N, m \in [Tables -> 0..N] :
           a = Ckpt /\ p = pipe.pos /\ m = prog.tableCommitSeqMap /\ x = m[t]
    BY <1>2, Numbers
  <2>4. q <= x /\ Filtered(m)
    BY <1>5, <2>3 DEF IsBinlogCommitted, FiltersHold
  <2>5. a <= p /\ q = p + 1 /\ N \in Nat
    <3>1. pc # "idle" /\ pipe.pos \in 0..N /\ pipe.next \in 0..N /\ pipe.pos # pipe.next
      BY <1>1, <1>2, Numbers, ShapeFacts
    <3>2. Ckpt <= pipe.pos
      BY <1>2, <3>1 DEF Positions, Ahead, Snapshotting
    <3> QED
      BY <1>2, <2>3, <3>2, ShapeFacts
  <2>6. q \in a + 1..x
    BY <2>4, <2>5
  <2> QED
    BY <1>2, <2>3, <2>4, <2>6 DEF Filtered
<1> QED
  BY <1>1, <1>3, <1>4, <1>5 DEF IsAlreadyHandled

\* A binlog that was handled is at the target.
LEMMA HandledConsumed ==
    ASSUME Shape, Shape', Positions, Carries, FiltersHold, Consumed,
           HandleCommittedBinlog \/ ExecuteDDL \/ ExecuteDDLLosesReply
    PROVE  Consumed'
<1>1. /\ pc = "handling" /\ UNCHANGED <<srcVars, pipe, extra>> /\ Sub' = Sub
      /\ Ckpt' = Ckpt /\ prog'.commitSeq = prog.commitSeq
  BY ExecuteEffect DEF Same, Keeps, KeepsSync, Ckpt
<1>2. /\ pipe # Nil /\ extra.partialTable = Nil /\ prog.commitSeq = pipe.pos + 1 /\ Sub = "Done"
      /\ prog.commitSeq \in 1..N
  BY <1>1, HandlingFacts
<1>3. PICK a \in 0..N, p \in 0..N, q \in 1..N :
         a = Ckpt /\ p = pipe.pos /\ q = prog.commitSeq
  BY <1>2, Numbers
<1>4. a \in Nat /\ p \in Nat /\ q \in Nat /\ q = p + 1 /\ p <= p
  BY <1>2, <1>3, ShapeFacts
<1>5. Passes(a, p)
  BY <1>2, <1>3 DEF Consumed
<1>6. Passes(a, p)'
  BY <1>4, <1>5, PassesLess
<1>7. log[q].kind # "DUMMY" /\ \A t \in log[q].tables : Covered(t, q)'
  BY <1>3, HandledCovers
<1>8. log' = log
  BY <1>1 DEF srcVars
<1>9. Passes(a, q)'
  BY <1>4, <1>6, <1>7, <1>8, PassesNext
<1>10. Ckpt' = a /\ pipe'.pos = p /\ prog'.commitSeq = q
  BY <1>1, <1>3
<1>11. Passes(Ckpt, pipe.pos)' /\ Passes(Ckpt, prog.commitSeq)'
  BY <1>6, <1>9, <1>10 DEF Passes
<1>12. ~Live'
  BY <1>1, <1>2 DEF Live, LiveStates
<1> QED
  BY <1>1, <1>2, <1>11, <1>12 DEF Consumed


\* Nothing that the job says it consumed changes, and the context does not move on.
LEMMA SameConsumed ==
    ASSUME Shape, Shape', Carries, Consumed, prog' = prog,
           pipe' # Nil => pipe # Nil /\ (pipe'.pos <= pipe.pos \/ pipe'.pos <= Ckpt),
           extra'.partialTable = extra.partialTable,
           pc' = "handled" => pc = "handled" /\ extra' = extra
    PROVE  Consumed'
<1>1. Ckpt' = Ckpt /\ Sub' = Sub /\ Running' = Running
  BY DEF Ckpt, Sub, Running, Data
<1>2. CASE Sub = "Done"
  BY <1>1, <1>2, StillDone
<1>3. CASE Live
  BY <1>1, <1>3, StillLive DEF Live
<1>4. CASE Sub # "Done" /\ ~Live
  BY <1>1, <1>4, NotConsuming DEF Live
<1> QED
  BY <1>2, <1>3, <1>4

\* Leaving case Done leaves no context.
LEMMA LeaveDoneConsumed ==
    ASSUME Shape, Shape',
           StartPartialSnapshot \/ RecoverIncrementalSync \/ SkipByFullSync \/ SkipByPartialSync
    PROVE  Consumed'
<1>1. /\ pipe' = Nil
      /\ (\E s : AsksFor(prog, prog', s)) \/ RollsBack(prog, prog')
  BY LeaveDoneEffect
<1>2. Sub' = "Done" => prog'.commitSeq = Ckpt'
  BY <1>1 DEF AsksFor, RollsBack, Sub, Ckpt
<1> QED
  BY <1>1, <1>2, NoContextConsumed

\* A tick moves a stale context to the checkpoint only.
LEMMA EnterConsumed ==
    ASSUME Shape, Shape', Carries, Consumed,
           EnterSync \/ LeaveOnInterrupt \/ ConsumeInterruptSignals
    PROVE  Consumed'
<1>1. CASE EnterSync
  <2>1. CASE Sub' = "RollbackPipeline"
    BY <2>1, NotConsuming DEF Live, LiveStates
  <2>2. CASE Sub' # "RollbackPipeline"
    <3>1. /\ prog' = prog /\ extra'.partialTable = extra.partialTable /\ pc' = "loop"
          /\ pipe' # Nil =>
               /\ pipe # Nil
               /\ \/ pipe'.pos = pipe.pos
                  \/ pipe'.pos = Ckpt
                  \/ Ckpt > pipe.next /\ pipe'.pos = pipe.next
      BY <1>1, <2>2, EnterSyncEffect DEF Ckpt
    <3>2. pipe' # Nil => pipe'.pos <= pipe.pos \/ pipe'.pos <= Ckpt
      <4>1. SUFFICES ASSUME pipe' # Nil
                     PROVE  pipe'.pos <= pipe.pos \/ pipe'.pos <= Ckpt
        OBVIOUS
      <4>2. pipe.pos \in Nat /\ pipe.next \in Nat /\ Ckpt \in Nat
        BY <3>1, <4>1, Numbers, ShapeFacts
      <4> QED
        BY <3>1, <4>1, <4>2
    <3> QED
      BY <3>1, <3>2, SameConsumed
  <2> QED
    BY <2>1, <2>2
<1>2. CASE LeaveOnInterrupt \/ ConsumeInterruptSignals
  <2>1. prog' = prog /\ pipe' = pipe /\ extra' = extra /\ (pc' = pc \/ pc' = "idle")
    BY <1>2 DEF LeaveOnInterrupt, ConsumeInterruptSignals, Goto
  <2>2. pipe # Nil => pipe.pos <= pipe.pos
    <3>1. pipe # Nil => pipe.pos \in Nat
      BY Numbers, ShapeFacts
    <3> QED
      BY <3>1
  <2> QED
    BY <2>1, <2>2, SameConsumed
<1> QED
  BY <1>1, <1>2

\* A binlog that is done is the checkpoint.
LEMMA DoneNext ==
    ASSUME Shape, Shape', Sub' = "Done", pc' # "handled", prog'.commitSeq = Ckpt',
           pipe' # Nil => pipe'.pos <= Ckpt'
    PROVE  Consumed'
<1>1. PICK a \in Nat : a = Ckpt'
  BY NextNumbers
<1>2. Passes(a, a)'
  BY PassesNone
<1>3. Passes(Ckpt, prog.commitSeq)'
  BY <1>1, <1>2 DEF Passes
<1>4. ASSUME pipe' # Nil
      PROVE  Passes(Ckpt, pipe.pos)'
  <2>1. PICK d \in Nat : d = pipe'.pos
    BY <1>4, NextNumbers
  <2>2. Passes(a, d)'
    BY <1>1, <1>4, <2>1, PassesNone
  <2> QED
    BY <1>1, <2>1, <2>2 DEF Passes
<1>5. ~Live'
  BY DEF Live, LiveStates
<1> QED
  BY <1>3, <1>4, <1>5 DEF Consumed

\* The checkpoint and the context move past a handled binlog together.
LEMMA FinishBinlogConsumed ==
    ASSUME Shape, Shape', FinishBinlog \/ FinishBinlogLockFails
    PROVE  Consumed'
<1>1. /\ pc = "handled" /\ Sub' = "Done" /\ prog'.commitSeq = prog.commitSeq
      /\ Ckpt' = prog.commitSeq /\ pc' # "handled"
      /\ pipe'.pos \in {pipe.pos, pipe.pos + 1}
  BY FinishBinlogEffect DEF Ckpt
<1>2. pipe # Nil /\ prog.commitSeq = pipe.pos + 1 /\ pipe.pos \in Nat
  BY <1>1, HandlingFacts, Numbers, ShapeFacts
<1>3. pipe'.pos <= Ckpt'
  BY <1>1, <1>2
<1> QED
  BY <1>1, <1>3, DoneNext

\* A handler that fails consumes nothing.
LEMMA HandleFailsConsumed ==
    ASSUME Shape, Shape', Carries, Consumed, HandleBinlogFails \/ HandleBySnapshot
    PROVE  Consumed'
<1>1. CASE HandleBinlogFails
  <2>1. /\ pipe' = pipe /\ extra' = extra /\ pc' = "idle" /\ pc = "handling"
        /\ prog' = prog \/ AsksFor(prog, prog', "DBFullSync")
    BY <1>1, HandleBinlogFailsEffect
  <2>2. pipe # Nil => pipe.pos <= pipe.pos
    <3>1. pipe # Nil => pipe.pos \in Nat
      BY Numbers, ShapeFacts
    <3> QED
      BY <3>1
  <2>3. CASE prog' = prog
    BY <2>1, <2>2, <2>3, SameConsumed
  <2>4. CASE AsksFor(prog, prog', "DBFullSync")
    BY <2>4, NotConsuming DEF AsksFor, Sub, Live, LiveStates
  <2> QED
    BY <2>1, <2>3, <2>4
<1>2. CASE HandleBySnapshot
  <2>1. \E s : AsksFor(prog, prog', s)
    BY <1>2, HandleBySnapshotEffect
  <2> QED
    BY <2>1, NotConsuming DEF AsksFor, Sub, Live, LiveStates
<1> QED
  BY <1>1, <1>2

\* A restored snapshot is where the log goes on.
LEMMA SnapshotConsumed ==
    ASSUME Shape, Shape', Marks, Fresh, FinishFullSync \/ FinishPartialSync
    PROVE  Consumed'
<1>1. /\ Sub' = "Done" /\ pc' = "idle" /\ pipe' = pipe /\ Snapshotting
      /\ \/ prog'.commitSeq \in SnapshotSeqs
         \/ prog.syncState = "DBPartialSync"
  BY SnapshotEffect
<1>2. prog'.commitSeq = Ckpt'
  BY SnapshotMarks
<1>3. ASSUME pipe' # Nil
      PROVE  pipe'.pos <= Ckpt'
  <2>1. pipe # Nil /\ prog.syncState = "DBFullSync" /\ pipe.next <= asked
    BY <1>1, <1>3 DEF Fresh
  <2>2. prog'.commitSeq \in asked..N
    BY <1>1, <2>1 DEF SnapshotSeqs, N
  <2>3. pipe.pos \in 0..N /\ pipe.next \in 0..N /\ pipe.pos <= pipe.next /\ asked \in 0..N
    BY <2>1, Numbers
  <2>4. PICK p \in 0..N, x \in 0..N, k \in 0..N, c \in asked..N :
           p = pipe.pos /\ x = pipe.next /\ k = asked
           /\ c = prog'.commitSeq
    BY <2>2, <2>3
  <2>5. p <= x /\ x <= k /\ c \in k..N /\ N \in Nat
    BY <2>1, <2>2, <2>3, <2>4, ShapeFacts
  <2>6. p <= c
    BY <2>5
  <2> QED
    BY <1>1, <1>2, <2>4, <2>6
<1> QED
  BY <1>1, <1>2, <1>3, DoneNext

\* A rollback ends at a seq that the target has reached.
LEMMA RollbackConsumed ==
    ASSUME Shape, Shape', Ordered, Carries, CommitsPassed,
           StartRollback \/ RollbackTxn \/ RollbackTxnFails \/ FinishRollback
    PROVE  Consumed'
<1>1. CASE StartRollback \/ RollbackTxn \/ RollbackTxnFails
  <2>1. Sub' = "RollbackPipeline"
    <3>1. CASE StartRollback
      BY <3>1, StartRollbackEffect
    <3>2. CASE RollbackTxn
      BY <3>2, RollbackTxnEffect, RollingFacts
    <3>3. CASE RollbackTxnFails
      BY <3>3, RollingFacts DEF RollbackTxnFails, Sub
    <3> QED
      BY <1>1, <3>1, <3>2, <3>3
  <2> QED
    BY <2>1, NotConsuming DEF Live, LiveStates
<1>2. CASE FinishRollback
  <2>1. /\ pc' = "loop" /\ Sub = "RollbackPipeline" /\ pipe' = pipe /\ extra' = extra
        /\ Ckpt' = Ckpt /\ prog'.commitSeq = prog.commitSeq /\ Sub' = "Done"
    BY <1>2, FinishRollbackEffect DEF Same, Keeps, KeepsSync, Ckpt
  <2>2. pipe' # Nil => extra'.partialTable # Nil
    BY <2>1 DEF Ordered
  <2>3. PICK a \in 0..N, c \in 0..N : a = Ckpt /\ c = prog.commitSeq
    BY Numbers
  <2>4. Passes(a, c)
    BY <2>1, <2>3 DEF CommitsPassed
  <2>5. c \in Nat /\ c <= c
    BY ShapeFacts
  <2>6. Passes(a, c)'
    BY <2>4, <2>5, PassesLess
  <2>7. Ckpt' = a /\ prog'.commitSeq = c
    BY <2>1, <2>3
  <2>8. Passes(Ckpt, prog.commitSeq)'
    BY <2>6, <2>7 DEF Passes
  <2>9. ~Live'
    BY <2>1 DEF Live, LiveStates
  <2> QED
    BY <2>1, <2>2, <2>8, <2>9 DEF Consumed
<1> QED
  BY <1>1, <1>2
-----------------------------------------------------------------------------
\* A table that the filter leaves out has the binlog.
LEMMA FilteredCovers ==
    ASSUME Shape, FiltersHold, NEW s \in 1..N, Ckpt < s, NEW t \in log[s].tables,
           s <= prog.tableCommitSeqMap[t]
    PROVE  Covered(t, s)
<1>1. t \in Tables
  BY LogFacts
<1>2. PICK a \in 0..N, x \in 0..N, m \in [Tables -> 0..N] :
         a = Ckpt /\ m = prog.tableCommitSeqMap /\ x = m[t]
  BY <1>1, Numbers
<1>3. s \in a + 1..x /\ Filtered(m)
  BY <1>2, ShapeFacts DEF FiltersHold
<1> QED
  BY <1>1, <1>2, <1>3 DEF Filtered

\* The next binlog is reached when a txn on the list carries what the target does not have.
LEMMA ReachesNext ==
    ASSUME NEW a \in Nat, NEW p \in Nat, NEW q \in Nat, q = p + 1, NEW S, ReachedBy(S, a, p)',
           log'[q].kind # "DUMMY",
           \A t \in log'[q].tables :
              Covered(t, q)' \/ \E k \in 1..Len(S) : S[k].commitSeq = q /\ t \in S[k].tables
    PROVE  ReachedBy(S, a, q)'
<1>1. SUFFICES ASSUME NEW s \in a + 1..q
               PROVE  /\ log'[s].kind # "DUMMY"
                      /\ \A t \in log'[s].tables :
                            \/ Covered(t, s)'
                            \/ \E k \in 1..Len(S) : S[k].commitSeq = s /\ t \in S[k].tables
  BY DEF ReachedBy
<1>2. CASE s = q
  BY <1>2
<1>3. CASE s # q
  <2>1. s \in a + 1..p
    BY <1>3
  <2> QED
    BY <2>1 DEF ReachedBy
<1> QED
  BY <1>2, <1>3

\* What the position of a pipeline that launches says.
LEMMA NextToLaunch ==
    ASSUME Shape, Positions, Live, pc # "idle", HasUpsertBinlog(pipe)
    PROVE  /\ pipe # Nil /\ NextSeq \in 1..N /\ Ckpt < NextSeq
           /\ log[NextSeq].kind = "UPSERT" /\ NextSeq = pipe.pos + 1
<1>1. pipe # Nil /\ Sub # "Done" /\ ~Snapshotting
  BY LiveFacts DEF Live, LiveStates
<1>2. /\ pipe.pos \in 0..N /\ pipe.next \in 0..N /\ Ckpt \in 0..N /\ N \in Nat
      /\ pipe.pos < pipe.next /\ log[pipe.pos + 1].kind = "UPSERT"
  BY <1>1, Numbers DEF HasUpsertBinlog, HasBinlogs
<1>3. Ckpt <= pipe.pos
  BY <1>1, <1>2 DEF Positions, Ahead
<1> QED
  BY <1>1, <1>2, <1>3 DEF NextSeq

\* An upsert without a related table is at the target: the filter says so.
LEMMA SkipUpsertConsumed ==
    ASSUME Shape, Shape', Positions, Carries, FiltersHold, Consumed, SkipUpsert
    PROVE  Consumed'
<1>1. /\ Live /\ pc # "idle" /\ pc' = "loop" /\ log' = log /\ HasUpsertBinlog(pipe)
      /\ Same(prog, prog') /\ Sub' = "CommitPipeline" /\ Running' = Running
      /\ RelatedTables(NextSeq) = {} /\ pipe'.pos = pipe.pos + 1
  <2>1. HasUpsertBinlog(pipe) /\ RelatedTables(NextSeq) = {} /\ pipe' = [pipe EXCEPT !.pos = @ + 1]
    BY DEF SkipUpsert
  <2>2. MayLaunch /\ Live /\ pc # "idle"
    BY SkippedEffect
  <2>3. pipe \in ContextsAt(N, M)
    BY <2>2, LiveFacts
  <2>4. pipe'.pos = pipe.pos + 1
    BY <2>1, <2>3 DEF ContextsAt
  <2> QED
    BY <2>1, <2>2, <2>4, SkippedEffect DEF srcVars, Running
<1>2. /\ pipe # Nil /\ NextSeq \in 1..N /\ Ckpt < NextSeq /\ log[NextSeq].kind = "UPSERT"
      /\ NextSeq = pipe.pos + 1
  BY <1>1, NextToLaunch
<1>3. PICK a \in 0..N, p \in 0..N, q \in 1..N : a = Ckpt /\ p = pipe.pos /\ q = NextSeq
  BY <1>2, Numbers
<1>4. a \in Nat /\ p \in Nat /\ q \in Nat /\ q = p + 1 /\ p <= p
  BY <1>2, <1>3, ShapeFacts
<1>5. PICK R : R = Running
  OBVIOUS
<1>6. ReachedBy(R, a, p)
  BY <1>1, <1>2, <1>3, <1>5 DEF Consumed
<1>7. ReachedBy(R, a, p)'
  BY <1>4, <1>6, ReachedLess
<1>8. \A t \in log'[q].tables : Covered(t, q)'
  <2>1. SUFFICES ASSUME NEW t \in log[q].tables
                 PROVE  Covered(t, q)'
    BY <1>1
  <2>2. t \in Tables
    BY LogFacts
  <2>3. t \notin RelatedTables(q)
    BY <1>1, <1>3
  <2>4. PICK x \in 0..N : x = prog.tableCommitSeqMap[t]
    BY <2>2, Numbers
  <2>5. q <= x
    BY <1>4, <2>3, <2>4 DEF RelatedTables
  <2>6. Covered(t, q)
    BY <1>2, <1>3, <2>4, <2>5, FilteredCovers
  <2> QED
    BY <2>2, <2>6 DEF Carries
<1>9. log'[q].kind # "DUMMY"
  BY <1>1, <1>2, <1>3
<1>10. ReachedBy(R, a, q)'
  BY <1>4, <1>7, <1>8, <1>9, ReachesNext
<1>11. Ckpt' = a /\ pipe'.pos = q /\ Running' = R
  BY <1>1, <1>2, <1>3, <1>5 DEF Same, Keeps, Ckpt
<1>12. ReachedBy(Running, Ckpt, pipe.pos)'
  BY <1>10, <1>11 DEF ReachedBy
<1> QED
  BY <1>1, <1>12 DEF Consumed

\* An upsert that is launched is at the target but for the tables of its txn.
LEMMA LaunchConsumed ==
    ASSUME Shape, Shape', Positions, Carries, FiltersHold, Consumed,
           LaunchIngestJob \/ LaunchTriggersPartialSnapshot
    PROVE  Consumed'
<1>1. PICK ctx \in TxnsAt(N, M) :
         /\ pc = "begun" /\ pc' = "loop" /\ Sub = "LaunchTransaction"
         /\ UNCHANGED srcVars
         /\ ctx.commitSeq = pipe.pos + 1 /\ ctx.tables = RelatedTables(pipe.pos + 1)
         /\ Same(prog, prog') /\ Sub' = "CommitPipeline"
         /\ Data'.running = Append(Running, ctx) /\ pipe'.pos = pipe.pos + 1
  BY LaunchEffect
<1>2. Live /\ pc # "idle" /\ HasUpsertBinlog(pipe) /\ log' = log
  BY <1>1 DEF Shape, Control, Live, LiveStates, srcVars
<1>3. /\ pipe # Nil /\ NextSeq \in 1..N /\ Ckpt < NextSeq /\ log[NextSeq].kind = "UPSERT"
      /\ NextSeq = pipe.pos + 1
  BY <1>2, NextToLaunch
<1>4. PICK a \in 0..N, p \in 0..N, q \in 1..N : a = Ckpt /\ p = pipe.pos /\ q = NextSeq
  BY <1>3, Numbers
<1>5. a \in Nat /\ p \in Nat /\ q \in Nat /\ q = p + 1 /\ p <= p /\ a <= a
  BY <1>3, <1>4, ShapeFacts
<1>6. PICK R \in Seq(TxnsAt(N, M)) : R = Running
  BY <1>2, LiveFacts
<1>7. PICK S : S = Append(R, ctx)
  OBVIOUS
<1>8. /\ Len(R) \in Nat /\ Len(S) = Len(R) + 1 /\ S[Len(R) + 1] = ctx
      /\ \A k \in 1..Len(R) : S[k] = R[k]
  BY <1>7
<1>9. \A k \in 1..Len(R) : R[k].commitSeq > a => \E j \in 1..Len(S) : S[j] = R[k]
  <2>1. \A k \in 1..Len(R) : k \in 1..Len(S) /\ S[k] = R[k]
    BY <1>8
  <2> QED
    BY <2>1
<1>10. ReachedBy(R, a, p)
  BY <1>2, <1>3, <1>4, <1>6 DEF Consumed
<1>11. ReachedBy(S, a, p)'
  BY <1>5, <1>9, <1>10, ReachedKept
<1>12. ASSUME NEW t \in log'[q].tables
       PROVE  Covered(t, q)' \/ \E k \in 1..Len(S) : S[k].commitSeq = q /\ t \in S[k].tables
  <2>1. t \in log[q].tables /\ t \in Tables
    BY <1>2, LogFacts
  <2>2. CASE t \in ctx.tables
    <3>1. ctx.commitSeq = q /\ Len(R) + 1 \in 1..Len(S)
      BY <1>1, <1>3, <1>4, <1>8
    <3> QED
      BY <1>8, <2>2, <3>1
  <2>3. CASE t \notin ctx.tables
    <3>1. t \notin RelatedTables(q)
      BY <1>1, <1>3, <1>4, <2>3
    <3>2. PICK x \in 0..N : x = prog.tableCommitSeqMap[t]
      BY <2>1, Numbers
    <3>3. q <= x
      BY <1>5, <2>1, <3>1, <3>2 DEF RelatedTables
    <3>4. Covered(t, q)
      BY <1>3, <1>4, <2>1, <3>2, <3>3, FilteredCovers
    <3> QED
      BY <2>1, <3>4 DEF Carries
  <2> QED
    BY <2>2, <2>3
<1>13. log'[q].kind # "DUMMY"
  BY <1>2, <1>3, <1>4
<1>14. ReachedBy(S, a, q)'
  BY <1>5, <1>11, <1>12, <1>13, ReachesNext
<1>15. Ckpt' = a /\ pipe'.pos = q /\ Running' = S
  BY <1>1, <1>3, <1>4, <1>6, <1>7 DEF Same, Keeps, Ckpt, Running
<1>16. ReachedBy(Running, Ckpt, pipe.pos)'
  BY <1>14, <1>15 DEF ReachedBy
<1> QED
  BY <1>1, <1>16 DEF Consumed
-----------------------------------------------------------------------------
\* The steps of the pipeline that launch nothing and drop nothing.
LEMMA OnlySubConsumed ==
    ASSUME Shape, Shape', Marks, Carries, Consumed,
           NoMoreBinlogs \/ NothingToLaunch \/ LaunchMore \/ YieldPipeline
    PROVE  Consumed'
<1>1. /\ Live /\ Live' /\ Ckpt' = Ckpt /\ Running' = Running /\ pipe' = pipe
  <2>1. CASE NoMoreBinlogs
    <3>1. Sub = "LaunchTransaction" /\ pipe' = pipe
      BY <2>1 DEF NoMoreBinlogs, NeedsBinlogs, AtLoop, Sub
    <3> QED
      BY <2>1, <3>1, NoMoreBinlogsEffect DEF Same, Keeps, Ckpt, Running, Live, LiveStates
  <2>2. CASE NothingToLaunch
    BY <2>2, SkippedEffect DEF NothingToLaunch, Same, Keeps, Ckpt, Running, Live, LiveStates
  <2>3. CASE LaunchMore
    BY <2>3, LaunchMoreEffect DEF Same, Keeps, Ckpt, Running, Live, LiveStates
  <2>4. CASE YieldPipeline
    <3>1. Live /\ Live' /\ Running' = Running /\ pipe' = pipe /\ Ckpt' = prog.commitSeq
      BY <2>4, YieldPipelineEffect DEF Ckpt, Running, Live, LiveStates
    <3> QED
      BY <3>1 DEF Marks
  <2> QED
    BY <2>1, <2>2, <2>3, <2>4
<1>2. pipe # Nil => pipe.pos <= pipe.pos
  <2>1. pipe # Nil => pipe.pos \in Nat
    BY Numbers, ShapeFacts
  <2> QED
    BY <2>1
<1> QED
  BY <1>1, <1>2, StillLive

\* A fetch consumes nothing: what the source has collected is before the checkpoint.
LEMMA FetchConsumed ==
    ASSUME Shape, Shape', Marks, Carries, Consumed,
           \/ GetNextBinlogs \/ GetNextBinlogsFails \/ PanicOnStaleContext \/ BeginTxn
           \/ CommitTxn \/ CommitTxnFails
    PROVE  Consumed'
<1>1. pipe # Nil => pipe.pos <= pipe.pos
  <2>1. pipe # Nil => pipe.pos \in Nat
    BY Numbers, ShapeFacts
  <2> QED
    BY <2>1
<1>2. CASE GetNextBinlogs
  <2>1. /\ pc' = "fetched" /\ prog' = prog /\ extra' = extra /\ pipe # Nil
        /\ pipe.pos = pipe.next /\ pipe'.pos \in {pipe.next, gc}
    BY <1>2, FetchEffect
  <2>2. gc <= Ckpt
    <3>1. PICK g \in 0..N, l \in 0..N, a \in 0..N : g = gc /\ l = locked /\ a = Ckpt
      BY Numbers
    <3>2. g <= l /\ l <= a /\ N \in Nat
      BY <3>1, ShapeFacts DEF Marks
    <3> QED
      BY <3>1, <3>2
  <2>3. pipe'.pos <= pipe.pos \/ pipe'.pos <= Ckpt
    BY <1>1, <2>1, <2>2
  <2> QED
    BY <2>1, <2>3, SameConsumed
<1>3. CASE GetNextBinlogsFails \/ PanicOnStaleContext \/ BeginTxn \/ CommitTxn
  <2>1. /\ prog' = prog /\ extra' = extra /\ pipe' = pipe
        /\ pc' \in {"idle", "dead", "begun", "committed"}
    BY <1>3 DEF GetNextBinlogsFails, PanicOnStaleContext, BeginTxn, CommitTxn, Goto
  <2> QED
    BY <1>1, <2>1, SameConsumed
<1>4. CASE CommitTxnFails
  BY <1>4, CommitTxnFailsEffect, SameConsumed
<1> QED
  BY <1>2, <1>3, <1>4

\* A pipeline that is reset forgets what it has consumed.
LEMMA ResetConsumed ==
    ASSUME Shape, Shape', Ordered, Carries, Consumed,
           BeginTxnFails \/ LaunchIngestJobFails \/ TakeResult
    PROVE  Consumed'
<1>1. CASE BeginTxnFails
  <2>1. /\ pipe' = Nil /\ Live
        /\ prog' = prog \/ AsksFor(prog, prog', "DBFullSync") \/ RollsBack(prog, prog')
    BY <1>1, BeginTxnFailsEffect
  <2>2. Sub' = "Done" => prog'.commitSeq = Ckpt'
    BY <2>1 DEF AsksFor, RollsBack, Sub, Ckpt, Live, LiveStates
  <2> QED
    BY <2>1, <2>2, NoContextConsumed
<1>2. CASE LaunchIngestJobFails
  <2>1. /\ pipe' = Nil
        /\ Sub' = "LaunchTransaction" \/ AsksFor(prog, prog', "DBFullSync")
    BY <1>2, LaunchFailsEffect
  <2>2. Sub' # "Done"
    BY <2>1 DEF AsksFor, Sub
  <2> QED
    BY <2>1, <2>2, NotConsuming
<1>3. CASE TakeResult
  <2>1. /\ Live /\ pipe # Nil
        /\ \/ Sub' = "RollbackPipeline"
           \/ /\ Sub' = "CommitPipelineTransaction" /\ Same(prog, prog')
              /\ Running' = Running /\ pipe'.pos = pipe.pos
           \/ pipe' = Nil /\ prog' = prog
           \/ pipe' = Nil /\ AsksFor(prog, prog', "DBFullSync")
    BY <1>3, TakeResultEffect DEF Running
  <2>2. CASE Sub' = "RollbackPipeline"
    BY <2>2, NotConsuming DEF Live, LiveStates
  <2>3. CASE /\ Sub' = "CommitPipelineTransaction" /\ Same(prog, prog')
             /\ Running' = Running /\ pipe'.pos = pipe.pos
    <3>1. Live' /\ Ckpt' = Ckpt
      BY <2>3 DEF Live, LiveStates, Same, Keeps, Ckpt
    <3>2. pipe.pos <= pipe.pos
      BY <2>1, Numbers, ShapeFacts
    <3> QED
      BY <2>1, <2>3, <3>1, <3>2, StillLive
  <2>4. CASE pipe' = Nil /\ (prog' = prog \/ AsksFor(prog, prog', "DBFullSync"))
    <3>1. Sub' # "Done"
      BY <2>1, <2>4 DEF AsksFor, Sub, Live, LiveStates
    <3> QED
      BY <2>4, <3>1, NotConsuming
  <2> QED
    BY <2>1, <2>2, <2>3, <2>4
<1> QED
  BY <1>1, <1>2, <1>3

\* A pipeline ends with no running txn: all it has consumed is at the target.
LEMMA FinishPipelineConsumed ==
    ASSUME Shape, Shape', Marks, Carries, Consumed, FinishPipeline
    PROVE  Consumed'
<1>1. /\ pc' = "loop" /\ Live /\ Running = <<>> /\ pipe' = pipe /\ pipe # Nil
      /\ Ckpt' = Ckpt /\ prog'.commitSeq = prog.commitSeq /\ Sub' = "Done"
  <2>1. pc = "loop" /\ Live
    BY FinishPipelineEffect DEF Live, LiveStates
  <2> QED
    BY <2>1, FinishPipelineEffect, LiveFacts DEF Same, Keeps, KeepsSync, Ckpt
<1>2. PICK a \in 0..N, p \in 0..N : a = Ckpt /\ p = pipe.pos
  BY <1>1, Numbers
<1>3. PICK R : R = Running
  OBVIOUS
<1>4. a \in Nat /\ p \in Nat /\ p <= p
  BY ShapeFacts
<1>5. ReachedBy(R, a, p)
  BY <1>1, <1>2, <1>3 DEF Consumed
<1>6. Passes(a, p)
  BY <1>1, <1>3, <1>5, ReachesPasses
<1>7. Passes(a, p)' /\ Passes(a, a)'
  BY <1>4, <1>6, PassesLess, PassesNone
<1>8. Ckpt' = a /\ pipe'.pos = p /\ prog'.commitSeq = a
  BY <1>1, <1>2 DEF Marks
<1>9. Passes(Ckpt, pipe.pos)' /\ Passes(Ckpt, prog.commitSeq)'
  BY <1>7, <1>8 DEF Passes
<1>10. ~Live'
  BY <1>1 DEF Live, LiveStates
<1> QED
  BY <1>1, <1>9, <1>10 DEF Consumed

\* The checkpoint moves to the committed txn, whose binlog is at the target.
LEMMA FinishCommitConsumed ==
    ASSUME Shape, Shape', Ordered, Positions, Carries, Consumed,
           FinishCommit \/ FinishCommitLockFails
    PROVE  Consumed'
<1>1. /\ pc = "committed" /\ Live /\ pipe' = pipe /\ Sub' = "CommitPipeline"
      /\ Running' = Tail(Running) /\ pc' \in {"loop", "idle"}
  BY FinishCommitEffect DEF Live, LiveStates
<1>2. /\ pipe # Nil /\ Running # <<>> /\ Commitable = Head(Running)
      /\ Ckpt < Ckpt' /\ Ckpt' = Commitable.commitSeq
  BY CommitMarks DEF Positions
<1>3. PICK a \in 0..N, p \in 0..N : a = Ckpt /\ p = pipe.pos
  BY <1>2, Numbers
<1>4. PICK R \in Seq(TxnsAt(N, M)) : R = Running
  BY <1>1, LiveFacts
<1>5. PICK b \in Nat : b = Ckpt'
  BY NextNumbers
<1>6. PICK S : S = Tail(R)
  OBVIOUS
<1>7. a \in Nat /\ p \in Nat /\ a <= b /\ p <= p
  BY <1>2, <1>3, <1>5, ShapeFacts
<1>8. ReachedBy(R, a, p)
  BY <1>1, <1>2, <1>3, <1>4 DEF Consumed
<1>9. R # <<>> /\ R[1].commitSeq = b
  BY <1>2, <1>4, <1>5
<1>10. \A k \in 1..Len(R) : R[k].commitSeq > b => \E j \in 1..Len(S) : S[j] = R[k]
  <2>1. SUFFICES ASSUME NEW k \in 1..Len(R), R[k].commitSeq > b
                 PROVE  \E j \in 1..Len(S) : S[j] = R[k]
    OBVIOUS
  <2>2. k # 1
    BY <1>9, <2>1
  <2>3. k - 1 \in 1..Len(S) /\ S[k - 1] = R[k]
    BY <1>6, <1>9, <2>2
  <2> QED
    BY <2>3
<1>11. ReachedBy(S, b, p)'
  BY <1>7, <1>8, <1>10, ReachedKept
<1>12. Ckpt' = b /\ pipe'.pos = p /\ Running' = S
  BY <1>1, <1>3, <1>4, <1>5, <1>6
<1>13. ReachedBy(Running, Ckpt, pipe.pos)'
  BY <1>11, <1>12 DEF ReachedBy
<1> QED
  BY <1>1, <1>13 DEF Consumed

\* What is outside the job takes nothing from what was consumed.
LEMMA OutsideConsumed ==
    ASSUME Shape, Shape', Carries, Consumed, Environment \/ WorkerStep \/ UNCHANGED vars
    PROVE  Consumed'
<1>1. pipe # Nil => pipe.pos <= pipe.pos
  <2>1. pipe # Nil => pipe.pos \in Nat
    BY Numbers, ShapeFacts
  <2> QED
    BY <2>1
<1>2. CASE Crash
  <2>1. pipe' = Nil /\ extra'.partialTable = Nil
    BY <1>2 DEF Crash, NoExtra
  <2> QED
    BY <2>1, NoContextConsumed
<1>3. CASE SkipBinlog
  <2>1. prog' = prog /\ pipe' = pipe /\ pc' = "idle" /\ extra'.partialTable = extra.partialTable
    BY <1>3, EnvironmentEffect DEF SkipBinlog
  <2> QED
    BY <1>1, <2>1, SameConsumed
<1>4. CASE SourceWrites \/ SourceCollects \/ TargetAborts \/ Interrupt
  <2>1. prog' = prog /\ pipe' = pipe /\ pc' = pc /\ extra' = extra
    BY <1>4, EnvironmentEffect DEF SourceWrites, SourceCollects, TargetAborts, Interrupt
  <2> QED
    BY <1>1, <2>1, SameConsumed
<1>5. CASE WorkerStep
  <2>1. prog' = prog /\ pipe # Nil /\ pipe'.pos = pipe.pos /\ pc' = pc /\ extra' = extra
    BY <1>5, WorkerTyped
  <2> QED
    BY <1>1, <2>1, SameConsumed
<1>6. CASE UNCHANGED vars
  <2>1. prog' = prog /\ pipe' = pipe /\ pc' = pc /\ extra' = extra
    BY <1>6 DEF vars
  <2> QED
    BY <1>1, <2>1, SameConsumed
<1> QED
  BY <1>2, <1>3, <1>4, <1>5, <1>6 DEF Environment

\* No step consumes a binlog that is neither at the target nor in a running txn.
LEMMA NextConsumed ==
    ASSUME Shape, Shape', Ordered, Positions, Carries, FiltersHold, CommitsPassed, Consumed,
           [Next]_vars
    PROVE  Consumed'
<1>1. Marks /\ Fresh
  BY DEF Positions
<1>2. CASE EnterSync \/ LeaveOnInterrupt \/ ConsumeInterruptSignals
  BY <1>2, EnterConsumed
<1>3. CASE StartPartialSnapshot \/ RecoverIncrementalSync \/ SkipByFullSync \/ SkipByPartialSync
  BY <1>3, LeaveDoneConsumed
<1>4. CASE StartPipeline
  BY <1>4, StartConsumed
<1>5. CASE HandleBinlog
  BY <1>5, HandleBinlogConsumed
<1>6. CASE HandleCommittedBinlog \/ ExecuteDDL \/ ExecuteDDLLosesReply
  BY <1>6, HandledConsumed
<1>7. CASE HandleBinlogFails \/ HandleBySnapshot
  BY <1>7, HandleFailsConsumed
<1>8. CASE FinishBinlog \/ FinishBinlogLockFails
  BY <1>8, FinishBinlogConsumed
<1>9. CASE NoMoreBinlogs \/ NothingToLaunch \/ LaunchMore \/ YieldPipeline
  BY <1>1, <1>9, OnlySubConsumed
<1>10. CASE \/ GetNextBinlogs \/ GetNextBinlogsFails \/ PanicOnStaleContext \/ BeginTxn
            \/ CommitTxn \/ CommitTxnFails
  BY <1>1, <1>10, FetchConsumed
<1>11. CASE SkipUpsert
  BY <1>11, SkipUpsertConsumed
<1>12. CASE LaunchIngestJob \/ LaunchTriggersPartialSnapshot
  BY <1>12, LaunchConsumed
<1>13. CASE BeginTxnFails \/ LaunchIngestJobFails \/ TakeResult
  BY <1>13, ResetConsumed
<1>14. CASE FinishPipeline
  BY <1>1, <1>14, FinishPipelineConsumed
<1>15. CASE FinishCommit \/ FinishCommitLockFails
  BY <1>15, FinishCommitConsumed
<1>16. CASE StartRollback \/ RollbackTxn \/ RollbackTxnFails \/ FinishRollback
  BY <1>16, RollbackConsumed
<1>17. CASE FinishFullSync \/ FinishPartialSync
  BY <1>1, <1>17, SnapshotConsumed
<1>18. CASE Environment \/ WorkerStep \/ UNCHANGED vars
  BY <1>18, OutsideConsumed
<1>19. Next => JobAction \/ WorkerStep \/ Environment
  BY DEF Next, JobStep
<1> QED
  BY <1>2, <1>3, <1>4, <1>5, <1>6, <1>7, <1>8, <1>9, <1>10, <1>11, <1>12, <1>13, <1>14, <1>15,
     <1>16, <1>17, <1>18, <1>19 DEF JobAction
-----------------------------------------------------------------------------
\* Initially every table holds what its entry in the map says.
LEMMA InitPassed ==
    ASSUME Init
    PROVE  Passed
<1>1. PICK seqs \in [Tables -> 1..Len(log)] :
         /\ dest = [t \in Tables |-> [base |-> seqs[t], applied |-> <<>>]]
         /\ prog = InitialProgress(seqs) /\ disk = prog
  BY DEF Init
<1>2. /\ pipe = Nil /\ pc = "idle" /\ extra.partialTable = Nil
      /\ prog.subSyncState = "Done" /\ prog.syncState = "DBTablesIncrementalSync"
      /\ prog.persistData = EmptyData /\ prog.tableCommitSeqMap = seqs
  BY <1>1 DEF Init, NoExtra, InitialProgress
<1>3. Sub = "Done" /\ ~Live /\ Stored = <<>>
  BY <1>2, EmptyRuns DEF Sub, Live, LiveStates, Stored
<1>4. Filtered(seqs)
  <2>1. SUFFICES ASSUME NEW t \in Tables, NEW s \in Ckpt + 1..seqs[t]
                 PROVE  s <= dest[t].base
    BY DEF Filtered, Covered
  <2>2. dest[t].base = seqs[t]
    BY <1>1
  <2>3. Ckpt \in Nat /\ seqs[t] \in Nat
    BY InitShape, Numbers, ShapeFacts
  <2> QED
    BY <2>1, <2>2, <2>3
<1>5. FiltersHold
  BY <1>1, <1>2, <1>4 DEF FiltersHold
<1>6. CommitsPassed
  BY <1>3 DEF CommitsPassed, CommittedPassed
<1>7. Consumed /\ PartialMissing
  BY <1>2, <1>3 DEF Consumed, PartialMissing
<1> QED
  BY <1>5, <1>6, <1>7 DEF Passed

\* What the job takes for done stays at the target.
LEMMA NextPassed ==
    ASSUME Shape, Ordered, Positions, Passed, [Next]_vars
    PROVE  Passed'
<1>1. Shape' /\ Settles /\ Positions'
  BY NextShape, NextSettles, NextPositions
<1>2. Carries /\ Listing'
  BY <1>1, NextCarries DEF Positions
<1>3. FiltersHold'
  BY <1>1, <1>2, NextFilters DEF Passed
<1>4. CommitsPassed'
  BY <1>1, <1>2, NextCommitsPassed DEF Passed
<1>5. Consumed'
  BY <1>1, <1>2, NextConsumed DEF Passed
<1>6. PartialMissing'
  BY <1>1, <1>2, NextPartialMissing DEF Passed
<1> QED
  BY <1>3, <1>4, <1>5, <1>6 DEF Passed

Replaying == Shape /\ Ordered /\ Positions /\ Passed /\ CommitTookEffect

\* What the job takes for done - the binlogs a table's filter leaves out, the position of its
\* context, the txns it finds committed, all but one table when it asks for a partial snapshot -
\* is at the target or in a running txn.
THEOREM PipelinePassed == Spec => []Replaying
<1>1. Init => Replaying
  <2>1. ASSUME Init PROVE CommitTookEffect
    BY <2>1 DEF Init, CommitTookEffect
  <2> QED
    BY <2>1, InitShape, InitResolved, InitPositions, InitPassed DEF Replaying
<1>2. Replaying /\ [Next]_vars => Replaying'
  <2>1. ASSUME Replaying, [Next]_vars PROVE Replaying'
    <3>1. Shape /\ Ordered /\ Positions /\ Passed /\ CommitTookEffect
      BY <2>1 DEF Replaying
    <3>2. Shape' /\ Ordered' /\ Positions'
      BY <2>1, <3>1, NextShape, NextOrder, NextPositions
    <3>3. Passed'
      BY <2>1, <3>1, NextPassed
    <3>4. CommitTookEffect'
      BY <2>1, <3>1, NextTookEffect
    <3> QED
      BY <3>2, <3>3, <3>4 DEF Replaying
  <2> QED
    BY <2>1
<1> QED
  BY <1>1, <1>2, PTL DEF Spec

\* What a step may do with a binlog when the checkpoint passes it.
PassedNow(s) ==
    \/ log[s].kind # "DUMMY" /\ \A t \in log[s].tables : Covered(t, s)'
    \/ IsSilenced(s)
    \/ \A t \in Tables : dest'[t].base >= s

\* A part of what the target has.
LEMMA PassesNow ==
    ASSUME Shape, Carries, NEW a \in 0..N, NEW c \in 0..N, Passes(a, c),
           NEW s \in 1..N, a < s, s <= c
    PROVE  PassedNow(s)
<1>1. s \in a + 1..c
  BY ShapeFacts
<1>2. log[s].kind # "DUMMY" /\ \A t \in log[s].tables : Covered(t, s)
  BY <1>1 DEF Passes
<1>3. log[s].tables \subseteq Tables
  BY LogFacts
<1> QED
  BY <1>2, <1>3 DEF Carries, PassedNow

\* The checkpoint passes the handled binlog.
LEMMA FinishBinlogNow ==
    ASSUME Shape, Shape', Carries, Consumed, FinishBinlog \/ FinishBinlogLockFails,
           NEW s \in 1..N, Ckpt < s, s <= Ckpt'
    PROVE  PassedNow(s)
<1>1. pc = "handled" /\ Ckpt' = prog.commitSeq
  BY FinishBinlogEffect DEF Ckpt
<1>2. /\ pipe # Nil /\ extra.partialTable = Nil /\ Sub = "Done" /\ prog.commitSeq \in 1..N
      /\ prog.commitSeq = pipe.pos + 1
  BY <1>1, HandlingFacts
<1>3. PICK a \in 0..N, p \in 0..N, q \in 1..N : a = Ckpt /\ p = pipe.pos /\ q = prog.commitSeq
  BY <1>2, Numbers
<1>4. N \in Nat /\ q \in 0..N /\ q = p + 1 /\ a < s /\ s <= q
  BY <1>1, <1>2, <1>3, ShapeFacts
<1>5. CASE s <= p
  <2>1. Passes(a, p)
    BY <1>2, <1>3 DEF Consumed
  <2> QED
    BY <1>4, <1>5, <2>1, PassesNow
<1>6. CASE s = q
  <2>1. IsSilenced(q) \/ Passes(a, q)
    BY <1>1, <1>3 DEF Consumed
  <2>2. CASE IsSilenced(q)
    BY <1>6, <2>2 DEF PassedNow
  <2>3. CASE Passes(a, q)
    BY <1>4, <2>3, PassesNow
  <2> QED
    BY <2>1, <2>2, <2>3
<1> QED
  BY <1>4, <1>5, <1>6

\* The checkpoint passes the binlogs up to the committed txn.
LEMMA FinishCommitNow ==
    ASSUME Shape, Shape', Ordered, Positions, CommitTookEffect, Carries, CommitsPassed,
           FinishCommit \/ FinishCommitLockFails,
           NEW s \in 1..N, Ckpt < s, s <= Ckpt'
    PROVE  PassedNow(s)
<1>1. pc = "committed" /\ Sub = "CommitPipelineTransaction" /\ Live
  BY FinishCommitEffect DEF Live, LiveStates
<1>2. /\ Running # <<>> /\ Commitable = Head(Running) /\ Ckpt' = Commitable.commitSeq
  BY CommitMarks DEF Positions
<1>3. PICK R \in Seq(TxnsAt(N, M)) : R = Running /\ Data # Nil
  BY <1>1, LiveFacts
<1>4. R # <<>> /\ 1 \in 1..Len(R) /\ Commitable = R[1]
  BY <1>2, <1>3
<1>5. PICK a \in 0..N, q \in 1..N : a = Ckpt /\ q = R[1].commitSeq
  BY <1>4, Numbers, ListTyped
<1>6. CommittedPassed(R)
  BY <1>1, <1>3 DEF CommitsPassed
<1>7. txns[R[1].txnId].status = "COMMITTED"
  BY <1>1, <1>4 DEF CommitTookEffect
<1>8. Passes(a, q)
  BY <1>4, <1>5, <1>6, <1>7 DEF CommittedPassed
<1>9. q \in 0..N /\ a < s /\ s <= q
  BY <1>2, <1>4, <1>5, ShapeFacts
<1> QED
  BY <1>8, <1>9, PassesNow

\* The checkpoint passes what the restored snapshot has.
LEMMA SnapshotNow ==
    ASSUME Shape, Shape', Fresh, Carries, PartialMissing, FinishFullSync \/ FinishPartialSync,
           NEW s \in 1..N, Ckpt < s, s <= Ckpt'
    PROVE  PassedNow(s)
<1>1. /\ Snapshotting /\ log' = log /\ Ckpt' = prog'.commitSeq
      /\ \/ /\ prog.syncState = "DBFullSync"
            /\ \A t \in Tables : prog'.commitSeq <= dest'[t].base
         \/ /\ prog.syncState = "DBPartialSync" /\ prog'.commitSeq = prog.commitSeq
            /\ prog.partialTable \in Tables
            /\ dest'[prog.partialTable].base \in SnapshotSeqs
  BY SnapshotEffect DEF Ckpt, srcVars
<1>2. CASE \A t \in Tables : prog'.commitSeq <= dest'[t].base
  <2>1. SUFFICES ASSUME NEW t \in Tables
                 PROVE  dest'[t].base >= s
    BY DEF PassedNow
  <2>2. dest'[t].base \in Nat /\ prog'.commitSeq \in Nat
    <3>1. dest'[t].base \in 0..N' /\ N' \in Nat
      BY NextNumbers DEF Shape, Typed, TargetTyped, N
    <3> QED
      BY <3>1, NextNumbers
  <2>3. PICK b \in Nat, c \in Nat : b = dest'[t].base /\ c = prog'.commitSeq
    BY <2>2
  <2>4. c <= b /\ s <= c
    BY <1>1, <1>2, <2>3
  <2>5. s <= b
    BY <2>4, ShapeFacts
  <2> QED
    BY <2>3, <2>5
<1>3. CASE /\ prog.syncState = "DBPartialSync" /\ prog'.commitSeq = prog.commitSeq
           /\ prog.partialTable \in Tables
           /\ dest'[prog.partialTable].base \in SnapshotSeqs
  <2>1. PICK a \in 0..N, c \in 0..N, k \in 0..N : a = Ckpt /\ c = prog.commitSeq /\ k = asked
    BY Numbers
  <2>2. PICK u \in Tables : u = prog.partialTable
    BY <1>3
  <2>3. PICK b \in k..N : b = dest'[u].base
    BY <1>3, <2>1, <2>2 DEF SnapshotSeqs, N
  <2>4. c <= k /\ s <= c /\ a < s /\ N \in Nat
    BY <1>1, <1>3, <2>1, ShapeFacts DEF Fresh
  <2>5. s <= b /\ s \in a + 1..c
    BY <2>3, <2>4
  <2>6. PassesBut(u, a, c)
    BY <1>3, <2>1, <2>2 DEF PartialMissing
  <2>7. log[s].kind # "DUMMY" /\ \A t \in log[s].tables : t = u \/ Covered(t, s)
    BY <2>5, <2>6 DEF PassesBut
  <2>8. Covered(u, s)'
    BY <2>3, <2>5 DEF Covered
  <2>9. \A t \in log[s].tables : Covered(t, s)'
    <3>1. log[s].tables \subseteq Tables
      BY LogFacts
    <3> QED
      BY <2>7, <2>8, <3>1 DEF Carries
  <2> QED
    BY <2>7, <2>9 DEF PassedNow
<1> QED
  BY <1>1, <1>2, <1>3

\* A step of the checkpoint passes what the target has, what is silenced, or what every table was
\* restored after.
LEMMA NextNow ==
    ASSUME Replaying, [Next]_vars
    PROVE  \A s \in Ckpt + 1..Ckpt' : s \in 1..N /\ PassedNow(s)
<1>1. Shape /\ Ordered /\ Positions /\ Passed /\ CommitTookEffect
  BY DEF Replaying
<1>2. Shape' /\ Carries
  BY <1>1, NextShape, NextCarries DEF Positions
<1>3. Fresh /\ FiltersHold /\ CommitsPassed /\ Consumed /\ PartialMissing
  BY <1>1 DEF Positions, Passed
<1>4. SUFFICES ASSUME NEW s \in Ckpt + 1..Ckpt'
               PROVE  s \in 1..N /\ PassedNow(s)
  OBVIOUS
<1>5. Ckpt \in Nat /\ Ckpt' \in Nat /\ Ckpt < s /\ s <= Ckpt' /\ s \in Nat /\ s # 0
  <2>1. Ckpt \in Nat /\ Ckpt' \in Nat
    BY <1>1, <1>2, Numbers, NextNumbers, ShapeFacts
  <2> QED
    BY <1>4, <2>1
<1>6. \/ FinishBinlog \/ FinishBinlogLockFails \/ FinishCommit \/ FinishCommitLockFails
      \/ FinishFullSync \/ FinishPartialSync
  <2>1. Ckpt' # Ckpt
    BY <1>5
  <2>2. ~Steady
    BY <2>1 DEF Steady
  <2>3. ~RollbackTxn
    BY <1>1, <2>1, RollbackTxnEffect DEF Keeps, Ckpt
  <2> QED
    BY <1>1, <1>2, <2>2, <2>3, NextSteady
<1>7. s \in 1..N
  <2>1. log' = log
    BY <1>6, JobKeepsLog DEF JobAction
  <2>2. N' = N
    BY <2>1 DEF N
  <2>3. Ckpt' <= N /\ N \in Nat
    BY <1>1, <1>2, <2>2, NextNumbers, ShapeFacts
  <2> QED
    BY <1>5, <2>3
<1>8. PassedNow(s)
  BY <1>1, <1>2, <1>3, <1>5, <1>6, <1>7, FinishBinlogNow, FinishCommitNow, SnapshotNow
<1> QED
  BY <1>7, <1>8

\* A step of the checkpoint passes over binlogs the target has, or over the one that the user
\* asked to skip by silence, and over nothing else: no crash, lost answer, filter or rollback
\* makes the job forget a binlog.
THEOREM PipelineLosesOnlySilenced == Spec => LosesOnlySilenced
<1>1. ASSUME Replaying, [Next]_vars
      PROVE  \A s \in disk.prevCommitSeq + 1..disk'.prevCommitSeq : \A t \in log[s].tables :
                Covered(t, s)' \/ (extra.skipBy = "silence" /\ s = extra.skipSeq)
  <2>1. Shape /\ Shape'
    BY <1>1, NextShape DEF Replaying
  <2>2. disk.prevCommitSeq = Ckpt /\ disk'.prevCommitSeq = Ckpt'
    BY <2>1, Numbers, NextNumbers
  <2>3. SUFFICES ASSUME NEW s \in Ckpt + 1..Ckpt', NEW t \in log[s].tables
                 PROVE  Covered(t, s)' \/ (extra.skipBy = "silence" /\ s = extra.skipSeq)
    BY <2>2
  <2>4. s \in 1..N /\ PassedNow(s)
    BY <1>1, NextNow
  <2>5. t \in Tables
    BY <2>1, <2>4, LogFacts
  <2>6. CASE \A v \in Tables : dest'[v].base >= s
    <3>1. dest'[t].base \in Nat /\ s \in Nat
      <4>1. dest'[t].base \in 0..N' /\ N' \in Nat
        BY <2>1, <2>5, NextNumbers DEF Shape, Typed, TargetTyped, N
      <4> QED
        BY <2>1, <2>4, <4>1, ShapeFacts
    <3>2. PICK b \in Nat : b = dest'[t].base
      BY <3>1
    <3>3. s <= b
      BY <2>5, <2>6, <3>1, <3>2
    <3> QED
      BY <3>2, <3>3 DEF Covered
  <2> QED
    BY <2>4, <2>6 DEF PassedNow, IsSilenced
<1>2. Replaying /\ [Next]_vars
        => [\A s \in disk.prevCommitSeq + 1..disk'.prevCommitSeq : \A t \in log[s].tables :
              Covered(t, s)' \/ (extra.skipBy = "silence" /\ s = extra.skipSeq)]_vars
  BY <1>1
<1> QED
  BY <1>2, PipelinePassed, PTL DEF Spec, LosesOnlySilenced

\* The checkpoint only passes a DUMMY binlog when every table was restored from a snapshot taken
\* after it, or when it is the one skipped on request.
THEOREM PipelineDummyMakesFullSync == Spec => DummyMakesFullSync
<1>1. ASSUME Replaying, [Next]_vars
      PROVE  \A s \in disk.prevCommitSeq + 1..disk'.prevCommitSeq :
                log[s].kind = "DUMMY" => s = extra.skipSeq \/ \A t \in Tables : dest'[t].base >= s
  <2>1. Shape /\ Shape'
    BY <1>1, NextShape DEF Replaying
  <2>2. disk.prevCommitSeq = Ckpt /\ disk'.prevCommitSeq = Ckpt'
    BY <2>1, Numbers, NextNumbers
  <2>3. \A s \in Ckpt + 1..Ckpt' : PassedNow(s)
    BY <1>1, NextNow
  <2> QED
    BY <2>2, <2>3 DEF PassedNow, IsSilenced
<1>2. Replaying /\ [Next]_vars
        => [\A s \in disk.prevCommitSeq + 1..disk'.prevCommitSeq :
              log[s].kind = "DUMMY" => s = extra.skipSeq
                                       \/ \A t \in Tables : dest'[t].base >= s]_vars
  BY <1>1
<1> QED
  BY <1>2, PipelinePassed, PTL DEF Spec, DummyMakesFullSync
-----------------------------------------------------------------------------
\* The next txn of a pipeline, when R is its list and S is its next list.
Grows(R, S) == \E ctx \in TxnsAt(N, M) :
    /\ pc = "begun" /\ S = Append(R, ctx)
    /\ ctx.commitSeq = NextSeq /\ ctx.tables = RelatedTables(NextSeq)

\* How the list of a pipeline changes: it starts empty, grows at its end and is consumed at its
\* front.
RunsOn ==
    \/ Running' = <<>>
    \/ /\ Live /\ pipe # Nil
       /\ \/ Running' = Running
          \/ Running # <<>> /\ Running' = Tail(Running)
          \/ Grows(Running, Running')

\* A step that keeps the progress keeps the list.
LEMMA SameRuns ==
    ASSUME prog' = prog, pipe # Nil, Live'
    PROVE  RunsOn
BY DEF RunsOn, Live, Sub, Running, Data

\* What is outside the job keeps the list.
LEMMA OutsideRuns ==
    ASSUME Shape, Environment \/ WorkerStep \/ UNCHANGED vars, Live', pipe' # Nil
    PROVE  RunsOn
<1>1. ~Crash
  BY DEF Crash
<1>2. prog' = prog /\ pipe # Nil
  <2>1. CASE Environment
    BY <1>1, <2>1, EnvironmentEffect DEF Environment
  <2>2. CASE WorkerStep
    BY <2>2, WorkerTyped
  <2>3. CASE UNCHANGED vars
    BY <2>3 DEF vars
  <2> QED
    BY <2>1, <2>2, <2>3
<1> QED
  BY <1>2, SameRuns

\* Every step changes the list in one of these ways.
LEMMA NextRuns ==
    ASSUME Shape, Ordered, [Next]_vars, Live', pipe' # Nil
    PROVE  RunsOn
<1>1. CASE \/ EnterSync \/ LeaveOnInterrupt \/ ConsumeInterruptSignals \/ GetNextBinlogs
           \/ GetNextBinlogsFails \/ PanicOnStaleContext \/ BeginTxn \/ CommitTxn
           \/ CommitTxnFails
  <2>1. CASE EnterSync
    <3>1. Sub' # "RollbackPipeline"
      BY DEF Live, LiveStates
    <3>2. prog' = prog /\ pipe # Nil
      BY <2>1, <3>1, EnterSyncEffect
    <3> QED
      BY <3>2, SameRuns
  <2>2. CASE GetNextBinlogs
    BY <2>2, FetchEffect, SameRuns
  <2>3. CASE CommitTxnFails
    BY <2>3, CommitTxnFailsEffect
  <2>4. CASE \/ LeaveOnInterrupt \/ ConsumeInterruptSignals
             \/ GetNextBinlogsFails \/ PanicOnStaleContext \/ BeginTxn \/ CommitTxn
    <3>1. prog' = prog /\ pipe' = pipe
      BY <2>4 DEF LeaveOnInterrupt, ConsumeInterruptSignals, GetNextBinlogsFails,
                  PanicOnStaleContext, BeginTxn, CommitTxn
    <3> QED
      BY <3>1, SameRuns
  <2> QED
    BY <1>1, <2>1, <2>2, <2>3, <2>4
<1>2. CASE StartPartialSnapshot \/ RecoverIncrementalSync \/ SkipByFullSync \/ SkipByPartialSync
  BY <1>2, LeaveDoneEffect
<1>3. CASE StartPipeline
  BY <1>3, StartPipelineEffect, EmptyRuns DEF RunsOn, Running
<1>4. CASE \/ HandleBinlog \/ HandleCommittedBinlog \/ ExecuteDDL \/ ExecuteDDLLosesReply
           \/ HandleBinlogFails \/ HandleBySnapshot \/ FinishBinlog \/ FinishBinlogLockFails
           \/ FinishPipeline \/ FinishRollback \/ FinishFullSync \/ FinishPartialSync
  <2>1. Sub' \in {"Done", "BeginCreateSnapshot"}
    <3>1. CASE HandleBinlog
      BY <3>1, HandleBinlogEffect
    <3>2. CASE HandleCommittedBinlog \/ ExecuteDDL \/ ExecuteDDLLosesReply
      BY <3>2, ExecuteEffect, HandlingFacts
    <3>3. CASE HandleBinlogFails
      <4>1. prog' = prog \/ AsksFor(prog, prog', "DBFullSync")
        BY <3>3, HandleBinlogFailsEffect
      <4>2. Sub = "Done"
        BY <3>3, HandleBinlogFailsEffect, HandlingFacts
      <4> QED
        BY <4>1, <4>2 DEF AsksFor, Sub
    <3>4. CASE HandleBySnapshot
      BY <3>4, HandleBySnapshotEffect
    <3>5. CASE FinishBinlog \/ FinishBinlogLockFails
      BY <3>5, FinishBinlogEffect
    <3>6. CASE FinishPipeline \/ FinishRollback \/ FinishFullSync \/ FinishPartialSync
      BY <3>6, FinishPipelineEffect, FinishRollbackEffect, SnapshotEffect
    <3> QED
      BY <1>4, <3>1, <3>2, <3>3, <3>4, <3>5, <3>6
  <2> QED
    BY <2>1 DEF Live, LiveStates
<1>5. CASE \/ NoMoreBinlogs \/ NothingToLaunch \/ SkipUpsert \/ LaunchMore \/ YieldPipeline
  <2>1. Live /\ pc # "idle" /\ Data' = Data
    <3>1. CASE NoMoreBinlogs
      BY <3>1, NoMoreBinlogsEffect
         DEF NoMoreBinlogs, NeedsBinlogs, AtLoop, Live, LiveStates, Sub
    <3>2. CASE NothingToLaunch \/ SkipUpsert
      BY <3>2, SkippedEffect
    <3>3. CASE LaunchMore \/ YieldPipeline
      BY <3>3, LaunchMoreEffect, YieldPipelineEffect DEF Live, LiveStates
    <3> QED
      BY <1>5, <3>1, <3>2, <3>3
  <2> QED
    BY <2>1, LiveFacts DEF RunsOn, Running
<1>6. CASE BeginTxnFails \/ LaunchIngestJobFails
  BY <1>6, BeginTxnFailsEffect, LaunchFailsEffect
<1>7. CASE LaunchIngestJob \/ LaunchTriggersPartialSnapshot
  <2>1. PICK ctx \in TxnsAt(N, M) :
           /\ pc = "begun" /\ Sub = "LaunchTransaction"
           /\ ctx.commitSeq = pipe.pos + 1 /\ ctx.tables = RelatedTables(pipe.pos + 1)
           /\ Data'.running = Append(Running, ctx)
    BY <1>7, LaunchEffect
  <2>2. Live /\ pipe # Nil
    BY <2>1, LiveFacts DEF Live, LiveStates
  <2>3. Grows(Running, Running')
    BY <2>1 DEF Grows, Running, NextSeq
  <2> QED
    BY <2>2, <2>3 DEF RunsOn
<1>8. CASE TakeResult
  <2>1. Sub' # "RollbackPipeline"
    BY DEF Live, LiveStates
  <2>2. \/ Live /\ pipe # Nil /\ Data'.running = Running
    BY <1>8, <2>1, TakeResultEffect
  <2> QED
    BY <2>2 DEF RunsOn, Running
<1>9. CASE FinishCommit \/ FinishCommitLockFails
  <2>1. pc = "committed" /\ Sub = "CommitPipelineTransaction" /\ Running' = Tail(Running)
    BY <1>9, FinishCommitEffect
  <2>2. Live /\ pipe # Nil /\ Running # <<>>
    BY <2>1, CommitableFacts DEF Live, LiveStates
  <2> QED
    BY <2>1, <2>2 DEF RunsOn
<1>10. CASE StartRollback \/ RollbackTxn \/ RollbackTxnFails
  <2>1. Sub' = "RollbackPipeline"
    <3>1. CASE StartRollback
      BY <3>1, StartRollbackEffect
    <3>2. CASE RollbackTxn
      BY <3>2, RollbackTxnEffect, RollingFacts
    <3>3. CASE RollbackTxnFails
      BY <3>3, RollingFacts DEF RollbackTxnFails, Sub
    <3> QED
      BY <1>10, <3>1, <3>2, <3>3
  <2> QED
    BY <2>1 DEF Live, LiveStates
<1>11. CASE Environment \/ WorkerStep \/ UNCHANGED vars
  BY <1>11, OutsideRuns
<1> QED
  BY <1>1, <1>2, <1>3, <1>4, <1>5, <1>6, <1>7, <1>8, <1>9, <1>10, <1>11
     DEF Next, JobStep, JobAction

\* The txns of a list change tables that their binlogs change.
TablesListed(R) == \A k \in 1..Len(R) : R[k].tables \subseteq log[R[k].commitSeq].tables

\* The log only grows, so a listed txn stays within its binlog.
LEMMA ListedKept ==
    ASSUME Shape, Carries, NEW R \in Seq(TxnsAt(N, M)), TablesListed(R)
    PROVE  TablesListed(R)'
<1>1. SUFFICES ASSUME NEW k \in 1..Len(R)
               PROVE  R[k].tables \subseteq log'[R[k].commitSeq].tables
  BY DEF TablesListed
<1>2. R[k].commitSeq \in 1..N
  BY ListTyped
<1>3. log'[R[k].commitSeq] = log[R[k].commitSeq]
  BY <1>2 DEF Carries
<1> QED
  BY <1>3 DEF TablesListed

Subsets == Live /\ pipe # Nil => TablesListed(Running)

\* A txn is launched for tables of its binlog.
LEMMA NextSubsets ==
    ASSUME Shape, Ordered, Carries, Subsets, [Next]_vars
    PROVE  Subsets'
<1>1. SUFFICES ASSUME Live', pipe' # Nil
               PROVE  TablesListed(Running)'
  BY DEF Subsets
<1>2. RunsOn
  BY <1>1, NextRuns
<1>3. PICK S : S = Running'
  OBVIOUS
<1>4. TablesListed(S)'
  <2>1. CASE S = <<>>
    <3>1. 1..Len(S) = {}
      BY <2>1
    <3> QED
      BY <3>1 DEF TablesListed
  <2>2. CASE S # <<>>
    <3>1. Live /\ pipe # Nil /\ TablesListed(Running)
      BY <1>2, <1>3, <2>2 DEF RunsOn, Subsets
    <3>2. Data # Nil
      BY <3>1 DEF Shape, Control
    <3>3. PICK R \in Seq(TxnsAt(N, M)) : R = Running
      BY <3>2, ListTyped
    <3>4. TablesListed(R)'
      BY <3>1, <3>3, ListedKept
    <3>5. CASE S = R
      BY <3>4, <3>5
    <3>6. CASE R # <<>> /\ S = Tail(R)
      <4>1. \A k \in 1..Len(S) : k + 1 \in 1..Len(R) /\ S[k] = R[k + 1]
        BY <3>6
      <4> QED
        BY <3>4, <4>1 DEF TablesListed
    <3>7. CASE Grows(R, S)
      <4>1. PICK ctx \in TxnsAt(N, M) :
               /\ S = Append(R, ctx) /\ pc = "begun"
               /\ ctx.commitSeq = NextSeq /\ ctx.tables = RelatedTables(NextSeq)
        BY <3>7 DEF Grows
      <4>2. ctx.tables \subseteq log[ctx.commitSeq].tables /\ ctx.commitSeq \in 1..N
        BY <4>1 DEF RelatedTables, TxnsAt
      <4>3. log'[ctx.commitSeq] = log[ctx.commitSeq]
        BY <4>2 DEF Carries
      <4>4. /\ Len(R) \in Nat /\ Len(S) = Len(R) + 1 /\ S[Len(R) + 1] = ctx
            /\ \A k \in 1..Len(R) : S[k] = R[k]
        BY <4>1
      <4>5. \A k \in 1..Len(S) : k \in 1..Len(R) \/ k = Len(R) + 1
        BY <4>4
      <4> QED
        BY <3>4, <4>2, <4>3, <4>4, <4>5 DEF TablesListed
    <3> QED
      BY <1>2, <1>3, <2>2, <3>3, <3>5, <3>6, <3>7 DEF RunsOn
  <2> QED
    BY <2>1, <2>2
<1> QED
  BY <1>3, <1>4 DEF TablesListed
-----------------------------------------------------------------------------
\* Nothing is skipped by silence.
NotSilent == extra.skipBy # "silence"

\* A request to skip only comes from the user.
LEMMA NextNotSilent ==
    ASSUME Shape, NotSilent, "silence" \notin FaultKinds, [Next]_vars
    PROVE  NotSilent'
<1>1. ASSUME extra' = extra PROVE NotSilent'
  BY <1>1 DEF NotSilent
<1>2. ASSUME extra' = ResetSkip PROVE NotSilent'
  BY <1>2, ResetSkipTyped DEF NotSilent
<1>3. CASE \/ EnterSync \/ LeaveOnInterrupt \/ ConsumeInterruptSignals
           \/ FinishFullSync \/ FinishPartialSync
  BY <1>1, <1>2, <1>3
     DEF EnterSync, LeaveOnInterrupt, ConsumeInterruptSignals, FinishFullSync, FinishPartialSync
<1>4. CASE StartPartialSnapshot \/ RecoverIncrementalSync \/ SkipByFullSync \/ SkipByPartialSync
  BY <1>4, LeaveDoneEffect DEF NotSilent
<1>5. CASE \/ StartPipeline \/ HandleBinlog \/ HandleCommittedBinlog \/ ExecuteDDL
           \/ ExecuteDDLLosesReply \/ HandleBinlogFails \/ HandleBySnapshot \/ FinishBinlog
           \/ FinishBinlogLockFails
  BY <1>1, <1>5
     DEF StartPipeline, HandleBinlog, HandleCommittedBinlog, ExecuteDDL, ExecuteDDLLosesReply,
         HandleBinlogFails, HandleBySnapshot, FinishBinlog, FinishBinlogLockFails
<1>6. CASE \/ GetNextBinlogs \/ NoMoreBinlogs \/ GetNextBinlogsFails \/ PanicOnStaleContext
           \/ NothingToLaunch \/ SkipUpsert \/ BeginTxn \/ BeginTxnFails \/ LaunchIngestJobFails
           \/ TakeResult \/ FinishPipeline \/ LaunchMore \/ YieldPipeline
  BY <1>1, <1>6
     DEF GetNextBinlogs, NoMoreBinlogs, GetNextBinlogsFails, PanicOnStaleContext,
         NothingToLaunch, SkipUpsert, BeginTxn, BeginTxnFails, LaunchIngestJobFails, TakeResult,
         FinishPipeline, LaunchMore, YieldPipeline
<1>7. CASE LaunchIngestJob \/ LaunchTriggersPartialSnapshot
  BY <1>1, <1>7, LaunchEffect DEF NotSilent
<1>8. CASE \/ CommitTxn \/ CommitTxnFails \/ FinishCommit \/ FinishCommitLockFails
           \/ StartRollback \/ RollbackTxn \/ RollbackTxnFails \/ FinishRollback
  BY <1>1, <1>8
     DEF CommitTxn, CommitTxnFails, FinishCommit, FinishCommitLockFails, StartRollback,
         RollbackTxn, RollbackTxnFails, FinishRollback
<1>9. CASE WorkerStep \/ SourceWrites \/ SourceCollects \/ TargetAborts \/ Interrupt
           \/ UNCHANGED vars
  BY <1>1, <1>9, WorkerTyped
     DEF SourceWrites, SourceCollects, TargetAborts, Interrupt, vars
<1>10. CASE SkipBinlog
  <2>1. extra \in Extras
    BY DEF Shape, Typed, FlagsTyped
  <2>2. ~Fault("silence")
    BY DEF Fault
  <2>3. \/ extra' = [extra EXCEPT !.skipBy = "fullsync"]
        \/ \E t \in Tables :
              extra' = [extra EXCEPT !.skipBy = "partialsync", !.skipTable = t]
    BY <1>10, <2>2 DEF SkipBinlog
  <2>4. extra'.skipBy \in {"fullsync", "partialsync"}
    BY <2>1, <2>3 DEF Extras
  <2> QED
    BY <2>4 DEF NotSilent
<1>11. CASE Crash
  BY <1>11 DEF Crash, NoExtra, NotSilent
<1> QED
  BY <1>3, <1>4, <1>5, <1>6, <1>7, <1>8, <1>9, <1>10, <1>11
     DEF Next, JobStep, JobAction, Environment

\* The target has every binlog up to the checkpoint.
Synced == \A t \in Tables : \A s \in 1..Ckpt : t \in log[s].tables => Covered(t, s)

\* What the checkpoint passes, the target has, unless it is silenced.
LEMMA NextSynced ==
    ASSUME Replaying, NotSilent, Synced, [Next]_vars
    PROVE  Synced'
<1>1. Shape /\ Positions
  BY DEF Replaying
<1>2. Shape' /\ Carries
  BY <1>1, NextShape, NextCarries DEF Positions
<1>3. PICK a \in 0..N : a = Ckpt
  BY <1>1, Numbers
<1>4. PICK b \in Nat : b = Ckpt'
  BY <1>2, NextNumbers
<1>5. SUFFICES ASSUME NEW t \in Tables, NEW s \in 1..b, t \in log'[s].tables
               PROVE  Covered(t, s)'
  BY <1>4 DEF Synced
<1>6. CASE s <= a
  <2>1. s \in 1..a /\ s \in 1..N
    BY <1>1, <1>6, ShapeFacts
  <2>2. log'[s] = log[s]
    BY <1>2, <2>1 DEF Carries
  <2>3. Covered(t, s)
    BY <1>3, <1>5, <2>1, <2>2 DEF Synced
  <2> QED
    BY <1>2, <2>1, <2>3 DEF Carries
<1>7. CASE ~(s <= a)
  <2>1. s \in a + 1..b
    BY <1>1, <1>7, ShapeFacts
  <2>2. s \in 1..N /\ PassedNow(s)
    BY <1>3, <1>4, <2>1, NextNow
  <2>3. log'[s] = log[s]
    BY <1>2, <2>2 DEF Carries
  <2>4. ~IsSilenced(s)
    BY DEF NotSilent, IsSilenced
  <2>5. Covered(t, s)' \/ dest'[t].base >= s
    BY <1>5, <2>2, <2>3, <2>4 DEF PassedNow
  <2>6. dest'[t].base \in Nat
    <3>1. dest'[t].base \in 0..N' /\ N' \in Nat
      BY <1>2, NextNumbers DEF Shape, Typed, TargetTyped, N
    <3> QED
      BY <3>1
  <2>7. dest'[t].base >= s => s <= dest'[t].base
    BY <2>6
  <2> QED
    BY <2>5, <2>7 DEF Covered
<1> QED
  BY <1>6, <1>7
-----------------------------------------------------------------------------
\* Only the source writes the log.
LEMMA NextKeepsLog ==
    ASSUME Shape, [Next]_vars, ~SourceWrites
    PROVE  log' = log
<1>1. CASE JobAction
  BY <1>1, JobKeepsLog
<1>2. CASE WorkerStep
  BY <1>2, WorkerTyped DEF srcVars
<1>3. CASE SourceCollects \/ TargetAborts \/ Interrupt \/ SkipBinlog \/ Crash \/ UNCHANGED vars
  BY <1>3 DEF SourceCollects, TargetAborts, Interrupt, SkipBinlog, Crash, srcVars, vars
<1> QED
  BY <1>1, <1>2, <1>3 DEF Next, JobStep, Environment

\* The checkpoint only moves forward.
LEMMA NextForward ==
    ASSUME Shape, Shape', Ordered, Positions, [Next]_vars
    PROVE  Ckpt <= Ckpt'
<1>1. Marks /\ Fresh /\ Listing
  BY DEF Positions
<1>2. Ckpt \in Nat /\ Ckpt' \in Nat
  BY Numbers, NextNumbers
<1>3. CASE Steady
  BY <1>2, <1>3 DEF Steady
<1>4. CASE FinishBinlog \/ FinishBinlogLockFails
  BY <1>1, <1>4, FinishBinlogMarks
<1>5. CASE FinishCommit \/ FinishCommitLockFails
  <2>1. Ckpt < Ckpt'
    BY <1>1, <1>5, CommitMarks
  <2> QED
    BY <1>2, <2>1
<1>6. CASE RollbackTxn
  <2>1. Ckpt' = Ckpt
    BY <1>6, RollbackTxnEffect DEF Keeps, Ckpt
  <2> QED
    BY <1>2, <2>1
<1>7. CASE FinishFullSync \/ FinishPartialSync
  BY <1>1, <1>7, SnapshotMarks
<1> QED
  BY <1>3, <1>4, <1>5, <1>6, <1>7, NextSteady

\* The source of the pipeline is the source of the replay.
LEMMA WriteReplays ==
    ASSUME SourceWrites
    PROVE  Replication!Write
<1>1. SourceBinlogs \subseteq Binlogs
  BY LogAssumption
<1> QED
  BY <1>1 DEF SourceWrites, destVars, Replication!Write

\* A binlog after the checkpoint is applied to some of its tables, which have all before it.
LEMMA ApplyReplays ==
    ASSUME Shape, Synced, NEW s \in 1..N, Ckpt < s,
           NEW ts \in SUBSET log[s].tables, Apply(s, ts), UNCHANGED <<log, disk>>,
           \A t \in ts : \A r \in 1..N :
              Ckpt < r /\ r < s /\ t \in log[r].tables => Covered(t, r)
    PROVE  Replication!Replay
<1>1. PICK a \in 0..N : a = Ckpt /\ a = disk.prevCommitSeq
  BY Numbers
<1>2. N \in Nat /\ s \in a + 1..N
  BY <1>1, ShapeFacts
<1>3. ASSUME NEW t \in ts, NEW r \in SeqsOf(t), r < s
      PROVE  Covered(t, r)
  <2>1. r \in 1..N /\ t \in log[r].tables /\ t \in Tables
    BY LogFacts DEF SeqsOf, N
  <2>2. CASE r <= a
    <3>1. r \in 1..a
      BY <1>2, <2>1, <2>2
    <3> QED
      BY <1>1, <2>1, <3>1 DEF Synced
  <2>3. CASE ~(r <= a)
    <3>1. a < r
      BY <1>2, <2>1, <2>3
    <3> QED
      BY <1>1, <1>3, <2>1, <3>1
  <2> QED
    BY <2>2, <2>3
<1>4. \A t \in ts : \A r \in Replication!SeqsOf(t) : r < s => Replication!Covered(t, r)
  BY <1>3 DEF SeqsOf, Covered, Replication!SeqsOf, Replication!Covered
<1>5. s \in disk.prevCommitSeq + 1..Len(log)
  BY <1>1, <1>2 DEF N
<1> QED
  BY <1>4, <1>5 DEF Apply, Replication!Replay

\* A DDL is executed after everything before it.
LEMMA ExecuteReplays ==
    ASSUME Shape, Positions, Consumed, Synced, ExecuteDDL \/ ExecuteDDLLosesReply
    PROVE  Replication!Replay
<1>1. /\ pc = "handling" /\ pc # "idle"
      /\ Apply(prog.commitSeq, log[prog.commitSeq].tables) /\ UNCHANGED <<log, disk>>
  BY DEF ExecuteDDL, ExecuteDDLLosesReply, Handling, srcVars, Volatile
<1>2. /\ Sub = "Done" /\ pipe # Nil /\ pipe.pos < pipe.next /\ extra.partialTable = Nil
      /\ prog.commitSeq = pipe.pos + 1 /\ prog.commitSeq \in 1..N
  BY <1>1, HandlingFacts
<1>3. PICK a \in 0..N, p \in 0..N, x \in 0..N : a = Ckpt /\ p = pipe.pos /\ x = pipe.next
  BY <1>2, Numbers
<1>4. PICK s \in 1..N : s = prog.commitSeq
  BY <1>2
<1>5. s = p + 1 /\ p < x /\ N \in Nat
  BY <1>2, <1>3, <1>4, ShapeFacts
<1>6. a <= p
  <2>1. Ckpt <= pipe.pos \/ pipe.pos = pipe.next
    BY <1>1, <1>2 DEF Positions, Ahead, Snapshotting
  <2> QED
    BY <1>3, <1>5, <2>1
<1>7. Passes(a, p)
  BY <1>2, <1>3 DEF Consumed
<1>8. \A r \in 1..N : a < r /\ r < s => \A t \in log[r].tables : Covered(t, r)
  <2>1. SUFFICES ASSUME NEW r \in 1..N, a < r, r < s
                 PROVE  \A t \in log[r].tables : Covered(t, r)
    OBVIOUS
  <2>2. r \in a + 1..p
    BY <1>5, <2>1
  <2> QED
    BY <1>7, <2>2 DEF Passes
<1>9. a < s
  BY <1>5, <1>6
<1>10. Apply(s, log[s].tables)
  BY <1>1, <1>4
<1> QED
  BY <1>1, <1>3, <1>8, <1>9, <1>10, ApplyReplays

\* A txn is committed after everything before it: the checkpoint, what was skipped or handled
\* since, and no other running txn.
LEMMA CommitReplays ==
    ASSUME Shape, Shape', Ordered, Positions, Consumed, Synced, Subsets, Commits
    PROVE  Replication!Replay
<1>1. /\ Live /\ pipe # Nil /\ Sub = "CommitPipelineTransaction" /\ pc = "loop"
      /\ Apply(Commitable.commitSeq, Commitable.tables) /\ UNCHANGED <<log, disk>>
  BY DEF Commits, srcVars
<1>2. Data # Nil
  BY <1>1, CommitFacts
<1>3. PICK R \in Seq(TxnsAt(N, M)) : R = Running
  BY <1>2, ListTyped
<1>4. 1 \in 1..Len(R) /\ Commitable = R[1]
  BY <1>3, CommitsListed DEF Positions
<1>5. PICK a \in 0..N, p \in 0..N : a = Ckpt /\ p = pipe.pos
  BY <1>1, Numbers
<1>6. PICK x \in TxnsAt(N, M) : x = R[1]
  BY <1>4
<1>7. PICK s \in 1..N : s = x.commitSeq
  BY DEF TxnsAt
<1>8. Rising(R) /\ Between(R, a, p) /\ ReachedBy(R, a, p)
  BY <1>1, <1>3, <1>5 DEF Positions, Listing, Consumed
<1>9. x.tables \subseteq log[s].tables
  BY <1>1, <1>3, <1>4, <1>6, <1>7 DEF Subsets, TablesListed
<1>10. a < s /\ s <= p /\ N \in Nat
  BY <1>4, <1>6, <1>7, <1>8, ShapeFacts DEF Between
<1>11. ASSUME NEW t \in x.tables, NEW r \in 1..N, a < r, r < s, t \in log[r].tables
       PROVE  Covered(t, r)
  <2>1. r \in a + 1..p
    BY <1>10, <1>11
  <2>2. Covered(t, r) \/ \E k \in 1..Len(R) : R[k].commitSeq = r
    BY <1>8, <1>11, <2>1 DEF ReachedBy
  <2>3. ASSUME NEW k \in 1..Len(R), R[k].commitSeq = r
        PROVE  FALSE
    <3>1. CASE k = 1
      <4>1. r = s
        BY <1>6, <1>7, <2>3, <3>1
      <4> QED
        BY <1>11, <4>1
    <3>2. CASE 1 < k
      <4>1. R[1].commitSeq < R[k].commitSeq
        BY <1>4, <1>8, <3>2 DEF Rising
      <4>2. s < r
        BY <1>6, <1>7, <2>3, <4>1
      <4> QED
        BY <1>11, <4>2
    <3> QED
      BY <3>1, <3>2
  <2> QED
    BY <2>2, <2>3
<1>12. Apply(s, x.tables)
  BY <1>1, <1>4, <1>6, <1>7
<1> QED
  BY <1>1, <1>5, <1>9, <1>10, <1>11, <1>12, ApplyReplays

\* The checkpoint passes what the target has, or stays.
LEMMA CheckpointReplays ==
    ASSUME Shape, Shape', Synced', Ckpt <= Ckpt', UNCHANGED <<log, dest>>
    PROVE  Replication!Checkpoint \/ UNCHANGED Replication!vars
<1>1. PICK a \in 0..N : a = Ckpt /\ a = disk.prevCommitSeq
  BY Numbers
<1>2. PICK c \in 0..N : c = Ckpt' /\ c = disk'.prevCommitSeq
  <2>1. N' = N
    BY DEF N
  <2> QED
    BY <2>1, NextNumbers
<1>3. a <= c /\ N \in Nat
  BY <1>1, <1>2, ShapeFacts
<1>4. CASE a = c
  BY <1>1, <1>2, <1>4 DEF Replication!vars
<1>5. CASE a < c
  <2>1. c \in disk.prevCommitSeq + 1..Len(log)
    BY <1>1, <1>2, <1>3, <1>5 DEF N
  <2>2. \A t \in Tables : \A s \in 1..c : t \in log[s].tables => Replication!Covered(t, s)
    BY <1>2 DEF Synced, Covered, Replication!Covered
  <2> QED
    BY <1>2, <2>1, <2>2 DEF Replication!Checkpoint
<1> QED
  BY <1>3, <1>4, <1>5

\* A snapshot is restored on top of what it contains, and the checkpoint moves to what the
\* target has then.
LEMMA RestoreReplays ==
    ASSUME Shape, Shape', Fresh, Snapshotting, Synced', Ckpt <= Ckpt', log' = log,
           NEW ts \in SUBSET Tables, NEW seqs \in [Tables -> 0..N], Restored(seqs, ts),
           \A t \in ts : seqs[t] \in SnapshotSeqs /\ Ckpt' <= seqs[t]
    PROVE  Replication!Restore
<1>1. PICK a \in 0..N, k \in 0..N : a = Ckpt /\ a = disk.prevCommitSeq /\ k = asked
  BY Numbers
<1>2. PICK c \in 0..N : c = Ckpt' /\ c = disk'.prevCommitSeq
  <2>1. N' = N
    BY DEF N
  <2> QED
    BY <2>1, NextNumbers
<1>3. a <= c /\ N \in Nat /\ N = Len(log)
  BY <1>1, <1>2, ShapeFacts DEF N
<1>4. PICK base \in [ts -> 0..N] : base = [t \in ts |-> seqs[t]]
  OBVIOUS
<1>5. ASSUME NEW t \in ts
      PROVE  /\ dest[t].base <= base[t]
             /\ \A i \in DOMAIN dest[t].applied : dest[t].applied[i] <= base[t]
  <2>1. PICK b \in 0..N : b = base[t]
    OBVIOUS
  <2>2. b \in k..N
    BY <1>1, <1>4, <2>1 DEF SnapshotSeqs, N
  <2>3. dest[t] \in [base : 0..N, applied : Seq(1..N)] /\ t \in Tables
    BY DEF Shape, Typed, TargetTyped, N
  <2>4. dest[t].base <= k /\ \A i \in DOMAIN dest[t].applied : dest[t].applied[i] <= k
    BY <1>1 DEF Fresh
  <2>5. dest[t].base <= b
    BY <1>3, <2>2, <2>3, <2>4
  <2>6. \A i \in DOMAIN dest[t].applied : dest[t].applied[i] <= b
    <3>1. SUFFICES ASSUME NEW i \in DOMAIN dest[t].applied
                   PROVE  dest[t].applied[i] <= b
      OBVIOUS
    <3>2. PICK n \in Nat : n = N
      BY <1>3
    <3>3. PICK w \in Seq(1..n) : w = dest[t].applied
      BY <2>3, <3>2
    <3>4. \A j \in DOMAIN w : w[j] \in 1..n
      BY SeqsOfSeq
    <3>5. PICK x \in 1..n : x = dest[t].applied[i]
      BY <3>3, <3>4
    <3>6. x <= k
      BY <2>4, <3>5
    <3> QED
      BY <1>3, <2>2, <3>5, <3>6
  <2> QED
    BY <2>1, <2>5, <2>6
<1>6. dest' = [t \in Tables |->
                  IF t \in ts THEN [base |-> base[t], applied |-> <<>>] ELSE dest[t]]
  BY <1>4 DEF Restored
<1>7. ASSUME NEW t \in ts
      PROVE  c <= dest'[t].base
  <2>1. dest'[t].base = seqs[t]
    BY <1>4, <1>6
  <2> QED
    BY <1>2, <2>1
<1>8. ASSUME NEW t \in Tables \ ts, NEW s \in 1..c, t \in log[s].tables
      PROVE  Replication!Covered(t, s)
  <2>1. Covered(t, s)'
    BY <1>2, <1>8 DEF Synced
  <2>2. dest'[t] = dest[t]
    BY <1>6, <1>8
  <2> QED
    BY <2>1, <2>2 DEF Covered, Replication!Covered
<1>9. c \in disk.prevCommitSeq..Len(log) /\ base \in [ts -> 0..Len(log)]
  BY <1>1, <1>3, <1>4
<1> QED
  BY <1>2, <1>5, <1>6, <1>7, <1>8, <1>9 DEF Replication!Restore

\* The two snapshots.
LEMMA SnapshotReplays ==
    ASSUME Shape, Shape', Fresh, Synced', Ckpt <= Ckpt', FinishFullSync \/ FinishPartialSync
    PROVE  Replication!Restore
<1>1. Snapshotting /\ log' = log /\ Ckpt' = prog'.commitSeq
  BY SnapshotEffect DEF Ckpt, srcVars
<1>2. PICK k \in 0..N : k = asked
  BY Numbers
<1>3. N \in Nat
  BY ShapeFacts
<1>4. CASE FinishFullSync
  <2>1. PICK seqs \in [Tables -> SnapshotSeqs], c \in 0..N :
           /\ Restored(seqs, Tables) /\ seqs \in [Tables -> 0..N]
           /\ \A t \in Tables : c <= seqs[t]
           /\ Persist(NextWithPersist([prog EXCEPT !.tableCommitSeqMap = seqs], c,
                                      "DBTablesIncrementalSync", "Done"))
    BY <1>4, FullSyncFacts
  <2>2. PICK q : q = NextWithPersist([prog EXCEPT !.tableCommitSeqMap = seqs], c,
                                     "DBTablesIncrementalSync", "Done")
    OBVIOUS
  <2>3. q.prevCommitSeq = c
    BY <2>1, <2>2, SnapshotDoneTyped, ShapeFacts
  <2>4. Ckpt' = c
    BY <2>1, <2>2, <2>3 DEF Persist, Ckpt
  <2>5. \A t \in Tables : seqs[t] \in SnapshotSeqs
    BY <2>1
  <2> QED
    BY <1>1, <2>1, <2>4, <2>5, RestoreReplays
<1>5. CASE FinishPartialSync
  <2>1. PICK seq \in SnapshotSeqs, seqs \in [Tables -> 0..N] :
           /\ prog.partialTable \in Tables
           /\ seqs = [prog.tableCommitSeqMap EXCEPT ![prog.partialTable] = seq]
           /\ Restored(seqs, {prog.partialTable})
           /\ Persist(NextWithPersist([prog EXCEPT !.tableCommitSeqMap = seqs],
                                      prog.commitSeq, "DBTablesIncrementalSync", "Done"))
    BY <1>5, PartialSyncFacts
  <2>2. PICK u \in Tables : u = prog.partialTable
    BY <2>1
  <2>3. PICK q : q = NextWithPersist([prog EXCEPT !.tableCommitSeqMap = seqs], prog.commitSeq,
                                     "DBTablesIncrementalSync", "Done")
    OBVIOUS
  <2>4. q.prevCommitSeq = prog.commitSeq
    <3>1. /\ N \in Nat /\ M \in Nat /\ prog \in ProgressAt(N, M) /\ prog.commitSeq \in 0..N
          /\ EmptyData \in DataAt(N, M)
      BY ShapeFacts, Numbers
    <3> HIDE <2>1
    <3> QED
      BY <2>3, <3>1, SnapshotDoneTyped
  <2>5. PICK c \in 0..N : c = prog.commitSeq /\ c = Ckpt'
    BY <2>1, <2>3, <2>4, Numbers DEF Persist, Ckpt
  <2>6. seqs[u] = seq
    BY <2>1, <2>2, Numbers
  <2>7. seq \in k..N /\ c <= k
    BY <1>1, <1>2, <2>5 DEF SnapshotSeqs, N, Fresh
  <2>8. c <= seq
    BY <1>3, <2>7
  <2>9. \A t \in {u} : seqs[t] \in SnapshotSeqs /\ Ckpt' <= seqs[t]
    BY <2>5, <2>6, <2>8
  <2> QED
    BY <1>1, <2>1, <2>2, <2>9, RestoreReplays
<1> QED
  BY <1>4, <1>5
-----------------------------------------------------------------------------
\* The job starts with every table restored up to the checkpoint or beyond.
LEMMA InitReplays ==
    ASSUME Init
    PROVE  Replication!Init /\ NotSilent /\ Synced /\ Subsets
<1>1. PICK seqs \in [Tables -> 1..Len(log)] :
         /\ dest = [t \in Tables |-> [base |-> seqs[t], applied |-> <<>>]]
         /\ prog = InitialProgress(seqs) /\ disk = prog
  BY DEF Init
<1>2. log \in Seq(Binlogs) /\ Len(log) \in Nat
  BY LogAssumption DEF Init
<1>3. PICK n \in Nat : n = Len(log)
  BY <1>2
<1>4. PICK c : c = Smallest(seqs)
  OBVIOUS
<1>5. seqs \in [Tables -> 1..n] /\ seqs \in [Tables -> 0..n]
  BY <1>1, <1>3
<1>6. c \in 1..n /\ \A t \in Tables : c <= seqs[t]
  BY <1>4, <1>5, SmallestTyped
<1>7. disk.prevCommitSeq = c /\ Ckpt = c /\ pipe = Nil /\ extra.skipBy = "no"
  BY <1>1, <1>4 DEF InitialProgress, Ckpt, Init, NoExtra
<1>8. \A t \in Tables : c <= dest[t].base
  BY <1>1, <1>6
<1>9. Replication!Init
  <2>1. dest \in [Tables -> [base : 0..n, applied : {<<>>}]]
    BY <1>1, <1>5
  <2>2. c \in 0..n
    BY <1>6
  <2> QED
    BY <1>2, <1>3, <1>7, <1>8, <2>1, <2>2 DEF Replication!Init
<1>10. Synced
  <2>1. SUFFICES ASSUME NEW t \in Tables, NEW s \in 1..c
                 PROVE  s <= dest[t].base
    BY <1>7 DEF Synced, Covered
  <2>2. PICK b \in 0..n : b = dest[t].base
    BY <1>1, <1>5
  <2>3. c <= b
    BY <1>8, <2>2
  <2> QED
    BY <1>6, <2>2, <2>3
<1> QED
  BY <1>7, <1>9, <1>10 DEF NotSilent, Subsets

\* A step of the pipeline is a step of the replay, or none.
LEMMA NextReplays ==
    ASSUME Replaying, Synced, Synced', Subsets, [Next]_vars
    PROVE  [Replication!Next]_Replication!vars
<1>1. Shape /\ Ordered /\ Positions /\ Consumed
  BY DEF Replaying, Passed
<1>2. Shape' /\ Fresh
  BY <1>1, NextShape DEF Positions
<1>3. Ckpt <= Ckpt'
  BY <1>1, <1>2, NextForward
<1>4. CASE SourceWrites
  BY <1>4, WriteReplays DEF Replication!Next
<1>5. CASE dest' = dest /\ ~SourceWrites
  <2>1. Replication!Checkpoint \/ UNCHANGED Replication!vars
    BY <1>1, <1>2, <1>3, <1>5, NextKeepsLog, CheckpointReplays
  <2> QED
    BY <2>1 DEF Replication!Next
<1>6. CASE Commits
  BY <1>1, <1>2, <1>6, CommitReplays DEF Replication!Next
<1>7. CASE ExecuteDDL \/ ExecuteDDLLosesReply
  BY <1>1, <1>7, ExecuteReplays DEF Replication!Next
<1>8. CASE FinishFullSync \/ FinishPartialSync
  BY <1>1, <1>2, <1>3, <1>8, SnapshotReplays DEF Replication!Next
<1> QED
  BY <1>1, <1>4, <1>5, <1>6, <1>7, <1>8, NextTarget

\* The refinement: where no user skips a binlog by silence, what the pipeline does to the target
\* and to the stored PrevCommitSeq, through txns in flight, aborts, crashes, lost answers and
\* snapshots, is an ordered replay of the log whose checkpoint never runs ahead.
THEOREM PipelineImplementsReplay ==
    ASSUME "silence" \notin FaultKinds
    PROVE  Spec => ImplementsReplay
<1> DEFINE Mapped == NotSilent /\ Synced /\ Subsets
<1>1. Init => Replication!Init /\ Mapped
  BY InitReplays
<1>2. Replaying /\ Mapped /\ [Next]_vars => Mapped'
  <2>1. ASSUME Replaying, Mapped, [Next]_vars PROVE Mapped'
    <3>1. Shape /\ Ordered /\ Positions
      BY <2>1 DEF Replaying
    <3>2. Carries
      BY <2>1, <3>1, NextShape, NextCarries DEF Positions
    <3>3. NotSilent'
      BY <2>1, <3>1, NextNotSilent
    <3>4. Synced'
      BY <2>1, NextSynced
    <3>5. Subsets'
      BY <2>1, <3>1, <3>2, NextSubsets
    <3> QED
      BY <3>3, <3>4, <3>5
  <2> QED
    BY <2>1
<1>3. Replaying /\ Mapped /\ Mapped' /\ [Next]_vars => [Replication!Next]_Replication!vars
  BY NextReplays
<1> QED
  BY <1>1, <1>2, <1>3, PipelinePassed, PTL DEF Spec, ImplementsReplay, Replication!Spec
-----------------------------------------------------------------------------
\* The context that the job goes on with.
Seen == pipe # Nil /\ (Live \/ (Sub = "Done" /\ extra.partialTable = Nil))

\* How its position moves: it stays, falls to the checkpoint, or passes an upsert.
PosMoves ==
    \/ Seen /\ pipe'.pos = pipe.pos
    \/ pipe'.pos <= Ckpt'
    \/ Seen /\ pipe'.pos = pipe.pos + 1 /\ pipe.pos < pipe.next /\ log[pipe.pos + 1].kind = "UPSERT"

\* A step of the context that was seen keeps it.
LEMMA SamePos ==
    ASSUME Seen, pipe'.pos = pipe.pos
    PROVE  PosMoves
BY DEF PosMoves

\* A tick moves a stale context to the checkpoint only.
LEMMA EnterPos ==
    ASSUME Shape, Shape', EnterSync, Seen'
    PROVE  PosMoves
<1>1. /\ pipe # Nil /\ prog' = prog /\ extra'.partialTable = extra.partialTable
      /\ \/ pipe'.pos = pipe.pos
         \/ pipe'.pos = Ckpt
         \/ Ckpt > pipe.next /\ pipe'.pos = pipe.next
  BY EnterSyncEffect DEF Seen, Ckpt
<1>2. Seen
  BY <1>1 DEF Seen, Live, Sub
<1>3. Ckpt' = Ckpt
  BY <1>1 DEF Ckpt
<1>4. PICK c \in Nat : c = Ckpt
  BY Numbers
<1>5. PICK n \in Nat : n = pipe.next
  BY <1>1, Numbers
<1>6. pipe'.pos = pipe.pos \/ pipe'.pos <= c
  BY <1>1, <1>4, <1>5
<1> QED
  BY <1>2, <1>3, <1>4, <1>6 DEF PosMoves

\* A pipeline, or a handler, starts where the context is, or at the checkpoint.
LEMMA StartPos ==
    ASSUME Shape, Shape', StartPipeline \/ HandleBinlog
    PROVE  PosMoves
<1>1. /\ Sub = "Done" /\ extra.partialTable = Nil /\ IsDone(prog) /\ pipe' = InitializedContext
      /\ Keeps(prog, prog')
  BY StartPipelineEffect, HandleBinlogEffect DEF Same
<1>2. Ckpt' = Ckpt
  BY <1>1 DEF Keeps, Ckpt
<1>3. CASE pipe = Nil
  <2>1. pipe' = NewContext(prog.commitSeq)
    BY <1>1, <1>3, InitializedTyped
  <2>2. pipe'.pos = Ckpt
    BY <1>1, <2>1 DEF NewContext, IsDone, Ckpt
  <2>3. Ckpt <= Ckpt
    BY Numbers
  <2> QED
    BY <1>2, <2>2, <2>3 DEF PosMoves
<1>4. CASE pipe # Nil
  <2>1. pipe'.pos = pipe.pos
    BY <1>1, <1>4, InitializedTyped
  <2> QED
    BY <1>1, <1>4, <2>1 DEF PosMoves, Seen
<1> QED
  BY <1>3, <1>4

\* The position passes a handled binlog together with the checkpoint.
LEMMA FinishBinlogPos ==
    ASSUME Shape, Shape', FinishBinlog \/ FinishBinlogLockFails, Seen'
    PROVE  PosMoves
<1>1. /\ pc = "handled" /\ Ckpt' = prog.commitSeq
      /\ pipe' = pipe \/ pipe'.pos = pipe.pos + 1
  BY FinishBinlogEffect DEF Ckpt
<1>2. prog.commitSeq = pipe.pos + 1 /\ pipe # Nil
  BY <1>1, HandlingFacts
<1>3. PICK p \in Nat : p = pipe.pos
  BY <1>2, Numbers
<1>4. p <= p + 1 /\ p + 1 <= p + 1
  OBVIOUS
<1> QED
  BY <1>1, <1>2, <1>3, <1>4 DEF PosMoves

\* A fetch goes on where the last batch ended, or at what the source still has.
LEMMA FetchPos ==
    ASSUME Shape, Marks, GetNextBinlogs
    PROVE  PosMoves
<1>1. /\ Live /\ prog' = prog /\ pipe # Nil /\ pipe.pos = pipe.next
      /\ pipe'.pos \in {pipe.next, gc}
  BY FetchEffect
<1>2. gc <= Ckpt
  <2>1. PICK g \in 0..N, l \in 0..N, a \in 0..N : g = gc /\ l = locked /\ a = Ckpt
    BY Numbers
  <2>2. g <= l /\ l <= a /\ N \in Nat
    BY <2>1, ShapeFacts DEF Marks
  <2> QED
    BY <2>1, <2>2
<1>3. Ckpt' = Ckpt
  BY <1>1 DEF Ckpt
<1> QED
  BY <1>1, <1>2, <1>3 DEF PosMoves, Seen

\* What is outside the job moves no position.
LEMMA OutsidePos ==
    ASSUME Shape, Environment \/ WorkerStep \/ UNCHANGED vars, Seen'
    PROVE  PosMoves
<1>1. pipe' # Nil
  BY DEF Seen
<1>2. /\ prog' = prog /\ pipe # Nil /\ pipe'.pos = pipe.pos
      /\ extra'.partialTable = extra.partialTable
  <2>1. CASE Crash
    BY <1>1, <2>1 DEF Crash
  <2>2. CASE Environment /\ ~Crash
    BY <1>1, <2>2, EnvironmentEffect DEF Environment
  <2>3. CASE WorkerStep
    BY <2>3, WorkerTyped
  <2>4. CASE UNCHANGED vars
    BY <1>1, <2>4 DEF vars
  <2> QED
    BY <2>1, <2>2, <2>3, <2>4
<1>3. Seen
  BY <1>2 DEF Seen, Live, Sub
<1> QED
  BY <1>2, <1>3, SamePos

\* A snapshot ends beyond the context that is left from before it.
LEMMA SnapshotPos ==
    ASSUME Shape, Shape', Fresh, FinishFullSync \/ FinishPartialSync, Seen'
    PROVE  PosMoves
<1>1. pipe' = pipe /\ pipe # Nil /\ Snapshotting
  BY SnapshotEffect DEF Seen
<1>2. prog.syncState = "DBFullSync" /\ pipe.next <= asked
  BY <1>1 DEF Fresh
<1>3. prog'.prevCommitSeq \in SnapshotSeqs
  BY <1>2, SnapshotEffect
<1>4. PICK p \in 0..N, n \in 0..N, a \in 0..N : p = pipe.pos /\ n = pipe.next /\ a = asked
  BY <1>1, Numbers
<1>5. PICK c \in a..N : c = Ckpt'
  BY <1>3, <1>4 DEF SnapshotSeqs, Ckpt, N
<1>6. p <= n /\ N \in Nat
  BY <1>1, <1>4, Numbers
<1>7. p <= c
  BY <1>2, <1>4, <1>5, <1>6
<1> QED
  BY <1>1, <1>4, <1>5, <1>7 DEF PosMoves
-----------------------------------------------------------------------------
\* The actions that handle a binlog or take a snapshot leave a context where it is.
LEMMA DonePos ==
    ASSUME Shape, Seen',
           \/ StartPartialSnapshot \/ RecoverIncrementalSync \/ SkipByFullSync
           \/ SkipByPartialSync
           \/ HandleCommittedBinlog \/ ExecuteDDL \/ ExecuteDDLLosesReply
           \/ HandleBinlogFails \/ HandleBySnapshot
    PROVE  PosMoves
<1>1. pipe' # Nil
  BY DEF Seen
<1>2. pc = "handling" /\ pipe' = pipe
  BY <1>1, LeaveDoneEffect, ExecuteEffect, HandleBinlogFailsEffect, HandleBySnapshotEffect
<1>3. Seen
  BY <1>2, HandlingFacts DEF Seen
<1> QED
  BY <1>2, <1>3, SamePos

\* An action of a running pipeline moves the position past an upsert or not at all.
LEMMA RunPos ==
    ASSUME Shape, Ordered, Seen',
           \/ LeaveOnInterrupt \/ ConsumeInterruptSignals
           \/ NoMoreBinlogs \/ GetNextBinlogsFails \/ PanicOnStaleContext
           \/ NothingToLaunch \/ SkipUpsert \/ BeginTxn \/ BeginTxnFails
           \/ LaunchIngestJob \/ LaunchTriggersPartialSnapshot \/ LaunchIngestJobFails
           \/ TakeResult \/ FinishPipeline \/ LaunchMore \/ YieldPipeline
           \/ CommitTxn \/ CommitTxnFails \/ FinishCommit \/ FinishCommitLockFails
    PROVE  PosMoves
<1>1. pipe' # Nil
  BY DEF Seen
<1>2. CASE \/ LeaveOnInterrupt \/ ConsumeInterruptSignals \/ GetNextBinlogsFails
           \/ PanicOnStaleContext \/ BeginTxn \/ CommitTxn
  <2>1. pipe' = pipe /\ prog' = prog /\ extra' = extra
    BY <1>2 DEF LeaveOnInterrupt, ConsumeInterruptSignals, GetNextBinlogsFails,
                PanicOnStaleContext, BeginTxn, CommitTxn
  <2>2. Seen
    BY <2>1 DEF Seen, Live, Sub
  <2> QED
    BY <2>1, <2>2, SamePos
<1>3. CASE BeginTxnFails \/ LaunchIngestJobFails \/ CommitTxnFails
  BY <1>1, <1>3, BeginTxnFailsEffect, LaunchFailsEffect, CommitTxnFailsEffect
<1>4. CASE NoMoreBinlogs \/ FinishPipeline \/ LaunchMore \/ YieldPipeline
  <2>1. pipe' = pipe /\ Live
    BY <1>4, FinishPipelineEffect, LaunchMoreEffect, YieldPipelineEffect
       DEF NoMoreBinlogs, NeedsBinlogs, AtLoop, Live, LiveStates, Sub
  <2>2. Seen
    BY <1>1, <2>1 DEF Seen
  <2> QED
    BY <2>1, <2>2, SamePos
<1>5. CASE NothingToLaunch \/ SkipUpsert
  <2>1. /\ Live /\ pc # "idle"
        /\ \/ pipe' = pipe
           \/ HasUpsertBinlog(pipe) /\ pipe'.pos = pipe.pos + 1
    BY <1>5, SkippedEffect
  <2>2. Seen
    BY <2>1, LiveFacts DEF Seen
  <2> QED
    BY <2>1, <2>2 DEF PosMoves, HasUpsertBinlog, HasBinlogs
<1>6. CASE LaunchIngestJob \/ LaunchTriggersPartialSnapshot
  <2>1. /\ pc = "begun" /\ Sub = "LaunchTransaction" /\ pipe'.pos = pipe.pos + 1
        /\ pipe.pos + 1 <= pipe.next /\ log[pipe.pos + 1].kind = "UPSERT"
    BY <1>6, LaunchEffect
  <2>2. Seen
    BY <2>1, LiveFacts DEF Seen, Live, LiveStates
  <2>3. PICK p \in Nat, n \in Nat : p = pipe.pos /\ n = pipe.next
    BY <2>2, Numbers DEF Seen
  <2>4. p < n
    BY <2>1, <2>3
  <2> QED
    BY <2>1, <2>2, <2>3, <2>4 DEF PosMoves
<1>7. CASE TakeResult
  <2>1. Live /\ pipe # Nil /\ pipe'.pos = pipe.pos
    BY <1>1, <1>7, TakeResultEffect
  <2> QED
    BY <2>1, SamePos DEF Seen
<1>8. CASE FinishCommit \/ FinishCommitLockFails
  <2>1. pipe' = pipe /\ Sub = "CommitPipelineTransaction"
    BY <1>8, FinishCommitEffect
  <2> QED
    BY <1>1, <2>1, SamePos DEF Seen, Live, LiveStates
<1> QED
  BY <1>2, <1>3, <1>4, <1>5, <1>6, <1>7, <1>8

\* Every step moves the position of a context in one of these ways.
LEMMA NextPos ==
    ASSUME Shape, Shape', Ordered, Positions, [Next]_vars, Seen'
    PROVE  PosMoves
<1>1. Marks /\ Fresh
  BY DEF Positions
<1>2. CASE StartRollback \/ RollbackTxn \/ RollbackTxnFails
  <2>1. CASE StartRollback
    BY <2>1, StartRollbackEffect DEF Seen, Live, LiveStates
  <2>2. CASE RollbackTxn
    BY <2>2, RollbackTxnEffect, RollingFacts DEF Seen, Live, LiveStates
  <2>3. CASE RollbackTxnFails
    BY <2>3, RollingFacts DEF RollbackTxnFails, Sub, Seen, Live, LiveStates
  <2> QED
    BY <1>2, <2>1, <2>2, <2>3
<1>3. CASE FinishRollback
  <2>1. Sub = "RollbackPipeline" /\ Sub' = "Done" /\ pipe' = pipe /\ extra' = extra
    BY <1>3, FinishRollbackEffect
  <2>2. pipe # Nil /\ extra.partialTable = Nil
    BY <2>1 DEF Seen, Live, LiveStates
  <2> QED
    BY <2>1, <2>2 DEF Ordered
<1>4. CASE EnterSync
  BY <1>4, EnterPos
<1>5. CASE StartPipeline \/ HandleBinlog
  BY <1>5, StartPos
<1>6. CASE FinishBinlog \/ FinishBinlogLockFails
  BY <1>6, FinishBinlogPos
<1>7. CASE GetNextBinlogs
  BY <1>1, <1>7, FetchPos
<1>8. CASE FinishFullSync \/ FinishPartialSync
  BY <1>1, <1>8, SnapshotPos
<1>9. CASE Environment \/ WorkerStep \/ UNCHANGED vars
  BY <1>9, OutsidePos
<1> QED
  BY <1>2, <1>3, <1>4, <1>5, <1>6, <1>7, <1>8, <1>9, DonePos, RunPos
     DEF Next, JobStep, JobAction
-----------------------------------------------------------------------------
\* Since the checkpoint the context has consumed upserts only.
Plain(c) == \A s \in Ckpt + 1..c : log[s].kind = "UPSERT"

OnlyUpserts == Seen => Plain(pipe.pos)

\* The step of a pipeline past an upsert, and of a handler past any binlog, keeps it so.
LEMMA NextOnlyUpserts ==
    ASSUME Shape, Shape', Ordered, Positions, Carries, OnlyUpserts, [Next]_vars
    PROVE  OnlyUpserts'
<1>1. SUFFICES ASSUME Seen'
               PROVE  Plain(pipe.pos)'
  BY DEF OnlyUpserts
<1>2. PosMoves
  BY <1>1, NextPos
<1>3. PICK a \in 0..N : a = Ckpt
  BY Numbers
<1>4. PICK b \in Nat : b = Ckpt'
  BY NextNumbers
<1>5. PICK q \in Nat : q = pipe'.pos
  BY <1>1, NextNumbers DEF Seen
<1>6. a <= b /\ N \in Nat
  BY <1>3, <1>4, NextForward, Numbers
<1>7. SUFFICES ASSUME NEW s \in b + 1..q
               PROVE  log'[s].kind = "UPSERT"
  BY <1>4, <1>5 DEF Plain
<1>8. ~(q <= b)
  BY <1>7
<1>9. /\ Seen
      /\ \/ q = pipe.pos
         \/ q = pipe.pos + 1 /\ pipe.pos < pipe.next /\ log[pipe.pos + 1].kind = "UPSERT"
  BY <1>2, <1>4, <1>5, <1>8 DEF PosMoves
<1>10. PICK p \in 0..N, n \in 0..N : p = pipe.pos /\ n = pipe.next
  BY <1>9, Numbers DEF Seen
<1>11. CASE s \in a + 1..p
  <2>1. log[s].kind = "UPSERT"
    BY <1>3, <1>9, <1>10, <1>11 DEF OnlyUpserts, Plain
  <2>2. s \in 1..N
    BY <1>6, <1>10, <1>11
  <2> QED
    BY <2>1, <2>2 DEF Carries
<1>12. CASE s \notin a + 1..p
  <2>1. s = p + 1 /\ q = p + 1 /\ p < n
    BY <1>6, <1>7, <1>9, <1>10, <1>12
  <2>2. log[s].kind = "UPSERT"
    BY <1>9, <1>10, <2>1
  <2>3. s \in 1..N
    BY <1>6, <1>10, <2>1
  <2> QED
    BY <2>2, <2>3 DEF Carries
<1> QED
  BY <1>11, <1>12
-----------------------------------------------------------------------------
\* What a crash would bring back is what the job has in memory.
RowSync == KeepsSync(prog, disk)

\* No txn of a list is committed, except for the moment before the job writes that one down.
Unsettled == pc # "committed" =>
    /\ Uncommitted(Stored)
    /\ (Live \/ Sub = "RollbackPipeline") /\ Data # Nil => Uncommitted(Running)

\* A commit the job was not told of is never forgotten.
LEMMA LostStays ==
    ASSUME Shape, [Next]_vars, ~lost'
    PROVE  ~lost
<1>1. CASE JobStep
  <2>1. CASE \/ EnterSync \/ LeaveOnInterrupt \/ ConsumeInterruptSignals
             \/ StartPartialSnapshot \/ RecoverIncrementalSync \/ SkipByFullSync
             \/ SkipByPartialSync \/ StartPipeline \/ HandleBinlog \/ HandleCommittedBinlog
             \/ ExecuteDDL \/ ExecuteDDLLosesReply \/ HandleBinlogFails \/ HandleBySnapshot
    BY <2>1
       DEF EnterSync, LeaveOnInterrupt, ConsumeInterruptSignals, StartPartialSnapshot,
           RecoverIncrementalSync, SkipByFullSync, SkipByPartialSync, StartPipeline,
           HandleBinlog, HandleCommittedBinlog, ExecuteDDL, ExecuteDDLLosesReply,
           HandleBinlogFails, HandleBySnapshot
  <2>2. CASE \/ FinishBinlog \/ FinishBinlogLockFails \/ GetNextBinlogs \/ NoMoreBinlogs
             \/ GetNextBinlogsFails \/ PanicOnStaleContext \/ NothingToLaunch \/ SkipUpsert
             \/ BeginTxn \/ BeginTxnFails \/ LaunchIngestJob \/ LaunchTriggersPartialSnapshot
             \/ LaunchIngestJobFails
    BY <2>2
       DEF FinishBinlog, FinishBinlogLockFails, GetNextBinlogs, NoMoreBinlogs,
           GetNextBinlogsFails, PanicOnStaleContext, NothingToLaunch, SkipUpsert, BeginTxn,
           BeginTxnFails, LaunchIngestJob, LaunchTriggersPartialSnapshot, LaunchIngestJobFails
  <2>3. CASE CommitTxnFails
    BY <2>3, CommitTxnFailsEffect
  <2>4. CASE \/ TakeResult \/ FinishPipeline \/ LaunchMore \/ YieldPipeline \/ CommitTxn
             \/ FinishCommit \/ FinishCommitLockFails \/ StartRollback
             \/ RollbackTxn \/ RollbackTxnFails \/ FinishRollback \/ FinishFullSync
             \/ FinishPartialSync
    BY <2>4
       DEF TakeResult, FinishPipeline, LaunchMore, YieldPipeline, CommitTxn,
           FinishCommit, FinishCommitLockFails, StartRollback, RollbackTxn, RollbackTxnFails,
           FinishRollback, FinishFullSync, FinishPartialSync
  <2> QED
    BY <1>1, <2>1, <2>2, <2>3, <2>4 DEF JobStep, JobAction
<1>2. CASE Environment /\ ~Crash
  BY <1>2, EnvironmentEffect DEF Environment
<1>3. CASE Crash
  BY <1>3 DEF Crash
<1>4. CASE WorkerStep
  BY <1>4, WorkerTyped
<1>5. CASE UNCHANGED vars
  BY <1>5 DEF vars
<1> QED
  BY <1>1, <1>2, <1>3, <1>4, <1>5 DEF Next, Environment

\* Once a txn is committed the job writes it down, unless it crashes first.
LEMMA NextCommitted ==
    ASSUME Shape, [Next]_vars, pc = "committed", ~lost'
    PROVE  \/ pc' = "committed" /\ prog' = prog
           \/ FinishCommit \/ FinishCommitLockFails
<1>1. ~Snapshotting
  BY ShapeFacts DEF Control
<1>2. CASE JobStep
  <2>1. ~(FinishFullSync \/ FinishPartialSync)
    BY <1>1, SnapshotEffect
  <2>2. ~(\/ EnterSync \/ LeaveOnInterrupt \/ ConsumeInterruptSignals
          \/ StartPartialSnapshot \/ RecoverIncrementalSync \/ SkipByFullSync
          \/ SkipByPartialSync \/ StartPipeline \/ HandleBinlog \/ HandleCommittedBinlog
          \/ ExecuteDDL \/ ExecuteDDLLosesReply \/ HandleBinlogFails \/ HandleBySnapshot)
    BY DEF EnterSync, LeaveOnInterrupt, ConsumeInterruptSignals, StartPartialSnapshot,
           RecoverIncrementalSync, SkipByFullSync, SkipByPartialSync, StartPipeline,
           HandleBinlog, HandleCommittedBinlog, ExecuteDDL, ExecuteDDLLosesReply,
           HandleBinlogFails, HandleBySnapshot, AtLoop, AtDone, Handling
  <2>3. ~(\/ FinishBinlog \/ FinishBinlogLockFails \/ GetNextBinlogs \/ NoMoreBinlogs
          \/ GetNextBinlogsFails \/ PanicOnStaleContext \/ NothingToLaunch \/ SkipUpsert
          \/ BeginTxn \/ BeginTxnFails \/ LaunchIngestJob \/ LaunchTriggersPartialSnapshot
          \/ LaunchIngestJobFails)
    BY DEF FinishBinlog, FinishBinlogLockFails, GetNextBinlogs, NoMoreBinlogs,
           GetNextBinlogsFails, PanicOnStaleContext, NothingToLaunch, SkipUpsert, BeginTxn,
           BeginTxnFails, LaunchIngestJob, LaunchTriggersPartialSnapshot, LaunchIngestJobFails,
           NeedsBinlogs, NeedsTxn, MayLaunch, AtLoop
  <2>4. ~(\/ TakeResult \/ FinishPipeline \/ LaunchMore \/ YieldPipeline \/ CommitTxn
          \/ CommitTxnFails \/ StartRollback \/ RollbackTxn \/ RollbackTxnFails
          \/ FinishRollback)
    BY DEF TakeResult, FinishPipeline, LaunchMore, YieldPipeline, CommitTxn, CommitTxnFails,
           StartRollback, RollbackTxn, RollbackTxnFails, FinishRollback, NoResult, AtLoop
  <2> QED
    BY <1>2, <2>1, <2>2, <2>3, <2>4 DEF JobStep, JobAction
<1>3. CASE Environment /\ ~Crash
  BY <1>3, EnvironmentEffect DEF Environment
<1>4. CASE Crash
  BY <1>4 DEF Crash
<1>5. CASE WorkerStep
  BY <1>5, WorkerTyped
<1>6. CASE UNCHANGED vars
  BY <1>6 DEF vars
<1> QED
  BY <1>2, <1>3, <1>4, <1>5, <1>6 DEF Next, Environment

\* The lists of the next state hold no committed txn, once the job has noted the last commit.
LEMMA NextUnsettled ==
    ASSUME Shape, Shape', Ordered, Positions, Settles, Listing', Unsettled, [Next]_vars, ~lost'
    PROVE  Unsettled'
<1>1. SUFFICES ASSUME pc' # "committed"
               PROVE  /\ Uncommitted(Stored)'
                      /\ (Live' \/ Sub' = "RollbackPipeline") /\ Data' # Nil
                            => Uncommitted(Running)'
  BY DEF Unsettled, Uncommitted
<1>2. NoCommit
  BY <1>1, NextTarget DEF Commits
<1>3. ListsFollow
  BY <1>2, NextLists
<1>4. ASSUME NEW R, Follows(R)
      PROVE  Uncommitted(R)'
  <2>1. CASE UncommittedNext(R)
    BY <2>1 DEF UncommittedNext, Uncommitted
  <2>2. CASE Held(R) /\ Ckpt' = Ckpt
    <3>1. pc # "committed"
      <4>1. ASSUME pc = "committed"
            PROVE  FALSE
        <5>1. FinishCommit \/ FinishCommitLockFails
          BY <1>1, <4>1, NextCommitted
        <5>2. Ckpt < Ckpt'
          BY <5>1, CommitMarks DEF Positions
        <5> QED
          BY <2>2, <5>2, Numbers
      <4> QED
        BY <4>1
    <3>2. R \in Seq(TxnsAt(N, M))
      BY <2>2, HeldTyped
    <3>3. Uncommitted(R)
      <4>1. CASE R = <<>>
        BY <4>1 DEF Uncommitted
      <4>2. CASE R = Stored \/ (R = Running /\ Data # Nil /\ (Live \/ Sub = "RollbackPipeline"))
        BY <3>1, <4>2 DEF Unsettled
      <4> QED
        BY <2>2, <4>1, <4>2 DEF Held
    <3> QED
      BY <1>2, <3>2, <3>3, UncommittedKept
  <2> QED
    BY <1>4, <2>1, <2>2 DEF Follows
<1>5. PICK Q, P : Q = Stored' /\ P = Running'
  OBVIOUS
<1>6. Uncommitted(Q)'
  BY <1>3, <1>4, <1>5 DEF ListsFollow
<1>7. (Live' \/ Sub' = "RollbackPipeline") /\ Data' # Nil => Uncommitted(P)'
  BY <1>3, <1>4, <1>5 DEF ListsFollow
<1> QED
  BY <1>5, <1>6, <1>7 DEF Uncommitted

\* The rollback finds nothing to apply.
LEMMA RollbackIdle ==
    ASSUME Shape, Unsettled, RollbackTxn
    PROVE  prog' = prog /\ disk' = disk
<1>1. /\ pc = "rollback" /\ cursor < Len(Running) /\ disk' = disk
      /\ txns[Running[cursor + 1].txnId].status # "COMMITTED" => prog' = prog
  BY RollbackTxnEffect
<1>2. Sub = "RollbackPipeline" /\ Data # Nil /\ cursor + 1 \in 1..Len(Running)
  BY <1>1, RollingFacts, RollingTxn
<1>3. txns[Running[cursor + 1].txnId].status # "COMMITTED"
  BY <1>1, <1>2 DEF Unsettled, Uncommitted
<1> QED
  BY <1>1, <1>3

\* The progress in memory never gets ahead of the stored one.
LEMMA NextRowSync ==
    ASSUME Shape, Shape', Ordered, Positions, Unsettled, RowSync, [Next]_vars
    PROVE  RowSync'
<1>1. CASE Sub' # "RollbackPipeline"
  BY <1>1 DEF Shape, DiskFollows, RowSync, KeepsSync
<1>2. CASE Sub' = "RollbackPipeline"
  <2>1. CASE Steady
    BY <1>2, <2>1 DEF Steady, RowSync, KeepsSync
  <2>2. CASE RollbackTxn
    BY <2>2, RollbackIdle DEF RowSync, KeepsSync
  <2>3. ~(FinishBinlog \/ FinishBinlogLockFails \/ FinishCommit \/ FinishCommitLockFails
          \/ FinishFullSync \/ FinishPartialSync)
    BY <1>2, FinishBinlogEffect, FinishCommitEffect, SnapshotEffect
  <2> QED
    BY <2>1, <2>2, <2>3, NextSteady
<1> QED
  BY <1>1, <1>2
-----------------------------------------------------------------------------
\* What a step that applies a binlog does to each table.
LEMMA ApplyAppends ==
    ASSUME Shape, NEW r \in 1..N, NEW ts, Apply(r, ts)
    PROVE  \A t \in Tables :
             /\ dest[t].applied \in Seq(1..N) /\ dest'[t].base = dest[t].base
             /\ t \notin ts => dest'[t].applied = dest[t].applied
             /\ t \in ts => dest'[t].applied = Append(dest[t].applied, r)
<1>1. SUFFICES ASSUME NEW t \in Tables
               PROVE  /\ dest[t].applied \in Seq(1..N) /\ dest'[t].base = dest[t].base
                      /\ t \notin ts => dest'[t].applied = dest[t].applied
                      /\ t \in ts => dest'[t].applied = Append(dest[t].applied, r)
  OBVIOUS
<1>2. PICK d : d = dest[t]
  OBVIOUS
<1>3. d \in [base : 0..N, applied : Seq(1..N)]
  BY <1>2 DEF Shape, Typed, TargetTyped, N
<1>4. CASE t \notin ts
  <2>1. dest'[t] = d
    BY <1>2, <1>4 DEF Apply
  <2> QED
    BY <1>2, <1>3, <1>4, <2>1
<1>5. CASE t \in ts
  <2>1. dest'[t] = [d EXCEPT !.applied = Append(@, r)]
    BY <1>2, <1>5 DEF Apply
  <2>2. dest'[t].base = d.base /\ dest'[t].applied = Append(d.applied, r)
    BY <1>3, <2>1
  <2> QED
    BY <1>2, <1>3, <1>5, <2>2
<1> QED
  BY <1>4, <1>5

\* Only a snapshot moves the base of a table.
LEMMA BasesStay ==
    ASSUME Shape, [Next]_vars, ~(FinishFullSync \/ FinishPartialSync)
    PROVE  \A t \in Tables : dest'[t].base = dest[t].base
<1>1. CASE dest' = dest
  BY <1>1
<1>2. CASE Commits
  <2>1. pc = "loop" /\ Sub = "CommitPipelineTransaction"
        /\ Apply(Commitable.commitSeq, Commitable.tables)
    BY <1>2 DEF Commits
  <2>2. Commitable.commitSeq \in 1..N
    BY <2>1, CommitableFacts
  <2> QED
    BY <2>1, <2>2, ApplyAppends
<1>3. CASE ExecuteDDL \/ ExecuteDDLLosesReply
  <2>1. pc = "handling" /\ (dest' = dest \/ Apply(prog.commitSeq, log[prog.commitSeq].tables))
    BY <1>3, ExecuteEffect
  <2>2. prog.commitSeq \in 1..N
    BY <2>1, HandlingFacts
  <2> QED
    BY <1>1, <2>1, <2>2, ApplyAppends
<1> QED
  BY <1>1, <1>2, <1>3, NextTarget

\* What a restore brought is behind the checkpoint or behind the filter of the tables.
Bases == \A t \in Tables :
    \/ dest[t].base <= Ckpt
    \/ dest[t].base <= prog.tableCommitSeqMap[t] /\ prog.syncState # "DBIncrementalSync"

\* A snapshot sets the filter at what it restored.
LEMMA SnapshotBases ==
    ASSUME Shape, Shape', Marks, Fresh, Bases, FinishFullSync \/ FinishPartialSync
    PROVE  Bases'
<1>1. SUFFICES ASSUME NEW t \in Tables
               PROVE  \/ dest'[t].base <= Ckpt'
                      \/ /\ dest'[t].base <= prog'.tableCommitSeqMap[t]
                         /\ prog'.syncState # "DBIncrementalSync"
  BY DEF Bases, Ckpt
<1>2. prog'.syncState # "DBIncrementalSync"
  BY SnapshotEffect
<1>3. PICK b \in 0..N' : b = dest'[t].base
  BY DEF Shape, Typed, TargetTyped, N
<1>4. CASE prog'.tableCommitSeqMap[t] = b
  BY <1>2, <1>3, <1>4
<1>5. CASE dest'[t] = dest[t] /\ prog'.tableCommitSeqMap[t] = prog.tableCommitSeqMap[t]
  <2>1. PICK c \in 0..N, d \in 0..N' : c = Ckpt /\ d = Ckpt'
    BY Numbers, NextNumbers
  <2>2. c <= d
    BY <2>1, SnapshotMarks
  <2>3. b <= c \/ b <= prog.tableCommitSeqMap[t]
    BY <1>3, <1>5, <2>1 DEF Bases
  <2>4. b <= c => b <= d
    BY <2>1, <2>2
  <2> QED
    BY <1>2, <1>3, <1>5, <2>1, <2>3, <2>4
<1> QED
  BY <1>3, <1>4, <1>5, SnapshotEffect

\* A checkpoint drops the filter only when it is past all of it.
LEMMA CheckpointBases ==
    ASSUME Shape, Shape', Ordered, Positions, Bases, [Next]_vars,
           FinishBinlog \/ FinishBinlogLockFails \/ FinishCommit \/ FinishCommitLockFails
    PROVE  Bases'
<1>1. SUFFICES ASSUME NEW t \in Tables
               PROVE  \/ dest'[t].base <= Ckpt'
                      \/ /\ dest'[t].base <= prog'.tableCommitSeqMap[t]
                         /\ prog'.syncState # "DBIncrementalSync"
  BY DEF Bases, Ckpt
<1>2. PICK b \in 0..N : b = dest[t].base
  BY DEF Shape, Typed, TargetTyped, N
<1>3. dest'[t].base = b
  BY <1>2, FinishBinlogEffect, FinishCommitEffect DEF destVars
<1>4. PICK c \in 0..N, d \in 0..N' : c = Ckpt /\ d = Ckpt'
  BY Numbers, NextNumbers
<1>5. c <= d
  BY <1>4, NextForward
<1>6. PICK m \in 0..N, q \in 0..N' : m = prog.tableCommitSeqMap[t] /\ q = prog'.tableCommitSeqMap[t]
  BY Numbers, NextNumbers
<1>7. \/ prog'.syncState = prog.syncState /\ m <= q
      \/ m <= d
  <2>1. CASE FinishBinlog \/ FinishBinlogLockFails
    <3>1. /\ Ckpt' = prog.commitSeq
          /\ \/ /\ prog'.syncState = prog.syncState
                /\ prog'.tableCommitSeqMap = prog.tableCommitSeqMap
             \/ prog.tableCommitSeqMap[t] <= prog.commitSeq
      BY <2>1, FinishBinlogEffect DEF Ckpt
    <3>2. m <= m
      OBVIOUS
    <3> QED
      BY <1>4, <1>6, <3>1, <3>2
  <2>2. CASE FinishCommit \/ FinishCommitLockFails
    <3>1. /\ Ckpt' = Commitable.commitSeq
          /\ \/ /\ prog'.syncState = prog.syncState
                /\ prog.tableCommitSeqMap[t] <= prog'.tableCommitSeqMap[t]
             \/ prog.tableCommitSeqMap[t] <= Commitable.commitSeq
      BY <2>2, FinishCommitEffect DEF Ckpt
    <3> QED
      BY <1>4, <1>6, <3>1
  <2> QED
    BY <2>1, <2>2
<1>8. b <= c \/ (b <= m /\ prog.syncState # "DBIncrementalSync")
  BY <1>2, <1>4, <1>6 DEF Bases
<1>9. \/ b <= d
      \/ b <= q /\ prog'.syncState # "DBIncrementalSync"
  <2>1. CASE b <= c
    BY <1>4, <1>5, <2>1
  <2>2. CASE b <= m /\ m <= d
    BY <1>4, <1>6, <2>2
  <2>3. CASE b <= m /\ m <= q /\ prog'.syncState = prog.syncState
             /\ prog.syncState # "DBIncrementalSync"
    BY <1>6, <2>3
  <2> QED
    BY <1>7, <1>8, <2>1, <2>2, <2>3
<1> QED
  BY <1>3, <1>4, <1>6, <1>9

\* Where a table was restored to stays behind the checkpoint, or the map says it.
LEMMA NextBases ==
    ASSUME Shape, Shape', Ordered, Positions, Unsettled, RowSync, Bases, [Next]_vars
    PROVE  Bases'
<1>1. CASE FinishFullSync \/ FinishPartialSync
  BY <1>1, SnapshotBases DEF Positions
<1>2. CASE FinishBinlog \/ FinishBinlogLockFails \/ FinishCommit \/ FinishCommitLockFails
  BY <1>2, CheckpointBases
<1>3. CASE Steady /\ ~(FinishFullSync \/ FinishPartialSync)
  <2>1. /\ Ckpt' = Ckpt /\ prog'.tableCommitSeqMap = prog.tableCommitSeqMap
        /\ prog'.syncState = "DBIncrementalSync" => prog.syncState = "DBIncrementalSync"
    BY <1>3 DEF Steady, RowSync, KeepsSync
  <2>2. \A t \in Tables : dest'[t].base = dest[t].base
    BY <1>3, BasesStay
  <2> QED
    BY <2>1, <2>2 DEF Bases
<1>4. CASE RollbackTxn
  <2>1. prog' = prog /\ dest' = dest
    BY <1>4, RollbackIdle, RollbackTxnEffect
  <2> QED
    BY <2>1 DEF Bases, Ckpt
<1> QED
  BY <1>1, <1>2, <1>3, <1>4, NextSteady
-----------------------------------------------------------------------------
\* A listed txn brings what no restore of its tables had.
NewerThan(R) == \A k \in 1..Len(R) : \A t \in R[k].tables : dest[t].base < R[k].commitSeq

Newer == Live /\ pipe # Nil => NewerThan(Running)

\* A txn that is launched has the tables whose filter lets its binlog through.
LEMMA RelatedNewer ==
    ASSUME Shape, Bases, NEW s \in 1..N, Ckpt < s, NEW t \in RelatedTables(s)
    PROVE  t \in Tables /\ dest[t].base < s
<1>1. t \in log[s].tables /\ s > prog.tableCommitSeqMap[t]
  BY DEF RelatedTables
<1>2. t \in Tables
  BY <1>1, LogFacts
<1>3. PICK b \in 0..N, c \in 0..N, m \in 0..N :
         b = dest[t].base /\ c = Ckpt /\ m = prog.tableCommitSeqMap[t]
  BY <1>2, Numbers DEF Shape, Typed, TargetTyped, N
<1>4. b <= c \/ b <= m
  BY <1>2, <1>3 DEF Bases
<1>5. c < s /\ m < s /\ s \in Nat
  BY <1>1, <1>3, ShapeFacts
<1> QED
  BY <1>2, <1>3, <1>4, <1>5

\* A running txn is newer than the restore of each of its tables.
LEMMA NextNewer ==
    ASSUME Shape, Ordered, Positions, Bases, Newer, [Next]_vars
    PROVE  Newer'
<1>1. SUFFICES ASSUME Live', pipe' # Nil
               PROVE  NewerThan(Running)'
  BY DEF Newer
<1>2. RunsOn
  BY <1>1, NextRuns
<1>3. PICK S : S = Running'
  OBVIOUS
<1>4. NewerThan(S)'
  <2>1. CASE S = <<>>
    <3>1. 1..Len(S) = {}
      BY <2>1
    <3> QED
      BY <3>1 DEF NewerThan
  <2>2. CASE S # <<>>
    <3>1. Live /\ pipe # Nil /\ NewerThan(Running)
      BY <1>2, <1>3, <2>2 DEF RunsOn, Newer
    <3>2. Data # Nil /\ ~Snapshotting
      BY <3>1 DEF Shape, Control, Live, LiveStates, Snapshotting
    <3>3. PICK R \in Seq(TxnsAt(N, M)) : R = Running
      BY <3>2, ListTyped
    <3>4. \A t \in Tables : dest'[t].base = dest[t].base
      BY <3>2, BasesStay, SnapshotEffect
    <3>5. \A k \in 1..Len(R) : \A t \in R[k].tables : dest'[t].base < R[k].commitSeq
      <4>1. SUFFICES ASSUME NEW k \in 1..Len(R), NEW t \in R[k].tables
                     PROVE  dest'[t].base < R[k].commitSeq
        OBVIOUS
      <4>2. R[k] \in TxnsAt(N, M)
        BY ListTyped
      <4>3. t \in Tables
        BY <4>2 DEF TxnsAt
      <4> QED
        BY <3>1, <3>3, <3>4, <4>3 DEF NewerThan
    <3>6. CASE S = R
      BY <3>5, <3>6 DEF NewerThan
    <3>7. CASE R # <<>> /\ S = Tail(R)
      <4>1. \A k \in 1..Len(S) : k + 1 \in 1..Len(R) /\ S[k] = R[k + 1]
        BY <3>7
      <4> QED
        BY <3>5, <4>1 DEF NewerThan
    <3>8. CASE Grows(R, S)
      <4>1. PICK ctx \in TxnsAt(N, M) :
               /\ S = Append(R, ctx) /\ pc = "begun"
               /\ ctx.commitSeq = NextSeq /\ ctx.tables = RelatedTables(NextSeq)
        BY <3>8 DEF Grows
      <4>2. pc # "idle" /\ HasUpsertBinlog(pipe)
        BY <4>1 DEF Shape, Control
      <4>3. NextSeq \in 1..N /\ Ckpt < NextSeq
        BY <3>1, <4>2, NextToLaunch
      <4>4. \A t \in ctx.tables : dest'[t].base < ctx.commitSeq
        BY <3>4, <4>1, <4>3, RelatedNewer
      <4>5. /\ Len(R) \in Nat /\ Len(S) = Len(R) + 1 /\ S[Len(R) + 1] = ctx
            /\ \A k \in 1..Len(R) : S[k] = R[k]
        BY <4>1
      <4>6. \A k \in 1..Len(S) : k \in 1..Len(R) \/ k = Len(R) + 1
        BY <4>5
      <4> QED
        BY <3>5, <4>4, <4>5, <4>6 DEF NewerThan
    <3> QED
      BY <1>2, <1>3, <2>2, <3>3, <3>6, <3>7, <3>8 DEF RunsOn
  <2> QED
    BY <2>1, <2>2
<1> QED
  BY <1>3, <1>4 DEF NewerThan
-----------------------------------------------------------------------------
\* What the job knows of the binlog it is handling, or failed to handle, is left as it is.
KeepsSeqs ==
    /\ prog'.commitSeq = prog.commitSeq /\ prog'.unknownCommitSeq = prog.unknownCommitSeq
    /\ Ckpt' = Ckpt
    /\ pc' = "handling" => pc = "handling"

\* A progress that is kept, or asks for a snapshot, keeps what it knows of its binlog.
LEMMA SameSeqs ==
    ASSUME \/ Same(prog, prog') \/ prog' = prog
           \/ \E s : AsksFor(prog, prog', s),
           pc' # "handling" \/ pc' = pc
    PROVE  KeepsSeqs
BY DEF KeepsSeqs, Same, Keeps, KeepsSync, AsksFor, Ckpt

\* The other steps, by name.
LEMMA NextSeqs ==
    ASSUME Shape, Shape', Ordered, Marks, Unsettled, RowSync, [Next]_vars
    PROVE  \/ KeepsSeqs
           \/ HandleBinlog \/ BeginTxnFails
           \/ Sub = "Done" /\ ~IsDone(prog) /\ RollsBack(prog, prog') /\ pc' = "idle"
           \/ FinishBinlog \/ FinishBinlogLockFails \/ FinishCommit \/ FinishCommitLockFails
           \/ FinishFullSync \/ FinishPartialSync
<1>1. CASE EnterSync
  BY <1>1, EnterSyncEffect, SameSeqs
<1>2. CASE StartPartialSnapshot \/ RecoverIncrementalSync \/ SkipByFullSync \/ SkipByPartialSync
  <2>1. /\ Sub = "Done" /\ pc' = "idle"
        /\ (\E s : AsksFor(prog, prog', s)) \/ (~IsDone(prog) /\ RollsBack(prog, prog'))
    BY <1>2, LeaveDoneEffect
  <2> QED
    BY <2>1, SameSeqs
<1>3. CASE StartPipeline
  BY <1>3, StartPipelineEffect, SameSeqs
<1>4. CASE HandleCommittedBinlog \/ ExecuteDDL \/ ExecuteDDLLosesReply
  <2>1. Same(prog, prog') /\ pc' \in {"handled", "idle"}
    BY <1>4, ExecuteEffect
  <2> QED
    BY <2>1, SameSeqs
<1>5. CASE HandleBinlogFails \/ HandleBySnapshot
  <2>1. pc' = "idle" /\ (prog' = prog \/ \E s : AsksFor(prog, prog', s))
    BY <1>5, HandleBinlogFailsEffect, HandleBySnapshotEffect
  <2> QED
    BY <2>1, SameSeqs
<1>6. CASE NoMoreBinlogs
  <2>1. Same(prog, prog') /\ pc' = "fetched"
    BY <1>6, NoMoreBinlogsEffect DEF NoMoreBinlogs, Goto
  <2> QED
    BY <2>1, SameSeqs
<1>7. CASE NothingToLaunch \/ SkipUpsert
  <2>1. Same(prog, prog') /\ pc' = "loop"
    BY <1>7, SkippedEffect
  <2> QED
    BY <2>1, SameSeqs
<1>8. CASE LaunchIngestJob \/ LaunchTriggersPartialSnapshot
  <2>1. Same(prog, prog') /\ pc' = "loop"
    BY <1>8, LaunchEffect
  <2> QED
    BY <2>1, SameSeqs
<1>9. CASE LaunchIngestJobFails
  <2>1. pc' = "idle" /\ (Same(prog, prog') \/ \E s : AsksFor(prog, prog', s))
    BY <1>9, LaunchFailsEffect
  <2> QED
    BY <2>1, SameSeqs
<1>10. CASE TakeResult
  <2>1. /\ pc' \in {"loop", "idle"}
        /\ Same(prog, prog') \/ prog' = prog \/ \E s : AsksFor(prog, prog', s)
    BY <1>10, TakeResultEffect
  <2> QED
    BY <2>1, SameSeqs
<1>11. CASE FinishPipeline \/ LaunchMore
  <2>1. Same(prog, prog') /\ pc' = pc
    BY <1>11, FinishPipelineEffect, LaunchMoreEffect
  <2> QED
    BY <2>1, SameSeqs
<1>12. CASE YieldPipeline
  <2>1. /\ KeepsSync(prog, prog') /\ Ckpt' = prog.commitSeq /\ pc' = "idle"
        /\ prog'.unknownCommitSeq = prog.unknownCommitSeq /\ Sub = "CommitPipeline"
    BY <1>12, YieldPipelineEffect DEF Ckpt
  <2>2. prog.commitSeq = Ckpt
    BY <2>1 DEF Marks, Live, LiveStates
  <2> QED
    BY <2>1, <2>2 DEF KeepsSeqs, KeepsSync
<1>13. CASE CommitTxnFails
  BY <1>13, CommitTxnFailsEffect, SameSeqs
<1>14. CASE \/ LeaveOnInterrupt \/ ConsumeInterruptSignals \/ GetNextBinlogs
            \/ GetNextBinlogsFails \/ PanicOnStaleContext \/ BeginTxn \/ CommitTxn
            \/ RollbackTxnFails
  <2>1. prog' = prog /\ (pc' # "handling" \/ pc' = pc)
    BY <1>14
       DEF LeaveOnInterrupt, ConsumeInterruptSignals, GetNextBinlogs, GetNextBinlogsFails,
           PanicOnStaleContext, BeginTxn, CommitTxn, RollbackTxnFails, Goto
  <2> QED
    BY <2>1, SameSeqs
<1>15. CASE StartRollback
  <2>1. Same(prog, prog') /\ pc' = "rollback"
    BY <1>15, StartRollbackEffect
  <2> QED
    BY <2>1, SameSeqs
<1>16. CASE RollbackTxn
  BY <1>16, RollbackIdle, RollbackTxnEffect, SameSeqs
<1>17. CASE FinishRollback
  <2>1. Same(prog, prog') /\ pc' = "loop"
    BY <1>17, FinishRollbackEffect
  <2> QED
    BY <2>1, SameSeqs
<1>18. CASE Crash
  <2>1. prog' = disk /\ pc' = "idle"
    BY <1>18 DEF Crash, Goto
  <2>2. /\ disk.unknownCommitSeq = prog.unknownCommitSeq
        /\ disk.prevCommitSeq = prog.prevCommitSeq
    BY ShapeFacts DEF DiskFollows
  <2> QED
    BY <2>1, <2>2 DEF KeepsSeqs, RowSync, KeepsSync, Ckpt
<1>19. CASE (Environment /\ ~Crash) \/ WorkerStep \/ UNCHANGED vars
  <2>1. prog' = prog /\ pc' = pc
    BY <1>19, EnvironmentEffect, WorkerTyped DEF Environment, vars
  <2> QED
    BY <2>1, SameSeqs
<1> QED
  BY <1>1, <1>2, <1>3, <1>4, <1>5, <1>6, <1>7, <1>8, <1>9, <1>10, <1>11, <1>12, <1>13, <1>14,
     <1>15, <1>16, <1>17, <1>18, <1>19
     DEF Next, JobStep, JobAction, Environment
-----------------------------------------------------------------------------
\* The DDL x is in effect at the target but not in the progress: the job will come back to it,
\* over upserts that have reached every table, and finds it in effect.
Unrecorded(x) ==
    /\ log[x].kind \in {"RENAME_COLUMN", "TRUNCATE_TABLE"}
    /\ x = prog.commitSeq \/ (x = prog.unknownCommitSeq /\ prog.commitSeq = Ckpt)
    /\ pc = "handling" => x = prog.unknownCommitSeq
    /\ Plain(x - 1) /\ Passes(Ckpt, x - 1)
    /\ Live /\ pipe # Nil => Running = <<>>
    /\ Seen => pipe.pos < x

\* What was applied is behind the checkpoint, or about to be.
Noted(x) == x <= Ckpt \/ (pc = "committed" /\ x = Commitable.commitSeq) \/ Unrecorded(x)

Caught == \A t \in Tables : \A i \in 1..Len(dest[t].applied) : Noted(dest[t].applied[i])

\* What Applied makes of the progress.
LEMMA AppliedTyped ==
    ASSUME Shape, NEW t \in Tables
    PROVE  /\ dest[t].base \in 0..N /\ dest[t].applied \in Seq(1..N)
           /\ DOMAIN dest[t].applied = 1..Len(dest[t].applied)
           /\ \A i \in 1..Len(dest[t].applied) : dest[t].applied[i] \in 1..N
<1>1. dest[t].base \in 0..N /\ dest[t].applied \in Seq(1..N)
  BY DEF Shape, Typed, TargetTyped, N
<1>2. PICK n \in Nat : n = N
  BY ShapeFacts
<1>3. PICK q \in Seq(1..n) : q = dest[t].applied
  BY <1>1, <1>2
<1>4. DOMAIN q = 1..Len(q)
  OBVIOUS
<1>5. \A i \in 1..Len(q) : q[i] \in 1..n
  BY <1>4, SeqsOfSeq
<1> QED
  BY <1>1, <1>2, <1>3, <1>4, <1>5

\* An upsert after the checkpoint that its tables have got is filtered out.
LEMMA CoveredUnrelated ==
    ASSUME Shape, Bases, Caught, pc # "committed", NEW s \in 1..N, Ckpt < s,
           log[s].kind = "UPSERT", \A t \in log[s].tables : Covered(t, s)
    PROVE  RelatedTables(s) = {}
<1>1. SUFFICES ASSUME NEW t \in RelatedTables(s)
               PROVE  FALSE
  OBVIOUS
<1>2. t \in log[s].tables /\ t \in Tables /\ dest[t].base < s
  BY <1>1, RelatedNewer DEF RelatedTables
<1>3. PICK b \in 0..N, c \in 0..N : b = dest[t].base /\ c = Ckpt
  BY <1>2, AppliedTyped, Numbers
<1>4. ~(s <= b) /\ ~(s <= c)
  BY <1>2, <1>3
<1>5. Covered(t, s)
  BY <1>2
<1>6. PICK i \in DOMAIN dest[t].applied : dest[t].applied[i] = s
  BY <1>3, <1>4, <1>5 DEF Covered
<1>7. Noted(s)
  BY <1>2, <1>6, AppliedTyped DEF Caught
<1> QED
  BY <1>3, <1>4, <1>7 DEF Noted, Unrecorded

\* While a DDL is unrecorded the pipeline has nothing to launch and nothing to commit.
LEMMA NothingRelated ==
    ASSUME Shape, Positions, Bases, Caught, NEW x \in 1..N, Ckpt < x, Unrecorded(x),
           pc # "committed", pc # "idle", Live, HasUpsertBinlog(pipe)
    PROVE  RelatedTables(NextSeq) = {}
<1>1. /\ pipe # Nil /\ NextSeq \in 1..N /\ Ckpt < NextSeq
      /\ log[NextSeq].kind = "UPSERT" /\ NextSeq = pipe.pos + 1
  BY NextToLaunch
<1>2. PICK s \in 1..N : s = NextSeq
  BY <1>1
<1>3. PICK c \in 0..N, p \in 0..N : c = Ckpt /\ p = pipe.pos
  BY <1>1, Numbers
<1>4. p < x /\ s = p + 1 /\ c < s
  BY <1>1, <1>2, <1>3 DEF Seen, Unrecorded
<1>5. s # x
  BY <1>1, <1>2 DEF Unrecorded
<1>6. N \in Nat
  BY ShapeFacts
<1>7. s \in c + 1..x - 1
  BY <1>4, <1>5, <1>6
<1>8. \A t \in log[s].tables : Covered(t, s)
  BY <1>3, <1>7 DEF Unrecorded, Passes
<1> QED
  BY <1>1, <1>2, <1>8, CoveredUnrelated

\* While a handler's binlog is applied and not recorded, no txn begins or is committed.
LEMMA Quiet ==
    ASSUME Shape, Ordered, Positions, Bases, Caught, NEW x \in 1..N, Ckpt < x, Unrecorded(x)
    PROVE  pc \notin {"committed", "begun"} /\ ~BeginTxnFails
<1>1. pc # "committed"
  <2>1. SUFFICES ASSUME pc = "committed"
                 PROVE  FALSE
    OBVIOUS
  <2>2. Sub = "CommitPipelineTransaction"
    BY <2>1 DEF Shape, Control
  <2>3. Live
    BY <2>2 DEF Live, LiveStates
  <2> QED
    BY <2>1, <2>2, <2>3, CommitableFacts DEF Unrecorded
<1>2. pc # "begun"
  <2>1. SUFFICES ASSUME pc = "begun"
                 PROVE  FALSE
    OBVIOUS
  <2>2. Sub = "LaunchTransaction" /\ HasUpsertBinlog(pipe) /\ RelatedTables(NextSeq) # {}
    BY <2>1 DEF Shape, Control
  <2>3. Live
    BY <2>2 DEF Live, LiveStates
  <2> QED
    BY <2>1, <2>2, <2>3, NothingRelated
<1>3. ~BeginTxnFails
  <2>1. SUFFICES ASSUME BeginTxnFails
                 PROVE  FALSE
    OBVIOUS
  <2>2. Live /\ pc # "idle" /\ NeedsTxn
    BY <2>1, BeginTxnFailsEffect
  <2>3. HasUpsertBinlog(pipe) /\ RelatedTables(NextSeq) # {}
    BY <2>2 DEF NeedsTxn
  <2> QED
    BY <1>1, <2>2, <2>3, NothingRelated
<1> QED
  BY <1>1, <1>2, <1>3
-----------------------------------------------------------------------------
\* The next DDL the job handles is the one that is unrecorded.
LEMMA HandlesUnrecorded ==
    ASSUME Shape, Shape', Marks, Ahead, HandleBinlog,
           NEW x \in 1..N, Ckpt < x, Unrecorded(x)
    PROVE  prog'.commitSeq = x /\ prog'.unknownCommitSeq = x
<1>1. /\ Sub = "Done" /\ IsDone(prog) /\ extra.partialTable = Nil /\ UNCHANGED srcVars
      /\ pipe' = InitializedContext /\ HasNonUpsertBinlog(InitializedContext)
      /\ Keeps(prog, prog') /\ prog'.commitSeq = pipe'.pos + 1
  BY HandleBinlogEffect
<1>2. pipe' # Nil /\ Ckpt <= pipe'.pos /\ log[pipe'.pos + 1].kind # "UPSERT"
  BY <1>1, HandleBinlogMarks DEF HasNonUpsertBinlog
<1>3. PICK c \in 0..N : c = Ckpt
  BY Numbers
<1>4. PICK p \in 0..N' : p = pipe'.pos
  BY <1>2, NextNumbers
<1>5. c = prog.commitSeq
  BY <1>1, <1>3 DEF IsDone, Ckpt
<1>6. x = prog.unknownCommitSeq
  BY <1>3, <1>5 DEF Unrecorded
<1>7. p < x
  <2>1. CASE pipe = Nil
    <3>1. pipe' = NewContext(prog.commitSeq)
      BY <1>1, <2>1 DEF InitializedContext
    <3>2. p = c
      BY <1>4, <1>5, <3>1 DEF NewContext
    <3> QED
      BY <1>3, <3>2
  <2>2. CASE pipe # Nil
    <3>1. pipe'.pos = pipe.pos
      BY <1>1, <2>2, InitializedTyped
    <3> QED
      BY <1>1, <1>4, <2>2, <3>1 DEF Seen, Unrecorded
  <2> QED
    BY <2>1, <2>2
<1>8. p + 1 = x
  <2>1. SUFFICES ASSUME p + 1 # x
                 PROVE  FALSE
    OBVIOUS
  <2>2. N \in Nat /\ N' \in Nat /\ c <= p
    BY <1>2, <1>3, <1>4, ShapeFacts, NextNumbers
  <2>3. PICK s \in Nat : s = p + 1
    BY <1>4, <2>2
  <2>4. s \in c + 1..x - 1
    BY <1>3, <1>4, <1>7, <2>1, <2>2, <2>3
  <2>5. log[s].kind = "UPSERT"
    BY <1>3, <2>4 DEF Unrecorded, Plain
  <2> QED
    BY <1>2, <1>4, <2>3, <2>5
<1> QED
  BY <1>1, <1>4, <1>6, <1>8 DEF Keeps

\* What the job knows of the unrecorded DDL.
LEMMA NextKnown ==
    ASSUME Shape, Shape', Ordered, Positions, Unsettled, RowSync, Bases, Caught, [Next]_vars,
           ~FinishFullSync, NEW x \in 1..N, Unrecorded(x), Ckpt' < x
    PROVE  /\ x = prog'.commitSeq \/ (x = prog'.unknownCommitSeq /\ prog'.commitSeq = Ckpt')
           /\ pc' = "handling" => x = prog'.unknownCommitSeq
<1> USE DEF Positions
<1>1. PICK c \in 0..N, d \in 0..N', p \in 0..N :
         c = Ckpt /\ d = Ckpt' /\ p = prog.commitSeq
  BY Numbers, NextNumbers
<1>2. c <= d /\ d < x /\ c < x
  BY <1>1, NextForward
<1>3. Ckpt < x
  BY <1>1, <1>2
<1>4. pc \notin {"committed", "begun"} /\ ~BeginTxnFails
  BY <1>3, Quiet
<1>5. x = p \/ (x = prog.unknownCommitSeq /\ p = c)
  BY <1>1 DEF Unrecorded
<1>6. CASE KeepsSeqs
  BY <1>6 DEF KeepsSeqs, Unrecorded
<1>7. CASE HandleBinlog
  BY <1>3, <1>7, HandlesUnrecorded
<1>8. CASE Sub = "Done" /\ ~IsDone(prog) /\ RollsBack(prog, prog') /\ pc' = "idle"
  <2>1. p # c
    BY <1>1, <1>8 DEF IsDone, Ckpt, Sub
  <2>2. prog'.unknownCommitSeq = p /\ prog'.commitSeq = c /\ Ckpt' = c
    BY <1>1, <1>8 DEF RollsBack, Ckpt
  <2> QED
    BY <1>5, <1>8, <2>1, <2>2
<1>9. CASE FinishBinlog \/ FinishBinlogLockFails
  <2>1. pc = "handled" /\ Ckpt' = prog.commitSeq
    BY <1>9, FinishBinlogEffect DEF Ckpt
  <2>2. p = c
    BY <1>1, <1>2, <1>5, <2>1
  <2>3. /\ pipe # Nil /\ Sub = "Done" /\ pipe.pos < pipe.next /\ prog.commitSeq = pipe.pos + 1
    BY <2>1, HandlingFacts
  <2>4. ~Snapshotting /\ pc # "idle"
    BY <2>1, <2>3 DEF Snapshotting
  <2>5. PICK y \in 0..N, z \in 0..N : y = pipe.pos /\ z = pipe.next
    BY <2>3, Numbers
  <2>6. c <= y \/ y = z
    BY <1>1, <2>3, <2>4, <2>5 DEF Ahead
  <2>7. y < z /\ p = y + 1
    BY <1>1, <2>3, <2>5
  <2> QED
    BY <2>2, <2>6, <2>7
<1>10. CASE FinishCommit \/ FinishCommitLockFails
  BY <1>4, <1>10, FinishCommitEffect
<1>11. CASE FinishPartialSync
  <2>1. prog.syncState = "DBPartialSync"
    BY <1>11 DEF FinishPartialSync
  <2>2. /\ prog'.prevCommitSeq = prog'.commitSeq /\ pc' = "idle"
        /\ prog'.unknownCommitSeq = prog.unknownCommitSeq
        /\ prog'.commitSeq = prog.commitSeq
    BY <1>11, <2>1, SnapshotEffect
  <2>3. d = p
    BY <1>1, <2>2 DEF Ckpt
  <2> QED
    BY <1>1, <1>2, <1>5, <2>2, <2>3
<1> QED
  BY <1>4, <1>6, <1>7, <1>8, <1>9, <1>10, <1>11, NextSeqs

\* The upserts of a range stay upserts, also of a range that starts later.
LEMMA PlainKept ==
    ASSUME Shape, Carries, NEW a \in 0..N, NEW y \in 0..N,
           \A s \in a + 1..y : log[s].kind = "UPSERT", NEW b \in Nat, a <= b
    PROVE  \A s \in b + 1..y : log'[s].kind = "UPSERT"
<1> SUFFICES ASSUME NEW s \in b + 1..y
             PROVE  log'[s].kind = "UPSERT"
  OBVIOUS
<1>1. N \in Nat
  BY ShapeFacts
<1>2. s \in a + 1..y /\ s \in 1..N
  BY <1>1
<1> QED
  BY <1>2 DEF Carries

\* Until the checkpoint passes it, the unrecorded DDL stays the next one the job handles.
LEMMA NextUnrecorded ==
    ASSUME Shape, Shape', Ordered, Positions, Carries, Unsettled, RowSync, Bases, Caught,
           [Next]_vars, ~FinishFullSync, NEW x \in 1..N, Unrecorded(x), Ckpt' < x
    PROVE  Unrecorded(x)'
<1>1. PICK c \in 0..N, d \in 0..N' : c = Ckpt /\ d = Ckpt'
  BY Numbers, NextNumbers
<1>2. N \in Nat /\ N' \in Nat /\ d \in Nat /\ c <= d /\ d < x /\ c < x
  BY <1>1, NextForward, ShapeFacts, NextNumbers
<1>3. Ckpt < x
  BY <1>1, <1>2
<1>4. pc \notin {"committed", "begun"}
  BY <1>3, Quiet
<1>5. log'[x].kind \in {"RENAME_COLUMN", "TRUNCATE_TABLE"}
  BY DEF Unrecorded, Carries
<1>6. PICK y \in 0..N : y = x - 1
  BY <1>2
<1>7. Plain(y)' /\ Passes(d, y)'
  <2>1. \A s \in c + 1..y : log[s].kind = "UPSERT"
    BY <1>1, <1>6 DEF Unrecorded, Plain
  <2>2. \A s \in d + 1..y : log'[s].kind = "UPSERT"
    BY <1>2, <2>1, PlainKept
  <2>3. Passes(c, y)
    BY <1>1, <1>6 DEF Unrecorded
  <2>4. y \in Nat /\ y <= y
    BY <1>6
  <2>5. Passes(d, y)'
    BY <1>2, <2>3, <2>4, PassesKept
  <2> QED
    BY <1>1, <2>2, <2>5 DEF Plain
<1>8. ASSUME Live', pipe' # Nil
      PROVE  Running' = <<>>
  <2>1. RunsOn
    BY <1>8, NextRuns
  <2>2. CASE Live /\ pipe # Nil
    <3>1. Running = <<>>
      BY <2>2 DEF Unrecorded
    <3>2. ~Grows(Running, Running')
      BY <1>4 DEF Grows
    <3> QED
      BY <2>1, <3>1, <3>2 DEF RunsOn
  <2> QED
    BY <2>1, <2>2 DEF RunsOn
<1>9. ASSUME Seen'
      PROVE  pipe'.pos < x
  <2>1. PosMoves
    BY <1>9, NextPos
  <2>2. PICK q \in 0..N' : q = pipe'.pos
    BY <1>9, NextNumbers DEF Seen
  <2>3. CASE q <= d
    BY <1>2, <2>2, <2>3
  <2>4. CASE Seen /\ (q = pipe.pos \/ (q = pipe.pos + 1 /\ log[pipe.pos + 1].kind = "UPSERT"))
    <3>1. PICK p \in 0..N : p = pipe.pos
      BY <2>4, Numbers DEF Seen
    <3>2. p < x
      BY <2>4, <3>1 DEF Unrecorded
    <3>3. CASE q = p
      BY <2>2, <3>2, <3>3
    <3>4. CASE q = p + 1 /\ log[p + 1].kind = "UPSERT"
      <4>1. p + 1 # x
        BY <3>4 DEF Unrecorded
      <4>2. p + 1 < x
        BY <1>2, <3>1, <3>2, <4>1
      <4> QED
        BY <2>2, <3>4, <4>2
    <3> QED
      BY <2>4, <3>1, <3>3, <3>4
  <2> QED
    BY <1>1, <2>1, <2>2, <2>3, <2>4 DEF PosMoves
<1>10. /\ x = prog'.commitSeq \/ (x = prog'.unknownCommitSeq /\ prog'.commitSeq = Ckpt')
       /\ pc' = "handling" => x = prog'.unknownCommitSeq
  BY NextKnown
<1> QED
  BY <1>1, <1>5, <1>6, <1>7, <1>8, <1>9, <1>10 DEF Unrecorded
-----------------------------------------------------------------------------
\* The DDL that was just executed is the one that is unrecorded.
LEMMA ExecuteUnrecorded ==
    ASSUME Shape, Shape', Carries, Consumed, OnlyUpserts, ExecuteDDL \/ ExecuteDDLLosesReply,
           NEW x \in 1..N, x = prog.commitSeq
    PROVE  Unrecorded(x)'
<1>1. /\ pc = "handling" /\ pc' \in {"handled", "idle"}
      /\ UNCHANGED <<srcVars, pipe, extra>> /\ Same(prog, prog') /\ Sub' = Sub
  BY ExecuteEffect
<1>2. log[x].kind \in {"RENAME_COLUMN", "TRUNCATE_TABLE"}
  BY DEF ExecuteDDL, ExecuteDDLLosesReply, Handling
<1>3. /\ Sub = "Done" /\ pipe # Nil /\ extra.partialTable = Nil /\ x = pipe.pos + 1
  BY <1>1, HandlingFacts
<1>4. PICK p \in 0..N, c \in 0..N : p = pipe.pos /\ c = Ckpt
  BY <1>3, Numbers
<1>5. /\ p \in Nat /\ p <= p /\ x = p + 1 /\ p = x - 1 /\ p < x /\ c \in Nat /\ c <= c /\ N \in Nat
  BY <1>3, <1>4, ShapeFacts
<1>6. Ckpt' = c /\ prog'.commitSeq = x /\ ~Live' /\ pipe'.pos = p
  BY <1>1, <1>3, <1>4 DEF Same, Keeps, KeepsSync, Ckpt, Live, LiveStates
<1>7. Passes(c, p)'
  <2>1. Passes(c, p)
    BY <1>3, <1>4 DEF Consumed
  <2> QED
    BY <1>5, <2>1, PassesKept
<1>8. \A s \in c + 1..p : log'[s].kind = "UPSERT"
  <2>1. \A s \in c + 1..p : log[s].kind = "UPSERT"
    BY <1>3, <1>4 DEF OnlyUpserts, Seen, Plain
  <2> QED
    BY <1>5, <2>1, PlainKept
<1>9. log'[x].kind = log[x].kind
  BY DEF Carries
<1>10. PICK y \in 0..N : y = x - 1
  BY <1>4, <1>5
<1>11. y = p
  BY <1>5, <1>10
<1>12. Plain(y)' /\ Passes(Ckpt, y)'
  BY <1>6, <1>7, <1>8, <1>11 DEF Plain, Passes
<1>13. Passes(Ckpt, x - 1)'
  BY <1>10, <1>12 DEF Passes
<1>14. Plain(x - 1)'
  BY <1>10, <1>12 DEF Plain
<1> QED
  BY <1>1, <1>2, <1>5, <1>6, <1>9, <1>13, <1>14 DEF Unrecorded

\* What was applied stays behind the checkpoint, or about to be.
LEMMA NotedKept ==
    ASSUME Shape, Shape', Ordered, Positions, Carries, Unsettled, RowSync, Bases, Caught,
           [Next]_vars, ~FinishFullSync, ~lost', NEW x \in 1..N, Noted(x)
    PROVE  Noted(x)'
<1>1. PICK c \in 0..N, d \in 0..N' : c = Ckpt /\ d = Ckpt'
  BY Numbers, NextNumbers
<1>2. c <= d /\ x \in Nat
  BY <1>1, NextForward, ShapeFacts
<1>3. CASE x <= c
  BY <1>1, <1>2, <1>3 DEF Noted
<1>4. CASE pc = "committed" /\ x = Commitable.commitSeq
  <2>1. CASE pc' = "committed" /\ prog' = prog
    BY <1>4, <2>1 DEF Noted, Commitable
  <2>2. CASE FinishCommit \/ FinishCommitLockFails
    <3>1. Ckpt' = x
      BY <1>4, <2>2, FinishCommitEffect DEF Ckpt
    <3> QED
      BY <1>2, <3>1 DEF Noted
  <2> QED
    BY <1>4, <2>1, <2>2, NextCommitted
<1>5. CASE Unrecorded(x)
  <2>1. CASE x <= d
    BY <1>1, <2>1 DEF Noted
  <2>2. CASE ~(x <= d)
    <3>1. Ckpt' < x
      BY <1>1, <1>2, <2>2
    <3>2. Unrecorded(x)'
      BY <1>5, <3>1, NextUnrecorded
    <3> QED
      BY <3>2 DEF Noted
  <2> QED
    BY <2>1, <2>2
<1> QED
  BY <1>1, <1>3, <1>4, <1>5 DEF Noted

\* Every step keeps account of what was applied, unless the job is not told of a commit.
LEMMA NextCaught ==
    ASSUME Shape, Shape', Ordered, Positions, Carries, Consumed, OnlyUpserts, Unsettled, RowSync,
           Bases, Caught, [Next]_vars, ~lost'
    PROVE  Caught'
<1>1. SUFFICES ASSUME NEW t \in Tables, NEW q, q = dest'[t].applied, NEW i \in 1..Len(q)
               PROVE  Noted(q[i])'
  BY DEF Caught, Noted
<1>2. PICK n \in Nat : n = N
  BY ShapeFacts
<1>3. PICK a \in Seq(1..n) : a = dest[t].applied
  BY <1>2, AppliedTyped
<1>4. \A k \in 1..Len(a) : a[k] \in 1..N /\ Noted(a[k])
  BY <1>3, AppliedTyped DEF Caught
<1>5. CASE q = a /\ ~FinishFullSync
  BY <1>1, <1>4, <1>5, NotedKept
<1>6. CASE FinishFullSync \/ FinishPartialSync
  <2>1. FinishFullSync => prog.syncState = "DBFullSync"
    BY DEF FinishFullSync
  <2>2. \/ dest'[t].applied = <<>>
        \/ dest'[t] = dest[t] /\ ~FinishFullSync
    BY <1>6, <2>1, SnapshotEffect
  <2>3. q # <<>>
    BY <1>1
  <2> QED
    BY <1>1, <1>3, <1>5, <2>2, <2>3
<1>7. ASSUME NEW s \in 1..N, NEW ts, Apply(s, ts), Noted(s)', ~FinishFullSync
      PROVE  Noted(q[i])'
  <2>1. q = a \/ q = Append(a, s)
    BY <1>1, <1>3, <1>7, ApplyAppends
  <2>2. CASE q = Append(a, s)
    <3>1. Len(a) \in Nat /\ Len(q) = Len(a) + 1 /\ q[Len(a) + 1] = s
          /\ \A k \in 1..Len(a) : q[k] = a[k]
      BY <2>2, <1>2, <1>7
    <3>2. i \in 1..Len(a) \/ i = Len(a) + 1
      BY <1>1, <3>1
    <3>3. CASE i \in 1..Len(a)
      BY <1>4, <1>7, <3>1, <3>3, NotedKept
    <3>4. CASE i = Len(a) + 1
      BY <1>7, <3>1, <3>4
    <3> QED
      BY <3>2, <3>3, <3>4
  <2> QED
    BY <1>5, <1>7, <2>1, <2>2
<1>8. CASE Commits
  <2>1. /\ pc = "loop" /\ Sub = "CommitPipelineTransaction" /\ pc' = "committed" /\ prog' = prog
        /\ Apply(Commitable.commitSeq, Commitable.tables)
    BY <1>8 DEF Commits
  <2>2. PICK s \in 1..N : s = Commitable.commitSeq
    BY <2>1, CommitableFacts
  <2>3. Commitable'.commitSeq = s
    BY <2>1, <2>2 DEF Commitable
  <2>4. Noted(s)'
    BY <2>1, <2>3 DEF Noted
  <2>5. ~FinishFullSync
    BY <2>1, SnapshotEffect
  <2> QED
    BY <1>7, <2>1, <2>2, <2>4, <2>5
<1>9. CASE ExecuteDDL \/ ExecuteDDLLosesReply
  <2>1. /\ pc = "handling" /\ Apply(prog.commitSeq, log[prog.commitSeq].tables)
    BY <1>9, ExecuteEffect DEF ExecuteDDL, ExecuteDDLLosesReply
  <2>2. PICK s \in 1..N : s = prog.commitSeq
    BY <2>1, HandlingFacts
  <2>3. Unrecorded(s)'
    BY <1>9, <2>2, ExecuteUnrecorded
  <2>4. Noted(s)' /\ ~FinishFullSync
    BY <2>1, <2>3, SnapshotEffect DEF Noted
  <2> QED
    BY <1>7, <2>1, <2>2, <2>4
<1>10. CASE dest' = dest /\ ~(FinishFullSync \/ FinishPartialSync)
  BY <1>1, <1>3, <1>5, <1>10
<1> QED
  BY <1>6, <1>8, <1>9, <1>10, NextTarget
-----------------------------------------------------------------------------
\* The binlogs of a table after a restore up to b, as AppliedOnce wants them.
OnceIn(b, q) == \A i \in 1..Len(q) :
    log[q[i]].kind # "TRUNCATE_TABLE" => b < q[i] /\ \A k \in 1..i - 1 : q[k] < q[i]

Once == \A t \in Tables : OnceIn(dest[t].base, dest[t].applied)

\* It is what AppliedOnce says of every table.
LEMMA OnceIsAppliedOnce ==
    ASSUME Shape
    PROVE  Once <=> AppliedOnce
BY AppliedTyped DEF Once, OnceIn, AppliedOnce

\* A log that grows keeps it.
LEMMA OnceKept ==
    ASSUME Shape, Carries, NEW b, NEW q \in Seq(1..N), OnceIn(b, q)
    PROVE  OnceIn(b, q)'
<1>1. PICK n \in Nat : n = N
  BY ShapeFacts
<1>2. \A i \in 1..Len(q) : q[i] \in 1..N
  BY <1>1, SeqsOfSeq
<1>3. \A i \in 1..Len(q) : log'[q[i]] = log[q[i]]
  BY <1>2 DEF Carries
<1> QED
  BY <1>3 DEF OnceIn

\* A binlog newer than the restore and than all the others may be applied.
LEMMA OnceAppended ==
    ASSUME Shape, Carries, NEW b, NEW q \in Seq(1..N), OnceIn(b, q),
           NEW s \in 1..N,
           log[s].kind # "TRUNCATE_TABLE" => b < s /\ \A k \in 1..Len(q) : q[k] < s,
           NEW r, r = Append(q, s)
    PROVE  OnceIn(b, r)'
<1>1. PICK n \in Nat : n = N
  BY ShapeFacts
<1>2. /\ Len(q) \in Nat /\ Len(r) = Len(q) + 1 /\ r[Len(q) + 1] = s
      /\ \A k \in 1..Len(q) : r[k] = q[k]
  BY <1>1
<1>3. SUFFICES ASSUME NEW i \in 1..Len(r), log'[r[i]].kind # "TRUNCATE_TABLE"
               PROVE  b < r[i] /\ \A k \in 1..i - 1 : r[k] < r[i]
  BY DEF OnceIn
<1>4. CASE i \in 1..Len(q)
  <2>1. OnceIn(b, q)'
    BY OnceKept
  <2>2. r[i] = q[i]
    BY <1>2, <1>4
  <2>3. \A k \in 1..i - 1 : k \in 1..Len(q)
    BY <1>2, <1>4
  <2>4. \A k \in 1..i - 1 : r[k] = q[k]
    BY <1>2, <2>3
  <2>5. b < q[i] /\ \A k \in 1..i - 1 : q[k] < q[i]
    BY <1>3, <1>4, <2>1, <2>2 DEF OnceIn
  <2> QED
    BY <2>2, <2>4, <2>5
<1>5. CASE i = Len(q) + 1
  <2>1. r[i] = s
    BY <1>2, <1>5
  <2>2. log'[s] = log[s]
    BY DEF Carries
  <2>3. b < s /\ \A k \in 1..Len(q) : q[k] < s
    BY <1>3, <2>1, <2>2
  <2>4. \A k \in 1..i - 1 : k \in 1..Len(q)
    BY <1>2, <1>5
  <2>5. \A k \in 1..i - 1 : r[k] = q[k] /\ q[k] < s
    BY <1>2, <2>3, <2>4
  <2> QED
    BY <2>1, <2>3, <2>5
<1>6. i \in 1..Len(q) \/ i = Len(q) + 1
  BY <1>2, <1>3
<1> QED
  BY <1>4, <1>5, <1>6

\* The txn whose turn it is comes after all that was applied.
LEMMA CommitNewer ==
    ASSUME Shape, Shape', Ordered, Positions, Newer, Caught, Commits,
           NEW s, s = Commitable.commitSeq, NEW t \in Commitable.tables
    PROVE  /\ t \in Tables /\ dest[t].base < s
           /\ \A k \in 1..Len(dest[t].applied) : dest[t].applied[k] < s
<1>1. Live /\ Sub = "CommitPipelineTransaction" /\ pc = "loop" /\ pipe # Nil
  BY DEF Commits
<1>2. t \in Tables /\ s \in 1..N
  BY <1>1, CommitableFacts
<1>3. PICK R \in Seq(TxnsAt(N, M)) : R = Running
  BY <1>1, CommitableFacts
<1>4. 1 \in 1..Len(R) /\ Commitable = R[1] /\ Ckpt < s
  BY <1>3, CommitsListed DEF Positions
<1>5. dest[t].base < s
  BY <1>1, <1>3, <1>4 DEF Newer, NewerThan
<1>6. ASSUME NEW k \in 1..Len(dest[t].applied)
      PROVE  dest[t].applied[k] < s
  <2>1. PICK a \in 1..N : a = dest[t].applied[k]
    BY <1>2, AppliedTyped
  <2>2. Noted(a)
    BY <1>2, <2>1 DEF Caught
  <2>3. ~Unrecorded(a)
    BY <1>1, <1>3, <1>4 DEF Unrecorded
  <2>4. a <= Ckpt
    BY <1>1, <2>2, <2>3 DEF Noted
  <2>5. PICK c \in 0..N : c = Ckpt
    BY Numbers
  <2>6. a < s
    BY <1>2, <1>4, <2>4, <2>5, ShapeFacts
  <2> QED
    BY <2>1, <2>6
<1> QED
  BY <1>2, <1>5, <1>6

\* So does a DDL whose effect could have been recognised.
LEMMA ExecuteNewer ==
    ASSUME Shape, Positions, Bases, Caught, ExecuteDDL \/ ExecuteDDLLosesReply,
           NEW s, s = prog.commitSeq, log[s].kind # "TRUNCATE_TABLE", NEW t \in log[s].tables
    PROVE  /\ t \in Tables /\ dest[t].base < s
           /\ \A k \in 1..Len(dest[t].applied) : dest[t].applied[k] < s
<1>1. /\ pc = "handling" /\ ~IsAlreadyHandled /\ log[s].kind = "RENAME_COLUMN"
  BY DEF ExecuteDDL, ExecuteDDLLosesReply, Handling
<1>2. /\ Sub = "Done" /\ pipe # Nil /\ pipe.pos < pipe.next /\ s = pipe.pos + 1 /\ s \in 1..N
      /\ log[s].tables \subseteq Tables /\ \E u \in Tables : log[s].tables = {u}
  BY <1>1, HandlingFacts
<1>3. t \in Tables /\ log[s].tables = {t}
  BY <1>2
<1>4. PICK c \in 0..N, p \in 0..N, n \in 0..N : c = Ckpt /\ p = pipe.pos /\ n = pipe.next
  BY <1>2, Numbers
<1>5. c < s
  <2>1. ~Snapshotting /\ pc # "idle"
    BY <1>1, <1>2 DEF Snapshotting
  <2>2. c <= p \/ p = n
    BY <1>1, <1>2, <1>4, <2>1 DEF Positions, Ahead
  <2>3. p < n /\ s = p + 1
    BY <1>2, <1>4
  <2> QED
    BY <2>2, <2>3
<1>6. dest[t].base < s
  <2>1. ~IsBinlogCommitted(s)
    BY <1>3 DEF IsAlreadyHandled, ExecuteDDL, ExecuteDDLLosesReply
  <2>2. prog.syncState = "DBTablesIncrementalSync" => ~(s <= prog.tableCommitSeqMap[t])
    BY <1>3, <2>1 DEF IsBinlogCommitted
  <2>3. prog.syncState \in {"DBTablesIncrementalSync", "DBIncrementalSync"}
    BY <1>2, ShapeFacts DEF SyncOK, Sub, IsIncrementalSync
  <2>4. PICK b \in 0..N, m \in 0..N : b = dest[t].base /\ m = prog.tableCommitSeqMap[t]
    BY <1>3, AppliedTyped, Numbers
  <2>5. b <= c \/ (b <= m /\ ~(s <= m))
    BY <1>3, <1>4, <2>2, <2>3, <2>4 DEF Bases
  <2>6. b < s
    BY <1>2, <1>5, <2>5, ShapeFacts
  <2> QED
    BY <2>4, <2>6
<1>7. ASSUME NEW k \in 1..Len(dest[t].applied)
      PROVE  dest[t].applied[k] < s
  <2>1. PICK a \in 1..N : a = dest[t].applied[k]
    BY <1>3, AppliedTyped
  <2>2. Noted(a)
    BY <1>3, <2>1 DEF Caught
  <2>3. ~Unrecorded(a)
    <3>1. SUFFICES ASSUME Unrecorded(a)
                   PROVE  FALSE
      OBVIOUS
    <3>2. s # c
      BY <1>4, <1>5
    <3>3. a = prog.unknownCommitSeq /\ a = s
      BY <1>1, <1>4, <3>1, <3>2 DEF Unrecorded
    <3>4. Covered(t, s)
      BY <1>3, <2>1, <3>3, AppliedTyped DEF Covered
    <3>5. IsBinlogStateUnknown /\ DetermineBinlogState
      BY <1>1, <1>3, <3>3, <3>4 DEF IsBinlogStateUnknown, DetermineBinlogState
    <3> QED
      BY <1>1, <3>5 DEF IsAlreadyHandled
  <2>4. a <= c
    BY <1>1, <1>4, <2>2, <2>3 DEF Noted
  <2>5. a < s
    BY <1>2, <1>5, <2>4, ShapeFacts
  <2> QED
    BY <2>1, <2>5
<1> QED
  BY <1>3, <1>6, <1>7

\* Every step that changes the target keeps each table's binlogs applied once.
LEMMA NextOnce ==
    ASSUME Shape, Shape', Ordered, Positions, Carries, Bases, Newer, Caught, Once, [Next]_vars
    PROVE  Once'
<1>1. SUFFICES ASSUME NEW t \in Tables, NEW b, b = dest'[t].base, NEW q, q = dest'[t].applied
               PROVE  OnceIn(b, q)'
  BY DEF Once, OnceIn
<1>2. /\ dest[t].applied \in Seq(1..N) /\ OnceIn(dest[t].base, dest[t].applied)
  BY AppliedTyped DEF Once
<1>3. PICK a \in Seq(1..N) : a = dest[t].applied
  BY <1>2
<1>4. PICK c : c = dest[t].base
  OBVIOUS
<1>5. CASE b = c /\ q = a
  BY <1>2, <1>3, <1>4, <1>5, OnceKept
<1>6. ASSUME NEW s \in 1..N, NEW ts, Apply(s, ts),
             t \in ts /\ log[s].kind # "TRUNCATE_TABLE" =>
                c < s /\ \A k \in 1..Len(a) : a[k] < s
      PROVE  OnceIn(b, q)'
  <2>1. b = c /\ (q = a \/ (t \in ts /\ q = Append(a, s)))
    BY <1>1, <1>3, <1>4, <1>6, ApplyAppends
  <2>2. CASE t \in ts /\ q = Append(a, s)
    <3>1. log[s].kind # "TRUNCATE_TABLE" => c < s /\ \A k \in 1..Len(a) : a[k] < s
      BY <1>6, <2>2
    <3>2. OnceIn(c, a)
      BY <1>2, <1>3, <1>4
    <3>3. OnceIn(c, q)'
      BY <2>2, <3>1, <3>2, OnceAppended
    <3> QED
      BY <2>1, <3>3
  <2> QED
    BY <1>5, <2>1, <2>2
<1>7. CASE FinishFullSync \/ FinishPartialSync
  <2>1. q = <<>> \/ (b = c /\ q = a)
    BY <1>1, <1>3, <1>4, <1>7, SnapshotEffect
  <2>2. CASE q = <<>>
    <3>1. 1..Len(q) = {}
      BY <2>2
    <3> QED
      BY <3>1 DEF OnceIn
  <2> QED
    BY <1>5, <2>1, <2>2
<1>8. CASE Commits
  <2>1. /\ pc = "loop" /\ Sub = "CommitPipelineTransaction"
        /\ Apply(Commitable.commitSeq, Commitable.tables)
    BY <1>8 DEF Commits
  <2>2. PICK s \in 1..N : s = Commitable.commitSeq
    BY <2>1, CommitableFacts
  <2>3. t \in Commitable.tables => c < s /\ \A k \in 1..Len(a) : a[k] < s
    BY <1>3, <1>4, <1>8, <2>2, CommitNewer
  <2>4. Apply(s, Commitable.tables)
    BY <2>1, <2>2
  <2> QED
    BY <1>6, <2>3, <2>4
<1>9. CASE ExecuteDDL \/ ExecuteDDLLosesReply
  <2>1. /\ pc = "handling" /\ Apply(prog.commitSeq, log[prog.commitSeq].tables)
    BY <1>9, ExecuteEffect DEF ExecuteDDL, ExecuteDDLLosesReply
  <2>2. PICK s \in 1..N : s = prog.commitSeq
    BY <2>1, HandlingFacts
  <2>3. t \in log[s].tables /\ log[s].kind # "TRUNCATE_TABLE" =>
           c < s /\ \A k \in 1..Len(a) : a[k] < s
    BY <1>3, <1>4, <1>9, <2>2, ExecuteNewer
  <2>4. Apply(s, log[s].tables)
    BY <2>1, <2>2
  <2> QED
    BY <1>6, <2>3, <2>4
<1>10. CASE dest' = dest
  BY <1>1, <1>3, <1>4, <1>5, <1>10
<1> QED
  BY <1>7, <1>8, <1>9, <1>10, NextTarget
-----------------------------------------------------------------------------
\* As long as no commit is lost, everything a table was given is in its order, and everything the
\* job still has to do is newer.
InOrder == RowSync /\ Unsettled /\ Bases /\ Newer /\ Caught /\ Once

OnceHolds == OnlyUpserts /\ (~lost => InOrder)

\* Initially nothing is applied, and the filters start where the tables were restored.
LEMMA InitOnce ==
    ASSUME Init
    PROVE  OnceHolds
<1>1. PICK seqs \in [Tables -> 1..Len(log)] :
         /\ dest = [t \in Tables |-> [base |-> seqs[t], applied |-> <<>>]]
         /\ prog = InitialProgress(seqs) /\ disk = prog
  BY DEF Init
<1>2. /\ pipe = Nil /\ prog.subSyncState = "Done" /\ prog.syncState = "DBTablesIncrementalSync"
      /\ prog.persistData = EmptyData /\ prog.tableCommitSeqMap = seqs
  BY <1>1 DEF Init, InitialProgress
<1>3. Sub = "Done" /\ ~Live /\ Stored = <<>>
  BY <1>2, EmptyRuns DEF Sub, Live, LiveStates, Stored
<1>4. \A t \in Tables : dest[t].base = seqs[t] /\ dest[t].applied = <<>>
  BY <1>1
<1>5. OnlyUpserts
  BY <1>2 DEF OnlyUpserts, Seen
<1>6. RowSync
  BY <1>1 DEF RowSync, KeepsSync
<1>7. Unsettled
  BY <1>3 DEF Unsettled, Uncommitted
<1>8. Bases
  <2>1. SUFFICES ASSUME NEW t \in Tables
                 PROVE  /\ dest[t].base <= prog.tableCommitSeqMap[t]
                        /\ prog.syncState # "DBIncrementalSync"
    BY DEF Bases
  <2>2. PICK s \in Nat : s = seqs[t]
    BY InitShape, ShapeFacts
  <2>3. dest[t].base = s /\ prog.tableCommitSeqMap[t] = s
    BY <1>2, <1>4, <2>2
  <2> QED
    BY <1>2, <2>3
<1>9. Newer
  BY <1>3 DEF Newer
<1>10. Caught /\ Once
  BY <1>4 DEF Caught, Once, OnceIn
<1> QED
  BY <1>5, <1>6, <1>7, <1>8, <1>9, <1>10 DEF OnceHolds, InOrder

\* Every step that loses no commit keeps the order.
LEMMA NextInOrder ==
    ASSUME Replaying, Replaying', OnlyUpserts, InOrder, [Next]_vars, ~lost'
    PROVE  InOrder'
<1>1. /\ Shape /\ Shape' /\ Ordered /\ Positions /\ Consumed /\ Listing'
      /\ RowSync /\ Unsettled /\ Bases /\ Newer /\ Caught /\ Once
  BY DEF Replaying, Positions, Passed, InOrder
<1>2. Carries
  BY <1>1, NextCarries DEF Positions
<1>3. Settles
  BY <1>1, NextSettles
<1>4. RowSync'
  BY <1>1, NextRowSync
<1>5. Unsettled'
  BY <1>1, <1>3, NextUnsettled
<1>6. Bases'
  BY <1>1, NextBases
<1>7. Newer'
  BY <1>1, NextNewer
<1>8. Caught'
  BY <1>1, <1>2, NextCaught
<1>9. Once'
  BY <1>1, <1>2, NextOnce
<1> QED
  BY <1>4, <1>5, <1>6, <1>7, <1>8, <1>9 DEF InOrder

\* A table gets every binlog once, after those before it and after its snapshot, unless a commit
\* took effect and its answer was lost; only a repeated TRUNCATE TABLE is harmless.
THEOREM PipelineAppliesOnce == Spec => []AppliedOnceUnlessLost
<1>1. Init => OnceHolds
  BY InitOnce
<1>2. Replaying /\ Replaying' /\ OnceHolds /\ [Next]_vars => OnceHolds'
  <2>1. ASSUME Replaying, Replaying', OnceHolds, [Next]_vars PROVE OnceHolds'
    <3>1. /\ Shape /\ Shape' /\ Ordered /\ Positions /\ OnlyUpserts
      BY <2>1 DEF Replaying, OnceHolds
    <3>2. Carries
      BY <2>1, <3>1, NextCarries DEF Positions
    <3>3. OnlyUpserts'
      BY <2>1, <3>1, <3>2, NextOnlyUpserts
    <3>4. ASSUME ~lost' PROVE InOrder'
      <4>1. ~lost
        BY <2>1, <3>1, <3>4, LostStays
      <4>2. InOrder
        BY <2>1, <4>1 DEF OnceHolds
      <4> QED
        BY <2>1, <3>1, <3>4, <4>2, NextInOrder
    <3> QED
      BY <3>3, <3>4 DEF OnceHolds
  <2> QED
    BY <2>1
<1>3. Replaying /\ OnceHolds => AppliedOnceUnlessLost
  BY OnceIsAppliedOnce DEF Replaying, OnceHolds, InOrder, AppliedOnceUnlessLost
<1> QED
  BY <1>1, <1>2, <1>3, PipelinePassed, PTL DEF Spec
=============================================================================
