---------------------------- MODULE PipelineProofs ----------------------------
(***************************************************************************)
(* What Pipeline keeps, for every set of tables, every log of binlogs,     *)
(* every set of faults and bound on them, and any length of a run.         *)
(*                                                                         *)
(* The inductive invariant is built in strata, each of which uses those    *)
(* below it.                                                               *)
(*                                                                         *)
(* 1. Shape: the types, with every commit seq within the log and every txn *)
(*    among those begun, and what the job's state says of the syncer's     *)
(*    program point, its context and its in-memory data.                   *)
(* 2. Ordered: how the workers of a context, the results they handed over  *)
(*    and the txns the job has listed line up.                             *)
(* 3. Resolved: the txns still open on the target are among those the      *)
(*    stored progress remembers, while no fault makes a worker forget one. *)
(*                                                                         *)
(* Between 1 and 2 stand the lemmas named "...Effect": what each action    *)
(* changes of the variables the later strata are about, so that these need *)
(* not expand the actions again.                                           *)
(***************************************************************************)
EXTENDS Pipeline, TLAPS, WellFoundedInduction
\* The types, with every commit seq within a log of n binlogs and every txn among m.
TxnsAt(n, m) == [txnId : 1..m, commitSeq : 1..n, tables : SUBSET Tables]
DataAt(n, m) == [running : Seq(TxnsAt(n, m)), commitable : TxnsAt(n, m) \cup {Nil}]
ProgressAt(n, m) ==
    [syncState : SyncStates, subSyncState : SubSyncStates,
     commitSeq : 0..n, prevCommitSeq : 0..n, unknownCommitSeq : 0..n,
     lockedCommitSeq : 0..n, tableCommitSeqMap : [Tables -> 0..n],
     prevTxnId : {-1} \cup 1..m, partialTable : Tables \cup {Nil},
     persistData : DataAt(n, m), inMemoryData : DataAt(n, m) \cup {Nil}]
WorkersAt(n, m) == [ctx : TxnsAt(n, m), prev : Nat, next : Nat, result : Errors \cup {"running"}]
ResultsAt(n, m) == [ctx : TxnsAt(n, m), err : Errors]
ContextsAt(n, m) ==
    [next : 0..n, pos : 0..n, close : BOOLEAN, link : Nat, tokens : SUBSET Nat,
     workers : SUBSET WorkersAt(n, m), commitCh : Seq(ResultsAt(n, m))]

TxnRecords == [status : {"PREPARE", "COMMITTED", "ABORTED"}, recorded : BOOLEAN]

SourceTyped ==
    /\ log \in Seq(Binlogs) /\ Len(log) <= MaxSeq
    /\ locked \in 0..Len(log) /\ gc \in 0..Len(log) /\ asked \in 0..Len(log)

TargetTyped ==
    /\ txns \in Seq(TxnRecords) /\ Len(txns) <= MaxTxn
    /\ dest \in [Tables -> [base : 0..Len(log), applied : Seq(1..Len(log))]]

JobTyped ==
    /\ prog \in ProgressAt(Len(log), Len(txns)) /\ disk \in ProgressAt(Len(log), Len(txns))
    /\ pipe \in ContextsAt(Len(log), Len(txns)) \cup {Nil}

FlagsTyped ==
    /\ pc \in PCs /\ more \in BOOLEAN /\ cursor \in Nat
    /\ extra \in Extras /\ interrupt \in BOOLEAN
    /\ budget \in 0..MaxFaults /\ lost \in BOOLEAN

Typed == SourceTyped /\ TargetTyped /\ JobTyped /\ FlagsTyped

Sub == prog.subSyncState
LiveStates == {"LaunchTransaction", "CommitPipeline", "CommitPipelineTransaction"}
Live == Sub \in LiveStates
Snapshotting == Sub = "BeginCreateSnapshot"

SyncOK(p) ==
    /\ p.subSyncState = "BeginCreateSnapshot" <=> ~IsIncrementalSync(p)
    /\ p.syncState = "DBPartialSync" => p.partialTable # Nil

Control ==
    /\ Snapshotting => pc = "idle"
    /\ Live /\ pipe # Nil => Data # Nil
    /\ Live /\ pipe = Nil => pc = "idle"
    /\ pc \in {"fetched", "begun", "dead"} => Sub = "LaunchTransaction"
    /\ pc = "committed" => Sub = "CommitPipelineTransaction"
    /\ pc = "rollback" => Sub = "RollbackPipeline" /\ Data # Nil /\ cursor <= Len(Running)
    /\ Sub = "CommitPipelineTransaction" /\ pipe # Nil => Commitable # Nil /\ Data.running # <<>>
    /\ pc \in {"handling", "handled"} =>
        /\ Sub = "Done" /\ pipe # Nil /\ extra.partialTable = Nil
        /\ prog.commitSeq = pipe.pos + 1 /\ HasBinlogs(pipe)
        /\ log[prog.commitSeq].kind # "UPSERT"
    /\ pc = "begun" =>
        /\ HasUpsertBinlog(pipe) /\ RelatedTables(NextSeq) # {}
        /\ Len(txns) > 0 /\ ~txns[Len(txns)].recorded
    /\ pipe # Nil => pipe.pos <= pipe.next
    /\ extra.skipBy = "partialsync" => extra.skipTable # Nil

DiskFollows ==
    /\ disk.inMemoryData = Nil /\ disk.lockedCommitSeq = 0
    /\ disk.persistData = prog.persistData /\ disk.prevCommitSeq = prog.prevCommitSeq
    /\ disk.unknownCommitSeq = prog.unknownCommitSeq /\ disk.partialTable = prog.partialTable
    /\ disk.subSyncState = "BeginCreateSnapshot" <=> Snapshotting
    /\ Sub # "RollbackPipeline" =>
        /\ disk.commitSeq = prog.commitSeq /\ disk.tableCommitSeqMap = prog.tableCommitSeqMap
        /\ disk.syncState = prog.syncState
    /\ SyncOK(prog) /\ SyncOK(disk)

Shape == Typed /\ Control /\ DiskFollows

AskedRule == asked' = IF Asks THEN Len(log) ELSE asked
-----------------------------------------------------------------------------
\* The sets of records grow with the log and with the txns.
LEMMA SetsGrow ==
    ASSUME NEW n \in Nat, NEW m \in Nat, NEW i \in Nat, NEW j \in Nat, n <= i, m <= j
    PROVE  /\ TxnsAt(n, m) \subseteq TxnsAt(i, j)
           /\ DataAt(n, m) \subseteq DataAt(i, j)
           /\ ProgressAt(n, m) \subseteq ProgressAt(i, j)
           /\ ContextsAt(n, m) \subseteq ContextsAt(i, j)
<1>1. TxnsAt(n, m) \subseteq TxnsAt(i, j)
  BY DEF TxnsAt
<1>2. Seq(TxnsAt(n, m)) \subseteq Seq(TxnsAt(i, j))
  BY <1>1
<1>3. DataAt(n, m) \subseteq DataAt(i, j)
  BY <1>1, <1>2 DEF DataAt
<1>4. [Tables -> 0..n] \subseteq [Tables -> 0..i]
  OBVIOUS
<1>5. ProgressAt(n, m) \subseteq ProgressAt(i, j)
  BY <1>3, <1>4 DEF ProgressAt
<1>6. WorkersAt(n, m) \subseteq WorkersAt(i, j) /\ ResultsAt(n, m) \subseteq ResultsAt(i, j)
  BY <1>1 DEF WorkersAt, ResultsAt
<1>7. Seq(ResultsAt(n, m)) \subseteq Seq(ResultsAt(i, j))
  BY <1>6
<1>8. ContextsAt(n, m) \subseteq ContextsAt(i, j)
  BY <1>6, <1>7 DEF ContextsAt
<1> QED
  BY <1>1, <1>3, <1>5, <1>8

\* Nil is none of the records, and the empty data is data.
LEMMA NilIsNoRecord ==
    ASSUME NEW n \in Nat, NEW m \in Nat, n <= MaxSeq, m <= MaxTxn
    PROVE  /\ Nil \notin TxnsAt(n, m) /\ Nil \notin DataAt(n, m) /\ Nil \notin ContextsAt(n, m)
           /\ EmptyData \in DataAt(n, m)
<1>1. TxnsAt(n, m) \subseteq TxnContext
  BY BoundsAssumption DEF TxnsAt, TxnContext, TxnIds, Seqs
<1>2. Seq(TxnsAt(n, m)) \subseteq Seq(TxnContext)
  BY <1>1
<1>3. DataAt(n, m) \subseteq PipelineData
  BY <1>1, <1>2 DEF DataAt, PipelineData
<1>4. WorkersAt(n, m) \subseteq Workers /\ ResultsAt(n, m) \subseteq Results
  BY <1>1 DEF WorkersAt, ResultsAt, Workers, Results
<1>5. Seq(ResultsAt(n, m)) \subseteq Seq(Results)
  BY <1>4
<1>6. ContextsAt(n, m) \subseteq Contexts
  BY <1>4, <1>5, BoundsAssumption DEF ContextsAt, Contexts, Seqs
<1>7. EmptyData \in DataAt(n, m)
  BY DEF EmptyData, DataAt
<1> QED
  BY <1>1, <1>3, <1>6, <1>7, NilAssumption, ContextAssumption

\* The bounded types imply the types of Pipeline.
LEMMA TypedIsTypeOK ==
    ASSUME Typed
    PROVE  TypeOK
<1>1. Len(log) \in Nat /\ Len(txns) \in Nat /\ Len(log) <= MaxSeq /\ Len(txns) <= MaxTxn
  BY DEF Typed, SourceTyped, TargetTyped
<1>2. TxnsAt(Len(log), Len(txns)) \subseteq TxnContext
  BY <1>1, BoundsAssumption DEF TxnsAt, TxnContext, TxnIds, Seqs
<1>3. Seq(TxnsAt(Len(log), Len(txns))) \subseteq Seq(TxnContext)
  BY <1>2
<1>4. DataAt(Len(log), Len(txns)) \subseteq PipelineData
  BY <1>2, <1>3 DEF DataAt, PipelineData
<1>5. /\ WorkersAt(Len(log), Len(txns)) \subseteq Workers
      /\ ResultsAt(Len(log), Len(txns)) \subseteq Results
  BY <1>2 DEF WorkersAt, ResultsAt, Workers, Results
<1>6. Seq(ResultsAt(Len(log), Len(txns))) \subseteq Seq(Results)
  BY <1>5
<1>7. ContextsAt(Len(log), Len(txns)) \subseteq Contexts
  BY <1>1, <1>5, <1>6, BoundsAssumption DEF ContextsAt, Contexts, Seqs
<1>8. 0..Len(log) \subseteq Seqs /\ 1..Len(log) \subseteq Seqs /\ 1..Len(txns) \subseteq TxnIds
  BY <1>1, BoundsAssumption DEF Seqs, TxnIds
<1>9. [Tables -> 0..Len(log)] \subseteq SeqMaps
  BY <1>8 DEF SeqMaps
<1>10. ProgressAt(Len(log), Len(txns)) \subseteq Progress
  BY <1>4, <1>8, <1>9 DEF ProgressAt, Progress
<1>11. Seq(1..Len(log)) \subseteq Seq(Seqs)
  BY <1>8
<1>12. dest \in [Tables -> [base : Seqs, applied : Seq(Seqs)]]
  BY <1>8, <1>11 DEF Typed, TargetTyped
<1> QED
  BY <1>7, <1>8, <1>10, <1>12
     DEF Typed, SourceTyped, TargetTyped, JobTyped, FlagsTyped, TypeOK, TxnRecords
-----------------------------------------------------------------------------
\* What every move of the progress below leaves alone.
Keeps(p, q) ==
    /\ q.unknownCommitSeq = p.unknownCommitSeq /\ q.prevCommitSeq = p.prevCommitSeq
    /\ q.partialTable = p.partialTable
KeepsSync(p, q) ==
    /\ q.commitSeq = p.commitSeq /\ q.tableCommitSeqMap = p.tableCommitSeqMap
    /\ q.syncState = p.syncState

\* What Persisted makes of the progress.
LEMMA PersistedTyped ==
    ASSUME NEW n \in Nat, NEW m \in Nat, NEW p \in ProgressAt(n, m), NEW q, q = Persisted(p)
    PROVE  /\ q \in ProgressAt(n, m) /\ q.inMemoryData = Nil /\ q.lockedCommitSeq = 0
           /\ Keeps(p, q) /\ KeepsSync(p, q)
           /\ q.persistData = p.persistData /\ q.subSyncState = p.subSyncState
           /\ SyncOK(p) => SyncOK(q)
<1>1. Nil \in DataAt(n, m) \cup {Nil} /\ 0 \in 0..n
  OBVIOUS
<1>2. q = [p EXCEPT !.inMemoryData = Nil, !.lockedCommitSeq = 0]
  BY DEF Persisted
<1>3. q \in ProgressAt(n, m)
  BY <1>1, <1>2 DEF ProgressAt
<1>4. /\ q.inMemoryData = Nil /\ q.lockedCommitSeq = 0
      /\ q.persistData = p.persistData /\ q.subSyncState = p.subSyncState
      /\ Keeps(p, q) /\ KeepsSync(p, q)
  BY <1>2 DEF ProgressAt, Keeps, KeepsSync
<1> QED
  BY <1>3, <1>4 DEF SyncOK, IsIncrementalSync, Keeps, KeepsSync

\* What NewSnapshot makes of the progress.
LEMMA NewSnapshotTyped ==
    ASSUME NEW n \in Nat, NEW m \in Nat, NEW p \in ProgressAt(n, m), NEW seq \in 0..n,
           EmptyData \in DataAt(n, m), NEW q, q = NewSnapshot(p, seq)
    PROVE  /\ q \in ProgressAt(n, m) /\ SyncOK(q)
           /\ q.subSyncState = "BeginCreateSnapshot" /\ q.syncState = "DBFullSync"
           /\ q.commitSeq = seq /\ q.prevCommitSeq = p.prevCommitSeq
           /\ q.tableCommitSeqMap = p.tableCommitSeqMap
           /\ q.unknownCommitSeq = p.unknownCommitSeq
           /\ q.persistData = EmptyData /\ q.inMemoryData = Nil
BY DEF ProgressAt, NewSnapshot, NextWithPersist, SyncOK, IsIncrementalSync, SyncStates,
       SubSyncStates

\* What NewPartialSnapshot makes of the progress.
LEMMA NewPartialSnapshotTyped ==
    ASSUME NEW n \in Nat, NEW m \in Nat, NEW p \in ProgressAt(n, m), NEW t \in Tables,
           EmptyData \in DataAt(n, m), NEW q, q = NewPartialSnapshot(p, t)
    PROVE  /\ q \in ProgressAt(n, m) /\ SyncOK(q)
           /\ q.subSyncState = "BeginCreateSnapshot" /\ q.syncState = "DBPartialSync"
           /\ q.partialTable = t
           /\ q.commitSeq = p.commitSeq /\ q.prevCommitSeq = p.prevCommitSeq
           /\ q.tableCommitSeqMap = p.tableCommitSeqMap
           /\ q.unknownCommitSeq = p.unknownCommitSeq
           /\ q.persistData = EmptyData /\ q.inMemoryData = Nil
BY NilAssumption
   DEF ProgressAt, NewPartialSnapshot, NextWithPersist, SyncOK, IsIncrementalSync, SyncStates,
       SubSyncStates

\* What SnapshotDone makes of the progress.
LEMMA SnapshotDoneTyped ==
    ASSUME NEW n \in Nat, NEW m \in Nat, NEW p \in ProgressAt(n, m), NEW seq \in 0..n,
           NEW seqs \in [Tables -> 0..n], EmptyData \in DataAt(n, m), NEW q,
           q = NextWithPersist([p EXCEPT !.tableCommitSeqMap = seqs], seq,
                               "DBTablesIncrementalSync", "Done")
    PROVE  /\ q \in ProgressAt(n, m) /\ SyncOK(q)
           /\ q.subSyncState = "Done" /\ q.syncState = "DBTablesIncrementalSync"
           /\ q.commitSeq = seq /\ q.prevCommitSeq = seq /\ q.tableCommitSeqMap = seqs
           /\ q.unknownCommitSeq = p.unknownCommitSeq /\ q.partialTable = p.partialTable
           /\ q.persistData = EmptyData /\ q.inMemoryData = Nil
BY DEF ProgressAt, NextWithPersist, SyncOK, IsIncrementalSync, SyncStates, SubSyncStates

IncrementalStates == SubSyncStates \ {"BeginCreateSnapshot"}

\* What NextSubVolatile makes of the progress.
LEMMA NextSubVolatileTyped ==
    ASSUME NEW n \in Nat, NEW m \in Nat, NEW p \in ProgressAt(n, m), SyncOK(p),
           p.subSyncState # "BeginCreateSnapshot",
           NEW sub \in IncrementalStates, NEW data \in DataAt(n, m) \cup {Nil}, NEW q,
           q = NextSubVolatile(p, sub, data)
    PROVE  /\ q \in ProgressAt(n, m) /\ SyncOK(q) /\ q.subSyncState = sub
           /\ Keeps(p, q) /\ KeepsSync(p, q)
           /\ q.persistData = p.persistData /\ q.inMemoryData = data
BY DEF ProgressAt, NextSubVolatile, SyncOK, IsIncrementalSync, SubSyncStates, IncrementalStates,
       Keeps, KeepsSync

\* What NextSubCheckpoint makes of the progress.
LEMMA NextSubCheckpointTyped ==
    ASSUME NEW n \in Nat, NEW m \in Nat, NEW p \in ProgressAt(n, m), SyncOK(p),
           p.subSyncState # "BeginCreateSnapshot",
           NEW sub \in IncrementalStates, NEW data \in DataAt(n, m), NEW q,
           q = NextSubCheckpoint(p, sub, data)
    PROVE  /\ q \in ProgressAt(n, m) /\ SyncOK(q) /\ q.subSyncState = sub
           /\ Keeps(p, q) /\ KeepsSync(p, q)
           /\ q.persistData = data /\ q.inMemoryData = p.inMemoryData
BY DEF ProgressAt, NextSubCheckpoint, SyncOK, IsIncrementalSync, SubSyncStates, IncrementalStates,
       Keeps, KeepsSync

\* What DoneSubCheckpoint makes of the progress.
LEMMA DoneSubCheckpointTyped ==
    ASSUME NEW n \in Nat, NEW m \in Nat, NEW p \in ProgressAt(n, m), SyncOK(p),
           p.subSyncState # "BeginCreateSnapshot",
           NEW sub \in IncrementalStates, NEW data \in DataAt(n, m), NEW q,
           q = DoneSubCheckpoint(p, sub, data)
    PROVE  /\ q \in ProgressAt(n, m) /\ SyncOK(q) /\ q.subSyncState = sub
           /\ KeepsSync(p, q) /\ q.prevCommitSeq = p.commitSeq
           /\ q.unknownCommitSeq = p.unknownCommitSeq /\ q.partialTable = p.partialTable
           /\ q.persistData = data /\ q.inMemoryData = p.inMemoryData
BY DEF ProgressAt, DoneSubCheckpoint, SyncOK, IsIncrementalSync, SubSyncStates, IncrementalStates,
       KeepsSync

\* What Rollback makes of the progress.
LEMMA RollbackTyped ==
    ASSUME NEW n \in Nat, NEW m \in Nat, NEW p \in ProgressAt(n, m), SyncOK(p),
           p.subSyncState # "BeginCreateSnapshot", NEW q, q = Rollback(p)
    PROVE  /\ q \in ProgressAt(n, m) /\ SyncOK(q) /\ q.subSyncState = "Done"
           /\ q.commitSeq = p.prevCommitSeq /\ q.prevCommitSeq = p.prevCommitSeq
           /\ q.unknownCommitSeq = p.commitSeq /\ q.partialTable = p.partialTable
           /\ q.tableCommitSeqMap = p.tableCommitSeqMap /\ q.syncState = p.syncState
           /\ q.persistData = p.persistData /\ q.inMemoryData = p.inMemoryData
BY DEF ProgressAt, Rollback, SyncOK, IsIncrementalSync, SubSyncStates

\* What StartHandle makes of the progress.
LEMMA StartHandleTyped ==
    ASSUME NEW n \in Nat, NEW m \in Nat, NEW p \in ProgressAt(n, m), SyncOK(p),
           NEW seq \in 0..n, NEW q, q = StartHandle(p, seq)
    PROVE  /\ q \in ProgressAt(n, m) /\ SyncOK(q) /\ q.subSyncState = p.subSyncState
           /\ Keeps(p, q) /\ q.commitSeq = seq
           /\ q.tableCommitSeqMap = p.tableCommitSeqMap /\ q.syncState = p.syncState
           /\ q.persistData = p.persistData /\ q.inMemoryData = p.inMemoryData
BY DEF ProgressAt, StartHandle, SyncOK, IsIncrementalSync, Keeps

\* What NoPrevTxn makes of the progress.
LEMMA NoPrevTxnTyped ==
    ASSUME NEW n \in Nat, NEW m \in Nat, NEW p \in ProgressAt(n, m), SyncOK(p),
           NEW q, q = [p EXCEPT !.prevTxnId = -1]
    PROVE  /\ q \in ProgressAt(n, m) /\ SyncOK(q) /\ q.subSyncState = p.subSyncState
           /\ Keeps(p, q) /\ KeepsSync(p, q)
           /\ q.persistData = p.persistData /\ q.inMemoryData = p.inMemoryData
BY DEF ProgressAt, SyncOK, IsIncrementalSync, Keeps, KeepsSync

\* What InMemory makes of the progress.
LEMMA InMemoryTyped ==
    ASSUME NEW n \in Nat, NEW m \in Nat, NEW p \in ProgressAt(n, m), SyncOK(p),
           NEW data \in DataAt(n, m) \cup {Nil}, NEW q, q = [p EXCEPT !.inMemoryData = data]
    PROVE  /\ q \in ProgressAt(n, m) /\ SyncOK(q) /\ q.subSyncState = p.subSyncState
           /\ Keeps(p, q) /\ KeepsSync(p, q)
           /\ q.persistData = p.persistData /\ q.inMemoryData = data
BY DEF ProgressAt, SyncOK, IsIncrementalSync, Keeps, KeepsSync

\* What PersistData makes of the progress.
LEMMA PersistDataTyped ==
    ASSUME NEW n \in Nat, NEW m \in Nat, NEW p \in ProgressAt(n, m), SyncOK(p),
           p.inMemoryData \in DataAt(n, m), NEW q, q = PersistInMemoryData(p)
    PROVE  /\ q \in ProgressAt(n, m) /\ SyncOK(q) /\ q.subSyncState = p.subSyncState
           /\ Keeps(p, q) /\ KeepsSync(p, q)
           /\ q.persistData = p.inMemoryData /\ q.inMemoryData = p.inMemoryData
BY DEF PersistInMemoryData, ProgressAt, SyncOK, IsIncrementalSync, Keeps, KeepsSync

\* What Locked makes of the progress.
LEMMA LockedTyped ==
    ASSUME NEW n \in Nat, NEW m \in Nat, NEW p \in ProgressAt(n, m), SyncOK(p),
           NEW seq \in 0..n, NEW q, q = [p EXCEPT !.lockedCommitSeq = seq]
    PROVE  /\ q \in ProgressAt(n, m) /\ SyncOK(q) /\ q.subSyncState = p.subSyncState
           /\ Keeps(p, q) /\ KeepsSync(p, q)
           /\ q.persistData = p.persistData /\ q.inMemoryData = p.inMemoryData
BY DEF ProgressAt, SyncOK, IsIncrementalSync, Keeps, KeepsSync

\* afterHandleBinlog may drop the filter by table commit seq, and does nothing else.
LEMMA AfterHandleTyped ==
    ASSUME NEW n \in Nat, NEW m \in Nat, NEW p \in ProgressAt(n, m), SyncOK(p),
           p.subSyncState # "BeginCreateSnapshot", NEW seq, NEW q, q = AfterHandleBinlog(p, seq)
    PROVE  /\ q \in ProgressAt(n, m) /\ SyncOK(q) /\ q.subSyncState = p.subSyncState
           /\ Keeps(p, q) /\ q.commitSeq = p.commitSeq
           /\ q.persistData = p.persistData /\ q.inMemoryData = p.inMemoryData
           /\ \/ KeepsSync(p, q)
              \/ /\ \A t \in Tables : p.tableCommitSeqMap[t] <= seq
                 /\ q.tableCommitSeqMap = NoMap /\ q.syncState = "DBIncrementalSync"
<1>1. NoMap \in [Tables -> 0..n]
  BY DEF NoMap
<1>2. CASE p.tableCommitSeqMap # NoMap /\ \A t \in Tables : p.tableCommitSeqMap[t] <= seq
  <2>1. q = [p EXCEPT !.tableCommitSeqMap = NoMap, !.syncState = "DBIncrementalSync"]
    BY <1>2 DEF AfterHandleBinlog
  <2> QED
    BY <1>1, <1>2, <2>1 DEF ProgressAt, SyncOK, IsIncrementalSync, Keeps, SyncStates
<1>3. CASE ~(p.tableCommitSeqMap # NoMap /\ \A t \in Tables : p.tableCommitSeqMap[t] <= seq)
  <2>1. q = p
    BY <1>3 DEF AfterHandleBinlog
  <2> QED
    BY <2>1 DEF Keeps, KeepsSync
<1> QED
  BY <1>2, <1>3

\* The commit seqs of the tables only rise, to the txn's, when a txn is done.
LEMMA BumpTyped ==
    ASSUME NEW n \in Nat, NEW m \in Nat, NEW map \in [Tables -> 0..n],
           NEW ctx \in TxnsAt(n, m), NEW b, b = BumpTableCommitSeq(map, ctx)
    PROVE  /\ b \in [Tables -> 0..n]
           /\ \A t \in Tables : map[t] <= b[t] /\ (b[t] = map[t] \/ b[t] = ctx.commitSeq)
BY DEF BumpTableCommitSeq, TxnsAt

\* What a committed txn makes of the progress.
LEMMA ApplyTxnTyped ==
    ASSUME NEW n \in Nat, NEW m \in Nat, NEW p \in ProgressAt(n, m), SyncOK(p),
           p.subSyncState # "BeginCreateSnapshot", NEW ctx \in TxnsAt(n, m),
           NEW q, q = ApplyTxn(p, ctx)
    PROVE  /\ q \in ProgressAt(n, m) /\ SyncOK(q) /\ q.subSyncState = p.subSyncState
           /\ Keeps(p, q) /\ q.commitSeq = ctx.commitSeq
           /\ q.persistData = p.persistData /\ q.inMemoryData = p.inMemoryData
           /\ \/ /\ q.syncState = p.syncState
                 /\ \A t \in Tables : /\ p.tableCommitSeqMap[t] <= q.tableCommitSeqMap[t]
                                      /\ \/ q.tableCommitSeqMap[t] = p.tableCommitSeqMap[t]
                                         \/ q.tableCommitSeqMap[t] = ctx.commitSeq
              \/ /\ \A t \in Tables : p.tableCommitSeqMap[t] <= ctx.commitSeq
                 /\ q.tableCommitSeqMap = NoMap /\ q.syncState = "DBIncrementalSync"
<1>1. PICK b : b = BumpTableCommitSeq(p.tableCommitSeqMap, ctx)
  OBVIOUS
<1>2. /\ p.tableCommitSeqMap \in [Tables -> 0..n]
      /\ ctx.commitSeq \in 0..n /\ ctx.txnId \in 1..m
  BY DEF ProgressAt, TxnsAt
<1>3. /\ b \in [Tables -> 0..n]
      /\ \A t \in Tables : /\ p.tableCommitSeqMap[t] <= b[t]
                           /\ b[t] = p.tableCommitSeqMap[t] \/ b[t] = ctx.commitSeq
  BY <1>1, <1>2, BumpTyped
<1>4. PICK x : x = [p EXCEPT !.prevTxnId = ctx.txnId, !.commitSeq = ctx.commitSeq,
                             !.tableCommitSeqMap = b]
  OBVIOUS
<1>5. /\ x \in ProgressAt(n, m) /\ x.subSyncState = p.subSyncState
      /\ x.unknownCommitSeq = p.unknownCommitSeq /\ x.prevCommitSeq = p.prevCommitSeq
      /\ x.partialTable = p.partialTable /\ x.commitSeq = ctx.commitSeq
      /\ x.tableCommitSeqMap = b /\ x.syncState = p.syncState
      /\ x.persistData = p.persistData /\ x.inMemoryData = p.inMemoryData
  BY <1>2, <1>3, <1>4 DEF ProgressAt
<1>6. SyncOK(x)
  BY <1>5 DEF SyncOK, IsIncrementalSync
<1>7. q = AfterHandleBinlog(x, ctx.commitSeq)
  <2>1. p.tableCommitSeqMap = p.tableCommitSeqMap
    OBVIOUS
  <2> QED
    BY <1>1, <1>4 DEF ApplyTxn, ProgressAt
<1>8. /\ q \in ProgressAt(n, m) /\ SyncOK(q) /\ q.subSyncState = x.subSyncState
      /\ Keeps(x, q) /\ q.commitSeq = x.commitSeq
      /\ q.persistData = x.persistData /\ q.inMemoryData = x.inMemoryData
      /\ \/ KeepsSync(x, q)
         \/ /\ \A t \in Tables : x.tableCommitSeqMap[t] <= ctx.commitSeq
            /\ q.tableCommitSeqMap = NoMap /\ q.syncState = "DBIncrementalSync"
  BY <1>5, <1>6, <1>7, AfterHandleTyped
<1>9. Keeps(p, q)
  BY <1>5, <1>8 DEF Keeps
<1>10. CASE KeepsSync(x, q)
  BY <1>3, <1>5, <1>8, <1>9, <1>10 DEF KeepsSync
<1>11. CASE /\ \A t \in Tables : x.tableCommitSeqMap[t] <= ctx.commitSeq
            /\ q.tableCommitSeqMap = NoMap /\ q.syncState = "DBIncrementalSync"
  <2>1. \A t \in Tables : p.tableCommitSeqMap[t] <= ctx.commitSeq
    BY <1>2, <1>3, <1>5, <1>11
  <2> QED
    BY <1>5, <1>8, <1>9, <1>11, <2>1
<1> QED
  BY <1>8, <1>10, <1>11
-----------------------------------------------------------------------------
N == Len(log)
M == Len(txns)

\* The facts of Shape most proofs start from.
LEMMA ShapeFacts ==
    ASSUME Shape
    PROVE  /\ N \in Nat /\ M \in Nat /\ N <= MaxSeq /\ M <= MaxTxn
           /\ prog \in ProgressAt(N, M) /\ disk \in ProgressAt(N, M)
           /\ SyncOK(prog) /\ SyncOK(disk)
           /\ prog.persistData \in DataAt(N, M) /\ prog.inMemoryData \in DataAt(N, M) \cup {Nil}
           /\ pipe \in ContextsAt(N, M) \cup {Nil}
           /\ Nil \notin TxnsAt(N, M) /\ Nil \notin DataAt(N, M) /\ Nil \notin ContextsAt(N, M)
           /\ EmptyData \in DataAt(N, M)
           /\ Control /\ DiskFollows
<1>1. /\ N \in Nat /\ M \in Nat /\ N <= MaxSeq /\ M <= MaxTxn
      /\ prog \in ProgressAt(N, M) /\ disk \in ProgressAt(N, M)
      /\ SyncOK(prog) /\ SyncOK(disk)
      /\ pipe \in ContextsAt(N, M) \cup {Nil}
      /\ Control /\ DiskFollows
  BY DEF Shape, Typed, SourceTyped, TargetTyped, JobTyped, DiskFollows, N, M
<1>2. prog.persistData \in DataAt(N, M) /\ prog.inMemoryData \in DataAt(N, M) \cup {Nil}
  BY <1>1 DEF ProgressAt
<1> QED
  BY <1>1, <1>2, NilIsNoRecord

\* What was stored is followed by what is in memory.
LEMMA Stores ==
    ASSUME NEW n \in Nat, NEW m \in Nat, NEW p \in ProgressAt(n, m), NEW q \in ProgressAt(n, m),
           SyncOK(p), SyncOK(q), prog' = q, disk' = Persisted(p), Keeps(p, q), KeepsSync(p, q),
           q.persistData = p.persistData,
           q.subSyncState = "BeginCreateSnapshot" <=> p.subSyncState = "BeginCreateSnapshot"
    PROVE  disk' \in ProgressAt(n, m) /\ DiskFollows'
<1>1. PICK d : d = Persisted(p)
  OBVIOUS
<1>2. /\ d \in ProgressAt(n, m) /\ d.inMemoryData = Nil /\ d.lockedCommitSeq = 0
      /\ Keeps(p, d) /\ KeepsSync(p, d)
      /\ d.persistData = p.persistData /\ d.subSyncState = p.subSyncState /\ SyncOK(d)
  BY <1>1, PersistedTyped
<1>3. disk' = d
  BY <1>1
<1>4. SyncOK(prog)' /\ SyncOK(disk)'
  BY <1>2, <1>3 DEF SyncOK, IsIncrementalSync
<1> QED
  BY <1>2, <1>3, <1>4 DEF DiskFollows, Keeps, KeepsSync, Snapshotting, Sub

\* A persisted progress: the row of the job follows it.
LEMMA Persists ==
    ASSUME NEW n \in Nat, NEW m \in Nat, NEW p \in ProgressAt(n, m), SyncOK(p), Persist(p)
    PROVE  prog' = p /\ disk' \in ProgressAt(n, m) /\ DiskFollows'
BY Stores DEF Persist, Keeps, KeepsSync

\* What is only assigned in memory.
LEMMA Remembers ==
    ASSUME Shape, NEW q, SyncOK(q), prog' = q, disk' = disk, Keeps(prog, q),
           q.persistData = prog.persistData,
           q.subSyncState = "BeginCreateSnapshot" <=> Snapshotting,
           q.subSyncState # "RollbackPipeline" =>
              Sub # "RollbackPipeline" /\ KeepsSync(prog, q)
    PROVE  DiskFollows'
<1>1. SyncOK(prog)' /\ SyncOK(disk)'
  BY DEF SyncOK, IsIncrementalSync, Shape, DiskFollows
<1> QED
  BY <1>1 DEF DiskFollows, Keeps, KeepsSync, Snapshotting, Sub, Shape

\* A step that leaves source and target alone is well typed when its new values are.
LEMMA JobTypes ==
    ASSUME Shape, AskedRule, UNCHANGED <<srcVars, destVars>>,
           prog' \in ProgressAt(N, M), disk' \in ProgressAt(N, M),
           pipe' \in ContextsAt(N, M) \cup {Nil}, FlagsTyped'
    PROVE  Typed'
<1>1. asked' \in 0..Len(log)
  BY DEF AskedRule, Shape, Typed, SourceTyped
<1>2. SourceTyped'
  BY <1>1 DEF SourceTyped, Shape, Typed, srcVars
<1>3. TargetTyped'
  BY DEF TargetTyped, Shape, Typed, srcVars, destVars
<1>4. JobTyped'
  BY DEF JobTyped, N, M, srcVars, destVars
<1> QED
  BY <1>2, <1>3, <1>4 DEF Typed

\* A reset of the skip leaves the rest of the job's extra state alone.
LEMMA ResetSkipTyped ==
    ASSUME Shape, extra' = ResetSkip
    PROVE  /\ extra' \in Extras /\ extra'.partialTable = extra.partialTable
           /\ extra'.skipTable = extra.skipTable /\ extra'.skipSeq = extra.skipSeq
           /\ extra'.skipBy \in {"no", extra.skipBy}
BY DEF ResetSkip, Extras, Shape, Typed, FlagsTyped

\* Back to the run loop without a pipeline context.
LEMMA LeavesTick ==
    ASSUME Shape, pc' = "idle", pipe' = Nil,
           extra'.skipBy \in {"no", extra.skipBy}, extra'.skipTable = extra.skipTable
    PROVE  Control'
BY DEF Control, Shape, Snapshotting, Live, LiveStates, Sub

\* EnterSync keeps the shape.
LEMMA EnterSyncShape ==
    ASSUME Shape, AskedRule, EnterSync
    PROVE  Shape'
<1>1. /\ pc = "idle" /\ pc' = "loop" /\ more' = TRUE
      /\ UNCHANGED <<srcVars, destVars, cursor, interrupt, budget, lost>>
      /\ extra' \in Extras /\ extra'.partialTable = extra.partialTable
      /\ extra'.skipTable = extra.skipTable /\ extra'.skipBy \in {"no", extra.skipBy}
      /\ IsIncrementalSync(prog) /\ pipe' = DrainStaledBinlogs
  BY ResetSkipTyped DEF EnterSync, Goto
<1>2. ~Snapshotting
  BY <1>1, ShapeFacts DEF SyncOK, Snapshotting, Sub
<1>3. FlagsTyped'
  BY <1>1 DEF FlagsTyped, Shape, Typed, PCs
<1>4. /\ pipe' \in ContextsAt(N, M) \cup {Nil}
      /\ pipe' = Nil <=> pipe = Nil
      /\ pipe' # Nil => pipe'.pos <= pipe'.next
  <2>1. CASE pipe = Nil
    BY <1>1, <2>1 DEF DrainStaledBinlogs
  <2>2. CASE pipe # Nil
    <3>1. pipe \in ContextsAt(N, M) /\ pipe.pos <= pipe.next
      BY <2>2, ShapeFacts DEF Control
    <3>2. PICK a : a = IF prog.prevCommitSeq <= pipe.pos THEN pipe.pos
                       ELSE Min({prog.prevCommitSeq, pipe.next})
      OBVIOUS
    <3>3. prog.prevCommitSeq \in 0..N /\ pipe.next \in 0..N /\ pipe.pos \in 0..N
      BY <3>1, ShapeFacts DEF ProgressAt, ContextsAt
    <3>4. a \in 0..N /\ a <= pipe.next
      BY <3>1, <3>2, <3>3 DEF Min
    <3>5. pipe' = [pipe EXCEPT !.pos = a]
      BY <1>1, <2>2, <3>2, <3>1 DEF DrainStaledBinlogs, ContextsAt
    <3>6. pipe' \in ContextsAt(N, M) /\ pipe'.pos <= pipe'.next
      BY <3>1, <3>4, <3>5 DEF ContextsAt
    <3> QED
      BY <2>2, <3>6, ShapeFacts
  <2> QED
    BY <2>1, <2>2
<1>5. CASE ~IsNeedRollbackPipeline
  <2>1. prog' = prog /\ disk' = disk
    BY <1>5 DEF EnterSync
  <2>2. DiskFollows'
    BY <2>1, ShapeFacts DEF DiskFollows, Sub, Snapshotting, SyncOK, IsIncrementalSync
  <2>3. Typed'
    BY <1>1, <1>3, <1>4, <2>1, ShapeFacts, JobTypes
  <2>4. Live => pipe # Nil
    BY <1>5, <1>2, ShapeFacts DEF IsNeedRollbackPipeline, Live, LiveStates, Sub
  <2>5. Control'
    BY <1>1, <1>2, <1>4, <2>1, <2>4, ShapeFacts
       DEF Control, Live, LiveStates, Sub, Snapshotting, Data, Commitable
  <2> QED
    BY <2>2, <2>3, <2>5 DEF Shape
<1>6. CASE IsNeedRollbackPipeline
  <2>1. PICK p : p = [prog EXCEPT !.inMemoryData = LoadedData]
    OBVIOUS
  <2>2. LoadedData \in DataAt(N, M)
    BY ShapeFacts DEF LoadedData
  <2>3. /\ p \in ProgressAt(N, M) /\ SyncOK(p) /\ p.subSyncState = Sub
        /\ Keeps(prog, p) /\ KeepsSync(prog, p)
        /\ p.persistData = prog.persistData /\ p.inMemoryData = LoadedData
    BY <2>1, <2>2, ShapeFacts, InMemoryTyped DEF Sub
  <2>4. /\ prog' \in ProgressAt(N, M) /\ disk' \in ProgressAt(N, M) /\ DiskFollows'
        /\ Sub' = "RollbackPipeline"
    <3>1. CASE Sub = "RollbackPipeline"
      <4>1. prog' = p /\ disk' = disk
        BY <1>6, <2>1, <2>3, <3>1 DEF EnterSync, RollbackPipeline, Volatile
      <4>2. DiskFollows'
        BY <2>3, <3>1, <4>1, Remembers DEF Snapshotting
      <4> QED
        BY <2>3, <3>1, <4>1, <4>2, ShapeFacts DEF Sub
    <3>2. CASE Sub # "RollbackPipeline"
      <4>1. PICK q : q = NextSubCheckpoint(p, "RollbackPipeline", LoadedData)
        OBVIOUS
      <4>2. Persist(q)
        BY <1>6, <2>1, <2>3, <3>2, <4>1 DEF EnterSync, RollbackPipeline
      <4>3. q \in ProgressAt(N, M) /\ SyncOK(q) /\ q.subSyncState = "RollbackPipeline"
        BY <4>1, <2>2, <2>3, <1>2, ShapeFacts, NextSubCheckpointTyped
           DEF Snapshotting, IncrementalStates, SubSyncStates
      <4> QED
        BY <4>2, <4>3, ShapeFacts, Persists DEF Sub
    <3> QED
      BY <3>1, <3>2
  <2>5. Typed'
    BY <1>1, <1>3, <1>4, <2>4, ShapeFacts, JobTypes
  <2>6. Control'
    BY <1>1, <1>4, <2>4, ShapeFacts
       DEF Control, Live, LiveStates, Snapshotting
  <2> QED
    BY <2>4, <2>5, <2>6 DEF Shape
<1> QED
  BY <1>5, <1>6

\* LeaveOnInterrupt keeps the shape.
LEMMA LeaveOnInterruptShape ==
    ASSUME Shape, AskedRule, LeaveOnInterrupt \/ ConsumeInterruptSignals
    PROVE  Shape'
<1>1. /\ UNCHANGED <<srcVars, destVars, prog, disk, pipe, more, cursor, extra, budget, lost>>
      /\ pc' = "idle" /\ interrupt' \in BOOLEAN
  BY DEF LeaveOnInterrupt, ConsumeInterruptSignals, Goto, Shape, Typed, FlagsTyped
<1>2. FlagsTyped'
  BY <1>1 DEF FlagsTyped, Shape, Typed, PCs
<1>3. Typed'
  BY <1>1, <1>2, ShapeFacts, JobTypes
<1>4. DiskFollows'
  BY <1>1, ShapeFacts DEF DiskFollows, Sub, Snapshotting, SyncOK, IsIncrementalSync
<1>5. Control'
  BY <1>1, ShapeFacts DEF Control, Live, LiveStates, Sub, Snapshotting, Data, Commitable
<1> QED
  BY <1>3, <1>4, <1>5 DEF Shape

\* Every action that stores p, resets the pipeline context and goes back to the run loop.
LEMMA StoresAndLeaves ==
    ASSUME Shape, AskedRule, UNCHANGED <<srcVars, destVars>>,
           NEW p \in ProgressAt(N, M), SyncOK(p), Persist(p), pipe' = Nil, pc' = "idle",
           extra'.skipBy = extra.skipBy, extra'.skipTable = extra.skipTable, FlagsTyped'
    PROVE  Shape'
<1>1. prog' = p /\ disk' \in ProgressAt(N, M) /\ DiskFollows'
  BY ShapeFacts, Persists
<1>2. Typed'
  BY <1>1, JobTypes
<1>3. Control'
  BY LeavesTick
<1> QED
  BY <1>1, <1>2, <1>3 DEF Shape
-----------------------------------------------------------------------------
\* A fault takes one of the faults left.
LEMMA FaultTyped ==
    ASSUME Shape, NEW k, Fault(k)
    PROVE  budget' \in 0..MaxFaults
BY PipelineAssumption DEF Fault, Shape, Typed, FlagsTyped

\* StartPartialSnapshot keeps the shape.
LEMMA StartPartialSnapshotShape ==
    ASSUME Shape, AskedRule, StartPartialSnapshot
    PROVE  Shape'
<1>1. PICK p : p = NewPartialSnapshot(prog, extra.partialTable)
  OBVIOUS
<1>2. extra \in Extras /\ extra.partialTable \in Tables
  BY DEF StartPartialSnapshot, Shape, Typed, FlagsTyped, Extras
<1>3. p \in ProgressAt(N, M) /\ SyncOK(p)
  BY <1>1, <1>2, ShapeFacts, NewPartialSnapshotTyped
<1>4. /\ UNCHANGED <<srcVars, destVars, more, cursor, interrupt, budget, lost>>
      /\ Persist(p) /\ pipe' = Nil /\ pc' = "idle"
      /\ extra' \in Extras /\ extra'.skipBy = extra.skipBy /\ extra'.skipTable = extra.skipTable
  BY <1>1, <1>2 DEF StartPartialSnapshot, Goto, Extras
<1>5. FlagsTyped'
  BY <1>4 DEF FlagsTyped, Shape, Typed, PCs
<1> QED
  BY <1>3, <1>4, <1>5, StoresAndLeaves

\* Recover keeps the shape.
LEMMA RecoverShape ==
    ASSUME Shape, AskedRule, RecoverIncrementalSync
    PROVE  Shape'
<1>1. PICK p : p = Rollback(prog)
  OBVIOUS
<1>2. p \in ProgressAt(N, M) /\ SyncOK(p)
  BY <1>1, ShapeFacts, RollbackTyped DEF RecoverIncrementalSync, AtLoop
<1>3. /\ UNCHANGED <<srcVars, destVars, more, cursor, extra, interrupt, budget, lost>>
      /\ Persist(p) /\ pipe' = Nil /\ pc' = "idle"
  BY <1>1 DEF RecoverIncrementalSync, Goto
<1>4. FlagsTyped'
  BY <1>3 DEF FlagsTyped, Shape, Typed, PCs
<1> QED
  BY <1>2, <1>3, <1>4, StoresAndLeaves

\* SkipBySync keeps the shape.
LEMMA SkipBySyncShape ==
    ASSUME Shape, AskedRule, SkipByFullSync \/ SkipByPartialSync
    PROVE  Shape'
<1>1. /\ UNCHANGED <<srcVars, destVars, more, cursor, extra, interrupt, budget, lost>>
      /\ pipe' = Nil /\ pc' = "idle"
  BY DEF SkipByFullSync, SkipByPartialSync, Goto
<1>2. FlagsTyped'
  BY <1>1 DEF FlagsTyped, Shape, Typed, PCs
<1>3. CASE SkipByFullSync
  <2>1. PICK p : p = NewSnapshot(prog, prog.commitSeq)
    OBVIOUS
  <2>2. prog.commitSeq \in 0..N
    BY ShapeFacts DEF ProgressAt
  <2>3. p \in ProgressAt(N, M) /\ SyncOK(p) /\ Persist(p)
    BY <1>3, <2>1, <2>2, ShapeFacts, NewSnapshotTyped DEF SkipByFullSync
  <2> QED
    BY <1>1, <1>2, <2>3, StoresAndLeaves
<1>4. CASE SkipByPartialSync
  <2>1. PICK p : p = NewPartialSnapshot(prog, extra.skipTable)
    OBVIOUS
  <2>2. extra.skipTable \in Tables
    BY <1>4, ShapeFacts DEF SkipByPartialSync, Control, Shape, Typed, FlagsTyped, Extras
  <2>3. p \in ProgressAt(N, M) /\ SyncOK(p) /\ Persist(p)
    BY <1>4, <2>1, <2>2, ShapeFacts, NewPartialSnapshotTyped DEF SkipByPartialSync
  <2> QED
    BY <1>1, <1>2, <2>3, StoresAndLeaves
<1> QED
  BY <1>3, <1>4

\* The pipeline context of a tick in state Done.
LEMMA InitializedTyped ==
    ASSUME Shape, NEW c, c = InitializedContext
    PROVE  /\ c \in ContextsAt(N, M) /\ c # Nil /\ c.pos <= c.next
           /\ \/ pipe = Nil /\ c = NewContext(prog.commitSeq)
              \/ /\ pipe # Nil /\ c.next = pipe.next /\ c.pos = pipe.pos /\ c.link = pipe.link
                 /\ c.tokens = pipe.tokens /\ c.workers = pipe.workers
                 /\ c.commitCh = pipe.commitCh
<1>1. CASE pipe = Nil
  <2>1. prog.commitSeq \in 0..N
    BY ShapeFacts DEF ProgressAt
  <2>2. c = NewContext(prog.commitSeq)
    BY <1>1 DEF InitializedContext
  <2>3. c \in ContextsAt(N, M) /\ c.pos <= c.next
    BY <2>1, <2>2 DEF NewContext, ContextsAt
  <2> QED
    BY <1>1, <2>2, <2>3, ShapeFacts
<1>2. CASE pipe # Nil
  <2>1. pipe \in ContextsAt(N, M) /\ pipe.pos <= pipe.next
    BY <1>2, ShapeFacts DEF Control
  <2>2. c = [pipe EXCEPT !.close = FALSE]
    BY <1>2 DEF InitializedContext
  <2> QED
    BY <1>2, <2>1, <2>2, ShapeFacts DEF ContextsAt
<1> QED
  BY <1>1, <1>2

\* StartPipeline keeps the shape.
LEMMA StartPipelineShape ==
    ASSUME Shape, AskedRule, StartPipeline
    PROVE  Shape'
<1>1. PICK p : p = NextSubVolatile(prog, "LaunchTransaction", EmptyData)
  OBVIOUS
<1>2. /\ pc = "loop" /\ pc' = pc /\ Sub = "Done" /\ prog' = p /\ disk' = disk
      /\ UNCHANGED <<srcVars, destVars, more, cursor, extra, interrupt, budget, lost>>
      /\ pipe' \in ContextsAt(N, M) /\ pipe' # Nil /\ pipe'.pos <= pipe'.next
  BY <1>1, InitializedTyped DEF StartPipeline, AtDone, AtLoop, Volatile, Sub
<1>3. /\ p \in ProgressAt(N, M) /\ SyncOK(p) /\ p.subSyncState = "LaunchTransaction"
      /\ Keeps(prog, p) /\ KeepsSync(prog, p) /\ p.persistData = prog.persistData
      /\ p.inMemoryData = EmptyData
  BY <1>1, <1>2, ShapeFacts, NextSubVolatileTyped DEF Sub, IncrementalStates, SubSyncStates
<1>4. DiskFollows'
  BY <1>2, <1>3, Remembers DEF Snapshotting
<1>5. FlagsTyped'
  BY <1>2 DEF FlagsTyped, Shape, Typed
<1>6. Typed'
  BY <1>2, <1>3, <1>5, ShapeFacts, JobTypes
<1>7. Control'
  BY <1>2, <1>3, ShapeFacts DEF Control, Live, LiveStates, Sub, Snapshotting, Data
<1> QED
  BY <1>4, <1>6, <1>7 DEF Shape

\* HandleBinlog keeps the shape.
LEMMA HandleBinlogShape ==
    ASSUME Shape, AskedRule, HandleBinlog
    PROVE  Shape'
<1>1. PICK c : c = InitializedContext
  OBVIOUS
<1>2. PICK p : p = StartHandle(prog, c.pos + 1)
  OBVIOUS
<1>3. c \in ContextsAt(N, M) /\ c # Nil /\ c.pos <= c.next
  BY <1>1, InitializedTyped
<1>4. /\ pc = "loop" /\ pc' \in {"handling", "handled"} /\ Sub = "Done" /\ Persist(p)
      /\ UNCHANGED <<srcVars, destVars, more, cursor, extra, interrupt, budget, lost>>
      /\ pipe' = c /\ HasBinlogs(c) /\ log[c.pos + 1].kind # "UPSERT"
      /\ extra.partialTable = Nil
  BY <1>1, <1>2 DEF HandleBinlog, AtDone, AtLoop, Sub, Goto, HasNonUpsertBinlog
<1>5. c.pos + 1 \in 0..N
  BY <1>3, <1>4, ShapeFacts DEF ContextsAt, HasBinlogs
<1>6. /\ p \in ProgressAt(N, M) /\ SyncOK(p) /\ p.subSyncState = Sub
      /\ p.commitSeq = c.pos + 1
  BY <1>2, <1>5, ShapeFacts, StartHandleTyped DEF Sub
<1>7. prog' = p /\ disk' \in ProgressAt(N, M) /\ DiskFollows'
  BY <1>4, <1>6, ShapeFacts, Persists
<1>8. FlagsTyped'
  BY <1>4 DEF FlagsTyped, Shape, Typed, PCs
<1>9. Typed'
  BY <1>3, <1>4, <1>6, <1>7, <1>8, ShapeFacts, JobTypes
<1>10. Control'
  BY <1>3, <1>4, <1>6, <1>7, ShapeFacts
     DEF Control, Live, LiveStates, Sub, Snapshotting, HasBinlogs, srcVars
<1> QED
  BY <1>7, <1>9, <1>10 DEF Shape

\* The binlog at hand.
LEMMA HandlingFacts ==
    ASSUME Shape, pc \in {"handling", "handled"}
    PROVE  /\ Sub = "Done" /\ pipe # Nil /\ pipe \in ContextsAt(N, M) /\ pipe.pos < pipe.next
           /\ extra.partialTable = Nil /\ prog.commitSeq = pipe.pos + 1
           /\ prog.commitSeq \in 1..N /\ log[prog.commitSeq] \in Binlogs
           /\ log[prog.commitSeq].kind \in Kinds \ {"UPSERT"}
           /\ log[prog.commitSeq].tables \subseteq Tables
           /\ log[prog.commitSeq].kind # "DUMMY" =>
                 \E t \in Tables : log[prog.commitSeq].tables = {t}
<1>1. /\ Sub = "Done" /\ pipe # Nil /\ pipe \in ContextsAt(N, M) /\ pipe.pos < pipe.next
      /\ extra.partialTable = Nil /\ prog.commitSeq = pipe.pos + 1
      /\ log[prog.commitSeq].kind # "UPSERT"
  BY ShapeFacts DEF Control, HasBinlogs
<1>2. prog.commitSeq \in 1..N
  BY <1>1, ShapeFacts DEF ContextsAt
<1>3. log[prog.commitSeq] \in Binlogs
  BY <1>2 DEF Shape, Typed, SourceTyped, N
<1> QED
  BY <1>1, <1>2, <1>3 DEF Binlogs, Kinds

\* Applying a binlog to the target keeps its type.
LEMMA ApplyTyped ==
    ASSUME Shape, NEW s \in 1..N, NEW ts, Apply(s, ts)
    PROVE  dest' \in [Tables -> [base : 0..N, applied : Seq(1..N)]]
<1>1. dest \in [Tables -> [base : 0..N, applied : Seq(1..N)]]
  BY DEF Shape, Typed, TargetTyped, N
<1>2. ASSUME NEW t \in Tables
      PROVE  [dest[t] EXCEPT !.applied = Append(@, s)] \in [base : 0..N, applied : Seq(1..N)]
  <2>1. dest[t] \in [base : 0..N, applied : Seq(1..N)]
    BY <1>1
  <2>2. Append(dest[t].applied, s) \in Seq(1..N)
    BY <2>1
  <2> QED
    BY <2>1, <2>2
<1> QED
  BY <1>1, <1>2 DEF Apply

\* What a job action may do to the target.
LEMMA TargetTypes ==
    ASSUME Shape, AskedRule, UNCHANGED log, locked' \in 0..N, gc' = gc,
           txns' \in Seq(TxnRecords), Len(txns') = M,
           dest' \in [Tables -> [base : 0..N, applied : Seq(1..N)]],
           prog' \in ProgressAt(N, M), disk' \in ProgressAt(N, M),
           pipe' \in ContextsAt(N, M) \cup {Nil}, FlagsTyped'
    PROVE  Typed'
<1>1. asked' \in 0..Len(log)
  BY DEF AskedRule, Shape, Typed, SourceTyped
<1>2. SourceTyped'
  BY <1>1 DEF SourceTyped, Shape, Typed, N
<1>3. TargetTyped'
  BY ShapeFacts DEF TargetTyped, M, N
<1>4. JobTyped'
  BY DEF JobTyped, N, M
<1> QED
  BY <1>2, <1>3, <1>4 DEF Typed

\* A binlog that is found in effect, or is executed, is handled; when its answer is lost, the
\* tick ends.
LEMMA ExecuteShape ==
    ASSUME Shape, AskedRule, HandleCommittedBinlog \/ ExecuteDDL \/ ExecuteDDLLosesReply
    PROVE  Shape'
<1>1. PICK p : p = NoPrevTxn
  OBVIOUS
<1>2. /\ pc = "handling" /\ pc' \in {"handled", "idle"} /\ prog' = p /\ disk' = disk
      /\ UNCHANGED <<srcVars, txns, pipe, more, cursor, extra, interrupt, lost>>
      /\ budget' \in 0..MaxFaults
  <2>1. budget \in 0..MaxFaults
    BY DEF Shape, Typed, FlagsTyped
  <2>2. CASE HandleCommittedBinlog
    BY <1>1, <2>1, <2>2 DEF HandleCommittedBinlog, Handling, Goto, Volatile, destVars
  <2>3. CASE ExecuteDDL
    BY <1>1, <2>1, <2>3 DEF ExecuteDDL, Handling, Goto, Volatile
  <2>4. CASE ExecuteDDLLosesReply
    BY <1>1, <2>4, FaultTyped DEF ExecuteDDLLosesReply, Handling, Goto, Volatile
  <2> QED
    BY <2>2, <2>3, <2>4
<1>3. /\ p \in ProgressAt(N, M) /\ SyncOK(p) /\ p.subSyncState = Sub
      /\ Keeps(prog, p) /\ KeepsSync(prog, p) /\ p.persistData = prog.persistData
      /\ p.inMemoryData = prog.inMemoryData
  BY <1>1, ShapeFacts, NoPrevTxnTyped DEF NoPrevTxn, Sub
<1>4. DiskFollows'
  BY <1>2, <1>3, HandlingFacts, Remembers DEF Snapshotting
<1>5. FlagsTyped'
  BY <1>2 DEF FlagsTyped, Shape, Typed, PCs
<1>6. dest' \in [Tables -> [base : 0..N, applied : Seq(1..N)]]
  <2>1. CASE HandleCommittedBinlog
    BY <2>1 DEF HandleCommittedBinlog, destVars, Shape, Typed, TargetTyped, N
  <2>2. CASE ExecuteDDL \/ ExecuteDDLLosesReply
    BY <1>2, <2>2, HandlingFacts, ApplyTyped DEF ExecuteDDL, ExecuteDDLLosesReply
  <2> QED
    BY <2>1, <2>2
<1>7. Typed'
  <2>1. locked' \in 0..N /\ gc' = gc /\ log' = log
    BY <1>2 DEF srcVars, Shape, Typed, SourceTyped, N
  <2>2. txns' \in Seq(TxnRecords) /\ Len(txns') = M
    BY <1>2 DEF Shape, Typed, TargetTyped, M
  <2> QED
    BY <1>2, <1>3, <1>5, <1>6, <2>1, <2>2, ShapeFacts, TargetTypes
<1>8. Control'
  BY <1>2, <1>3, HandlingFacts, ShapeFacts
     DEF Control, Live, LiveStates, Sub, Snapshotting, HasBinlogs, srcVars, KeepsSync
<1> QED
  BY <1>4, <1>7, <1>8 DEF Shape
-----------------------------------------------------------------------------
\* HandleBinlogFails keeps the shape.
LEMMA HandleBinlogFailsShape ==
    ASSUME Shape, AskedRule, HandleBinlogFails
    PROVE  Shape'
<1>1. /\ pc = "handling" /\ pc' = "idle"
      /\ UNCHANGED <<srcVars, destVars, pipe, more, cursor, extra, interrupt, lost>>
      /\ budget' \in 0..MaxFaults
  BY FaultTyped DEF HandleBinlogFails, Handling, Goto
<1>2. FlagsTyped'
  BY <1>1 DEF FlagsTyped, Shape, Typed, PCs
<1>3. /\ prog' \in ProgressAt(N, M) /\ disk' \in ProgressAt(N, M) /\ DiskFollows'
      /\ Sub' \in {"Done", "BeginCreateSnapshot"}
  <2>1. CASE HandleError(prog, "error")
    <3>1. prog' = prog /\ disk' = disk
      BY <2>1 DEF HandleError, Volatile
    <3>2. DiskFollows'
      BY <3>1, ShapeFacts DEF DiskFollows, Sub, Snapshotting, SyncOK, IsIncrementalSync
    <3> QED
      BY <1>1, <3>1, <3>2, ShapeFacts, HandlingFacts DEF Sub
  <2>2. CASE HandleError(NoPrevTxn, "meta")
    <3>1. PICK p : p = NoPrevTxn
      OBVIOUS
    <3>2. p \in ProgressAt(N, M) /\ p.commitSeq \in 0..N
      BY <3>1, ShapeFacts, NoPrevTxnTyped DEF NoPrevTxn, ProgressAt
    <3>3. PICK q : q = NewSnapshot(p, p.commitSeq)
      OBVIOUS
    <3>4. q \in ProgressAt(N, M) /\ SyncOK(q) /\ q.subSyncState = "BeginCreateSnapshot"
      BY <3>2, <3>3, ShapeFacts, NewSnapshotTyped
    <3>5. Persist(q)
      BY <2>2, <3>1, <3>3 DEF HandleError
    <3> QED
      BY <3>4, <3>5, ShapeFacts, Persists DEF Sub
  <2> QED
    BY <2>1, <2>2 DEF HandleBinlogFails
<1>4. Typed'
  BY <1>1, <1>2, <1>3, ShapeFacts, JobTypes
<1>5. Control'
  BY <1>1, <1>3, ShapeFacts DEF Control, Live, LiveStates, Snapshotting
<1> QED
  BY <1>3, <1>4, <1>5 DEF Shape

\* HandleBySnapshot keeps the shape.
LEMMA HandleBySnapshotShape ==
    ASSUME Shape, AskedRule, HandleBySnapshot
    PROVE  Shape'
<1>1. /\ pc = "handling" /\ pc' = "idle" /\ pipe' = Nil
      /\ UNCHANGED <<srcVars, destVars, more, cursor, extra, interrupt, budget, lost>>
  BY DEF HandleBySnapshot, Handling, Goto
<1>2. FlagsTyped'
  BY <1>1 DEF FlagsTyped, Shape, Typed, PCs
<1>3. PICK p : p = NoPrevTxn
  OBVIOUS
<1>4. p \in ProgressAt(N, M) /\ p.commitSeq = prog.commitSeq /\ p.commitSeq \in 0..N
  BY <1>3, ShapeFacts, NoPrevTxnTyped DEF NoPrevTxn, ProgressAt, KeepsSync
<1>5. PICK q \in ProgressAt(N, M) : SyncOK(q) /\ Persist(q)
  <2>1. CASE \E t \in log[prog.commitSeq].tables : Persist(NewPartialSnapshot(p, t))
    <3>1. PICK t \in log[prog.commitSeq].tables : Persist(NewPartialSnapshot(p, t))
      BY <2>1
    <3>2. PICK q : q = NewPartialSnapshot(p, t)
      OBVIOUS
    <3>3. t \in Tables
      BY <1>1, HandlingFacts
    <3>4. q \in ProgressAt(N, M) /\ SyncOK(q)
      BY <1>4, <3>2, <3>3, ShapeFacts, NewPartialSnapshotTyped
    <3> QED
      BY <3>1, <3>2, <3>4
  <2>2. CASE Persist(NewSnapshot(p, prog.commitSeq))
    <3>1. PICK q : q = NewSnapshot(p, prog.commitSeq)
      OBVIOUS
    <3>2. q \in ProgressAt(N, M) /\ SyncOK(q)
      BY <1>4, <3>1, ShapeFacts, NewSnapshotTyped
    <3> QED
      BY <2>2, <3>1, <3>2
  <2> QED
    BY <1>3, <2>1, <2>2 DEF HandleBySnapshot
<1> QED
  BY <1>1, <1>2, <1>5, StoresAndLeaves

\* What Done makes of the progress.
LEMMA DoneTyped ==
    ASSUME NEW n \in Nat, NEW m \in Nat, NEW p \in ProgressAt(n, m), SyncOK(p),
           p.subSyncState # "BeginCreateSnapshot", NEW q, q = Done(p)
    PROVE  /\ q \in ProgressAt(n, m) /\ SyncOK(q) /\ q.subSyncState = "Done"
           /\ KeepsSync(p, q) /\ q.prevCommitSeq = p.commitSeq
           /\ q.unknownCommitSeq = p.unknownCommitSeq /\ q.partialTable = p.partialTable
           /\ q.persistData = p.persistData /\ q.inMemoryData = p.inMemoryData
BY DEF ProgressAt, Done, SyncOK, IsIncrementalSync, SubSyncStates, KeepsSync

\* Storing p, and the call to the source that may come with it.
LEMMA Locks ==
    ASSUME Shape, NEW p \in ProgressAt(N, M), SyncOK(p), LockBinlog(p) \/ LockBinlogFails(p)
    PROVE  /\ prog' \in ProgressAt(N, M) /\ disk' \in ProgressAt(N, M) /\ DiskFollows'
           /\ Keeps(p, prog') /\ KeepsSync(p, prog') /\ prog'.subSyncState = p.subSyncState
           /\ prog'.persistData = p.persistData /\ prog'.inMemoryData = p.inMemoryData
           /\ locked' \in {locked, p.prevCommitSeq} /\ budget' \in 0..MaxFaults
<1>1. budget \in 0..MaxFaults
  BY DEF Shape, Typed, FlagsTyped
<1>2. CASE Persist(p) /\ locked' = locked /\ budget' \in 0..MaxFaults
  <2>1. prog' = p /\ disk' \in ProgressAt(N, M) /\ DiskFollows'
    BY <1>2, ShapeFacts, Persists
  <2> QED
    BY <1>2, <2>1 DEF Keeps, KeepsSync
<1>3. CASE /\ prog' = [p EXCEPT !.lockedCommitSeq = p.prevCommitSeq] /\ disk' = Persisted(p)
           /\ locked' = p.prevCommitSeq /\ budget' = budget
  <2>1. PICK q : q = [p EXCEPT !.lockedCommitSeq = p.prevCommitSeq]
    OBVIOUS
  <2>2. p.prevCommitSeq \in 0..N
    BY DEF ProgressAt
  <2>3. /\ q \in ProgressAt(N, M) /\ SyncOK(q) /\ q.subSyncState = p.subSyncState
        /\ Keeps(p, q) /\ KeepsSync(p, q)
        /\ q.persistData = p.persistData /\ q.inMemoryData = p.inMemoryData
    BY <2>1, <2>2, ShapeFacts, LockedTyped
  <2>4. prog' = q
    BY <1>3, <2>1
  <2>5. disk' \in ProgressAt(N, M) /\ DiskFollows'
    BY <1>3, <2>3, <2>4, ShapeFacts, Stores
  <2> QED
    BY <1>1, <1>3, <2>3, <2>4, <2>5
<1> QED
  BY <1>1, <1>2, <1>3, FaultTyped DEF LockBinlog, LockBinlogFails

\* The progress after a DDL is handled.
LEMMA HandledTyped ==
    ASSUME Shape, pc = "handled", NEW p, p = HandledProgress
    PROVE  /\ p \in ProgressAt(N, M) /\ SyncOK(p) /\ p.subSyncState = "Done"
           /\ p.prevCommitSeq = prog.commitSeq /\ p.commitSeq = prog.commitSeq
           /\ p.unknownCommitSeq = prog.unknownCommitSeq
           /\ p.partialTable = prog.partialTable
           /\ p.persistData = prog.persistData /\ p.inMemoryData = prog.inMemoryData
           /\ \/ /\ p.syncState = prog.syncState
                 /\ p.tableCommitSeqMap = prog.tableCommitSeqMap
              \/ /\ \A t \in Tables : prog.tableCommitSeqMap[t] <= prog.commitSeq
                 /\ p.tableCommitSeqMap = NoMap /\ p.syncState = "DBIncrementalSync"
<1>1. PICK q : q = AfterHandleBinlog(prog, prog.commitSeq)
  OBVIOUS
<1>2. prog.subSyncState # "BeginCreateSnapshot"
  BY HandlingFacts DEF Sub
<1>3. /\ q \in ProgressAt(N, M) /\ SyncOK(q) /\ q.subSyncState = prog.subSyncState
      /\ Keeps(prog, q) /\ q.commitSeq = prog.commitSeq
      /\ q.persistData = prog.persistData /\ q.inMemoryData = prog.inMemoryData
      /\ \/ KeepsSync(prog, q)
         \/ /\ \A t \in Tables : prog.tableCommitSeqMap[t] <= prog.commitSeq
            /\ q.tableCommitSeqMap = NoMap /\ q.syncState = "DBIncrementalSync"
  BY <1>1, <1>2, ShapeFacts, AfterHandleTyped
<1>4. p = Done(q)
  BY <1>1 DEF HandledProgress
<1>5. /\ p \in ProgressAt(N, M) /\ SyncOK(p) /\ p.subSyncState = "Done"
      /\ KeepsSync(q, p) /\ p.prevCommitSeq = q.commitSeq
      /\ p.unknownCommitSeq = q.unknownCommitSeq /\ p.partialTable = q.partialTable
      /\ p.persistData = q.persistData /\ p.inMemoryData = q.inMemoryData
  BY <1>2, <1>3, <1>4, ShapeFacts, DoneTyped
<1> QED
  BY <1>3, <1>5 DEF Keeps, KeepsSync

\* FinishBinlog keeps the shape.
LEMMA FinishBinlogShape ==
    ASSUME Shape, AskedRule, FinishBinlog \/ FinishBinlogLockFails
    PROVE  Shape'
<1>1. PICK p : p = HandledProgress
  OBVIOUS
<1>2. /\ pc = "handled" /\ pc' \in {"loop", "idle"} /\ (LockBinlog(p) \/ LockBinlogFails(p))
      /\ UNCHANGED <<log, gc, destVars, more, cursor, extra, interrupt, lost>>
      /\ pipe' \in {pipe, [pipe EXCEPT !.pos = @ + 1]}
  BY <1>1 DEF FinishBinlog, FinishBinlogLockFails, Goto
<1>3. /\ p \in ProgressAt(N, M) /\ SyncOK(p) /\ p.subSyncState = "Done"
      /\ p.prevCommitSeq \in 0..N
  BY <1>1, <1>2, HandledTyped DEF ProgressAt
<1>4. /\ prog' \in ProgressAt(N, M) /\ disk' \in ProgressAt(N, M) /\ DiskFollows'
      /\ Sub' = "Done" /\ locked' \in {locked, p.prevCommitSeq} /\ budget' \in 0..MaxFaults
  BY <1>2, <1>3, Locks DEF Sub
<1>5. FlagsTyped'
  BY <1>2, <1>4 DEF FlagsTyped, Shape, Typed, PCs
<1>6. pipe' \in ContextsAt(N, M) /\ pipe'.pos <= pipe'.next
  BY <1>2, HandlingFacts, ShapeFacts DEF ContextsAt
<1>7. Typed'
  <2>1. locked' \in 0..N
    BY <1>3, <1>4 DEF Shape, Typed, SourceTyped, N
  <2>2. /\ txns' \in Seq(TxnRecords) /\ Len(txns') = M
        /\ dest' \in [Tables -> [base : 0..N, applied : Seq(1..N)]]
    BY <1>2 DEF Shape, Typed, TargetTyped, M, N, destVars
  <2> QED
    BY <1>2, <1>4, <1>5, <1>6, <2>1, <2>2, TargetTypes
<1>8. Control'
  BY <1>2, <1>4, <1>6, ShapeFacts DEF Control, Live, LiveStates, Snapshotting
<1> QED
  BY <1>4, <1>7, <1>8 DEF Shape
-----------------------------------------------------------------------------
\* A running pipeline has its context and its list.
LEMMA LiveFacts ==
    ASSUME Shape, Live, pc # "idle"
    PROVE  /\ pipe # Nil /\ pipe \in ContextsAt(N, M) /\ pipe.pos <= pipe.next
           /\ pipe.pos \in 0..N /\ pipe.next \in 0..N
           /\ Data # Nil /\ Data \in DataAt(N, M) /\ Data = prog.inMemoryData
           /\ Running \in Seq(TxnsAt(N, M)) /\ ~Snapshotting
           /\ prog.subSyncState # "BeginCreateSnapshot" /\ prog.commitSeq \in 0..N
<1>1. pipe # Nil /\ pipe \in ContextsAt(N, M) /\ pipe.pos <= pipe.next /\ Data # Nil
  BY ShapeFacts DEF Control
<1>2. pipe.pos \in 0..N /\ pipe.next \in 0..N
  BY <1>1 DEF ContextsAt
<1>3. Data \in DataAt(N, M) /\ Data = prog.inMemoryData
  BY <1>1, ShapeFacts DEF Data
<1>4. Running \in Seq(TxnsAt(N, M))
  BY <1>3 DEF Running, DataAt
<1>5. ~Snapshotting /\ prog.subSyncState # "BeginCreateSnapshot"
  BY DEF Live, LiveStates, Snapshotting, Sub
<1>6. prog.commitSeq \in 0..N
  BY ShapeFacts DEF ProgressAt
<1> QED
  BY <1>1, <1>2, <1>3, <1>4, <1>5, <1>6

\* The larger and the smaller of two numbers.
LEMMA MaxMinOfTwo ==
    ASSUME NEW a \in Nat, NEW b \in Nat
    PROVE  /\ Max({a, b}) \in {a, b} /\ a <= Max({a, b}) /\ b <= Max({a, b})
           /\ Min({a, b}) \in {a, b} /\ Min({a, b}) <= a /\ Min({a, b}) <= b
BY DEF Max, Min

\* GetNextBinlogs keeps the shape.
LEMMA GetNextBinlogsShape ==
    ASSUME Shape, AskedRule, GetNextBinlogs
    PROVE  Shape'
<1>1. /\ pc = "loop" /\ pc' = "fetched" /\ Sub = "LaunchTransaction" /\ more' = TRUE
      /\ UNCHANGED <<srcVars, destVars, prog, disk, cursor, extra, interrupt, budget, lost>>
      /\ pipe.next < Len(log)
  BY DEF GetNextBinlogs, NeedsBinlogs, AtLoop, Goto, Sub
<1>2. PICK from : from = Max({pipe.next, gc})
  OBVIOUS
<1>3. PICK to : to = Min({from + BatchSize, Len(log)})
  OBVIOUS
<1>4. pipe' = [pipe EXCEPT !.pos = from, !.next = to]
  BY <1>2, <1>3 DEF GetNextBinlogs
<1>5. /\ Live /\ pipe # Nil /\ pipe \in ContextsAt(N, M) /\ pipe.next \in 0..N /\ gc \in 0..N
      /\ N \in Nat /\ N = Len(log)
  <2>1. Live
    BY <1>1 DEF Live, LiveStates
  <2> QED
    BY <1>1, <2>1, LiveFacts, ShapeFacts DEF Shape, Typed, SourceTyped, N
<1>6. from \in 0..N /\ pipe.next <= from /\ gc <= from
  BY <1>2, <1>5, MaxMinOfTwo
<1>7. to \in 0..N /\ from <= to
  BY <1>3, <1>5, <1>6, PipelineAssumption, MaxMinOfTwo
<1>8. pipe' \in ContextsAt(N, M) /\ pipe'.pos <= pipe'.next /\ pipe' # Nil
  BY <1>4, <1>5, <1>6, <1>7, ShapeFacts DEF ContextsAt
<1>9. FlagsTyped'
  BY <1>1 DEF FlagsTyped, Shape, Typed, PCs
<1>10. Typed'
  BY <1>1, <1>8, <1>9, ShapeFacts, JobTypes
<1>11. DiskFollows'
  BY <1>1, ShapeFacts DEF DiskFollows, Sub, Snapshotting, SyncOK, IsIncrementalSync
<1>12. Control'
  BY <1>1, <1>5, <1>8, ShapeFacts
     DEF Control, Live, LiveStates, Sub, Snapshotting, Data, Commitable
<1> QED
  BY <1>10, <1>11, <1>12 DEF Shape

\* Asking for binlogs that are not there, or failing to, leaves the progress as it is, but for
\* the previous txn.
LEMMA NoMoreBinlogsShape ==
    ASSUME Shape, AskedRule, NoMoreBinlogs \/ GetNextBinlogsFails \/ PanicOnStaleContext
    PROVE  Shape'
<1>1. /\ pc = "loop" /\ pc' \in {"fetched", "idle", "dead"} /\ Sub = "LaunchTransaction"
      /\ more' \in BOOLEAN
      /\ UNCHANGED <<srcVars, destVars, pipe, cursor, extra, interrupt, lost>>
      /\ \/ prog' = prog /\ disk' = disk
         \/ Persist(NoPrevTxn)
  BY DEF NoMoreBinlogs, GetNextBinlogsFails, PanicOnStaleContext, NeedsBinlogs, AtLoop, Goto, Sub,
         Shape, Typed, FlagsTyped
<1>2. budget' \in 0..MaxFaults
  BY FaultTyped
     DEF NoMoreBinlogs, GetNextBinlogsFails, PanicOnStaleContext, Shape, Typed, FlagsTyped
<1>3. FlagsTyped'
  BY <1>1, <1>2 DEF FlagsTyped, Shape, Typed, PCs
<1>4. /\ prog' \in ProgressAt(N, M) /\ disk' \in ProgressAt(N, M) /\ DiskFollows'
      /\ Sub' = Sub /\ prog'.inMemoryData = prog.inMemoryData
  <2>1. CASE prog' = prog /\ disk' = disk
    BY <2>1, ShapeFacts DEF DiskFollows, Sub, Snapshotting, SyncOK, IsIncrementalSync
  <2>2. CASE Persist(NoPrevTxn)
    <3>1. PICK p : p = NoPrevTxn
      OBVIOUS
    <3>2. /\ p \in ProgressAt(N, M) /\ SyncOK(p) /\ p.subSyncState = Sub
          /\ p.inMemoryData = prog.inMemoryData
      BY <3>1, ShapeFacts, NoPrevTxnTyped DEF NoPrevTxn, Sub
    <3> QED
      BY <2>2, <3>1, <3>2, ShapeFacts, Persists DEF Sub
  <2> QED
    BY <1>1, <2>1, <2>2
<1>5. Typed'
  BY <1>1, <1>3, <1>4, ShapeFacts, JobTypes
<1>6. Live
  BY <1>1 DEF Live, LiveStates
<1>7. Control'
  BY <1>1, <1>4, <1>6, LiveFacts, ShapeFacts DEF Control, Live, LiveStates, Snapshotting, Data
<1> QED
  BY <1>4, <1>5, <1>7 DEF Shape

\* A launch happens in LaunchTransaction, within a call of sync.
LEMMA LaunchFacts ==
    ASSUME Shape, MayLaunch
    PROVE  Sub = "LaunchTransaction" /\ pc # "idle" /\ Live
BY ShapeFacts DEF MayLaunch, AtLoop, Sub, Live, LiveStates, Control

\* Whether more binlogs are left is a Boolean.
LEMMA StillMoreTyped ==
    ASSUME Shape
    PROVE  StillMore \in BOOLEAN
BY DEF StillMore, Shape, Typed, FlagsTyped

\* NothingToLaunch keeps the shape.
LEMMA NothingToLaunchShape ==
    ASSUME Shape, AskedRule, NothingToLaunch \/ SkipUpsert
    PROVE  Shape'
<1>1. PICK p : p = ToCommitPipeline(prog)
  OBVIOUS
<1>2. /\ MayLaunch /\ pc' = "loop" /\ prog' = p /\ disk' = disk /\ more' \in BOOLEAN
      /\ UNCHANGED <<srcVars, destVars, cursor, extra, interrupt, budget, lost>>
      /\ \/ pipe' = pipe
         \/ HasBinlogs(pipe) /\ pipe' = [pipe EXCEPT !.pos = @ + 1]
  BY <1>1, StillMoreTyped DEF NothingToLaunch, SkipUpsert, Goto, Volatile, HasUpsertBinlog
<1>3. /\ pipe # Nil /\ pipe \in ContextsAt(N, M) /\ pipe.pos <= pipe.next
      /\ Data = prog.inMemoryData /\ Data \in DataAt(N, M) /\ ~Snapshotting
      /\ Sub = "LaunchTransaction"
  BY <1>2, LaunchFacts, LiveFacts
<1>4. /\ p \in ProgressAt(N, M) /\ SyncOK(p) /\ p.subSyncState = "CommitPipeline"
      /\ Keeps(prog, p) /\ KeepsSync(prog, p) /\ p.persistData = prog.persistData
      /\ p.inMemoryData = prog.inMemoryData
  BY <1>1, <1>3, ShapeFacts, NextSubVolatileTyped
     DEF ToCommitPipeline, Sub, IncrementalStates, SubSyncStates
<1>5. DiskFollows'
  BY <1>2, <1>3, <1>4, Remembers DEF Sub
<1>6. FlagsTyped'
  BY <1>2 DEF FlagsTyped, Shape, Typed, PCs
<1>7. pipe' \in ContextsAt(N, M) /\ pipe'.pos <= pipe'.next /\ pipe' # Nil
  BY <1>2, <1>3, ShapeFacts DEF ContextsAt, HasBinlogs
<1>8. Typed'
  BY <1>2, <1>4, <1>6, <1>7, ShapeFacts, JobTypes
<1>9. Control'
  BY <1>2, <1>3, <1>4, <1>7, ShapeFacts DEF Control, Live, LiveStates, Sub, Snapshotting, Data
<1> QED
  BY <1>5, <1>8, <1>9 DEF Shape

\* One more txn at the target: everything typed before still is.
LEMMA NewTxnTyped ==
    ASSUME Shape, Len(txns) < MaxTxn
    PROVE  /\ NewTxn \in Seq(TxnRecords) /\ Len(NewTxn) = M + 1 /\ M + 1 \in Nat
           /\ NewTxn[M + 1] = [status |-> "PREPARE", recorded |-> FALSE]
           /\ \A i \in 1..M : NewTxn[i] = txns[i]
           /\ ProgressAt(N, M) \subseteq ProgressAt(N, M + 1)
           /\ ContextsAt(N, M) \subseteq ContextsAt(N, M + 1)
<1>1. [status |-> "PREPARE", recorded |-> FALSE] \in TxnRecords
  BY DEF TxnRecords
<1>2. txns \in Seq(TxnRecords)
  BY DEF Shape, Typed, TargetTyped
<1>3. /\ NewTxn \in Seq(TxnRecords) /\ Len(NewTxn) = M + 1 /\ M + 1 \in Nat
      /\ NewTxn[M + 1] = [status |-> "PREPARE", recorded |-> FALSE]
      /\ \A i \in 1..M : NewTxn[i] = txns[i]
  BY <1>1, <1>2 DEF NewTxn, M
<1>4. M <= M + 1 /\ N <= N
  BY <1>3, ShapeFacts
<1> QED
  BY <1>3, <1>4, SetsGrow, ShapeFacts

\* The types after a txn was begun on the target.
LEMMA GrownTypes ==
    ASSUME Shape, AskedRule, UNCHANGED <<srcVars, dest>>, Len(txns) < MaxTxn, txns' = NewTxn,
           prog' \in ProgressAt(N, M), disk' \in ProgressAt(N, M),
           pipe' \in ContextsAt(N, M) \cup {Nil}, FlagsTyped'
    PROVE  Typed'
<1>1. asked' \in 0..Len(log)
  BY DEF AskedRule, Shape, Typed, SourceTyped
<1>2. SourceTyped'
  BY <1>1 DEF SourceTyped, Shape, Typed, srcVars
<1>3. TargetTyped'
  <2>1. Len(txns') = M + 1 /\ M + 1 <= MaxTxn /\ txns' \in Seq(TxnRecords)
    BY NewTxnTyped, ShapeFacts, BoundsAssumption DEF M
  <2> QED
    BY <2>1 DEF TargetTyped, Shape, Typed, srcVars
<1>4. JobTyped'
  <2>1. Len(log)' = N /\ Len(txns)' = M + 1
    BY NewTxnTyped DEF N, srcVars
  <2> QED
    BY <2>1, NewTxnTyped DEF JobTyped
<1> QED
  BY <1>2, <1>3, <1>4 DEF Typed

\* BeginTxn keeps the shape.
LEMMA BeginTxnShape ==
    ASSUME Shape, AskedRule, BeginTxn
    PROVE  Shape'
<1>1. /\ MayLaunch /\ HasUpsertBinlog(pipe) /\ RelatedTables(NextSeq) # {}
      /\ pc' = "begun" /\ more' \in BOOLEAN /\ Len(txns) < MaxTxn /\ txns' = NewTxn
      /\ UNCHANGED <<srcVars, dest, prog, disk, pipe, cursor, extra, interrupt, budget, lost>>
  BY StillMoreTyped DEF BeginTxn, NeedsTxn, Goto
<1>2. /\ pipe # Nil /\ pipe \in ContextsAt(N, M) /\ pipe.pos <= pipe.next
      /\ Data # Nil /\ Sub = "LaunchTransaction"
  BY <1>1, LaunchFacts, LiveFacts
<1>3. FlagsTyped'
  BY <1>1 DEF FlagsTyped, Shape, Typed, PCs
<1>4. Typed'
  BY <1>1, <1>3, ShapeFacts, GrownTypes
<1>5. DiskFollows'
  BY <1>1, ShapeFacts DEF DiskFollows, Sub, Snapshotting, SyncOK, IsIncrementalSync
<1>6. HasUpsertBinlog(pipe)' /\ (RelatedTables(NextSeq) # {})'
  BY <1>1 DEF HasUpsertBinlog, HasBinlogs, RelatedTables, NextSeq, srcVars
<1>7. (Len(txns) > 0 /\ ~txns[Len(txns)].recorded)'
  <2>1. txns' = NewTxn /\ Len(NewTxn) = M + 1 /\ M \in Nat
        /\ NewTxn[M + 1].recorded = FALSE
    BY <1>1, NewTxnTyped, ShapeFacts
  <2>2. txns'[Len(txns')].recorded = FALSE /\ Len(txns') > 0
    BY <2>1
  <2> QED
    BY <2>2
<1>8. Control'
  BY <1>1, <1>2, <1>6, <1>7, ShapeFacts
     DEF Control, Live, LiveStates, Sub, Snapshotting, Data, Commitable
<1> QED
  BY <1>4, <1>5, <1>8 DEF Shape

\* ResetAndFail keeps the shape.
LEMMA ResetAndFailShape ==
    ASSUME Shape, prog.subSyncState # "BeginCreateSnapshot", NEW err, ResetAndFail(err)
    PROVE  /\ prog' \in ProgressAt(N, M) /\ disk' \in ProgressAt(N, M) /\ DiskFollows'
           /\ pipe' = Nil /\ pc' = "idle"
<1>1. pipe' = Nil /\ pc' = "idle" /\ HandleError(prog, err)
  BY DEF ResetAndFail, Goto
<1>2. CASE err = "meta"
  <2>1. PICK q : q = NewSnapshot(prog, prog.commitSeq)
    OBVIOUS
  <2>2. prog.commitSeq \in 0..N
    BY ShapeFacts DEF ProgressAt
  <2>3. q \in ProgressAt(N, M) /\ SyncOK(q) /\ Persist(q)
    BY <1>1, <1>2, <2>1, <2>2, ShapeFacts, NewSnapshotTyped DEF HandleError
  <2> QED
    BY <1>1, <2>3, ShapeFacts, Persists
<1>3. CASE err # "meta"
  <2>1. prog' = prog /\ disk' = disk
    BY <1>1, <1>3 DEF HandleError, Volatile
  <2> QED
    BY <1>1, <2>1, ShapeFacts DEF DiskFollows, Sub, Snapshotting, SyncOK, IsIncrementalSync
<1> QED
  BY <1>2, <1>3

\* BeginTxnFails keeps the shape.
LEMMA BeginTxnFailsShape ==
    ASSUME Shape, AskedRule, BeginTxnFails
    PROVE  Shape'
<1>1. /\ MayLaunch /\ UNCHANGED <<srcVars, dest, more, cursor, extra, interrupt, lost>>
      /\ budget' \in 0..MaxFaults
      /\ txns' = txns \/ (Len(txns) < MaxTxn /\ txns' = NewTxn)
      /\ \/ ResetAndFail("error") \/ ResetAndFail("meta")
         \/ Persist(Rollback(prog)) /\ pipe' = Nil /\ pc' = "idle"
  BY FaultTyped DEF BeginTxnFails, NeedsTxn, Goto
<1>2. prog.subSyncState # "BeginCreateSnapshot"
  BY <1>1, LaunchFacts, LiveFacts
<1>3. /\ prog' \in ProgressAt(N, M) /\ disk' \in ProgressAt(N, M) /\ DiskFollows'
      /\ pipe' = Nil /\ pc' = "idle"
  <2>1. CASE ResetAndFail("error") \/ ResetAndFail("meta")
    BY <1>2, <2>1, ResetAndFailShape
  <2>2. CASE Persist(Rollback(prog)) /\ pipe' = Nil /\ pc' = "idle"
    <3>1. PICK p : p = Rollback(prog)
      OBVIOUS
    <3>2. p \in ProgressAt(N, M) /\ SyncOK(p)
      BY <1>2, <3>1, ShapeFacts, RollbackTyped
    <3> QED
      BY <2>2, <3>1, <3>2, ShapeFacts, Persists
  <2> QED
    BY <1>1, <2>1, <2>2
<1>4. FlagsTyped'
  BY <1>1, <1>3 DEF FlagsTyped, Shape, Typed, PCs
<1>5. Typed'
  BY <1>1, <1>3, <1>4, GrownTypes, JobTypes DEF destVars
<1>6. Control'
  BY <1>1, <1>3, LeavesTick
<1> QED
  BY <1>3, <1>5, <1>6 DEF Shape
-----------------------------------------------------------------------------
\* The txn that was begun, and the progress that has it in its list.
LEMMA BegunFacts ==
    ASSUME Shape, pc = "begun", NEW ctx, ctx = BegunTxn, NEW p,
           p = PersistInMemoryData(WithBegunTxn)
    PROVE  /\ ctx \in TxnsAt(N, M) /\ ctx.txnId = M /\ ctx.commitSeq = pipe.pos + 1
           /\ pipe.pos + 1 <= pipe.next /\ log[pipe.pos + 1].kind = "UPSERT"
           /\ ctx.tables = RelatedTables(pipe.pos + 1) /\ ctx.tables # {}
           /\ p \in ProgressAt(N, M) /\ SyncOK(p) /\ p.subSyncState = "LaunchTransaction"
           /\ Keeps(prog, p) /\ KeepsSync(prog, p)
           /\ p.inMemoryData \in DataAt(N, M) /\ p.persistData = p.inMemoryData
           /\ p.inMemoryData = [Data EXCEPT !.running = Append(@, ctx)]
           /\ p.inMemoryData.running = Append(Running, ctx)
<1>1. /\ Sub = "LaunchTransaction" /\ Live /\ pc # "idle" /\ HasUpsertBinlog(pipe)
      /\ RelatedTables(NextSeq) # {} /\ Len(txns) > 0
  BY ShapeFacts DEF Control, Live, LiveStates
<1>2. /\ pipe # Nil /\ pipe.pos \in 0..N /\ pipe.next \in 0..N
      /\ Data \in DataAt(N, M) /\ Data = prog.inMemoryData /\ Running \in Seq(TxnsAt(N, M))
  BY <1>1, LiveFacts
<1>3. pipe.pos + 1 \in 1..N /\ pipe.pos + 1 <= pipe.next /\ log[pipe.pos + 1].kind = "UPSERT"
  BY <1>1, <1>2, ShapeFacts DEF HasUpsertBinlog, HasBinlogs
<1>4. log[pipe.pos + 1] \in Binlogs
  BY <1>3 DEF Shape, Typed, SourceTyped, N
<1>5. RelatedTables(pipe.pos + 1) \subseteq Tables
  BY <1>4 DEF RelatedTables, Binlogs
<1>6. /\ ctx.txnId = M /\ ctx.commitSeq = pipe.pos + 1 /\ ctx.tables = RelatedTables(pipe.pos + 1)
      /\ ctx \in TxnsAt(N, M) /\ ctx.tables # {}
  BY <1>1, <1>3, <1>5, ShapeFacts DEF BegunTxn, NextSeq, TxnsAt, M
<1>7. PICK data : data = [Data EXCEPT !.running = Append(@, ctx)]
  OBVIOUS
<1>8. Append(Running, ctx) \in Seq(TxnsAt(N, M))
  BY <1>2, <1>6
<1>9. data \in DataAt(N, M) /\ data.running = Append(Running, ctx)
  BY <1>2, <1>7, <1>8 DEF DataAt, Running
<1>10. PICK q : q = [prog EXCEPT !.inMemoryData = data]
  OBVIOUS
<1>11. q = WithBegunTxn
  BY <1>2, <1>7, <1>10, ShapeFacts DEF WithBegunTxn, ProgressAt
<1>12. /\ q \in ProgressAt(N, M) /\ SyncOK(q) /\ q.subSyncState = prog.subSyncState
       /\ Keeps(prog, q) /\ KeepsSync(prog, q) /\ q.inMemoryData = data
  BY <1>9, <1>10, ShapeFacts, InMemoryTyped
<1>13. /\ p \in ProgressAt(N, M) /\ SyncOK(p) /\ p.subSyncState = q.subSyncState
       /\ Keeps(q, p) /\ KeepsSync(q, p) /\ p.persistData = data /\ p.inMemoryData = data
  BY <1>9, <1>11, <1>12, ShapeFacts, PersistDataTyped
<1>14. Keeps(prog, p) /\ KeepsSync(prog, p) /\ p.subSyncState = "LaunchTransaction"
  BY <1>1, <1>12, <1>13 DEF Keeps, KeepsSync, Sub
<1> QED
  BY <1>3, <1>6, <1>7, <1>9, <1>13, <1>14

\* What recording the latest txn makes of the txns.
LEMMA RecordedTyped ==
    ASSUME Shape, Recorded
    PROVE  /\ txns' \in Seq(TxnRecords) /\ Len(txns') = M
           /\ \A i \in 1..M : txns'[i].status = txns[i].status
           /\ \A i \in 1..M : i # M => txns'[i] = txns[i]
<1>1. txns \in Seq(TxnRecords) /\ DOMAIN txns = 1..M /\ M \in Nat
  BY DEF Shape, Typed, TargetTyped, M
<1>2. \A i \in 1..M : txns[i] \in TxnRecords
  BY <1>1
<1>3. \A i \in 1..M : [txns[i] EXCEPT !.recorded = TRUE] \in TxnRecords
  BY <1>2 DEF TxnRecords
<1>4. txns' = [txns EXCEPT ![M].recorded = TRUE]
  BY DEF Recorded, M
<1>5. txns' \in [1..M -> TxnRecords]
  BY <1>1, <1>2, <1>3, <1>4
<1>6. txns' \in Seq(TxnRecords) /\ Len(txns') = M
  BY <1>1, <1>5
<1> QED
  BY <1>1, <1>2, <1>4, <1>6 DEF TxnRecords

\* The context with the goroutine of the txn that was begun.
LEMMA LaunchedTyped ==
    ASSUME Shape, pc = "begun", NEW ctx \in TxnsAt(N, M), ctx = BegunTxn,
           NEW r \in {"running", "partial"}, NEW c, c = Launched(r)
    PROVE  /\ c \in ContextsAt(N, M) /\ c # Nil /\ c.pos = pipe.pos + 1 /\ c.next = pipe.next
           /\ c.link = pipe.link + 1 /\ c.tokens = pipe.tokens /\ c.commitCh = pipe.commitCh
           /\ c.workers = pipe.workers \cup {[ctx |-> ctx, prev |-> pipe.link,
                                              next |-> pipe.link + 1, result |-> r]}
           /\ c.close = pipe.close /\ c.pos <= c.next
<1>1. Live /\ pc # "idle" /\ HasUpsertBinlog(pipe)
  BY ShapeFacts DEF Control, Live, LiveStates
<1>2. pipe \in ContextsAt(N, M) /\ pipe.pos \in 0..N /\ pipe.next \in 0..N
  BY <1>1, LiveFacts
<1>3. pipe.pos + 1 \in 0..N /\ pipe.pos + 1 <= pipe.next
  BY <1>1, <1>2, ShapeFacts DEF HasUpsertBinlog, HasBinlogs
<1>4. PICK w : w = [ctx |-> ctx, prev |-> pipe.link, next |-> pipe.link + 1, result |-> r]
  OBVIOUS
<1>5. pipe.link \in Nat
  BY <1>2 DEF ContextsAt
<1>6. w \in WorkersAt(N, M)
  BY <1>4, <1>5 DEF WorkersAt, Errors
<1>7. c = [pipe EXCEPT !.pos = @ + 1, !.link = @ + 1, !.workers = @ \cup {w}]
  BY <1>4 DEF Launched
<1>8. c \in ContextsAt(N, M)
  <2>1. pipe.workers \cup {w} \in SUBSET WorkersAt(N, M) /\ pipe.link + 1 \in Nat
    BY <1>2, <1>5, <1>6 DEF ContextsAt
  <2>2. PICK ws : ws = pipe.workers \cup {w}
    OBVIOUS
  <2>3. c = [pipe EXCEPT !.pos = pipe.pos + 1, !.link = pipe.link + 1, !.workers = ws]
    BY <1>2, <1>7, <2>2 DEF ContextsAt
  <2> QED
    BY <1>2, <1>3, <2>1, <2>2, <2>3 DEF ContextsAt
<1>9. /\ c.pos = pipe.pos + 1 /\ c.next = pipe.next /\ c.link = pipe.link + 1
      /\ c.tokens = pipe.tokens /\ c.commitCh = pipe.commitCh
      /\ c.workers = pipe.workers \cup {w} /\ c.close = pipe.close
  BY <1>2, <1>7 DEF ContextsAt
<1> QED
  BY <1>3, <1>4, <1>8, <1>9, ShapeFacts

\* The launches of an ingest job keep the shape.
LEMMA LaunchShape ==
    ASSUME Shape, AskedRule, LaunchIngestJob \/ LaunchTriggersPartialSnapshot
    PROVE  Shape'
<1>1. PICK ctx : ctx = BegunTxn
  OBVIOUS
<1>2. PICK p : p = PersistInMemoryData(WithBegunTxn)
  OBVIOUS
<1>3. PICK q : q = ToCommitPipeline(p)
  OBVIOUS
<1>4. /\ pc = "begun" /\ pc' = "loop" /\ Recorded /\ prog' = q /\ disk' = Persisted(p)
      /\ UNCHANGED <<srcVars, dest, more, cursor, interrupt, budget, lost>>
  BY <1>2, <1>3 DEF LaunchIngestJob, LaunchTriggersPartialSnapshot, Goto
<1>5. /\ ctx \in TxnsAt(N, M) /\ p \in ProgressAt(N, M) /\ SyncOK(p)
      /\ p.subSyncState = "LaunchTransaction"
      /\ p.inMemoryData \in DataAt(N, M) /\ p.persistData = p.inMemoryData
  BY <1>1, <1>2, <1>4, BegunFacts
<1>6. /\ q \in ProgressAt(N, M) /\ SyncOK(q) /\ q.subSyncState = "CommitPipeline"
      /\ Keeps(p, q) /\ KeepsSync(p, q) /\ q.persistData = p.persistData
      /\ q.inMemoryData = p.inMemoryData
  BY <1>3, <1>5, ShapeFacts, NextSubVolatileTyped
     DEF ToCommitPipeline, IncrementalStates, SubSyncStates
<1>7. disk' \in ProgressAt(N, M) /\ DiskFollows'
  BY <1>4, <1>5, <1>6, ShapeFacts, Stores
<1>8. pipe' \in ContextsAt(N, M) /\ pipe'.pos <= pipe'.next /\ pipe' # Nil
  <2>1. CASE LaunchIngestJob
    <3>1. pipe' = Launched("running")
      BY <2>1 DEF LaunchIngestJob
    <3> QED
      BY <1>1, <1>4, <1>5, <3>1, LaunchedTyped
  <2>2. CASE LaunchTriggersPartialSnapshot
    <3>1. PICK c : c = Launched("partial")
      OBVIOUS
    <3>2. c \in ContextsAt(N, M) /\ c.pos <= c.next
      BY <1>1, <1>4, <1>5, <3>1, LaunchedTyped
    <3>3. pipe' = [c EXCEPT !.close = TRUE]
      BY <2>2, <3>1 DEF LaunchTriggersPartialSnapshot
    <3> QED
      BY <3>2, <3>3, ShapeFacts DEF ContextsAt
  <2> QED
    BY <2>1, <2>2
<1>9. /\ extra' \in Extras /\ extra'.skipBy = extra.skipBy /\ extra'.skipTable = extra.skipTable
  <2>1. CASE LaunchIngestJob
    BY <2>1 DEF LaunchIngestJob, Shape, Typed, FlagsTyped
  <2>2. CASE LaunchTriggersPartialSnapshot
    <3>1. PICK s \in NextSeq..Len(log) : \E t \in BegunTxn.tables :
             extra' = [extra EXCEPT !.partialTable = t]
      BY <2>2 DEF LaunchTriggersPartialSnapshot
    <3>2. PICK t \in ctx.tables : extra' = [extra EXCEPT !.partialTable = t]
      BY <1>1, <3>1
    <3>3. t \in Tables
      BY <1>5, <3>2 DEF TxnsAt
    <3> QED
      BY <3>2, <3>3 DEF Shape, Typed, FlagsTyped, Extras
  <2> QED
    BY <2>1, <2>2
<1>10. FlagsTyped'
  BY <1>4, <1>9 DEF FlagsTyped, Shape, Typed, PCs
<1>11. Typed'
  <2>1. log' = log /\ locked' \in 0..N /\ gc' = gc
    BY <1>4 DEF srcVars, Shape, Typed, SourceTyped, N
  <2>2. dest' \in [Tables -> [base : 0..N, applied : Seq(1..N)]]
    BY <1>4 DEF Shape, Typed, TargetTyped, N
  <2>3. txns' \in Seq(TxnRecords) /\ Len(txns') = M
    BY <1>4, RecordedTyped
  <2> QED
    BY <1>4, <1>6, <1>7, <1>8, <1>10, <2>1, <2>2, <2>3, TargetTypes
<1>12. Control'
  BY <1>4, <1>5, <1>6, <1>8, <1>9, ShapeFacts DEF Control, Live, LiveStates, Sub, Snapshotting, Data
<1> QED
  BY <1>7, <1>11, <1>12 DEF Shape

\* LaunchFails keeps the shape.
LEMMA LaunchFailsShape ==
    ASSUME Shape, AskedRule, LaunchIngestJobFails
    PROVE  Shape'
<1>1. PICK p : p = PersistInMemoryData(WithBegunTxn)
  OBVIOUS
<1>2. /\ pc = "begun" /\ pc' = "idle" /\ pipe' = Nil /\ Recorded
      /\ Persist(p) \/ Persist(NewSnapshot(p, p.commitSeq))
      /\ UNCHANGED <<srcVars, dest, more, cursor, extra, interrupt, lost>>
      /\ budget' \in 0..MaxFaults
  BY <1>1, FaultTyped DEF LaunchIngestJobFails, Goto
<1>3. p \in ProgressAt(N, M) /\ SyncOK(p) /\ p.commitSeq \in 0..N
  <2>1. PICK ctx : ctx = BegunTxn
    OBVIOUS
  <2>2. p \in ProgressAt(N, M) /\ SyncOK(p)
    BY <1>1, <1>2, <2>1, BegunFacts
  <2> QED
    BY <2>2 DEF ProgressAt
<1>4. prog' \in ProgressAt(N, M) /\ disk' \in ProgressAt(N, M) /\ DiskFollows'
  <2>1. CASE Persist(p)
    BY <1>3, <2>1, ShapeFacts, Persists
  <2>2. CASE Persist(NewSnapshot(p, p.commitSeq))
    <3>1. PICK q : q = NewSnapshot(p, p.commitSeq)
      OBVIOUS
    <3>2. q \in ProgressAt(N, M) /\ SyncOK(q)
      BY <1>3, <3>1, ShapeFacts, NewSnapshotTyped
    <3> QED
      BY <2>2, <3>1, <3>2, ShapeFacts, Persists
  <2> QED
    BY <1>2, <2>1, <2>2
<1>5. FlagsTyped'
  BY <1>2 DEF FlagsTyped, Shape, Typed, PCs
<1>6. Typed'
  <2>1. log' = log /\ locked' \in 0..N /\ gc' = gc
    BY <1>2 DEF srcVars, Shape, Typed, SourceTyped, N
  <2>2. dest' \in [Tables -> [base : 0..N, applied : Seq(1..N)]]
    BY <1>2 DEF Shape, Typed, TargetTyped, N
  <2>3. txns' \in Seq(TxnRecords) /\ Len(txns') = M
    BY <1>2, RecordedTyped
  <2> QED
    BY <1>2, <1>4, <1>5, <2>1, <2>2, <2>3, TargetTypes
<1>7. Control'
  BY <1>2, LeavesTick
<1> QED
  BY <1>4, <1>6, <1>7 DEF Shape
-----------------------------------------------------------------------------
\* Who does not write the progress row asks for nothing.
LEMMA AsksNothing ==
    ASSUME UNCHANGED <<asked, disk>>
    PROVE  AskedRule
BY DEF AskedRule, Asks

\* The row of a job that changes neither it nor its progress follows it still.
LEMMA SameDiskFollows ==
    ASSUME Shape, UNCHANGED <<prog, disk>>
    PROVE  DiskFollows'
BY ShapeFacts DEF DiskFollows, Sub, Snapshotting, SyncOK, IsIncrementalSync

\* A step of a goroutine that ingests.
LEMMA WorkerTyped ==
    ASSUME Shape, WorkerStep
    PROVE  /\ UNCHANGED <<srcVars, destVars, prog, disk, pc, more, cursor, extra, interrupt, lost>>
           /\ budget' \in 0..MaxFaults
           /\ pipe # Nil /\ pipe \in ContextsAt(N, M) /\ pipe' \in ContextsAt(N, M) /\ pipe' # Nil
           /\ pipe'.pos = pipe.pos /\ pipe'.next = pipe.next /\ pipe'.close = pipe.close
           /\ pipe'.link = pipe.link
           /\ \E w \in pipe.workers :
                \/ /\ w.result = "running" /\ pipe'.tokens = pipe.tokens
                   /\ pipe'.commitCh = pipe.commitCh
                   /\ \E r \in {"ok", "error", "meta"} :
                        /\ r = "meta" => "meta" \in FaultKinds
                        /\ pipe'.workers = (pipe.workers \ {w}) \cup {[w EXCEPT !.result = r]}
                \/ /\ w.result \in Errors /\ w.prev \in pipe.tokens
                   /\ pipe'.tokens = (pipe.tokens \ {w.prev}) \cup {w.next}
                   /\ pipe'.workers = pipe.workers \ {w}
                   /\ pipe'.commitCh = Append(pipe.commitCh, [ctx |-> w.ctx, err |-> w.result])
<1>1. PICK w \in pipe.workers : Ingest(w) \/ SendResult(w)
  BY DEF WorkerStep
<1>2. pipe # Nil /\ pipe \in ContextsAt(N, M)
  BY ShapeFacts DEF WorkerStep
<1>3. w \in WorkersAt(N, M)
  BY <1>1, <1>2 DEF ContextsAt
<1>4. CASE Ingest(w)
  <2>1. PICK r \in {"ok", "error", "meta"} :
            /\ IF r = "ok" THEN UNCHANGED budget
               ELSE Fault(IF r = "meta" THEN "meta" ELSE "rpc")
            /\ pipe' = [pipe EXCEPT !.workers = (@ \ {w}) \cup {[w EXCEPT !.result = r]}]
    BY <1>4 DEF Ingest
  <2>2. /\ UNCHANGED <<srcVars, destVars, prog, disk, pc, more, cursor, extra, interrupt, lost>>
        /\ w.result = "running"
    BY <1>4 DEF Ingest
  <2>3. budget' \in 0..MaxFaults
    BY <2>1, FaultTyped DEF Shape, Typed, FlagsTyped
  <2>4. r = "meta" => "meta" \in FaultKinds
    BY <2>1 DEF Fault
  <2>5. [w EXCEPT !.result = r] \in WorkersAt(N, M)
    BY <1>3 DEF WorkersAt, Errors
  <2>6. PICK ws : ws = (pipe.workers \ {w}) \cup {[w EXCEPT !.result = r]}
    OBVIOUS
  <2>7. ws \subseteq WorkersAt(N, M)
    BY <1>2, <2>5, <2>6 DEF ContextsAt
  <2>8. pipe' = [pipe EXCEPT !.workers = ws]
    BY <2>1, <2>6
  <2>9. /\ pipe' \in ContextsAt(N, M) /\ pipe'.pos = pipe.pos /\ pipe'.next = pipe.next
        /\ pipe'.close = pipe.close /\ pipe'.link = pipe.link /\ pipe'.tokens = pipe.tokens
        /\ pipe'.commitCh = pipe.commitCh /\ pipe'.workers = ws
    BY <1>2, <2>7, <2>8 DEF ContextsAt
  <2> QED
    BY <1>1, <1>2, <2>2, <2>3, <2>4, <2>6, <2>9, ShapeFacts
<1>5. CASE SendResult(w)
  <2>1. /\ UNCHANGED <<srcVars, destVars, prog, disk, pc, more, cursor, extra, interrupt, lost>>
        /\ budget' = budget /\ w.result # "running" /\ w.prev \in pipe.tokens
    BY <1>5 DEF SendResult
  <2>2. budget' \in 0..MaxFaults
    BY <2>1 DEF Shape, Typed, FlagsTyped
  <2>3. w.result \in Errors /\ w.next \in Nat
    BY <1>3, <2>1 DEF WorkersAt
  <2>4. PICK x : x = [ctx |-> w.ctx, err |-> w.result]
    OBVIOUS
  <2>5. x \in ResultsAt(N, M)
    BY <1>3, <2>3, <2>4 DEF WorkersAt, ResultsAt
  <2>6. PICK ws, ts, ch : /\ ws = pipe.workers \ {w}
                          /\ ts = (pipe.tokens \ {w.prev}) \cup {w.next}
                          /\ ch = Append(pipe.commitCh, x)
    OBVIOUS
  <2>7. ws \subseteq WorkersAt(N, M) /\ ts \subseteq Nat /\ ch \in Seq(ResultsAt(N, M))
    BY <1>2, <2>3, <2>5, <2>6 DEF ContextsAt
  <2>8. pipe' = [pipe EXCEPT !.workers = ws, !.tokens = ts, !.commitCh = ch]
    BY <1>5, <1>2, <2>4, <2>6 DEF SendResult, ContextsAt
  <2>9. /\ pipe' \in ContextsAt(N, M) /\ pipe'.pos = pipe.pos /\ pipe'.next = pipe.next
        /\ pipe'.close = pipe.close /\ pipe'.link = pipe.link /\ pipe'.tokens = ts
        /\ pipe'.commitCh = ch /\ pipe'.workers = ws
    BY <1>2, <2>7, <2>8 DEF ContextsAt
  <2> QED
    BY <1>1, <1>2, <2>1, <2>2, <2>3, <2>4, <2>6, <2>9, ShapeFacts
<1> QED
  BY <1>1, <1>4, <1>5

\* A worker's step keeps the shape.
LEMMA WorkerShape ==
    ASSUME Shape, AskedRule, WorkerStep
    PROVE  Shape'
<1>1. /\ UNCHANGED <<srcVars, destVars, prog, disk, pc, more, cursor, extra, interrupt, lost>>
      /\ budget' \in 0..MaxFaults
      /\ pipe # Nil /\ pipe \in ContextsAt(N, M) /\ pipe' \in ContextsAt(N, M) /\ pipe' # Nil
      /\ pipe'.pos = pipe.pos /\ pipe'.next = pipe.next
  BY WorkerTyped
<1>2. FlagsTyped'
  BY <1>1 DEF FlagsTyped, Shape, Typed
<1>3. Typed'
  BY <1>1, <1>2, ShapeFacts, JobTypes
<1>4. DiskFollows'
  BY <1>1, SameDiskFollows
<1>5. /\ HasUpsertBinlog(pipe)' = HasUpsertBinlog(pipe) /\ HasBinlogs(pipe)' = HasBinlogs(pipe)
      /\ RelatedTables(NextSeq)' = RelatedTables(NextSeq)
  BY <1>1 DEF HasUpsertBinlog, HasBinlogs, RelatedTables, NextSeq, srcVars
<1>6. Control'
  BY <1>1, <1>5, ShapeFacts
     DEF Control, Live, LiveStates, Sub, Snapshotting, Data, Commitable, Running, srcVars, destVars
<1> QED
  BY <1>3, <1>4, <1>6 DEF Shape

\* At CommitPipeline: what the pipeline runs.
LEMMA CommitFacts ==
    ASSUME Shape, pc = "loop", Live
    PROVE  /\ pipe # Nil /\ pipe \in ContextsAt(N, M) /\ pipe.pos <= pipe.next
           /\ Data # Nil /\ Data \in DataAt(N, M) /\ Data = prog.inMemoryData
           /\ Running \in Seq(TxnsAt(N, M)) /\ ~Snapshotting
           /\ prog.subSyncState # "BeginCreateSnapshot"
           /\ pipe.commitCh \in Seq(ResultsAt(N, M))
<1>1. pipe \in ContextsAt(N, M)
  BY LiveFacts
<1>2. pipe.commitCh \in Seq(ResultsAt(N, M))
  BY <1>1 DEF ContextsAt
<1> QED
  BY <1>2, LiveFacts

\* What the three outcomes of taking a result do.
LEMMA TakeResultTyped ==
    ASSUME Shape, TakeResult, NEW r, r = Head(pipe.commitCh)
    PROVE  /\ r \in ResultsAt(N, M) /\ Live /\ pc = "loop" /\ Sub = "CommitPipeline"
           /\ pipe # Nil /\ Running # <<>> /\ pipe.commitCh # <<>>
           /\ UNCHANGED <<srcVars, destVars, more, cursor, extra, interrupt, budget, lost>>
           /\ prog' \in ProgressAt(N, M) /\ disk' \in ProgressAt(N, M) /\ DiskFollows'
           /\ \/ /\ r.err = "partial" /\ pc' = "loop" /\ Sub' = "RollbackPipeline"
                 /\ Keeps(prog, prog') /\ KeepsSync(prog, prog')
                 /\ prog'.persistData = Data /\ prog'.inMemoryData = Data
                 /\ disk'.subSyncState = "RollbackPipeline" /\ KeepsSync(prog, disk')
                 /\ pipe' = [pipe EXCEPT !.commitCh = Tail(@)]
              \/ /\ r.err = "ok" /\ r.ctx.txnId = Head(Running).txnId
                 /\ pc' = "loop" /\ Sub' = "CommitPipelineTransaction"
                 /\ Keeps(prog, prog') /\ KeepsSync(prog, prog')
                 /\ prog'.persistData = [Data EXCEPT !.commitable = r.ctx]
                 /\ prog'.inMemoryData = [Data EXCEPT !.commitable = r.ctx]
                 /\ disk'.subSyncState = "CommitPipelineTransaction"
                 /\ pipe' = [pipe EXCEPT !.commitCh = Tail(@)]
              \/ /\ r.err = "ok" /\ r.ctx.txnId # Head(Running).txnId
                 /\ ResetAndFail("error") /\ prog' = prog /\ disk' = disk
                 /\ pc' = "idle" /\ pipe' = Nil
              \/ /\ r.err \in {"error", "meta"} /\ ResetAndFail(r.err)
                 /\ pc' = "idle" /\ pipe' = Nil
<1>1. /\ pc = "loop" /\ Sub = "CommitPipeline" /\ Live /\ Running # <<>> /\ pipe.commitCh # <<>>
      /\ UNCHANGED <<srcVars, destVars, more, cursor, extra, interrupt, budget, lost>>
  BY DEF TakeResult, AtLoop, Sub, Live, LiveStates
<1>2. /\ pipe # Nil /\ Data \in DataAt(N, M) /\ Data = prog.inMemoryData /\ ~Snapshotting
      /\ prog.subSyncState # "BeginCreateSnapshot" /\ pipe.commitCh \in Seq(ResultsAt(N, M))
  BY <1>1, CommitFacts
<1>3. r \in ResultsAt(N, M)
  BY <1>1, <1>2
<1>4. CASE /\ r.err = "partial"
           /\ Persist(NextSubCheckpoint(prog, "RollbackPipeline", Data))
           /\ pipe' = [pipe EXCEPT !.commitCh = Tail(@)] /\ pc' = pc
  <2>1. PICK q : q = NextSubCheckpoint(prog, "RollbackPipeline", Data)
    OBVIOUS
  <2>2. /\ q \in ProgressAt(N, M) /\ SyncOK(q) /\ q.subSyncState = "RollbackPipeline"
        /\ Keeps(prog, q) /\ KeepsSync(prog, q)
        /\ q.persistData = Data /\ q.inMemoryData = prog.inMemoryData
    BY <1>2, <2>1, ShapeFacts, NextSubCheckpointTyped DEF IncrementalStates, SubSyncStates
  <2>3. Persist(q)
    BY <1>4, <2>1
  <2>4. prog' = q /\ disk' \in ProgressAt(N, M) /\ DiskFollows' /\ disk' = Persisted(q)
    BY <2>2, <2>3, ShapeFacts, Persists DEF Persist
  <2>5. disk'.subSyncState = q.subSyncState /\ KeepsSync(prog, disk')
    BY <2>2, <2>4 DEF Persisted, KeepsSync, ProgressAt
  <2> QED
    BY <1>1, <1>2, <1>3, <1>4, <2>2, <2>4, <2>5 DEF Sub
<1>5. CASE /\ r.err = "ok" /\ r.ctx.txnId = Head(Running).txnId
           /\ LET p == [prog EXCEPT !.inMemoryData.commitable = r.ctx]
              IN Persist(NextSubCheckpoint(p, "CommitPipelineTransaction", p.inMemoryData))
           /\ pipe' = [pipe EXCEPT !.commitCh = Tail(@)] /\ pc' = pc
  <2>1. PICK data : data = [Data EXCEPT !.commitable = r.ctx]
    OBVIOUS
  <2>2. data \in DataAt(N, M)
    BY <1>2, <1>3, <2>1 DEF DataAt, ResultsAt
  <2>3. PICK p : p = [prog EXCEPT !.inMemoryData = data]
    OBVIOUS
  <2>4. p = [prog EXCEPT !.inMemoryData.commitable = r.ctx]
    BY <1>2, <2>1, <2>3
  <2>5. /\ p \in ProgressAt(N, M) /\ SyncOK(p) /\ p.subSyncState = prog.subSyncState
        /\ Keeps(prog, p) /\ KeepsSync(prog, p) /\ p.inMemoryData = data
    BY <2>2, <2>3, ShapeFacts, InMemoryTyped
  <2>6. PICK q : q = NextSubCheckpoint(p, "CommitPipelineTransaction", data)
    OBVIOUS
  <2>7. /\ q \in ProgressAt(N, M) /\ SyncOK(q) /\ q.subSyncState = "CommitPipelineTransaction"
        /\ Keeps(p, q) /\ KeepsSync(p, q)
        /\ q.persistData = data /\ q.inMemoryData = data
    BY <1>2, <2>2, <2>5, <2>6, ShapeFacts, NextSubCheckpointTyped
       DEF IncrementalStates, SubSyncStates
  <2>8. Persist(q)
    BY <1>5, <2>4, <2>5, <2>6
  <2>9. prog' = q /\ disk' \in ProgressAt(N, M) /\ DiskFollows' /\ disk' = Persisted(q)
    BY <2>7, <2>8, ShapeFacts, Persists DEF Persist
  <2>10. Keeps(prog, q) /\ KeepsSync(prog, q)
    BY <2>5, <2>7 DEF Keeps, KeepsSync
  <2>11. disk'.subSyncState = q.subSyncState
    BY <2>7, <2>9 DEF Persisted, ProgressAt
  <2> QED
    BY <1>1, <1>2, <1>3, <1>5, <2>1, <2>7, <2>9, <2>10, <2>11 DEF Sub
<1>6. CASE r.err = "ok" /\ r.ctx.txnId # Head(Running).txnId /\ ResetAndFail("error")
  <2>1. prog' = prog /\ disk' = disk
    BY <1>6 DEF ResetAndFail, HandleError, Volatile
  <2> QED
    BY <1>1, <1>2, <1>3, <1>6, <2>1, ResetAndFailShape
<1>7. CASE r.err \in {"error", "meta"} /\ ResetAndFail(r.err)
  BY <1>1, <1>2, <1>3, <1>7, ResetAndFailShape
<1> QED
  BY <1>4, <1>5, <1>6, <1>7 DEF TakeResult

\* At the head of the loop.
LEMMA LoopControl ==
    ASSUME Shape, pc' = "loop", Sub' # "BeginCreateSnapshot",
           pipe' # Nil => pipe'.pos <= pipe'.next,
           Sub' \in LiveStates => pipe' # Nil /\ Data' # Nil,
           Sub' = "CommitPipelineTransaction" => Commitable' # Nil /\ Data'.running # <<>>,
           UNCHANGED extra
    PROVE  Control'
<1>1. Control
  BY ShapeFacts
<1>2. ~Snapshotting' /\ (Live' => pipe' # Nil /\ Data' # Nil)
  BY DEF Snapshotting, Live
<1>3. (extra.skipBy = "partialsync" => extra.skipTable # Nil)'
  BY <1>1 DEF Control
<1>4. (Sub = "CommitPipelineTransaction" /\ pipe # Nil
         => Commitable # Nil /\ Data.running # <<>>)'
  OBVIOUS
<1> QED
  BY <1>2, <1>3, <1>4 DEF Control

\* TakeResult keeps the shape.
LEMMA TakeResultShape ==
    ASSUME Shape, AskedRule, TakeResult
    PROVE  Shape'
<1>1. PICK r : r = Head(pipe.commitCh)
  OBVIOUS
<1>2. /\ r \in ResultsAt(N, M) /\ Live /\ pc = "loop"
      /\ pipe # Nil /\ pipe.commitCh # <<>> /\ Running # <<>>
      /\ UNCHANGED <<srcVars, destVars, more, cursor, extra, interrupt, budget, lost>>
      /\ prog' \in ProgressAt(N, M) /\ disk' \in ProgressAt(N, M) /\ DiskFollows'
      /\ pc' \in {"loop", "idle"}
      /\ \/ pc' = "idle" /\ pipe' = Nil
         \/ /\ pc' = "loop" /\ pipe' = [pipe EXCEPT !.commitCh = Tail(@)]
            /\ \/ Sub' = "RollbackPipeline"
               \/ /\ Sub' = "CommitPipelineTransaction"
                  /\ prog'.inMemoryData = [Data EXCEPT !.commitable = r.ctx]
  BY <1>1, TakeResultTyped
<1>3. FlagsTyped'
  BY <1>2 DEF FlagsTyped, Shape, Typed, PCs
<1>4. /\ pipe \in ContextsAt(N, M) /\ pipe.pos <= pipe.next /\ Data \in DataAt(N, M)
      /\ pipe.commitCh \in Seq(ResultsAt(N, M))
  BY <1>2, CommitFacts
<1>5. CASE pc' = "idle" /\ pipe' = Nil
  <2>1. Typed'
    BY <1>2, <1>3, <1>5, JobTypes
  <2>2. Control'
    BY <1>2, <1>5, ShapeFacts, LeavesTick
  <2> QED
    BY <1>2, <2>1, <2>2 DEF Shape
<1>6. CASE pc' = "loop" /\ pipe' = [pipe EXCEPT !.commitCh = Tail(@)]
  <2>1. Tail(pipe.commitCh) \in Seq(ResultsAt(N, M))
    BY <1>2, <1>4
  <2>2. /\ pipe' \in ContextsAt(N, M) /\ pipe'.pos = pipe.pos /\ pipe'.next = pipe.next
    BY <1>4, <1>6, <2>1 DEF ContextsAt
  <2>3. Typed'
    BY <1>2, <1>3, <2>2, JobTypes
  <2>4. pipe' # Nil
    BY <2>2, ShapeFacts
  <2>5. [Data EXCEPT !.commitable = r.ctx] \in DataAt(N, M) /\ r.ctx # Nil
        /\ [Data EXCEPT !.commitable = r.ctx].commitable = r.ctx
        /\ [Data EXCEPT !.commitable = r.ctx].running # <<>>
    BY <1>2, <1>4, ShapeFacts DEF DataAt, ResultsAt, Running
  <2>6. \/ Sub' = "RollbackPipeline"
        \/ /\ Sub' = "CommitPipelineTransaction" /\ Data' # Nil /\ Commitable' # Nil
           /\ Data'.running # <<>>
    BY <1>2, <2>4, <2>5, ShapeFacts DEF Data, Commitable
  <2>7. pc' = "loop" /\ pipe'.pos <= pipe'.next /\ UNCHANGED extra
    BY <1>2, <1>4, <2>2, <2>4
  <2>8. Control'
    BY <2>4, <2>6, <2>7, LoopControl DEF LiveStates
  <2> QED
    BY <1>2, <2>3, <2>8 DEF Shape
<1> QED
  BY <1>2, <1>5, <1>6
-----------------------------------------------------------------------------
\* Between two ticks, the pipeline context kept.
LEMMA IdleControl ==
    ASSUME Shape, pc' = "idle", pipe' # Nil => pipe'.pos <= pipe'.next,
           Sub' \in LiveStates /\ pipe' # Nil => Data' # Nil,
           Sub' # "CommitPipelineTransaction", UNCHANGED extra
    PROVE  Control'
<1>1. Control
  BY ShapeFacts
<1>2. Live' /\ pipe' # Nil => Data' # Nil
  BY DEF Live
<1>3. (extra.skipBy = "partialsync" => extra.skipTable # Nil)'
  BY <1>1 DEF Control
<1> QED
  BY <1>2, <1>3 DEF Control

\* What is known when no result is ready.
LEMMA NoResultFacts ==
    ASSUME Shape, NoResult
    PROVE  /\ pc = "loop" /\ Sub = "CommitPipeline" /\ ~Snapshotting
           /\ pipe # Nil /\ pipe \in ContextsAt(N, M) /\ pipe.pos <= pipe.next
           /\ Data # Nil /\ Data \in DataAt(N, M) /\ Data = prog.inMemoryData
           /\ Running \in Seq(TxnsAt(N, M))
           /\ prog.subSyncState # "BeginCreateSnapshot"
<1>1. pc = "loop" /\ Sub = "CommitPipeline" /\ Live
  BY DEF NoResult, AtLoop, Sub, Live, LiveStates
<1> QED
  BY <1>1, CommitFacts

\* FinishPipeline keeps the shape.
LEMMA FinishPipelineShape ==
    ASSUME Shape, AskedRule, FinishPipeline
    PROVE  Shape'
<1>1. PICK p : p = NextSubCheckpoint(prog, "Done", EmptyData)
  OBVIOUS
<1>2. /\ NoResult /\ Persist(p)
      /\ UNCHANGED <<srcVars, destVars, pipe, pc, more, cursor, extra, interrupt, budget, lost>>
  BY <1>1 DEF FinishPipeline
<1>3. /\ pc = "loop" /\ pipe \in ContextsAt(N, M) /\ pipe.pos <= pipe.next
      /\ prog.subSyncState # "BeginCreateSnapshot"
  BY <1>2, NoResultFacts
<1>4. p \in ProgressAt(N, M) /\ SyncOK(p) /\ p.subSyncState = "Done"
  BY <1>1, <1>3, ShapeFacts, NextSubCheckpointTyped DEF IncrementalStates, SubSyncStates
<1>5. prog' = p /\ disk' \in ProgressAt(N, M) /\ DiskFollows' /\ Sub' = "Done"
  BY <1>2, <1>4, ShapeFacts, Persists DEF Sub
<1>6. FlagsTyped'
  BY <1>2 DEF FlagsTyped, Shape, Typed
<1>7. Typed'
  BY <1>2, <1>3, <1>4, <1>5, <1>6, JobTypes
<1>8. Control'
  BY <1>2, <1>3, <1>5, LoopControl DEF LiveStates
<1> QED
  BY <1>5, <1>7, <1>8 DEF Shape

\* LaunchMore keeps the shape.
LEMMA LaunchMoreShape ==
    ASSUME Shape, AskedRule, LaunchMore
    PROVE  Shape'
<1>1. PICK p : p = NextSubVolatile(prog, "LaunchTransaction", Data)
  OBVIOUS
<1>2. /\ NoResult /\ prog' = p /\ disk' = disk
      /\ UNCHANGED <<srcVars, destVars, pipe, pc, more, cursor, extra, interrupt, budget, lost>>
  BY <1>1 DEF LaunchMore, Volatile
<1>3. /\ pc = "loop" /\ pipe # Nil /\ pipe \in ContextsAt(N, M) /\ pipe.pos <= pipe.next
      /\ prog.subSyncState # "BeginCreateSnapshot" /\ ~Snapshotting /\ Sub = "CommitPipeline"
      /\ Data # Nil /\ Data \in DataAt(N, M)
  BY <1>2, NoResultFacts
<1>4. /\ p \in ProgressAt(N, M) /\ SyncOK(p) /\ p.subSyncState = "LaunchTransaction"
      /\ Keeps(prog, p) /\ KeepsSync(prog, p)
      /\ p.persistData = prog.persistData /\ p.inMemoryData = Data
  BY <1>1, <1>3, ShapeFacts, NextSubVolatileTyped DEF IncrementalStates, SubSyncStates
<1>5. DiskFollows' /\ Sub' = "LaunchTransaction" /\ Data' # Nil
  BY <1>2, <1>3, <1>4, Remembers DEF Sub, Data
<1>6. FlagsTyped'
  BY <1>2 DEF FlagsTyped, Shape, Typed
<1>7. Typed'
  BY <1>2, <1>3, <1>4, <1>6, ShapeFacts, JobTypes
<1>8. Control'
  BY <1>2, <1>3, <1>5, LoopControl
<1> QED
  BY <1>5, <1>7, <1>8 DEF Shape

\* YieldPipeline keeps the shape.
LEMMA YieldPipelineShape ==
    ASSUME Shape, AskedRule, YieldPipeline
    PROVE  Shape'
<1>1. PICK p : p = DoneSubCheckpoint(prog, "CommitPipeline", Data)
  OBVIOUS
<1>2. /\ NoResult /\ Persist(p) /\ pc' = "idle"
      /\ UNCHANGED <<srcVars, destVars, pipe, more, cursor, extra, interrupt, budget, lost>>
  BY <1>1 DEF YieldPipeline, Goto
<1>3. /\ pc = "loop" /\ pipe # Nil /\ pipe \in ContextsAt(N, M) /\ pipe.pos <= pipe.next
      /\ prog.subSyncState # "BeginCreateSnapshot"
      /\ Data # Nil /\ Data \in DataAt(N, M) /\ Data = prog.inMemoryData
  BY <1>2, NoResultFacts
<1>4. /\ p \in ProgressAt(N, M) /\ SyncOK(p) /\ p.subSyncState = "CommitPipeline"
      /\ p.inMemoryData = prog.inMemoryData
  BY <1>1, <1>3, ShapeFacts, DoneSubCheckpointTyped DEF IncrementalStates, SubSyncStates
<1>5. prog' = p /\ disk' \in ProgressAt(N, M) /\ DiskFollows' /\ Sub' = "CommitPipeline"
      /\ Data' # Nil
  BY <1>2, <1>3, <1>4, ShapeFacts, Persists DEF Sub, Data
<1>6. FlagsTyped'
  BY <1>2 DEF FlagsTyped, Shape, Typed, PCs
<1>7. Typed'
  BY <1>2, <1>3, <1>4, <1>5, <1>6, JobTypes
<1>8. Control'
  BY <1>2, <1>3, <1>5, IdleControl
<1> QED
  BY <1>5, <1>7, <1>8 DEF Shape

\* At CommitPipelineTransaction there is a txn to commit.
LEMMA CommitableFacts ==
    ASSUME Shape, pc = "loop" \/ pc = "committed", Sub = "CommitPipelineTransaction"
    PROVE  /\ pipe # Nil /\ pipe \in ContextsAt(N, M) /\ pipe.pos <= pipe.next
           /\ Data # Nil /\ Data \in DataAt(N, M) /\ Data = prog.inMemoryData
           /\ Running \in Seq(TxnsAt(N, M)) /\ Running # <<>>
           /\ Commitable \in TxnsAt(N, M) /\ Commitable.txnId \in 1..M
           /\ Commitable.commitSeq \in 1..N /\ Commitable.tables \subseteq Tables
           /\ Commitable = Data.commitable
           /\ prog.subSyncState # "BeginCreateSnapshot" /\ ~Snapshotting
<1>1. Live /\ pc # "idle"
  BY DEF Live, LiveStates
<1>2. /\ pipe # Nil /\ pipe \in ContextsAt(N, M) /\ pipe.pos <= pipe.next
      /\ Data # Nil /\ Data \in DataAt(N, M) /\ Data = prog.inMemoryData
      /\ Running \in Seq(TxnsAt(N, M))
      /\ prog.subSyncState # "BeginCreateSnapshot" /\ ~Snapshotting
  BY <1>1, LiveFacts
<1>3. Commitable # Nil /\ Running # <<>>
  BY <1>2, ShapeFacts DEF Control, Running
<1>4. Commitable \in TxnsAt(N, M) /\ Commitable = Data.commitable
  BY <1>2, <1>3 DEF DataAt, Commitable
<1> QED
  BY <1>2, <1>3, <1>4 DEF TxnsAt

\* A change of the status of a txn.
LEMMA StatusTyped ==
    ASSUME Shape, NEW i \in 1..M, NEW x \in {"PREPARE", "COMMITTED", "ABORTED"},
           txns' = [txns EXCEPT ![i].status = x]
    PROVE  /\ txns' \in Seq(TxnRecords) /\ Len(txns') = M
           /\ \A k \in 1..M : txns'[k].recorded = txns[k].recorded
           /\ \A k \in 1..M : k # i => txns'[k] = txns[k]
           /\ txns'[i].status = x
<1>1. txns \in Seq(TxnRecords) /\ DOMAIN txns = 1..M /\ M \in Nat
  BY DEF Shape, Typed, TargetTyped, M
<1>2. \A k \in 1..M : txns[k] \in TxnRecords
  BY <1>1
<1>3. [txns[i] EXCEPT !.status = x] \in TxnRecords
  BY <1>2 DEF TxnRecords
<1>4. txns' \in [1..M -> TxnRecords]
  BY <1>1, <1>2, <1>3
<1>5. txns' \in Seq(TxnRecords) /\ Len(txns') = M
  BY <1>1, <1>4
<1> QED
  BY <1>1, <1>2, <1>5 DEF TxnRecords

\* CommitTxn keeps the shape.
LEMMA CommitTxnShape ==
    ASSUME Shape, AskedRule, CommitTxn
    PROVE  Shape'
<1>1. /\ pc = "loop" /\ pc' = "committed" /\ Sub = "CommitPipelineTransaction"
      /\ txns' = [txns EXCEPT ![Commitable.txnId].status = "COMMITTED"]
      /\ Apply(Commitable.commitSeq, Commitable.tables)
      /\ UNCHANGED <<srcVars, prog, disk, pipe, more, cursor, extra, interrupt, budget, lost>>
  BY DEF CommitTxn, AtLoop, Sub, Goto
<1>2. Commitable.txnId \in 1..M /\ Commitable.commitSeq \in 1..N /\ Sub' = Sub
  BY <1>1, CommitableFacts DEF Sub
<1>3. txns' \in Seq(TxnRecords) /\ Len(txns') = M
  BY <1>1, <1>2, StatusTyped
<1>4. dest' \in [Tables -> [base : 0..N, applied : Seq(1..N)]]
  BY <1>1, <1>2, ApplyTyped
<1>5. FlagsTyped'
  BY <1>1 DEF FlagsTyped, Shape, Typed, PCs
<1>6. log' = log /\ locked' \in 0..N /\ gc' = gc
  BY <1>1 DEF srcVars, Shape, Typed, SourceTyped, N
<1>7. Typed'
  BY <1>1, <1>3, <1>4, <1>5, <1>6, ShapeFacts, TargetTypes
<1>8. DiskFollows'
  BY <1>1, SameDiskFollows
<1>9. Control'
  BY <1>1, <1>2, ShapeFacts
     DEF Control, Live, LiveStates, Snapshotting, Data, Commitable
<1> QED
  BY <1>7, <1>8, <1>9 DEF Shape

\* CommitTxnFails keeps the shape.
LEMMA CommitTxnFailsShape ==
    ASSUME Shape, AskedRule, CommitTxnFails
    PROVE  Shape'
<1>1. /\ pc = "loop" /\ Sub = "CommitPipelineTransaction" /\ ResetAndFail("error")
      /\ UNCHANGED <<srcVars, more, cursor, extra, interrupt>>
      /\ \/ destVars' = destVars
         \/ /\ txns' = [txns EXCEPT ![Commitable.txnId].status = "COMMITTED"]
            /\ Apply(Commitable.commitSeq, Commitable.tables)
  BY DEF CommitTxnFails, AtLoop, Sub
<1>2. budget' \in 0..MaxFaults /\ lost' \in BOOLEAN
  BY FaultTyped DEF CommitTxnFails, Shape, Typed, FlagsTyped
<1>3. /\ Commitable.txnId \in 1..M /\ Commitable.commitSeq \in 1..N
      /\ prog.subSyncState # "BeginCreateSnapshot"
  BY <1>1, CommitableFacts
<1>4. /\ txns' \in Seq(TxnRecords) /\ Len(txns') = M
      /\ dest' \in [Tables -> [base : 0..N, applied : Seq(1..N)]]
  <2>1. CASE destVars' = destVars
    BY <2>1 DEF destVars, Shape, Typed, TargetTyped, M, N
  <2>2. CASE /\ txns' = [txns EXCEPT ![Commitable.txnId].status = "COMMITTED"]
             /\ Apply(Commitable.commitSeq, Commitable.tables)
    BY <1>3, <2>2, StatusTyped, ApplyTyped
  <2> QED
    BY <1>1, <2>1, <2>2
<1>5. /\ prog' \in ProgressAt(N, M) /\ disk' \in ProgressAt(N, M) /\ DiskFollows'
      /\ pipe' = Nil /\ pc' = "idle"
  BY <1>1, <1>3, ResetAndFailShape
<1>6. FlagsTyped'
  BY <1>1, <1>2, <1>5 DEF FlagsTyped, Shape, Typed, PCs
<1>7. log' = log /\ locked' \in 0..N /\ gc' = gc
  BY <1>1 DEF srcVars, Shape, Typed, SourceTyped, N
<1>8. Typed'
  BY <1>4, <1>5, <1>6, <1>7, TargetTypes
<1>9. Control'
  BY <1>1, <1>5, LeavesTick
<1> QED
  BY <1>5, <1>8, <1>9 DEF Shape

\* The progress after a commit: the txn applied and taken off the list.
LEMMA CommittedTyped ==
    ASSUME Shape, pc = "committed", NEW p, p = CommittedProgress
    PROVE  /\ p \in ProgressAt(N, M) /\ SyncOK(p) /\ p.subSyncState = "CommitPipeline"
           /\ p.commitSeq = Commitable.commitSeq /\ p.prevCommitSeq = Commitable.commitSeq
           /\ p.unknownCommitSeq = prog.unknownCommitSeq /\ p.partialTable = prog.partialTable
           /\ p.inMemoryData = p.persistData
           /\ p.persistData = [running |-> Tail(Running), commitable |-> Nil]
           /\ p.persistData \in DataAt(N, M) /\ Tail(Running) \in Seq(TxnsAt(N, M))
           /\ \/ /\ p.syncState = prog.syncState
                 /\ \A t \in Tables : /\ prog.tableCommitSeqMap[t] <= p.tableCommitSeqMap[t]
                                      /\ \/ p.tableCommitSeqMap[t] = prog.tableCommitSeqMap[t]
                                         \/ p.tableCommitSeqMap[t] = Commitable.commitSeq
              \/ /\ \A t \in Tables : prog.tableCommitSeqMap[t] <= Commitable.commitSeq
                 /\ p.tableCommitSeqMap = NoMap /\ p.syncState = "DBIncrementalSync"
<1>1. Sub = "CommitPipelineTransaction"
  BY ShapeFacts DEF Control
<1>2. /\ Running \in Seq(TxnsAt(N, M)) /\ Running # <<>> /\ Commitable \in TxnsAt(N, M)
      /\ prog.subSyncState # "BeginCreateSnapshot"
  BY <1>1, CommitableFacts
<1>3. PICK ctx : ctx = Commitable
  OBVIOUS
<1>4. PICK q : q = ApplyTxn(prog, ctx)
  OBVIOUS
<1>5. /\ q \in ProgressAt(N, M) /\ SyncOK(q) /\ q.subSyncState = prog.subSyncState
      /\ Keeps(prog, q) /\ q.commitSeq = ctx.commitSeq
      /\ q.persistData = prog.persistData /\ q.inMemoryData = prog.inMemoryData
      /\ \/ /\ q.syncState = prog.syncState
            /\ \A t \in Tables : /\ prog.tableCommitSeqMap[t] <= q.tableCommitSeqMap[t]
                                 /\ \/ q.tableCommitSeqMap[t] = prog.tableCommitSeqMap[t]
                                    \/ q.tableCommitSeqMap[t] = ctx.commitSeq
         \/ /\ \A t \in Tables : prog.tableCommitSeqMap[t] <= ctx.commitSeq
            /\ q.tableCommitSeqMap = NoMap /\ q.syncState = "DBIncrementalSync"
  BY <1>2, <1>3, <1>4, ShapeFacts, ApplyTxnTyped
<1>6. Tail(Running) \in Seq(TxnsAt(N, M))
  BY <1>2
<1>7. PICK data : data = [running |-> Tail(Running), commitable |-> Nil]
  OBVIOUS
<1>8. data \in DataAt(N, M)
  BY <1>6, <1>7 DEF DataAt
<1>9. PICK x : x = [q EXCEPT !.inMemoryData = data]
  OBVIOUS
<1>10. /\ x \in ProgressAt(N, M) /\ SyncOK(x) /\ x.subSyncState = q.subSyncState
       /\ Keeps(q, x) /\ KeepsSync(q, x) /\ x.inMemoryData = data
  BY <1>5, <1>8, <1>9, ShapeFacts, InMemoryTyped
<1>11. p = DoneSubCheckpoint(x, "CommitPipeline", data)
  BY <1>3, <1>4, <1>7, <1>9 DEF CommittedProgress
<1>12. /\ p \in ProgressAt(N, M) /\ SyncOK(p) /\ p.subSyncState = "CommitPipeline"
       /\ KeepsSync(x, p) /\ p.prevCommitSeq = x.commitSeq
       /\ p.unknownCommitSeq = x.unknownCommitSeq /\ p.partialTable = x.partialTable
       /\ p.persistData = data /\ p.inMemoryData = x.inMemoryData
  BY <1>2, <1>5, <1>8, <1>10, <1>11, ShapeFacts, DoneSubCheckpointTyped
     DEF IncrementalStates, SubSyncStates
<1>13. /\ p.commitSeq = q.commitSeq /\ p.syncState = q.syncState
       /\ p.tableCommitSeqMap = q.tableCommitSeqMap /\ p.prevCommitSeq = q.commitSeq
       /\ p.unknownCommitSeq = prog.unknownCommitSeq /\ p.partialTable = prog.partialTable
  BY <1>5, <1>10, <1>12 DEF Keeps, KeepsSync
<1> QED
  BY <1>3, <1>5, <1>6, <1>7, <1>8, <1>10, <1>12, <1>13

\* FinishCommit keeps the shape.
LEMMA FinishCommitShape ==
    ASSUME Shape, AskedRule, FinishCommit \/ FinishCommitLockFails
    PROVE  Shape'
<1>1. PICK p : p = CommittedProgress
  OBVIOUS
<1>2. /\ pc = "committed" /\ pc' \in {"loop", "idle"} /\ (LockBinlog(p) \/ LockBinlogFails(p))
      /\ UNCHANGED <<log, gc, destVars, pipe, more, cursor, extra, interrupt, lost>>
  BY <1>1 DEF FinishCommit, FinishCommitLockFails, Goto
<1>3. /\ p \in ProgressAt(N, M) /\ SyncOK(p) /\ p.subSyncState = "CommitPipeline"
      /\ p.inMemoryData \in DataAt(N, M) /\ p.prevCommitSeq \in 0..N
  BY <1>1, <1>2, CommittedTyped DEF ProgressAt
<1>4. /\ prog' \in ProgressAt(N, M) /\ disk' \in ProgressAt(N, M) /\ DiskFollows'
      /\ prog'.subSyncState = "CommitPipeline" /\ prog'.inMemoryData = p.inMemoryData
      /\ locked' \in {locked, p.prevCommitSeq} /\ budget' \in 0..MaxFaults
  BY <1>2, <1>3, Locks
<1>5. Sub' = "CommitPipeline" /\ Data' # Nil
  BY <1>3, <1>4, ShapeFacts DEF Sub, Data
<1>6. pipe # Nil /\ pipe \in ContextsAt(N, M) /\ pipe.pos <= pipe.next
  BY <1>2, ShapeFacts, CommitableFacts DEF Control
<1>7. FlagsTyped'
  BY <1>2, <1>4 DEF FlagsTyped, Shape, Typed, PCs
<1>8. Typed'
  <2>1. locked' \in 0..N
    BY <1>3, <1>4 DEF Shape, Typed, SourceTyped, N
  <2>2. /\ txns' \in Seq(TxnRecords) /\ Len(txns') = M
        /\ dest' \in [Tables -> [base : 0..N, applied : Seq(1..N)]]
    BY <1>2 DEF Shape, Typed, TargetTyped, M, N, destVars
  <2> QED
    BY <1>2, <1>4, <1>6, <1>7, <2>1, <2>2, TargetTypes
<1>9. Control'
  BY <1>2, <1>5, <1>6, LoopControl, IdleControl
<1> QED
  BY <1>4, <1>8, <1>9 DEF Shape
-----------------------------------------------------------------------------
\* StartRollback keeps the shape.
LEMMA StartRollbackShape ==
    ASSUME Shape, AskedRule, StartRollback
    PROVE  Shape'
<1>1. PICK p : p = [prog EXCEPT !.inMemoryData = LoadedData]
  OBVIOUS
<1>2. /\ pc = "loop" /\ pc' = "rollback" /\ Sub = "RollbackPipeline" /\ cursor' = 0
      /\ prog' = p /\ disk' = disk
      /\ UNCHANGED <<srcVars, destVars, pipe, more, extra, interrupt, budget, lost>>
  BY <1>1 DEF StartRollback, AtLoop, Sub, Goto, Volatile
<1>3. LoadedData \in DataAt(N, M)
  BY ShapeFacts DEF LoadedData
<1>4. /\ p \in ProgressAt(N, M) /\ SyncOK(p) /\ p.subSyncState = prog.subSyncState
      /\ Keeps(prog, p) /\ KeepsSync(prog, p)
      /\ p.persistData = prog.persistData /\ p.inMemoryData = LoadedData
  BY <1>1, <1>3, ShapeFacts, InMemoryTyped
<1>5. /\ DiskFollows' /\ Sub' = "RollbackPipeline" /\ Data' = LoadedData /\ Data' # Nil
  BY <1>2, <1>3, <1>4, ShapeFacts, Remembers DEF Sub, Data, Snapshotting
<1>6. Data'.running \in Seq(TxnsAt(N, M))
  BY <1>3, <1>5 DEF DataAt
<1>7. cursor' <= Len(Running')
  BY <1>2, <1>6 DEF Running
<1>8. FlagsTyped'
  BY <1>2 DEF FlagsTyped, Shape, Typed, PCs
<1>9. Typed'
  BY <1>2, <1>4, <1>8, ShapeFacts, JobTypes
<1>10. Control'
  BY <1>2, <1>5, <1>7, ShapeFacts DEF Control, Live, LiveStates, Snapshotting
<1> QED
  BY <1>5, <1>9, <1>10 DEF Shape

\* Where the rollback is: the txn it looks at.
LEMMA RollingFacts ==
    ASSUME Shape, pc = "rollback"
    PROVE  /\ Sub = "RollbackPipeline" /\ prog.subSyncState # "BeginCreateSnapshot"
           /\ Data # Nil /\ Data \in DataAt(N, M) /\ Data = prog.inMemoryData
           /\ Running \in Seq(TxnsAt(N, M)) /\ cursor \in Nat /\ cursor <= Len(Running)
           /\ cursor < Len(Running) => /\ Running[cursor + 1] \in TxnsAt(N, M)
                                       /\ Running[cursor + 1].txnId \in 1..M
                                       /\ Running[cursor + 1].commitSeq \in 1..N
<1>1. Sub = "RollbackPipeline" /\ Data # Nil /\ cursor <= Len(Running) /\ cursor \in Nat
  BY ShapeFacts DEF Control, Shape, Typed, FlagsTyped
<1>2. Data \in DataAt(N, M) /\ Data = prog.inMemoryData
  BY <1>1, ShapeFacts DEF Data
<1>3. Running \in Seq(TxnsAt(N, M))
  BY <1>2 DEF DataAt, Running
<1>4. cursor < Len(Running) => Running[cursor + 1] \in TxnsAt(N, M)
  BY <1>1, <1>3
<1> QED
  BY <1>1, <1>2, <1>3, <1>4 DEF Sub, TxnsAt

\* RollbackTxn keeps the shape.
LEMMA RollbackTxnShape ==
    ASSUME Shape, AskedRule, RollbackTxn
    PROVE  Shape'
<1>1. PICK ctx : ctx = Running[cursor + 1]
  OBVIOUS
<1>2. /\ pc = "rollback" /\ cursor < Len(Running) /\ cursor' = cursor + 1
      /\ UNCHANGED <<srcVars, dest, pipe, pc, more, extra, interrupt, budget, lost>>
  BY DEF RollbackTxn
<1>3. /\ ctx \in TxnsAt(N, M) /\ ctx.txnId \in 1..M /\ Sub = "RollbackPipeline"
      /\ Data # Nil /\ Data = prog.inMemoryData /\ Running \in Seq(TxnsAt(N, M))
      /\ cursor \in Nat /\ prog.subSyncState # "BeginCreateSnapshot"
  BY <1>1, <1>2, RollingFacts
<1>4. FlagsTyped'
  BY <1>2, <1>3 DEF FlagsTyped, Shape, Typed, PCs
<1>5. /\ prog' \in ProgressAt(N, M) /\ disk' = disk /\ DiskFollows'
      /\ Sub' = "RollbackPipeline" /\ Data' = Data
      /\ txns' \in Seq(TxnRecords) /\ Len(txns') = M
  <2>1. CASE txns[ctx.txnId].status = "COMMITTED"
    <3>1. PICK q : q = ApplyTxn(prog, ctx)
      OBVIOUS
    <3>2. prog' = q /\ disk' = disk /\ txns' = txns
      BY <1>1, <2>1, <3>1 DEF RollbackTxn, Volatile
    <3>3. /\ q \in ProgressAt(N, M) /\ SyncOK(q) /\ q.subSyncState = prog.subSyncState
          /\ Keeps(prog, q)
          /\ q.persistData = prog.persistData /\ q.inMemoryData = prog.inMemoryData
      BY <1>3, <3>1, ShapeFacts, ApplyTxnTyped
    <3>4. DiskFollows'
      BY <1>3, <3>2, <3>3, Remembers DEF Sub, Snapshotting
    <3>5. txns \in Seq(TxnRecords) /\ Len(txns) = M
      BY DEF Shape, Typed, TargetTyped, M
    <3> QED
      BY <1>3, <3>2, <3>3, <3>4, <3>5 DEF Sub, Data
  <2>2. CASE txns[ctx.txnId].status # "COMMITTED"
    <3>1. prog' = prog /\ disk' = disk /\ txns' = [txns EXCEPT ![ctx.txnId].status = "ABORTED"]
      BY <1>1, <2>2 DEF RollbackTxn
    <3> QED
      BY <1>3, <3>1, ShapeFacts, SameDiskFollows, StatusTyped DEF Sub, Data
  <2> QED
    BY <2>1, <2>2
<1>6. log' = log /\ locked' \in 0..N /\ gc' = gc
  BY <1>2 DEF srcVars, Shape, Typed, SourceTyped, N
<1>7. Typed'
  <2>1. dest' \in [Tables -> [base : 0..N, applied : Seq(1..N)]]
    BY <1>2 DEF Shape, Typed, TargetTyped, N
  <2> QED
    BY <1>2, <1>4, <1>5, <1>6, <2>1, ShapeFacts, TargetTypes
<1>8. cursor' <= Len(Running') /\ Running' = Running
  BY <1>2, <1>3, <1>5 DEF Running
<1>9. Control'
  BY <1>2, <1>3, <1>5, <1>8, ShapeFacts DEF Control, Live, LiveStates, Snapshotting
<1> QED
  BY <1>5, <1>7, <1>9 DEF Shape

\* RollbackTxnFails keeps the shape.
LEMMA RollbackTxnFailsShape ==
    ASSUME Shape, AskedRule, RollbackTxnFails
    PROVE  Shape'
<1>1. /\ pc = "rollback" /\ pc' = "idle" /\ cursor' = 0 /\ budget' \in 0..MaxFaults
      /\ UNCHANGED <<srcVars, destVars, prog, disk, pipe, more, extra, interrupt, lost>>
  BY FaultTyped DEF RollbackTxnFails, Goto
<1>2. Sub' = "RollbackPipeline"
  BY <1>1, RollingFacts DEF Sub
<1>3. FlagsTyped'
  BY <1>1 DEF FlagsTyped, Shape, Typed, PCs
<1>4. Typed'
  BY <1>1, <1>3, ShapeFacts, JobTypes
<1>5. Control'
  BY <1>1, <1>2, ShapeFacts, IdleControl DEF LiveStates, Control
<1>6. DiskFollows'
  BY <1>1, SameDiskFollows
<1> QED
  BY <1>4, <1>5, <1>6 DEF Shape

\* FinishRollback keeps the shape.
LEMMA FinishRollbackShape ==
    ASSUME Shape, AskedRule, FinishRollback
    PROVE  Shape'
<1>1. PICK p : p = NextSubCheckpoint(prog, "Done", EmptyData)
  OBVIOUS
<1>2. /\ pc = "rollback" /\ pc' = "loop" /\ cursor' = 0 /\ Persist(p)
      /\ UNCHANGED <<srcVars, destVars, pipe, more, extra, interrupt, budget, lost>>
  BY <1>1 DEF FinishRollback, Goto
<1>3. p \in ProgressAt(N, M) /\ SyncOK(p) /\ p.subSyncState = "Done"
  BY <1>1, <1>2, ShapeFacts, RollingFacts, NextSubCheckpointTyped
     DEF IncrementalStates, SubSyncStates
<1>4. prog' = p /\ disk' \in ProgressAt(N, M) /\ DiskFollows' /\ Sub' = "Done"
  BY <1>2, <1>3, ShapeFacts, Persists DEF Sub
<1>5. FlagsTyped'
  BY <1>2 DEF FlagsTyped, Shape, Typed, PCs
<1>6. Typed'
  BY <1>2, <1>3, <1>4, <1>5, ShapeFacts, JobTypes
<1>7. pipe' # Nil => pipe'.pos <= pipe'.next
  BY <1>2, ShapeFacts DEF Control
<1>8. Control'
  BY <1>2, <1>4, <1>7, LoopControl DEF LiveStates
<1> QED
  BY <1>4, <1>6, <1>8 DEF Shape

\* Min picks the least member of a set of naturals.
LEMMA MinOfNats ==
    ASSUME NEW S, S \subseteq Nat, S # {}
    PROVE  Min(S) \in S /\ \A x \in S : Min(S) <= x
<1>1. PICK m \in S : \A k \in S : <<k, m>> \notin OpToRel(<, Nat)
  BY NatLessThanWellFounded, WFMin
<1>2. \A k \in S : ~ k < m
  BY <1>1 DEF OpToRel
<1>3. \A k \in S : m <= k
  BY <1>2
<1> QED
  BY <1>3 DEF Min

\* The smallest commit seq of a snapshot is that of one of its tables.
LEMMA SmallestTyped ==
    ASSUME NEW a \in Nat, NEW b \in Nat, NEW seqs \in [Tables -> a..b]
    PROVE  /\ Smallest(seqs) \in a..b /\ \A t \in Tables : Smallest(seqs) <= seqs[t]
           /\ \E t \in Tables : Smallest(seqs) = seqs[t]
<1>1. PICK S : S = Range(seqs)
  OBVIOUS
<1>2. S = {seqs[t] : t \in Tables}
  BY <1>1 DEF Range
<1>3. S \subseteq Nat /\ S # {}
  BY <1>2, LogAssumption
<1>4. Smallest(seqs) \in S /\ \A x \in S : Smallest(seqs) <= x
  BY <1>1, <1>3, MinOfNats DEF Smallest
<1> QED
  BY <1>2, <1>4

\* What a restore makes of the target.
LEMMA RestoredTyped ==
    ASSUME Shape, NEW ts, NEW seqs \in [Tables -> 0..N], Restored(seqs, ts)
    PROVE  /\ dest' \in [Tables -> [base : 0..N, applied : Seq(1..N)]]
           /\ \A t \in Tables :
                 IF t \in ts THEN dest'[t].base = seqs[t] /\ dest'[t].applied = <<>>
                 ELSE dest'[t] = dest[t]
<1>1. dest \in [Tables -> [base : 0..N, applied : Seq(1..N)]]
  BY DEF Shape, Typed, TargetTyped, N
<1>2. <<>> \in Seq(1..N)
  OBVIOUS
<1> QED
  BY <1>1, <1>2 DEF Restored

\* The choices behind a finished full sync.
LEMMA FullSyncFacts ==
    ASSUME Shape, FinishFullSync
    PROVE  \E seqs \in [Tables -> SnapshotSeqs] : \E seq \in SnapshotSeqs : \E c \in 0..N :
             /\ Restored(seqs, Tables) /\ seqs \in [Tables -> 0..N] /\ c \in SnapshotSeqs
             /\ \A t \in Tables : c <= seqs[t]
             /\ Persist(NextWithPersist([prog EXCEPT !.tableCommitSeqMap = seqs], c,
                                        "DBTablesIncrementalSync", "Done"))
<1>1. PICK seqs \in [Tables -> SnapshotSeqs] : \E seq \in SnapshotSeqs :
          /\ Restored(seqs, Tables)
          /\ Persist(NextWithPersist([prog EXCEPT !.tableCommitSeqMap = seqs],
                                     Min({Smallest(seqs), seq}), "DBTablesIncrementalSync",
                                     "Done"))
  BY DEF FinishFullSync
<1>2. PICK seq \in SnapshotSeqs :
          /\ Restored(seqs, Tables)
          /\ Persist(NextWithPersist([prog EXCEPT !.tableCommitSeqMap = seqs],
                                     Min({Smallest(seqs), seq}), "DBTablesIncrementalSync",
                                     "Done"))
  BY <1>1
<1>3. asked \in 0..N /\ N \in Nat /\ asked \in Nat /\ SnapshotSeqs = asked..N
  BY ShapeFacts DEF Shape, Typed, SourceTyped, SnapshotSeqs, N
<1>4. seqs \in [Tables -> 0..N] /\ seqs \in [Tables -> asked..N] /\ seq \in asked..N
  BY <1>2, <1>3
<1>5. PICK s : s = Smallest(seqs)
  OBVIOUS
<1>6. s \in asked..N /\ \A t \in Tables : s <= seqs[t]
  BY <1>3, <1>4, <1>5, SmallestTyped
<1>7. PICK c : c = Min({s, seq})
  OBVIOUS
<1>8. c \in {s, seq} /\ c <= s
  BY <1>3, <1>4, <1>6, <1>7, MaxMinOfTwo
<1>9. c \in 0..N /\ c \in SnapshotSeqs /\ \A t \in Tables : c <= seqs[t]
  BY <1>3, <1>4, <1>6, <1>8
<1> QED
  BY <1>2, <1>4, <1>5, <1>7, <1>9

\* FullSync keeps the shape.
LEMMA FullSyncShape ==
    ASSUME Shape, AskedRule, FinishFullSync
    PROVE  Shape'
<1>1. PICK seqs \in [Tables -> SnapshotSeqs] : \E seq \in SnapshotSeqs : \E c \in 0..N :
          /\ Restored(seqs, Tables) /\ seqs \in [Tables -> 0..N]
          /\ Persist(NextWithPersist([prog EXCEPT !.tableCommitSeqMap = seqs], c,
                                     "DBTablesIncrementalSync", "Done"))
  BY FullSyncFacts
<1>2. PICK c \in 0..N :
          /\ Restored(seqs, Tables) /\ seqs \in [Tables -> 0..N]
          /\ Persist(NextWithPersist([prog EXCEPT !.tableCommitSeqMap = seqs], c,
                                     "DBTablesIncrementalSync", "Done"))
  BY <1>1
<1>3. PICK p : p = NextWithPersist([prog EXCEPT !.tableCommitSeqMap = seqs], c,
                                   "DBTablesIncrementalSync", "Done")
  OBVIOUS
<1>4. p \in ProgressAt(N, M) /\ SyncOK(p) /\ p.subSyncState = "Done"
  BY <1>2, <1>3, ShapeFacts, SnapshotDoneTyped
<1>5. prog' = p /\ disk' \in ProgressAt(N, M) /\ DiskFollows' /\ Sub' = "Done"
  BY <1>2, <1>3, <1>4, ShapeFacts, Persists DEF Sub
<1>6. /\ pc = "idle" /\ extra' = ResetSkip
      /\ UNCHANGED <<srcVars, txns, pipe, pc, more, cursor, interrupt, budget, lost>>
  BY DEF FinishFullSync
<1>7. /\ extra' \in Extras
      /\ extra'.skipTable = extra.skipTable /\ extra'.skipBy \in {"no", extra.skipBy}
  BY <1>6, ResetSkipTyped
<1>8. FlagsTyped'
  BY <1>6, <1>7 DEF FlagsTyped, Shape, Typed
<1>9. Typed'
  <2>1. dest' \in [Tables -> [base : 0..N, applied : Seq(1..N)]]
    BY <1>2, RestoredTyped
  <2>2. log' = log /\ locked' \in 0..N /\ gc' = gc
    BY <1>6 DEF srcVars, Shape, Typed, SourceTyped, N
  <2>3. txns' \in Seq(TxnRecords) /\ Len(txns') = M
    BY <1>6 DEF Shape, Typed, TargetTyped, M
  <2> QED
    BY <1>4, <1>5, <1>6, <1>8, <2>1, <2>2, <2>3, ShapeFacts, TargetTypes
<1>10. Control'
  BY <1>5, <1>6, <1>7, ShapeFacts DEF Control, Live, LiveStates, Snapshotting
<1> QED
  BY <1>5, <1>9, <1>10 DEF Shape

\* The choices behind a finished partial sync.
LEMMA PartialSyncFacts ==
    ASSUME Shape, FinishPartialSync
    PROVE  \E seq \in SnapshotSeqs : \E seqs \in [Tables -> 0..N] :
             /\ prog.partialTable \in Tables
             /\ seqs = [prog.tableCommitSeqMap EXCEPT ![prog.partialTable] = seq]
             /\ Restored(seqs, {prog.partialTable})
             /\ Persist(NextWithPersist([prog EXCEPT !.tableCommitSeqMap = seqs],
                                        prog.commitSeq, "DBTablesIncrementalSync", "Done"))
<1>1. PICK seq \in SnapshotSeqs :
          LET seqs == [prog.tableCommitSeqMap EXCEPT ![prog.partialTable] = seq] IN
          /\ Restored(seqs, {prog.partialTable})
          /\ Persist(NextWithPersist([prog EXCEPT !.tableCommitSeqMap = seqs],
                                     prog.commitSeq, "DBTablesIncrementalSync", "Done"))
  BY DEF FinishPartialSync
<1>2. asked \in 0..N /\ N \in Nat /\ seq \in 0..N
  BY ShapeFacts DEF Shape, Typed, SourceTyped, SnapshotSeqs, N
<1>3. PICK seqs : seqs = [prog.tableCommitSeqMap EXCEPT ![prog.partialTable] = seq]
  OBVIOUS
<1>4. prog.tableCommitSeqMap \in [Tables -> 0..N] /\ prog.partialTable \in Tables \cup {Nil}
  BY ShapeFacts DEF ProgressAt
<1>5. prog.partialTable \in Tables
  BY <1>4, ShapeFacts DEF SyncOK, FinishPartialSync
<1>6. seqs \in [Tables -> 0..N]
  BY <1>2, <1>3, <1>4
<1> QED
  BY <1>1, <1>3, <1>5, <1>6

\* PartialSync keeps the shape.
LEMMA PartialSyncShape ==
    ASSUME Shape, AskedRule, FinishPartialSync
    PROVE  Shape'
<1>1. PICK seq \in SnapshotSeqs : \E seqs \in [Tables -> 0..N] :
          /\ Restored(seqs, {prog.partialTable})
          /\ Persist(NextWithPersist([prog EXCEPT !.tableCommitSeqMap = seqs],
                                     prog.commitSeq, "DBTablesIncrementalSync", "Done"))
  BY PartialSyncFacts
<1>2. PICK seqs \in [Tables -> 0..N] :
          /\ Restored(seqs, {prog.partialTable})
          /\ Persist(NextWithPersist([prog EXCEPT !.tableCommitSeqMap = seqs],
                                     prog.commitSeq, "DBTablesIncrementalSync", "Done"))
  BY <1>1
<1>3. PICK p : p = NextWithPersist([prog EXCEPT !.tableCommitSeqMap = seqs],
                                   prog.commitSeq, "DBTablesIncrementalSync", "Done")
  OBVIOUS
<1>4. prog.commitSeq \in 0..N
  BY ShapeFacts DEF ProgressAt
<1>5. p \in ProgressAt(N, M) /\ SyncOK(p) /\ p.subSyncState = "Done"
  BY <1>3, <1>4, ShapeFacts, SnapshotDoneTyped
<1>6. prog' = p /\ disk' \in ProgressAt(N, M) /\ DiskFollows' /\ Sub' = "Done"
  BY <1>2, <1>3, <1>5, ShapeFacts, Persists DEF Sub
<1>7. /\ pc = "idle" /\ extra' = ResetSkip
      /\ UNCHANGED <<srcVars, txns, pipe, pc, more, cursor, interrupt, budget, lost>>
  BY DEF FinishPartialSync
<1>8. /\ extra' \in Extras
      /\ extra'.skipTable = extra.skipTable /\ extra'.skipBy \in {"no", extra.skipBy}
  BY <1>7, ResetSkipTyped
<1>9. FlagsTyped'
  BY <1>7, <1>8 DEF FlagsTyped, Shape, Typed
<1>10. Typed'
  <2>1. dest' \in [Tables -> [base : 0..N, applied : Seq(1..N)]]
    BY <1>2, RestoredTyped
  <2>2. log' = log /\ locked' \in 0..N /\ gc' = gc
    BY <1>7 DEF srcVars, Shape, Typed, SourceTyped, N
  <2>3. txns' \in Seq(TxnRecords) /\ Len(txns') = M
    BY <1>7 DEF Shape, Typed, TargetTyped, M
  <2> QED
    BY <1>5, <1>6, <1>7, <1>9, <2>1, <2>2, <2>3, ShapeFacts, TargetTypes
<1>11. Control'
  BY <1>6, <1>7, <1>8, ShapeFacts DEF Control, Live, LiveStates, Snapshotting
<1> QED
  BY <1>6, <1>10, <1>11 DEF Shape
-----------------------------------------------------------------------------
\* SourceWrites keeps the shape.
LEMMA SourceWritesShape ==
    ASSUME Shape, SourceWrites, UNCHANGED asked
    PROVE  Shape'
<1>1. PICK b \in SourceBinlogs : log' = Append(log, b)
  BY DEF SourceWrites
<1>2. /\ N < MaxSeq /\ N \in Nat /\ M \in Nat /\ b \in Binlogs /\ log \in Seq(Binlogs)
      /\ UNCHANGED <<locked, gc, asked, txns, dest, prog, disk, pipe, pc, more, cursor, extra,
                     interrupt, budget, lost>>
  BY ShapeFacts, LogAssumption
     DEF SourceWrites, Shape, Typed, SourceTyped, destVars, N
<1>3. /\ log' \in Seq(Binlogs) /\ Len(log') = N + 1 /\ N + 1 <= MaxSeq
      /\ \A i \in 1..N : log'[i] = log[i]
  BY <1>1, <1>2, BoundsAssumption DEF N
<1>4. SourceTyped'
  BY <1>2, <1>3 DEF Shape, Typed, SourceTyped, N
<1>5. Seq(1..N) \subseteq Seq(1..(N + 1))
  BY <1>2
<1>6. TargetTyped'
  BY <1>2, <1>3, <1>5 DEF Shape, Typed, TargetTyped, N
<1>7. /\ ProgressAt(N, M) \subseteq ProgressAt(N + 1, M)
      /\ ContextsAt(N, M) \subseteq ContextsAt(N + 1, M)
  BY <1>2, SetsGrow
<1>8. JobTyped'
  BY <1>2, <1>3, <1>7, ShapeFacts DEF JobTyped, M
<1>9. FlagsTyped'
  BY <1>2 DEF FlagsTyped, Shape, Typed
<1>10. DiskFollows'
  BY <1>2, SameDiskFollows
<1>11. \A i \in 0..N : i < N => log'[i + 1] = log[i + 1]
  BY <1>2, <1>3
<1>12. Control'
  <2>1. /\ pipe \in ContextsAt(N, M) \cup {Nil} /\ prog.commitSeq \in 0..N
    BY ShapeFacts DEF ProgressAt
  <2>2. ASSUME pc \in {"handling", "handled"}
        PROVE  /\ Sub = "Done" /\ pipe # Nil /\ extra.partialTable = Nil
               /\ prog.commitSeq = pipe.pos + 1 /\ HasBinlogs(pipe)
               /\ log'[prog.commitSeq].kind # "UPSERT"
    <3>1. /\ Sub = "Done" /\ pipe # Nil /\ extra.partialTable = Nil
          /\ prog.commitSeq = pipe.pos + 1 /\ HasBinlogs(pipe)
          /\ log[prog.commitSeq].kind # "UPSERT"
      BY <2>2, ShapeFacts DEF Control
    <3>2. prog.commitSeq \in 1..N
      BY <2>2, HandlingFacts
    <3> QED
      BY <1>3, <3>1, <3>2
  <2>3. ASSUME pc = "begun"
        PROVE  /\ HasUpsertBinlog(pipe)' /\ RelatedTables(NextSeq)' # {}
               /\ Len(txns) > 0 /\ ~txns[Len(txns)].recorded
    <3>1. /\ HasUpsertBinlog(pipe) /\ RelatedTables(NextSeq) # {} /\ Live
          /\ Len(txns) > 0 /\ ~txns[Len(txns)].recorded
      BY <2>3, ShapeFacts DEF Control, Live, LiveStates
    <3>2. pipe # Nil /\ pipe.pos \in 0..N /\ pipe.next \in 0..N
      BY <2>3, <3>1, LiveFacts
    <3>3. pipe.pos < pipe.next /\ pipe.pos < N
      BY <1>2, <3>1, <3>2 DEF HasUpsertBinlog, HasBinlogs
    <3>4. log'[pipe.pos + 1] = log[pipe.pos + 1]
      BY <1>11, <3>2, <3>3
    <3> QED
      BY <1>2, <3>1, <3>4 DEF HasUpsertBinlog, HasBinlogs, RelatedTables, NextSeq
  <2> QED
    BY <1>2, <2>2, <2>3, ShapeFacts
       DEF Control, Live, LiveStates, Sub, Snapshotting, Data, Commitable, Running, HasBinlogs
<1> QED
  BY <1>4, <1>6, <1>8, <1>9, <1>10, <1>12 DEF Shape, Typed

\* The steps of the environment that touch neither the log nor the job's records.
LEMMA EnvironmentShape ==
    ASSUME Shape, UNCHANGED asked, SourceCollects \/ Interrupt \/ SkipBinlog
    PROVE  Shape'
<1>1. /\ UNCHANGED <<log, locked, destVars, prog, disk, pipe, pc, more, cursor, lost>>
      /\ gc' \in {gc, locked}
  BY DEF SourceCollects, Interrupt, SkipBinlog, srcVars
<1>2. /\ interrupt' \in BOOLEAN /\ budget' \in 0..MaxFaults
      /\ extra' \in Extras /\ extra'.partialTable = extra.partialTable
      /\ extra'.skipBy = "partialsync" => extra'.skipTable # Nil
  <2>1. /\ extra \in Extras /\ budget \in 0..MaxFaults /\ interrupt \in BOOLEAN
        /\ extra.skipBy = "partialsync" => extra.skipTable # Nil
    BY ShapeFacts DEF Control, Shape, Typed, FlagsTyped
  <2>2. CASE SourceCollects
    BY <2>1, <2>2 DEF SourceCollects
  <2>3. CASE Interrupt
    BY <2>1, <2>3, FaultTyped DEF Interrupt
  <2>4. CASE SkipBinlog
    <3>1. interrupt' = interrupt /\ budget' \in 0..MaxFaults
      BY <2>4, FaultTyped DEF SkipBinlog
    <3>2. CASE \E s \in 1..MaxSeq : extra' = [extra EXCEPT !.skipBy = "silence", !.skipSeq = s]
      <4>1. PICK s \in 1..MaxSeq : extra' = [extra EXCEPT !.skipBy = "silence", !.skipSeq = s]
        BY <3>2
      <4>2. s \in Seqs
        BY BoundsAssumption DEF Seqs
      <4>3. /\ extra' \in Extras /\ extra'.partialTable = extra.partialTable
            /\ extra'.skipBy = "silence"
        BY <2>1, <4>1, <4>2 DEF Extras
      <4> QED
        BY <2>1, <3>1, <4>3
    <3>3. CASE extra' = [extra EXCEPT !.skipBy = "fullsync"]
      BY <2>1, <3>1, <3>3 DEF Extras
    <3>4. CASE \E t \in Tables :
                  extra' = [extra EXCEPT !.skipBy = "partialsync", !.skipTable = t]
      <4>1. PICK t \in Tables :
               extra' = [extra EXCEPT !.skipBy = "partialsync", !.skipTable = t]
        BY <3>4
      <4> QED
        BY <2>1, <3>1, <4>1, NilAssumption DEF Extras
    <3> QED
      BY <2>4, <3>2, <3>3, <3>4 DEF SkipBinlog
  <2> QED
    BY <2>2, <2>3, <2>4
<1>3. Typed'
  BY <1>1, <1>2 DEF Shape, Typed, SourceTyped, TargetTyped, JobTyped, FlagsTyped, destVars
<1>4. DiskFollows'
  BY <1>1, SameDiskFollows
<1>5. Control'
  BY <1>1, <1>2, ShapeFacts
     DEF Control, Live, LiveStates, Sub, Snapshotting, Data, Commitable, Running, destVars,
         HasBinlogs, HasUpsertBinlog, RelatedTables, NextSeq
<1> QED
  BY <1>3, <1>4, <1>5 DEF Shape

\* TargetAborts keeps the shape.
LEMMA TargetAbortsShape ==
    ASSUME Shape, UNCHANGED asked, TargetAborts
    PROVE  Shape'
<1>1. PICK i \in DOMAIN txns :
         txns[i].status = "PREPARE" /\ Fault("abort")
         /\ txns' = [txns EXCEPT ![i].status = "ABORTED"]
  BY DEF TargetAborts
<1>2. UNCHANGED <<srcVars, dest, prog, disk, pipe, pc, more, cursor, extra, interrupt, lost>>
  BY DEF TargetAborts
<1>3. i \in 1..M /\ M \in Nat
  BY <1>1, ShapeFacts DEF Shape, Typed, TargetTyped, M
<1>4. /\ txns' \in Seq(TxnRecords) /\ Len(txns') = M
      /\ \A k \in 1..M : txns'[k].recorded = txns[k].recorded
  BY <1>1, <1>3, StatusTyped
<1>5. budget' \in 0..MaxFaults
  BY <1>1, FaultTyped
<1>6. Typed'
  BY <1>2, <1>4, <1>5
     DEF Shape, Typed, SourceTyped, TargetTyped, JobTyped, FlagsTyped, srcVars, M
<1>7. DiskFollows'
  BY <1>2, SameDiskFollows
<1>8. ASSUME pc = "begun"
      PROVE  Len(txns') > 0 /\ ~txns'[Len(txns')].recorded
  <2>1. Len(txns) > 0 /\ ~txns[Len(txns)].recorded
    BY <1>8, ShapeFacts DEF Control
  <2> QED
    BY <1>3, <1>4, <2>1 DEF M
<1>9. Control'
  BY <1>2, <1>8, ShapeFacts
     DEF Control, Live, LiveStates, Sub, Snapshotting, Data, Commitable, Running, srcVars,
         HasBinlogs, HasUpsertBinlog, RelatedTables, NextSeq
<1> QED
  BY <1>6, <1>7, <1>9 DEF Shape

\* Crash keeps the shape.
LEMMA CrashShape ==
    ASSUME Shape, UNCHANGED asked, Crash
    PROVE  Shape'
<1>1. /\ prog' = disk /\ disk' = disk /\ pipe' = Nil /\ pc' = "idle" /\ cursor' = 0
      /\ more' = TRUE /\ extra' = NoExtra /\ interrupt' = FALSE /\ lost' \in BOOLEAN
      /\ UNCHANGED <<srcVars, destVars>> /\ budget' \in 0..MaxFaults
  BY FaultTyped DEF Crash, Goto, Shape, Typed, FlagsTyped
<1>2. NoExtra \in Extras /\ NoExtra.skipBy = "no"
  BY BoundsAssumption DEF NoExtra, Extras, Seqs
<1>3. FlagsTyped'
  BY <1>1, <1>2 DEF FlagsTyped, PCs
<1>4. Typed'
  BY <1>1, <1>3
     DEF Shape, Typed, SourceTyped, TargetTyped, JobTyped, srcVars, destVars
<1>5. DiskFollows'
  BY <1>1, ShapeFacts DEF DiskFollows, Sub, Snapshotting, SyncOK, IsIncrementalSync
<1>6. Control'
  BY <1>1, <1>2 DEF Control, Live, LiveStates, Sub, Snapshotting
<1> QED
  BY <1>4, <1>5, <1>6 DEF Shape

\* The initial states have the shape.
LEMMA InitShape ==
    ASSUME Init
    PROVE  Shape
<1>1. PICK seqs \in [Tables -> 1..Len(log)] :
         /\ dest = [t \in Tables |-> [base |-> seqs[t], applied |-> <<>>]]
         /\ prog = InitialProgress(seqs) /\ disk = prog
  BY DEF Init
<1>2. /\ log \in Seq(Binlogs) /\ log # <<>> /\ N \in Nat /\ N <= MaxSeq /\ Len(log) \in Nat
      /\ 1 \in 0..N /\ N = Len(log) /\ txns = <<>> /\ M = 0
  BY LogAssumption DEF Init, N, M
<1>3. PICK c : c = Smallest(seqs)
  OBVIOUS
<1>4. c \in 0..N /\ seqs \in [Tables -> 0..N]
  <2>1. seqs \in [Tables -> 1..N] /\ 1 \in Nat
    BY <1>1, <1>2
  <2>2. c \in 1..N
    BY <1>2, <1>3, <2>1, SmallestTyped
  <2> QED
    BY <1>2, <2>1, <2>2
<1>5. EmptyData \in DataAt(N, M)
  BY <1>2, BoundsAssumption, NilIsNoRecord
<1>6. /\ prog \in ProgressAt(N, M) /\ prog.subSyncState = "Done" /\ SyncOK(prog)
      /\ prog.inMemoryData = Nil /\ prog.lockedCommitSeq = 0
  BY <1>1, <1>2, <1>3, <1>4, <1>5
     DEF InitialProgress, ProgressAt, SyncStates, SubSyncStates, SyncOK, IsIncrementalSync
<1>7. NoExtra \in Extras /\ NoExtra.skipBy = "no"
  BY BoundsAssumption DEF NoExtra, Extras, Seqs
<1>8. Typed
  <2>1. SourceTyped
    BY <1>2 DEF Init, SourceTyped, N
  <2>2. <<>> \in Seq(1..Len(log)) /\ <<>> \in Seq(TxnRecords) /\ Len(<<>>) = 0
    OBVIOUS
  <2>3. TargetTyped
    BY <1>1, <1>2, <1>4, <2>2, BoundsAssumption DEF TargetTyped, N
  <2>4. JobTyped
    BY <1>1, <1>6 DEF JobTyped, Init, N, M
  <2>5. FlagsTyped
    <3>1. /\ pc = "idle" /\ more = TRUE /\ cursor = 0 /\ extra = NoExtra /\ interrupt = FALSE
          /\ budget = MaxFaults /\ lost = FALSE
      BY DEF Init
    <3>2. budget \in 0..MaxFaults
      BY <3>1, PipelineAssumption
    <3> QED
      BY <1>7, <3>1, <3>2 DEF FlagsTyped, PCs
  <2> QED
    BY <2>1, <2>3, <2>4, <2>5 DEF Typed
<1>9. Control
  BY <1>6, <1>7 DEF Init, Control, Live, LiveStates, Sub, Snapshotting
<1>10. DiskFollows
  BY <1>1, <1>6 DEF DiskFollows, Sub, Snapshotting
<1> QED
  BY <1>8, <1>9, <1>10 DEF Shape

\* A step of the job goroutine keeps its records consistent.
LEMMA JobShape ==
    ASSUME Shape, JobStep
    PROVE  Shape'
<1>1. AskedRule /\ JobAction
  BY DEF JobStep, AskedRule
<1>2. CASE EnterSync \/ LeaveOnInterrupt \/ ConsumeInterruptSignals
  BY <1>1, <1>2, EnterSyncShape, LeaveOnInterruptShape
<1>3. CASE StartPartialSnapshot \/ RecoverIncrementalSync \/ SkipByFullSync \/ SkipByPartialSync
  BY <1>1, <1>3, StartPartialSnapshotShape, RecoverShape, SkipBySyncShape
<1>4. CASE StartPipeline \/ HandleBinlog
  BY <1>1, <1>4, StartPipelineShape, HandleBinlogShape
<1>5. CASE \/ HandleCommittedBinlog \/ ExecuteDDL \/ ExecuteDDLLosesReply \/ HandleBinlogFails
           \/ HandleBySnapshot \/ FinishBinlog \/ FinishBinlogLockFails
  BY <1>1, <1>5, ExecuteShape, HandleBinlogFailsShape, HandleBySnapshotShape, FinishBinlogShape
<1>6. CASE \/ GetNextBinlogs \/ NoMoreBinlogs \/ GetNextBinlogsFails \/ PanicOnStaleContext
           \/ NothingToLaunch \/ SkipUpsert \/ BeginTxn \/ BeginTxnFails
  BY <1>1, <1>6, GetNextBinlogsShape, NoMoreBinlogsShape, NothingToLaunchShape, BeginTxnShape,
     BeginTxnFailsShape
<1>7. CASE LaunchIngestJob \/ LaunchTriggersPartialSnapshot \/ LaunchIngestJobFails
  BY <1>1, <1>7, LaunchShape, LaunchFailsShape
<1>8. CASE TakeResult \/ FinishPipeline \/ LaunchMore \/ YieldPipeline
  BY <1>1, <1>8, TakeResultShape, FinishPipelineShape, LaunchMoreShape, YieldPipelineShape
<1>9. CASE CommitTxn \/ CommitTxnFails \/ FinishCommit \/ FinishCommitLockFails
  BY <1>1, <1>9, CommitTxnShape, CommitTxnFailsShape, FinishCommitShape
<1>10. CASE StartRollback \/ RollbackTxn \/ RollbackTxnFails \/ FinishRollback
  BY <1>1, <1>10, StartRollbackShape, RollbackTxnShape, RollbackTxnFailsShape,
     FinishRollbackShape
<1>11. CASE FinishFullSync \/ FinishPartialSync
  BY <1>1, <1>11, FullSyncShape, PartialSyncShape
<1> QED
  BY <1>1, <1>2, <1>3, <1>4, <1>5, <1>6, <1>7, <1>8, <1>9, <1>10, <1>11 DEF JobAction

\* Every step keeps the shape.
LEMMA NextShape ==
    ASSUME Shape, [Next]_vars
    PROVE  Shape'
<1>1. CASE JobStep
  BY <1>1, JobShape
<1>2. CASE WorkerStep /\ UNCHANGED asked
  <2>1. AskedRule
    BY <1>2, WorkerTyped, AsksNothing
  <2> QED
    BY <1>2, <2>1, WorkerShape
<1>3. CASE Environment /\ UNCHANGED asked
  BY <1>3, SourceWritesShape, EnvironmentShape, TargetAbortsShape, CrashShape DEF Environment
<1>4. CASE UNCHANGED vars
  <2>1. Typed'
    BY <1>4 DEF vars, Shape, Typed, SourceTyped, TargetTyped, JobTyped, FlagsTyped
  <2>2. DiskFollows'
    BY <1>4, SameDiskFollows DEF vars
  <2>3. Control'
    BY <1>4, ShapeFacts
       DEF vars, Control, Live, LiveStates, Sub, Snapshotting, Data, Commitable, Running,
           HasBinlogs, HasUpsertBinlog, RelatedTables, NextSeq
  <2> QED
    BY <2>1, <2>2, <2>3 DEF Shape
<1> QED
  BY <1>1, <1>2, <1>3, <1>4 DEF Next

\* The types hold, and the storage follows what the job has in memory.
THEOREM PipelineShape == Spec => []Shape
<1>1. Init => Shape
  BY InitShape
<1>2. Shape /\ [Next]_vars => Shape'
  BY NextShape
<1> QED
  BY <1>1, <1>2, PTL DEF Spec

\* The types: what every variable of the pipeline holds in every reachable state.  A corollary
\* of the shape.
THEOREM PipelineTypes == Spec => []TypeOK
<1>1. Shape => TypeOK
  BY TypedIsTypeOK DEF Shape
<1> QED
  BY <1>1, PipelineShape, PTL
-----------------------------------------------------------------------------
\* The same seqs, map and sync state.
Same(p, q) == Keeps(p, q) /\ KeepsSync(p, q)

\* q asks for a snapshot on top of p.
AsksFor(p, q, sync) ==
    /\ q.subSyncState = "BeginCreateSnapshot" /\ q.syncState = sync
    /\ q.commitSeq = p.commitSeq /\ q.prevCommitSeq = p.prevCommitSeq
    /\ q.tableCommitSeqMap = p.tableCommitSeqMap /\ q.unknownCommitSeq = p.unknownCommitSeq
    /\ q.persistData = EmptyData /\ q.inMemoryData = Nil

\* A new full snapshot asks for a full sync.
LEMMA FullAsked ==
    ASSUME Shape, NEW p \in ProgressAt(N, M), Persist(NewSnapshot(p, p.commitSeq))
    PROVE  AsksFor(p, prog', "DBFullSync")
<1>1. PICK q : q = NewSnapshot(p, p.commitSeq)
  OBVIOUS
<1>2. prog' = q
  BY <1>1 DEF Persist
<1>3. p.commitSeq \in 0..N
  BY DEF ProgressAt
<1> QED
  BY <1>1, <1>2, <1>3, ShapeFacts, NewSnapshotTyped DEF AsksFor

\* A new partial snapshot asks for a partial sync of its table.
LEMMA PartialAsked ==
    ASSUME Shape, NEW p \in ProgressAt(N, M), NEW t \in Tables, Persist(NewPartialSnapshot(p, t))
    PROVE  AsksFor(p, prog', "DBPartialSync") /\ prog'.partialTable = t
<1>1. PICK q : q = NewPartialSnapshot(p, t)
  OBVIOUS
<1>2. prog' = q
  BY <1>1 DEF Persist
<1> QED
  BY <1>1, <1>2, ShapeFacts, NewPartialSnapshotTyped DEF AsksFor

\* A failure drops the context, and on a meta error asks for a full sync.
LEMMA ResetAndFailEffect ==
    ASSUME Shape, NEW err, ResetAndFail(err)
    PROVE  /\ pipe' = Nil /\ pc' = "idle"
           /\ err # "meta" => prog' = prog /\ disk' = disk
           /\ err = "meta" => AsksFor(prog, prog', "DBFullSync")
<1>1. prog \in ProgressAt(N, M)
  BY ShapeFacts
<1>2. /\ pipe' = Nil /\ pc' = "idle"
      /\ err # "meta" => prog' = prog /\ disk' = disk
  BY DEF ResetAndFail, Goto, HandleError, Volatile
<1>3. ASSUME err = "meta"
      PROVE  Persist(NewSnapshot(prog, prog.commitSeq))
  BY <1>3 DEF ResetAndFail, HandleError
<1> QED
  BY <1>1, <1>2, <1>3, FullAsked

\* What EnterSync changes, and from where.
LEMMA EnterSyncEffect ==
    ASSUME Shape, EnterSync
    PROVE  /\ pc = "idle" /\ pc' = "loop" /\ ~Snapshotting
           /\ UNCHANGED <<srcVars, destVars, cursor, interrupt, budget, lost>>
           /\ extra'.partialTable = extra.partialTable /\ extra'.skipTable = extra.skipTable
           /\ extra'.skipBy \in {"no", extra.skipBy} /\ extra'.skipSeq = extra.skipSeq
           /\ Same(prog, prog')
           /\ \/ /\ pipe # Nil \/ Sub = "Done"
                 /\ prog' = prog /\ disk' = disk
                 /\ pipe = Nil => pipe' = Nil
                 /\ pipe # Nil =>
                      /\ pipe' \in ContextsAt(N, M) /\ pipe' # Nil
                      /\ pipe'.next = pipe.next /\ pipe'.close = pipe.close
                      /\ pipe'.link = pipe.link /\ pipe'.tokens = pipe.tokens
                      /\ pipe'.workers = pipe.workers /\ pipe'.commitCh = pipe.commitCh
                      /\ \/ prog.prevCommitSeq <= pipe.pos /\ pipe'.pos = pipe.pos
                         \/ /\ prog.prevCommitSeq > pipe.pos
                            /\ prog.prevCommitSeq <= pipe.next
                            /\ pipe'.pos = prog.prevCommitSeq
                         \/ prog.prevCommitSeq > pipe.next /\ pipe'.pos = pipe.next
              \/ /\ pipe = Nil /\ pipe' = Nil /\ Sub # "Done" /\ Sub' = "RollbackPipeline"
                 /\ Data' = LoadedData /\ LoadedData \in DataAt(N, M)
                 /\ \/ /\ Sub = "RollbackPipeline" /\ disk' = disk
                       /\ prog'.persistData = prog.persistData
                    \/ /\ Sub # "RollbackPipeline" /\ KeepsSync(prog, disk')
                       /\ prog'.persistData = LoadedData
                       /\ disk'.subSyncState = "RollbackPipeline"
<1>1. /\ pc = "idle" /\ pc' = "loop"
      /\ UNCHANGED <<srcVars, destVars, cursor, interrupt, budget, lost>>
      /\ extra'.partialTable = extra.partialTable /\ extra'.skipTable = extra.skipTable
      /\ extra'.skipBy \in {"no", extra.skipBy} /\ extra'.skipSeq = extra.skipSeq
      /\ IsIncrementalSync(prog) /\ pipe' = DrainStaledBinlogs
  BY ResetSkipTyped DEF EnterSync, Goto
<1>2. ~Snapshotting
  BY <1>1, ShapeFacts DEF SyncOK, Snapshotting, Sub
<1>3. ASSUME pipe # Nil
      PROVE  /\ pipe' \in ContextsAt(N, M) /\ pipe' # Nil
             /\ pipe'.next = pipe.next /\ pipe'.close = pipe.close
             /\ pipe'.link = pipe.link /\ pipe'.tokens = pipe.tokens
             /\ pipe'.workers = pipe.workers /\ pipe'.commitCh = pipe.commitCh
             /\ \/ prog.prevCommitSeq <= pipe.pos /\ pipe'.pos = pipe.pos
                \/ /\ prog.prevCommitSeq > pipe.pos /\ prog.prevCommitSeq <= pipe.next
                   /\ pipe'.pos = prog.prevCommitSeq
                \/ prog.prevCommitSeq > pipe.next /\ pipe'.pos = pipe.next
  <2>1. pipe \in ContextsAt(N, M) /\ pipe.pos <= pipe.next
    BY <1>3, ShapeFacts DEF Control
  <2>2. PICK b : b = Min({prog.prevCommitSeq, pipe.next})
    OBVIOUS
  <2>3. PICK a : a = IF prog.prevCommitSeq <= pipe.pos THEN pipe.pos ELSE b
    OBVIOUS
  <2>4. prog.prevCommitSeq \in 0..N /\ pipe.next \in 0..N /\ pipe.pos \in 0..N
    BY <2>1, ShapeFacts DEF ProgressAt, ContextsAt
  <2>5. b \in {prog.prevCommitSeq, pipe.next} /\ b <= prog.prevCommitSeq /\ b <= pipe.next
    BY <2>2, <2>4, MaxMinOfTwo
  <2>6. /\ a \in 0..N
        /\ \/ prog.prevCommitSeq <= pipe.pos /\ a = pipe.pos
           \/ /\ prog.prevCommitSeq > pipe.pos /\ prog.prevCommitSeq <= pipe.next
              /\ a = prog.prevCommitSeq
           \/ prog.prevCommitSeq > pipe.next /\ a = pipe.next
    BY <2>1, <2>3, <2>4, <2>5
  <2>7. pipe' = [pipe EXCEPT !.pos = a]
    BY <1>1, <1>3, <2>1, <2>2, <2>3 DEF DrainStaledBinlogs, ContextsAt
  <2> QED
    BY <2>1, <2>6, <2>7, ShapeFacts DEF ContextsAt
<1>4. CASE ~IsNeedRollbackPipeline
  <2>1. prog' = prog /\ disk' = disk /\ (pipe # Nil \/ Sub = "Done")
    BY <1>4 DEF EnterSync, IsNeedRollbackPipeline, Sub
  <2>2. Same(prog, prog')
    BY <2>1 DEF Same, Keeps, KeepsSync
  <2>3. pipe = Nil => pipe' = Nil
    BY <1>1 DEF DrainStaledBinlogs
  <2> QED
    BY <1>1, <1>2, <1>3, <2>1, <2>2, <2>3
<1>5. CASE IsNeedRollbackPipeline
  <2>1. PICK p : p = [prog EXCEPT !.inMemoryData = LoadedData]
    OBVIOUS
  <2>2. LoadedData \in DataAt(N, M)
    BY ShapeFacts DEF LoadedData
  <2>3. /\ p \in ProgressAt(N, M) /\ SyncOK(p) /\ p.subSyncState = Sub
        /\ Keeps(prog, p) /\ KeepsSync(prog, p)
        /\ p.persistData = prog.persistData /\ p.inMemoryData = LoadedData
    BY <2>1, <2>2, ShapeFacts, InMemoryTyped DEF Sub
  <2>4. pipe = Nil /\ Sub # "Done" /\ pipe' = Nil
    BY <1>1, <1>5 DEF IsNeedRollbackPipeline, Sub, DrainStaledBinlogs
  <2>5. CASE Sub = "RollbackPipeline"
    <3>1. prog' = p /\ disk' = disk
      BY <1>5, <2>1, <2>3, <2>5 DEF EnterSync, RollbackPipeline, Volatile
    <3> QED
      BY <1>1, <1>2, <2>2, <2>3, <2>4, <2>5, <3>1 DEF Same, Sub, Data
  <2>6. CASE Sub # "RollbackPipeline"
    <3>1. PICK q : q = NextSubCheckpoint(p, "RollbackPipeline", LoadedData)
      OBVIOUS
    <3>2. Persist(q)
      BY <1>5, <2>1, <2>3, <2>6, <3>1 DEF EnterSync, RollbackPipeline
    <3>3. /\ q \in ProgressAt(N, M) /\ SyncOK(q) /\ q.subSyncState = "RollbackPipeline"
          /\ Keeps(p, q) /\ KeepsSync(p, q)
          /\ q.persistData = LoadedData /\ q.inMemoryData = p.inMemoryData
      BY <3>1, <2>2, <2>3, <1>2, ShapeFacts, NextSubCheckpointTyped
         DEF Snapshotting, IncrementalStates, SubSyncStates
    <3>4. PICK d : d = Persisted(q)
      OBVIOUS
    <3>5. prog' = q /\ disk' = d
      BY <3>2, <3>4 DEF Persist
    <3>6. KeepsSync(q, d) /\ d.subSyncState = q.subSyncState
      BY <3>3, <3>4, ShapeFacts, PersistedTyped
    <3>7. Same(prog, prog') /\ KeepsSync(prog, disk')
      BY <2>3, <3>3, <3>5, <3>6 DEF Same, Keeps, KeepsSync
    <3> QED
      BY <1>1, <1>2, <2>2, <2>3, <2>4, <2>6, <3>3, <3>5, <3>6, <3>7 DEF Sub, Data
  <2> QED
    BY <2>5, <2>6
<1> QED
  BY <1>4, <1>5

\* What StartPipeline changes, and from where.
LEMMA StartPipelineEffect ==
    ASSUME Shape, StartPipeline
    PROVE  /\ pc = "loop" /\ pc' = "loop" /\ Sub = "Done" /\ IsDone(prog)
           /\ extra.partialTable = Nil /\ NoForcedSync
           /\ UNCHANGED <<srcVars, destVars, disk, more, cursor, extra, interrupt, budget, lost>>
           /\ pipe' = InitializedContext /\ ~HasNonUpsertBinlog(InitializedContext)
           /\ Same(prog, prog') /\ Sub' = "LaunchTransaction"
           /\ Data' = EmptyData /\ prog'.persistData = prog.persistData
<1>1. PICK p : p = NextSubVolatile(prog, "LaunchTransaction", EmptyData)
  OBVIOUS
<1>2. /\ pc = "loop" /\ pc' = "loop" /\ Sub = "Done" /\ IsDone(prog)
      /\ extra.partialTable = Nil /\ NoForcedSync
      /\ UNCHANGED <<srcVars, destVars, more, cursor, extra, interrupt, budget, lost>>
      /\ pipe' = InitializedContext /\ ~HasNonUpsertBinlog(InitializedContext)
      /\ prog' = p /\ disk' = disk
  BY <1>1 DEF StartPipeline, AtDone, AtLoop, Sub, Volatile
<1>3. /\ Keeps(prog, p) /\ KeepsSync(prog, p) /\ p.subSyncState = "LaunchTransaction"
      /\ p.persistData = prog.persistData /\ p.inMemoryData = EmptyData
  BY <1>1, <1>2, ShapeFacts, NextSubVolatileTyped DEF Sub, IncrementalStates, SubSyncStates
<1> QED
  BY <1>2, <1>3 DEF Same, Sub, Data

\* What HandleBinlog changes, and from where.
LEMMA HandleBinlogEffect ==
    ASSUME Shape, HandleBinlog
    PROVE  /\ pc = "loop" /\ Sub = "Done" /\ IsDone(prog)
           /\ extra.partialTable = Nil /\ NoForcedSync
           /\ UNCHANGED <<srcVars, destVars, more, cursor, extra, interrupt, budget, lost>>
           /\ pipe' = InitializedContext /\ HasNonUpsertBinlog(InitializedContext)
           /\ Keeps(prog, prog') /\ Sub' = "Done" /\ Data' = Data
           /\ prog'.persistData = prog.persistData
           /\ prog'.tableCommitSeqMap = prog.tableCommitSeqMap
           /\ prog'.syncState = prog.syncState
           /\ prog'.commitSeq = pipe'.pos + 1
           /\ pc' = IF IsSilenced(pipe'.pos + 1) THEN "handled" ELSE "handling"
<1>1. PICK c : c = InitializedContext
  OBVIOUS
<1>2. PICK p : p = StartHandle(prog, c.pos + 1)
  OBVIOUS
<1>3. /\ pc = "loop" /\ Sub = "Done" /\ IsDone(prog)
      /\ extra.partialTable = Nil /\ NoForcedSync
      /\ UNCHANGED <<srcVars, destVars, more, cursor, extra, interrupt, budget, lost>>
      /\ pipe' = c /\ HasNonUpsertBinlog(c) /\ prog' = p
      /\ pc' = IF IsSilenced(c.pos + 1) THEN "handled" ELSE "handling"
  BY <1>1, <1>2 DEF HandleBinlog, AtDone, AtLoop, Sub, Persist, Goto
<1>4. c.pos + 1 \in 0..N
  BY <1>1, <1>3, ShapeFacts, InitializedTyped DEF HasNonUpsertBinlog, HasBinlogs, ContextsAt
<1>5. /\ Keeps(prog, p) /\ p.subSyncState = prog.subSyncState /\ p.commitSeq = c.pos + 1
      /\ p.tableCommitSeqMap = prog.tableCommitSeqMap /\ p.syncState = prog.syncState
      /\ p.persistData = prog.persistData /\ p.inMemoryData = prog.inMemoryData
  BY <1>2, <1>4, ShapeFacts, StartHandleTyped
<1> QED
  BY <1>1, <1>3, <1>5 DEF Sub, Data

\* Forgetting the previous txn changes nothing else.
LEMMA NoPrevTxnEffect ==
    ASSUME Shape, NEW p, p = NoPrevTxn
    PROVE  /\ p \in ProgressAt(N, M) /\ Same(prog, p) /\ p.subSyncState = Sub
           /\ p.persistData = prog.persistData /\ p.inMemoryData = Data
BY ShapeFacts, NoPrevTxnTyped DEF NoPrevTxn, Same, Sub, Data

\* What Execute changes, and from where.
LEMMA ExecuteEffect ==
    ASSUME Shape, HandleCommittedBinlog \/ ExecuteDDL \/ ExecuteDDLLosesReply
    PROVE  /\ pc = "handling" /\ pc' \in {"handled", "idle"}
           /\ UNCHANGED <<srcVars, txns, disk, pipe, more, cursor, extra, interrupt, lost>>
           /\ Same(prog, prog') /\ Sub' = Sub /\ Data' = Data
           /\ prog'.persistData = prog.persistData
           /\ \/ dest' = dest /\ IsAlreadyHandled /\ pc' = "handled"
              \/ /\ Apply(prog.commitSeq, log[prog.commitSeq].tables) /\ ~IsAlreadyHandled
                 /\ log[prog.commitSeq].kind \in {"RENAME_COLUMN", "TRUNCATE_TABLE"}
<1>1. PICK p : p = NoPrevTxn
  OBVIOUS
<1>2. /\ pc = "handling" /\ pc' \in {"handled", "idle"} /\ prog' = p
      /\ UNCHANGED <<srcVars, txns, disk, pipe, more, cursor, extra, interrupt, lost>>
      /\ \/ dest' = dest /\ IsAlreadyHandled /\ pc' = "handled"
         \/ /\ Apply(prog.commitSeq, log[prog.commitSeq].tables) /\ ~IsAlreadyHandled
            /\ log[prog.commitSeq].kind \in {"RENAME_COLUMN", "TRUNCATE_TABLE"}
  BY <1>1 DEF HandleCommittedBinlog, ExecuteDDL, ExecuteDDLLosesReply, Handling, Volatile, Goto,
     destVars
<1> QED
  BY <1>1, <1>2, NoPrevTxnEffect DEF Sub, Data

\* What HandleBinlogFails changes, and from where.
LEMMA HandleBinlogFailsEffect ==
    ASSUME Shape, HandleBinlogFails
    PROVE  /\ pc = "handling" /\ pc' = "idle"
           /\ UNCHANGED <<srcVars, destVars, pipe, more, cursor, extra, interrupt, lost>>
           /\ \/ prog' = prog /\ disk' = disk
              \/ "ddlMeta" \in FaultKinds /\ AsksFor(prog, prog', "DBFullSync")
<1>1. /\ pc = "handling" /\ pc' = "idle"
      /\ UNCHANGED <<srcVars, destVars, pipe, more, cursor, extra, interrupt, lost>>
  BY DEF HandleBinlogFails, Handling, Goto
<1>2. PICK p : p = NoPrevTxn
  OBVIOUS
<1>3. p \in ProgressAt(N, M) /\ Same(prog, p)
  BY <1>2, NoPrevTxnEffect
<1>4. \/ prog' = prog /\ disk' = disk
      \/ "ddlMeta" \in FaultKinds /\ Persist(NewSnapshot(p, p.commitSeq))
  BY <1>2 DEF HandleBinlogFails, Fault, HandleError, Volatile
<1>5. ASSUME Persist(NewSnapshot(p, p.commitSeq))
      PROVE  AsksFor(prog, prog', "DBFullSync")
  <2>1. AsksFor(p, prog', "DBFullSync")
    BY <1>3, <1>5, FullAsked
  <2> QED
    BY <1>3, <2>1 DEF AsksFor, Same, Keeps, KeepsSync
<1> QED
  BY <1>1, <1>4, <1>5

\* What HandleBySnapshot changes, and from where.
LEMMA HandleBySnapshotEffect ==
    ASSUME Shape, HandleBySnapshot
    PROVE  /\ pc = "handling" /\ pc' = "idle" /\ pipe' = Nil /\ ~IsAlreadyHandled
           /\ UNCHANGED <<srcVars, destVars, more, cursor, extra, interrupt, budget, lost>>
           /\ \/ /\ log[prog.commitSeq].kind = "ALTER_JOB"
                 /\ AsksFor(prog, prog', "DBPartialSync")
                 /\ prog'.partialTable \in log[prog.commitSeq].tables
              \/ /\ log[prog.commitSeq].kind = "DUMMY"
                 /\ AsksFor(prog, prog', "DBFullSync")
<1>1. /\ pc = "handling" /\ pc' = "idle" /\ pipe' = Nil /\ ~IsAlreadyHandled
      /\ UNCHANGED <<srcVars, destVars, more, cursor, extra, interrupt, budget, lost>>
  BY DEF HandleBySnapshot, Handling, Goto
<1>2. PICK p : p = NoPrevTxn
  OBVIOUS
<1>3. p \in ProgressAt(N, M) /\ Same(prog, p)
  BY <1>2, NoPrevTxnEffect
<1>4. CASE /\ log[prog.commitSeq].kind = "ALTER_JOB"
           /\ \E t \in log[prog.commitSeq].tables : Persist(NewPartialSnapshot(p, t))
  <2>1. PICK t \in log[prog.commitSeq].tables : Persist(NewPartialSnapshot(p, t))
    BY <1>4
  <2>2. t \in Tables
    BY <1>1, <2>1, HandlingFacts
  <2>3. AsksFor(p, prog', "DBPartialSync") /\ prog'.partialTable = t
    BY <1>3, <2>1, <2>2, PartialAsked
  <2>4. AsksFor(prog, prog', "DBPartialSync")
    BY <1>3, <2>3 DEF AsksFor, Same, Keeps, KeepsSync
  <2> QED
    BY <1>1, <1>4, <2>1, <2>3, <2>4
<1>5. CASE log[prog.commitSeq].kind = "DUMMY" /\ Persist(NewSnapshot(p, prog.commitSeq))
  <2>1. p.commitSeq = prog.commitSeq
    BY <1>3 DEF Same, KeepsSync
  <2>2. AsksFor(p, prog', "DBFullSync")
    BY <1>3, <1>5, <2>1, FullAsked
  <2>3. AsksFor(prog, prog', "DBFullSync")
    BY <1>3, <2>2 DEF AsksFor, Same, Keeps, KeepsSync
  <2> QED
    BY <1>1, <1>5, <2>3
<1> QED
  BY <1>2, <1>4, <1>5 DEF HandleBySnapshot, Handling
-----------------------------------------------------------------------------
\* What is taken back when the progress rolls back to the checkpoint.
RollsBack(p, q) ==
    /\ q.subSyncState = "Done" /\ q.commitSeq = p.prevCommitSeq
    /\ q.prevCommitSeq = p.prevCommitSeq /\ q.unknownCommitSeq = p.commitSeq
    /\ q.tableCommitSeqMap = p.tableCommitSeqMap /\ q.syncState = p.syncState
    /\ q.persistData = p.persistData /\ q.inMemoryData = p.inMemoryData

\* A persisted rollback rolls the job back.
LEMMA RollbackEffect ==
    ASSUME Shape, ~Snapshotting, Persist(Rollback(prog))
    PROVE  RollsBack(prog, prog')
<1>1. PICK q : q = Rollback(prog)
  OBVIOUS
<1>2. prog' = q
  BY <1>1 DEF Persist
<1> QED
  BY <1>1, <1>2, ShapeFacts, RollbackTyped DEF RollsBack, Snapshotting, Sub

\* The steps at Done that leave it.
LEMMA LeaveDoneEffect ==
    ASSUME Shape,
           StartPartialSnapshot \/ RecoverIncrementalSync \/ SkipByFullSync \/ SkipByPartialSync
    PROVE  /\ pc = "loop" /\ pc' = "idle" /\ Sub = "Done" /\ pipe' = Nil
           /\ UNCHANGED <<srcVars, destVars, more, cursor, interrupt, budget, lost>>
           /\ extra'.skipBy = extra.skipBy /\ extra'.skipSeq = extra.skipSeq
           /\ \/ /\ extra.partialTable # Nil /\ AsksFor(prog, prog', "DBPartialSync")
                 /\ prog'.partialTable = extra.partialTable
              \/ extra.partialTable = Nil /\ ~IsDone(prog) /\ RollsBack(prog, prog')
              \/ AtDone /\ extra.skipBy = "fullsync" /\ AsksFor(prog, prog', "DBFullSync")
              \/ /\ AtDone /\ extra.skipBy = "partialsync"
                 /\ AsksFor(prog, prog', "DBPartialSync") /\ prog'.partialTable \in Tables
<1>1. /\ pc = "loop" /\ pc' = "idle" /\ Sub = "Done" /\ pipe' = Nil
      /\ UNCHANGED <<srcVars, destVars, more, cursor, interrupt, budget, lost>>
      /\ ~Snapshotting
  BY DEF StartPartialSnapshot, RecoverIncrementalSync, SkipByFullSync, SkipByPartialSync, AtDone,
     AtLoop, Sub, Goto, Snapshotting
<1>2. extra \in Extras /\ prog \in ProgressAt(N, M)
  BY ShapeFacts DEF Shape, Typed, FlagsTyped
<1>3. CASE StartPartialSnapshot
  <2>1. /\ extra.partialTable \in Tables /\ extra.partialTable # Nil
        /\ extra'.skipBy = extra.skipBy /\ extra'.skipSeq = extra.skipSeq
        /\ Persist(NewPartialSnapshot(prog, extra.partialTable))
    BY <1>2, <1>3 DEF StartPartialSnapshot, Extras
  <2> QED
    BY <1>1, <1>2, <2>1, PartialAsked
<1>4. CASE RecoverIncrementalSync
  BY <1>1, <1>4, RollbackEffect DEF RecoverIncrementalSync
<1>5. CASE SkipByFullSync
  BY <1>1, <1>2, <1>5, FullAsked DEF SkipByFullSync
<1>6. CASE SkipByPartialSync
  <2>1. AtDone /\ extra.skipBy = "partialsync" /\ extra' = extra
        /\ Persist(NewPartialSnapshot(prog, extra.skipTable))
    BY <1>6 DEF SkipByPartialSync
  <2>2. extra.skipTable \in Tables
    BY <1>2, <2>1, ShapeFacts DEF Control, Extras
  <2> QED
    BY <1>1, <1>2, <2>1, <2>2, PartialAsked
<1> QED
  BY <1>3, <1>4, <1>5, <1>6

\* What FinishBinlog changes, and from where.
LEMMA FinishBinlogEffect ==
    ASSUME Shape, FinishBinlog \/ FinishBinlogLockFails
    PROVE  /\ pc = "handled"
           /\ UNCHANGED <<log, gc, destVars, more, cursor, extra, interrupt, lost>>
           /\ \/ pc' = "idle" /\ pipe' = pipe
              \/ /\ pc' = "loop" /\ pipe' \in ContextsAt(N, M) /\ pipe'.pos = pipe.pos + 1
                 /\ pipe'.next = pipe.next /\ pipe'.close = pipe.close
                 /\ pipe'.link = pipe.link /\ pipe'.tokens = pipe.tokens
                 /\ pipe'.workers = pipe.workers /\ pipe'.commitCh = pipe.commitCh
           /\ Sub = "Done" /\ Sub' = "Done" /\ prog'.commitSeq = prog.commitSeq
           /\ prog'.prevCommitSeq = prog.commitSeq
           /\ prog'.unknownCommitSeq = prog.unknownCommitSeq
           /\ prog'.partialTable = prog.partialTable
           /\ prog'.persistData = prog.persistData /\ Data' = Data
           /\ \/ /\ prog'.syncState = prog.syncState
                 /\ prog'.tableCommitSeqMap = prog.tableCommitSeqMap
              \/ /\ \A t \in Tables : prog.tableCommitSeqMap[t] <= prog.commitSeq
                 /\ prog'.tableCommitSeqMap = NoMap /\ prog'.syncState = "DBIncrementalSync"
           /\ locked' \in {locked, prog.commitSeq}
<1>1. PICK p : p = HandledProgress
  OBVIOUS
<1>2. /\ pc = "handled" /\ (LockBinlog(p) \/ LockBinlogFails(p))
      /\ UNCHANGED <<log, gc, destVars, more, cursor, extra, interrupt, lost>>
      /\ \/ pc' = "idle" /\ pipe' = pipe
         \/ pc' = "loop" /\ pipe' = [pipe EXCEPT !.pos = @ + 1]
  BY <1>1 DEF FinishBinlog, FinishBinlogLockFails, Goto
<1>3. pipe \in ContextsAt(N, M) /\ pipe.pos < pipe.next /\ Sub = "Done"
  BY <1>2, HandlingFacts
<1>4. \/ pc' = "idle" /\ pipe' = pipe
      \/ /\ pc' = "loop" /\ pipe' \in ContextsAt(N, M) /\ pipe'.pos = pipe.pos + 1
         /\ pipe'.next = pipe.next /\ pipe'.close = pipe.close
         /\ pipe'.link = pipe.link /\ pipe'.tokens = pipe.tokens
         /\ pipe'.workers = pipe.workers /\ pipe'.commitCh = pipe.commitCh
  BY <1>2, <1>3, ShapeFacts DEF ContextsAt
<1>5. /\ p \in ProgressAt(N, M) /\ SyncOK(p) /\ p.subSyncState = "Done"
      /\ p.prevCommitSeq = prog.commitSeq /\ p.commitSeq = prog.commitSeq
      /\ p.unknownCommitSeq = prog.unknownCommitSeq
      /\ p.partialTable = prog.partialTable
      /\ p.persistData = prog.persistData /\ p.inMemoryData = prog.inMemoryData
      /\ \/ /\ p.syncState = prog.syncState
            /\ p.tableCommitSeqMap = prog.tableCommitSeqMap
         \/ /\ \A t \in Tables : prog.tableCommitSeqMap[t] <= prog.commitSeq
            /\ p.tableCommitSeqMap = NoMap /\ p.syncState = "DBIncrementalSync"
  BY <1>1, <1>2, HandledTyped
<1>6. /\ Keeps(p, prog') /\ KeepsSync(p, prog') /\ prog'.subSyncState = p.subSyncState
      /\ prog'.persistData = p.persistData /\ prog'.inMemoryData = p.inMemoryData
      /\ locked' \in {locked, p.prevCommitSeq}
  BY <1>2, <1>5, Locks
<1> QED
  BY <1>2, <1>3, <1>4, <1>5, <1>6 DEF Sub, Data, Keeps, KeepsSync

\* What NoMoreBinlogs changes, and from where.
LEMMA NoMoreBinlogsEffect ==
    ASSUME Shape, NoMoreBinlogs
    PROVE  Same(prog, prog') /\ Sub' = Sub /\ Data' = Data /\ prog'.persistData = prog.persistData
<1>1. CASE prog.prevTxnId # -1
  BY <1>1, NoPrevTxnEffect DEF NoMoreBinlogs, Persist, Sub, Data
<1>2. CASE prog.prevTxnId = -1
  BY <1>2 DEF NoMoreBinlogs, Same, Keeps, KeepsSync, Sub, Data
<1> QED
  BY <1>1, <1>2

\* What Skipped changes, and from where.
LEMMA SkippedEffect ==
    ASSUME Shape, NothingToLaunch \/ SkipUpsert
    PROVE  /\ MayLaunch /\ Live /\ Sub = "LaunchTransaction" /\ pc # "idle" /\ pc' = "loop"
           /\ UNCHANGED <<srcVars, destVars, disk, cursor, extra, interrupt, budget, lost>>
           /\ Same(prog, prog') /\ Sub' = "CommitPipeline" /\ Data' = Data
           /\ prog'.persistData = prog.persistData
           /\ \/ pipe' = pipe /\ ~HasUpsertBinlog(pipe)
              \/ /\ HasUpsertBinlog(pipe) /\ RelatedTables(NextSeq) = {}
                 /\ pipe' \in ContextsAt(N, M) /\ pipe'.pos = pipe.pos + 1
                 /\ pipe'.next = pipe.next /\ pipe'.close = pipe.close
                 /\ pipe'.link = pipe.link /\ pipe'.tokens = pipe.tokens
                 /\ pipe'.workers = pipe.workers /\ pipe'.commitCh = pipe.commitCh
<1>1. PICK p : p = ToCommitPipeline(prog)
  OBVIOUS
<1>2. /\ MayLaunch /\ prog' = p /\ disk' = disk /\ pc' = "loop"
      /\ UNCHANGED <<srcVars, destVars, cursor, extra, interrupt, budget, lost>>
      /\ \/ pipe' = pipe /\ ~HasUpsertBinlog(pipe)
         \/ /\ HasUpsertBinlog(pipe) /\ RelatedTables(NextSeq) = {}
            /\ pipe' = [pipe EXCEPT !.pos = @ + 1]
  BY <1>1 DEF NothingToLaunch, SkipUpsert, Volatile, Goto
<1>3. Sub = "LaunchTransaction" /\ Live /\ pc # "idle"
  BY <1>2, ShapeFacts DEF MayLaunch, AtLoop, Control, Sub, Live, LiveStates
<1>4. /\ pipe \in ContextsAt(N, M) /\ pipe.pos \in 0..N /\ pipe.next \in 0..N
      /\ Data \in DataAt(N, M) /\ prog.subSyncState # "BeginCreateSnapshot"
  BY <1>3, LiveFacts
<1>5. /\ Keeps(prog, p) /\ KeepsSync(prog, p) /\ p.subSyncState = "CommitPipeline"
      /\ p.persistData = prog.persistData /\ p.inMemoryData = prog.inMemoryData
  BY <1>1, <1>4, ShapeFacts, NextSubVolatileTyped
     DEF ToCommitPipeline, IncrementalStates, SubSyncStates
<1>6. \/ pipe' = pipe /\ ~HasUpsertBinlog(pipe)
      \/ /\ HasUpsertBinlog(pipe) /\ RelatedTables(NextSeq) = {}
         /\ pipe' \in ContextsAt(N, M) /\ pipe'.pos = pipe.pos + 1
         /\ pipe'.next = pipe.next /\ pipe'.close = pipe.close
         /\ pipe'.link = pipe.link /\ pipe'.tokens = pipe.tokens
         /\ pipe'.workers = pipe.workers /\ pipe'.commitCh = pipe.commitCh
  BY <1>2, <1>4, ShapeFacts DEF ContextsAt, HasUpsertBinlog, HasBinlogs
<1> QED
  BY <1>2, <1>3, <1>5, <1>6 DEF Same, Sub, Data

\* What BeginTxnFails changes, and from where.
LEMMA BeginTxnFailsEffect ==
    ASSUME Shape, BeginTxnFails
    PROVE  /\ NeedsTxn /\ pipe' = Nil /\ pc' = "idle" /\ Live /\ Sub = "LaunchTransaction"
           /\ pc # "idle"
           /\ UNCHANGED <<srcVars, dest, more, cursor, extra, interrupt, lost>>
           /\ txns' = txns \/ txns' = NewTxn
           /\ \/ prog' = prog /\ disk' = disk
              \/ "meta" \in FaultKinds /\ AsksFor(prog, prog', "DBFullSync")
              \/ "tableGone" \in FaultKinds /\ RollsBack(prog, prog')
<1>1. /\ NeedsTxn /\ UNCHANGED <<srcVars, dest, more, cursor, extra, interrupt, lost>>
      /\ txns' = txns \/ txns' = NewTxn
      /\ \/ ResetAndFail("error")
         \/ "meta" \in FaultKinds /\ ResetAndFail("meta")
         \/ /\ "tableGone" \in FaultKinds /\ Persist(Rollback(prog)) /\ pipe' = Nil
            /\ pc' = "idle"
  BY DEF BeginTxnFails, Fault, Goto
<1>2. Sub = "LaunchTransaction" /\ Live /\ pc # "idle" /\ ~Snapshotting
  BY <1>1, ShapeFacts DEF NeedsTxn, MayLaunch, AtLoop, Control, Sub, Live, LiveStates, Snapshotting
<1> QED
  BY <1>1, <1>2, ResetAndFailEffect, RollbackEffect

\* What Launch changes, and from where.
LEMMA LaunchEffect ==
    ASSUME Shape, LaunchIngestJob \/ LaunchTriggersPartialSnapshot
    PROVE  \E ctx \in TxnsAt(N, M) : \E r \in {"running", "partial"} :
             /\ pc = "begun" /\ pc' = "loop" /\ Sub = "LaunchTransaction"
             /\ UNCHANGED <<srcVars, dest, more, cursor, interrupt, budget, lost>>
             /\ Recorded /\ ctx.txnId = M /\ ctx.commitSeq = pipe.pos + 1
             /\ pipe.pos + 1 <= pipe.next /\ log[pipe.pos + 1].kind = "UPSERT"
             /\ ctx.tables = RelatedTables(pipe.pos + 1) /\ ctx.tables # {}
             /\ Same(prog, prog') /\ Sub' = "CommitPipeline"
             /\ Data' = [Data EXCEPT !.running = Append(@, ctx)]
             /\ Data'.running = Append(Running, ctx)
             /\ prog'.persistData = Data'
             /\ KeepsSync(prog, disk') /\ disk'.subSyncState = "LaunchTransaction"
             /\ pipe' \in ContextsAt(N, M) /\ pipe'.pos = pipe.pos + 1 /\ pipe'.next = pipe.next
             /\ pipe'.link = pipe.link + 1 /\ pipe'.tokens = pipe.tokens
             /\ pipe'.commitCh = pipe.commitCh
             /\ pipe'.workers = pipe.workers \cup {[ctx |-> ctx, prev |-> pipe.link,
                                                    next |-> pipe.link + 1, result |-> r]}
             /\ \/ r = "running" /\ extra' = extra
                \/ /\ r = "partial" /\ extra'.partialTable \in Tables
                   /\ extra'.skipBy = extra.skipBy /\ extra'.skipSeq = extra.skipSeq
<1>1. PICK ctx : ctx = BegunTxn
  OBVIOUS
<1>2. PICK p : p = PersistInMemoryData(WithBegunTxn)
  OBVIOUS
<1>3. PICK q : q = ToCommitPipeline(p)
  OBVIOUS
<1>4. PICK d : d = Persisted(p)
  OBVIOUS
<1>5. /\ pc = "begun" /\ pc' = "loop" /\ Recorded /\ prog' = q /\ disk' = d
      /\ UNCHANGED <<srcVars, dest, more, cursor, interrupt, budget, lost>>
  BY <1>2, <1>3, <1>4 DEF LaunchIngestJob, LaunchTriggersPartialSnapshot, Goto
<1>6. /\ ctx \in TxnsAt(N, M) /\ ctx.txnId = M /\ ctx.commitSeq = pipe.pos + 1
      /\ pipe.pos + 1 <= pipe.next /\ log[pipe.pos + 1].kind = "UPSERT"
      /\ ctx.tables = RelatedTables(pipe.pos + 1) /\ ctx.tables # {}
      /\ p \in ProgressAt(N, M) /\ SyncOK(p) /\ p.subSyncState = "LaunchTransaction"
      /\ Keeps(prog, p) /\ KeepsSync(prog, p)
      /\ p.inMemoryData \in DataAt(N, M) /\ p.persistData = p.inMemoryData
      /\ p.inMemoryData = [Data EXCEPT !.running = Append(@, ctx)]
      /\ p.inMemoryData.running = Append(Running, ctx)
  BY <1>1, <1>2, <1>5, BegunFacts
<1>7. /\ q.subSyncState = "CommitPipeline"
      /\ Keeps(p, q) /\ KeepsSync(p, q) /\ q.persistData = p.persistData
      /\ q.inMemoryData = p.inMemoryData
  BY <1>3, <1>6, ShapeFacts, NextSubVolatileTyped
     DEF ToCommitPipeline, IncrementalStates, SubSyncStates
<1>8. KeepsSync(p, d) /\ d.subSyncState = p.subSyncState
  BY <1>4, <1>6, ShapeFacts, PersistedTyped
<1>9. /\ Same(prog, prog') /\ Sub' = "CommitPipeline" /\ KeepsSync(prog, disk')
      /\ Data' = [Data EXCEPT !.running = Append(@, ctx)]
      /\ Data'.running = Append(Running, ctx) /\ prog'.persistData = Data'
      /\ disk'.subSyncState = "LaunchTransaction"
  <2>1. prog'.inMemoryData = [Data EXCEPT !.running = Append(@, ctx)]
    BY <1>5, <1>6, <1>7
  <2> QED
    BY <1>5, <1>6, <1>7, <1>8, <2>1 DEF Same, Keeps, KeepsSync, Sub, Data
<1>10. Sub = "LaunchTransaction"
  BY <1>5, ShapeFacts DEF Control
<1>11. CASE LaunchIngestJob
  <2>1. pipe' = Launched("running") /\ extra' = extra
    BY <1>11 DEF LaunchIngestJob
  <2>2. /\ pipe' \in ContextsAt(N, M) /\ pipe'.pos = pipe.pos + 1 /\ pipe'.next = pipe.next
        /\ pipe'.link = pipe.link + 1 /\ pipe'.tokens = pipe.tokens
        /\ pipe'.commitCh = pipe.commitCh
        /\ pipe'.workers = pipe.workers \cup {[ctx |-> ctx, prev |-> pipe.link,
                                               next |-> pipe.link + 1, result |-> "running"]}
    BY <1>1, <1>5, <1>6, <2>1, LaunchedTyped
  <2> QED
    BY <1>5, <1>6, <1>9, <1>10, <2>1, <2>2
<1>12. CASE LaunchTriggersPartialSnapshot
  <2>1. PICK c : c = Launched("partial")
    OBVIOUS
  <2>2. /\ c \in ContextsAt(N, M) /\ c.pos = pipe.pos + 1 /\ c.next = pipe.next
        /\ c.link = pipe.link + 1 /\ c.tokens = pipe.tokens /\ c.commitCh = pipe.commitCh
        /\ c.workers = pipe.workers \cup {[ctx |-> ctx, prev |-> pipe.link,
                                           next |-> pipe.link + 1, result |-> "partial"]}
    BY <1>1, <1>5, <1>6, <2>1, LaunchedTyped
  <2>3. pipe' = [c EXCEPT !.close = TRUE]
    BY <1>12, <2>1 DEF LaunchTriggersPartialSnapshot
  <2>4. /\ pipe' \in ContextsAt(N, M) /\ pipe'.pos = c.pos /\ pipe'.next = c.next
        /\ pipe'.link = c.link /\ pipe'.tokens = c.tokens
        /\ pipe'.commitCh = c.commitCh /\ pipe'.workers = c.workers
    BY <2>2, <2>3 DEF ContextsAt
  <2>5. PICK s \in NextSeq..Len(log) : \E t \in BegunTxn.tables :
           extra' = [extra EXCEPT !.partialTable = t]
    BY <1>12 DEF LaunchTriggersPartialSnapshot
  <2>6. PICK t \in ctx.tables : extra' = [extra EXCEPT !.partialTable = t]
    BY <1>1, <2>5
  <2>7. t \in Tables
    BY <1>6, <2>6 DEF TxnsAt
  <2>8. /\ extra'.partialTable \in Tables
        /\ extra'.skipBy = extra.skipBy /\ extra'.skipSeq = extra.skipSeq
    BY <2>6, <2>7 DEF Shape, Typed, FlagsTyped, Extras
  <2> QED
    BY <1>5, <1>6, <1>9, <1>10, <2>2, <2>4, <2>8
<1> QED
  BY <1>11, <1>12

\* What LaunchFails changes, and from where.
LEMMA LaunchFailsEffect ==
    ASSUME Shape, LaunchIngestJobFails
    PROVE  \E ctx \in TxnsAt(N, M) :
             /\ pc = "begun" /\ pc' = "idle" /\ Sub = "LaunchTransaction" /\ pipe' = Nil
             /\ UNCHANGED <<srcVars, dest, more, cursor, extra, interrupt, lost>>
             /\ Recorded /\ ctx.txnId = M /\ ctx.commitSeq = pipe.pos + 1
             /\ pipe.pos + 1 <= pipe.next /\ log[pipe.pos + 1].kind = "UPSERT"
             /\ ctx.tables = RelatedTables(pipe.pos + 1)
             /\ \/ /\ Same(prog, prog') /\ Sub' = "LaunchTransaction"
                   /\ Data' = [Data EXCEPT !.running = Append(@, ctx)]
                   /\ Data'.running = Append(Running, ctx)
                   /\ prog'.persistData = Data'
                   /\ disk'.subSyncState = "LaunchTransaction"
                \/ "meta" \in FaultKinds /\ AsksFor(prog, prog', "DBFullSync")
<1>1. PICK ctx : ctx = BegunTxn
  OBVIOUS
<1>2. PICK p : p = PersistInMemoryData(WithBegunTxn)
  OBVIOUS
<1>3. /\ pc = "begun" /\ pc' = "idle" /\ pipe' = Nil /\ Recorded
      /\ Persist(p) \/ ("meta" \in FaultKinds /\ Persist(NewSnapshot(p, p.commitSeq)))
      /\ UNCHANGED <<srcVars, dest, more, cursor, extra, interrupt, lost>>
  BY <1>2 DEF LaunchIngestJobFails, Goto, Fault
<1>4. /\ ctx \in TxnsAt(N, M) /\ ctx.txnId = M /\ ctx.commitSeq = pipe.pos + 1
      /\ pipe.pos + 1 <= pipe.next /\ log[pipe.pos + 1].kind = "UPSERT"
      /\ ctx.tables = RelatedTables(pipe.pos + 1)
      /\ p \in ProgressAt(N, M) /\ SyncOK(p) /\ p.subSyncState = "LaunchTransaction"
      /\ Keeps(prog, p) /\ KeepsSync(prog, p) /\ p.persistData = p.inMemoryData
      /\ p.inMemoryData = [Data EXCEPT !.running = Append(@, ctx)]
      /\ p.inMemoryData.running = Append(Running, ctx)
  BY <1>1, <1>2, <1>3, BegunFacts
<1>5. Sub = "LaunchTransaction"
  BY <1>3, ShapeFacts DEF Control
<1>6. CASE Persist(p)
  <2>1. PICK d : d = Persisted(p)
    OBVIOUS
  <2>2. prog' = p /\ disk' = d
    BY <1>6, <2>1 DEF Persist
  <2>3. d.subSyncState = p.subSyncState
    BY <1>4, <2>1, ShapeFacts, PersistedTyped
  <2>4. prog'.inMemoryData = [Data EXCEPT !.running = Append(@, ctx)]
    BY <1>4, <2>2
  <2> QED
    BY <1>3, <1>4, <1>5, <2>2, <2>3, <2>4 DEF Same, Sub, Data
<1>7. CASE "meta" \in FaultKinds /\ Persist(NewSnapshot(p, p.commitSeq))
  <2>1. AsksFor(p, prog', "DBFullSync")
    BY <1>4, <1>7, FullAsked
  <2>2. AsksFor(prog, prog', "DBFullSync")
    BY <1>4, <2>1 DEF AsksFor, Keeps, KeepsSync
  <2> QED
    BY <1>3, <1>4, <1>5, <1>7, <2>2
<1> QED
  BY <1>3, <1>6, <1>7
-----------------------------------------------------------------------------
\* What FinishPipeline changes, and from where.
LEMMA FinishPipelineEffect ==
    ASSUME Shape, FinishPipeline
    PROVE  /\ pc = "loop" /\ Sub = "CommitPipeline" /\ Running = <<>> /\ MustFinish
           /\ UNCHANGED <<srcVars, destVars, pipe, pc, more, cursor, extra, interrupt, budget,
                          lost>>
           /\ Same(prog, prog') /\ Sub' = "Done"
           /\ Data' = Data /\ prog'.persistData = EmptyData
<1>1. PICK p : p = NextSubCheckpoint(prog, "Done", EmptyData)
  OBVIOUS
<1>2. /\ NoResult /\ prog' = p /\ Running = <<>> /\ MustFinish
      /\ UNCHANGED <<srcVars, destVars, pipe, pc, more, cursor, extra, interrupt, budget, lost>>
  BY <1>1 DEF FinishPipeline, Persist
<1>3. pc = "loop" /\ Sub = "CommitPipeline" /\ prog.subSyncState # "BeginCreateSnapshot"
  BY <1>2, NoResultFacts
<1>4. /\ Keeps(prog, p) /\ KeepsSync(prog, p) /\ p.subSyncState = "Done"
      /\ p.persistData = EmptyData /\ p.inMemoryData = prog.inMemoryData
  BY <1>1, <1>3, ShapeFacts, NextSubCheckpointTyped DEF IncrementalStates, SubSyncStates
<1> QED
  BY <1>2, <1>3, <1>4 DEF Same, Sub, Data

\* What LaunchMore changes, and from where.
LEMMA LaunchMoreEffect ==
    ASSUME Shape, LaunchMore
    PROVE  /\ pc = "loop" /\ Sub = "CommitPipeline" /\ ~(MustFinish /\ Running = <<>>)
           /\ MayLaunchMore
           /\ UNCHANGED <<srcVars, destVars, disk, pipe, pc, more, cursor, extra, interrupt,
                          budget, lost>>
           /\ Same(prog, prog') /\ Sub' = "LaunchTransaction"
           /\ Data' = Data /\ prog'.persistData = prog.persistData
<1>1. PICK p : p = NextSubVolatile(prog, "LaunchTransaction", Data)
  OBVIOUS
<1>2. /\ NoResult /\ prog' = p /\ disk' = disk
      /\ ~(MustFinish /\ Running = <<>>) /\ MayLaunchMore
      /\ UNCHANGED <<srcVars, destVars, pipe, pc, more, cursor, extra, interrupt, budget, lost>>
  BY <1>1 DEF LaunchMore, Volatile
<1>3. /\ pc = "loop" /\ Sub = "CommitPipeline" /\ prog.subSyncState # "BeginCreateSnapshot"
      /\ Data \in DataAt(N, M)
  BY <1>2, NoResultFacts
<1>4. /\ Keeps(prog, p) /\ KeepsSync(prog, p) /\ p.subSyncState = "LaunchTransaction"
      /\ p.persistData = prog.persistData /\ p.inMemoryData = Data
  BY <1>1, <1>3, ShapeFacts, NextSubVolatileTyped DEF IncrementalStates, SubSyncStates
<1>5. Data' = Data
  BY <1>2, <1>4 DEF Data
<1> QED
  BY <1>2, <1>3, <1>4, <1>5 DEF Same, Sub

\* What YieldPipeline changes, and from where.
LEMMA YieldPipelineEffect ==
    ASSUME Shape, YieldPipeline
    PROVE  /\ pc = "loop" /\ pc' = "idle" /\ Sub = "CommitPipeline" /\ Running = <<>>
           /\ ~MustFinish
           /\ UNCHANGED <<srcVars, destVars, pipe, more, cursor, extra, interrupt, budget, lost>>
           /\ KeepsSync(prog, prog') /\ prog'.prevCommitSeq = prog.commitSeq
           /\ prog'.unknownCommitSeq = prog.unknownCommitSeq
           /\ prog'.partialTable = prog.partialTable
           /\ Sub' = "CommitPipeline" /\ Data' = Data /\ prog'.persistData = Data
<1>1. PICK p : p = DoneSubCheckpoint(prog, "CommitPipeline", Data)
  OBVIOUS
<1>2. /\ NoResult /\ prog' = p /\ pc' = "idle" /\ Running = <<>> /\ ~MustFinish
      /\ UNCHANGED <<srcVars, destVars, pipe, more, cursor, extra, interrupt, budget, lost>>
  BY <1>1 DEF YieldPipeline, Persist, Goto
<1>3. /\ pc = "loop" /\ Sub = "CommitPipeline" /\ prog.subSyncState # "BeginCreateSnapshot"
      /\ Data \in DataAt(N, M)
  BY <1>2, NoResultFacts
<1>4. /\ KeepsSync(prog, p) /\ p.subSyncState = "CommitPipeline"
      /\ p.prevCommitSeq = prog.commitSeq
      /\ p.unknownCommitSeq = prog.unknownCommitSeq /\ p.partialTable = prog.partialTable
      /\ p.persistData = Data /\ p.inMemoryData = prog.inMemoryData
  BY <1>1, <1>3, ShapeFacts, DoneSubCheckpointTyped DEF IncrementalStates, SubSyncStates
<1> QED
  BY <1>2, <1>3, <1>4 DEF Sub, Data

\* What CommitTxnFails changes, and from where.
LEMMA CommitTxnFailsEffect ==
    ASSUME Shape, CommitTxnFails
    PROVE  /\ pc = "loop" /\ Sub = "CommitPipelineTransaction" /\ pipe' = Nil /\ pc' = "idle"
           /\ UNCHANGED <<srcVars, prog, disk, more, cursor, extra, interrupt>>
           /\ \/ UNCHANGED <<destVars, lost>>
              \/ /\ lost' = TRUE /\ txns[Commitable.txnId].status = "PREPARE"
                 /\ txns' = [txns EXCEPT ![Commitable.txnId].status = "COMMITTED"]
                 /\ Apply(Commitable.commitSeq, Commitable.tables)
<1>1. /\ pc = "loop" /\ Sub = "CommitPipelineTransaction" /\ ResetAndFail("error")
      /\ UNCHANGED <<srcVars, more, cursor, extra, interrupt>>
      /\ \/ UNCHANGED <<destVars, lost>>
         \/ /\ lost' = TRUE /\ txns[Commitable.txnId].status = "PREPARE"
            /\ txns' = [txns EXCEPT ![Commitable.txnId].status = "COMMITTED"]
            /\ Apply(Commitable.commitSeq, Commitable.tables)
  BY DEF CommitTxnFails, AtLoop, Sub
<1> QED
  BY <1>1, ResetAndFailEffect

\* What FinishCommit changes, and from where.
LEMMA FinishCommitEffect ==
    ASSUME Shape, FinishCommit \/ FinishCommitLockFails
    PROVE  /\ pc = "committed" /\ pc' \in {"loop", "idle"} /\ Sub = "CommitPipelineTransaction"
           /\ UNCHANGED <<log, gc, destVars, pipe, more, cursor, extra, interrupt, lost>>
           /\ Sub' = "CommitPipeline"
           /\ prog'.commitSeq = Commitable.commitSeq
           /\ prog'.prevCommitSeq = Commitable.commitSeq
           /\ prog'.unknownCommitSeq = prog.unknownCommitSeq
           /\ prog'.partialTable = prog.partialTable
           /\ Data' = [running |-> Tail(Running), commitable |-> Nil]
           /\ Running' = Tail(Running) /\ prog'.persistData = Data'
           /\ \/ /\ prog'.syncState = prog.syncState
                 /\ \A t \in Tables :
                      /\ prog.tableCommitSeqMap[t] <= prog'.tableCommitSeqMap[t]
                      /\ \/ prog'.tableCommitSeqMap[t] = prog.tableCommitSeqMap[t]
                         \/ prog'.tableCommitSeqMap[t] = Commitable.commitSeq
              \/ /\ \A t \in Tables : prog.tableCommitSeqMap[t] <= Commitable.commitSeq
                 /\ prog'.tableCommitSeqMap = NoMap /\ prog'.syncState = "DBIncrementalSync"
           /\ locked' \in {locked, Commitable.commitSeq}
<1>1. PICK p : p = CommittedProgress
  OBVIOUS
<1>2. /\ pc = "committed" /\ pc' \in {"loop", "idle"} /\ (LockBinlog(p) \/ LockBinlogFails(p))
      /\ UNCHANGED <<log, gc, destVars, pipe, more, cursor, extra, interrupt, lost>>
  BY <1>1 DEF FinishCommit, FinishCommitLockFails, Goto
<1>3. PICK c : c = Commitable.commitSeq
  OBVIOUS
<1>4. /\ p \in ProgressAt(N, M) /\ SyncOK(p) /\ p.subSyncState = "CommitPipeline"
      /\ p.commitSeq = c /\ p.prevCommitSeq = c
      /\ p.unknownCommitSeq = prog.unknownCommitSeq /\ p.partialTable = prog.partialTable
      /\ p.inMemoryData = p.persistData
      /\ p.persistData = [running |-> Tail(Running), commitable |-> Nil]
      /\ \/ /\ p.syncState = prog.syncState
            /\ \A t \in Tables : /\ prog.tableCommitSeqMap[t] <= p.tableCommitSeqMap[t]
                                 /\ \/ p.tableCommitSeqMap[t] = prog.tableCommitSeqMap[t]
                                    \/ p.tableCommitSeqMap[t] = c
         \/ /\ \A t \in Tables : prog.tableCommitSeqMap[t] <= c
            /\ p.tableCommitSeqMap = NoMap /\ p.syncState = "DBIncrementalSync"
  BY <1>1, <1>2, <1>3, CommittedTyped
<1>5. /\ Keeps(p, prog') /\ KeepsSync(p, prog') /\ prog'.subSyncState = p.subSyncState
      /\ prog'.persistData = p.persistData /\ prog'.inMemoryData = p.inMemoryData
      /\ locked' \in {locked, p.prevCommitSeq}
  BY <1>2, <1>4, Locks
<1>6. Sub = "CommitPipelineTransaction"
  BY <1>2, ShapeFacts DEF Control
<1>7. Data' = [running |-> Tail(Running), commitable |-> Nil] /\ Running' = Tail(Running)
  <2>1. PICK tail : tail = Tail(Running)
    OBVIOUS
  <2>2. prog'.inMemoryData = [running |-> tail, commitable |-> Nil]
    BY <1>4, <1>5, <2>1
  <2>3. Data' = [running |-> tail, commitable |-> Nil]
    BY <2>2 DEF Data
  <2>4. Running' = tail
    BY <2>3 DEF Running
  <2> QED
    BY <2>1, <2>3, <2>4
<1>8. /\ Sub' = "CommitPipeline" /\ prog'.commitSeq = c /\ prog'.prevCommitSeq = c
      /\ prog'.unknownCommitSeq = prog.unknownCommitSeq
      /\ prog'.partialTable = prog.partialTable /\ prog'.persistData = Data'
      /\ locked' \in {locked, c}
  BY <1>4, <1>5 DEF Sub, Data, Keeps, KeepsSync
<1>9. \/ /\ prog'.syncState = prog.syncState
         /\ \A t \in Tables : /\ prog.tableCommitSeqMap[t] <= prog'.tableCommitSeqMap[t]
                              /\ \/ prog'.tableCommitSeqMap[t] = prog.tableCommitSeqMap[t]
                                 \/ prog'.tableCommitSeqMap[t] = c
      \/ /\ \A t \in Tables : prog.tableCommitSeqMap[t] <= c
         /\ prog'.tableCommitSeqMap = NoMap /\ prog'.syncState = "DBIncrementalSync"
  BY <1>4, <1>5 DEF KeepsSync
<1> QED
  BY <1>2, <1>3, <1>6, <1>7, <1>8, <1>9

\* What StartRollback changes, and from where.
LEMMA StartRollbackEffect ==
    ASSUME Shape, StartRollback
    PROVE  /\ pc = "loop" /\ pc' = "rollback" /\ Sub = "RollbackPipeline" /\ cursor' = 0
           /\ UNCHANGED <<srcVars, destVars, disk, pipe, more, extra, interrupt, budget, lost>>
           /\ Same(prog, prog') /\ Sub' = "RollbackPipeline"
           /\ Data' = LoadedData /\ LoadedData \in DataAt(N, M)
           /\ prog'.persistData = prog.persistData
<1>1. PICK p : p = [prog EXCEPT !.inMemoryData = LoadedData]
  OBVIOUS
<1>2. /\ pc = "loop" /\ pc' = "rollback" /\ Sub = "RollbackPipeline" /\ cursor' = 0
      /\ prog' = p /\ disk' = disk
      /\ UNCHANGED <<srcVars, destVars, pipe, more, extra, interrupt, budget, lost>>
  BY <1>1 DEF StartRollback, AtLoop, Sub, Goto, Volatile
<1>3. LoadedData \in DataAt(N, M)
  BY ShapeFacts DEF LoadedData
<1>4. /\ Keeps(prog, p) /\ KeepsSync(prog, p) /\ p.subSyncState = prog.subSyncState
      /\ p.persistData = prog.persistData /\ p.inMemoryData = LoadedData
  BY <1>1, <1>3, ShapeFacts, InMemoryTyped
<1> QED
  BY <1>2, <1>3, <1>4 DEF Same, Sub, Data

\* What RollbackTxn changes, and from where.
LEMMA RollbackTxnEffect ==
    ASSUME Shape, RollbackTxn
    PROVE  /\ pc = "rollback" /\ cursor < Len(Running) /\ cursor' = cursor + 1
           /\ UNCHANGED <<srcVars, dest, disk, pipe, pc, more, extra, interrupt, budget, lost>>
           /\ Keeps(prog, prog') /\ Sub' = Sub /\ Data' = Data
           /\ prog'.persistData = prog.persistData
           /\ \/ /\ txns[Running[cursor + 1].txnId].status = "COMMITTED" /\ txns' = txns
                 /\ prog'.commitSeq = Running[cursor + 1].commitSeq
                 /\ \/ /\ prog'.syncState = prog.syncState
                       /\ \A t \in Tables :
                            /\ prog.tableCommitSeqMap[t] <= prog'.tableCommitSeqMap[t]
                            /\ \/ prog'.tableCommitSeqMap[t] = prog.tableCommitSeqMap[t]
                               \/ prog'.tableCommitSeqMap[t] = Running[cursor + 1].commitSeq
                    \/ /\ \A t \in Tables :
                            prog.tableCommitSeqMap[t] <= Running[cursor + 1].commitSeq
                       /\ prog'.tableCommitSeqMap = NoMap
                       /\ prog'.syncState = "DBIncrementalSync"
              \/ /\ txns[Running[cursor + 1].txnId].status # "COMMITTED" /\ prog' = prog
                 /\ txns' = [txns EXCEPT ![Running[cursor + 1].txnId].status = "ABORTED"]
<1>1. PICK ctx : ctx = Running[cursor + 1]
  OBVIOUS
<1>2. /\ pc = "rollback" /\ cursor < Len(Running) /\ cursor' = cursor + 1
      /\ UNCHANGED <<srcVars, dest, pipe, pc, more, extra, interrupt, budget, lost>>
  BY DEF RollbackTxn
<1>3. ctx \in TxnsAt(N, M) /\ prog.subSyncState # "BeginCreateSnapshot"
  BY <1>1, <1>2, RollingFacts
<1>4. CASE txns[ctx.txnId].status = "COMMITTED"
  <2>1. PICK q : q = ApplyTxn(prog, ctx)
    OBVIOUS
  <2>2. prog' = q /\ disk' = disk /\ txns' = txns
    BY <1>1, <1>4, <2>1 DEF RollbackTxn, Volatile
  <2>3. /\ q.subSyncState = prog.subSyncState
        /\ Keeps(prog, q) /\ q.commitSeq = ctx.commitSeq
        /\ q.persistData = prog.persistData /\ q.inMemoryData = prog.inMemoryData
        /\ \/ /\ q.syncState = prog.syncState
              /\ \A t \in Tables : /\ prog.tableCommitSeqMap[t] <= q.tableCommitSeqMap[t]
                                   /\ \/ q.tableCommitSeqMap[t] = prog.tableCommitSeqMap[t]
                                      \/ q.tableCommitSeqMap[t] = ctx.commitSeq
           \/ /\ \A t \in Tables : prog.tableCommitSeqMap[t] <= ctx.commitSeq
              /\ q.tableCommitSeqMap = NoMap /\ q.syncState = "DBIncrementalSync"
    BY <1>3, <2>1, ShapeFacts, ApplyTxnTyped
  <2> QED
    BY <1>1, <1>2, <1>4, <2>2, <2>3 DEF Sub, Data
<1>5. CASE txns[ctx.txnId].status # "COMMITTED"
  <2>1. prog' = prog /\ disk' = disk /\ txns' = [txns EXCEPT ![ctx.txnId].status = "ABORTED"]
    BY <1>1, <1>5 DEF RollbackTxn
  <2> QED
    BY <1>1, <1>2, <1>5, <2>1 DEF Keeps, Sub, Data
<1> QED
  BY <1>4, <1>5

\* What FinishRollback changes, and from where.
LEMMA FinishRollbackEffect ==
    ASSUME Shape, FinishRollback
    PROVE  /\ pc = "rollback" /\ pc' = "loop" /\ cursor = Len(Running) /\ cursor' = 0
           /\ Sub = "RollbackPipeline"
           /\ UNCHANGED <<srcVars, destVars, pipe, more, extra, interrupt, budget, lost>>
           /\ Same(prog, prog') /\ Sub' = "Done"
           /\ Data' = Data /\ prog'.persistData = EmptyData
<1>1. PICK p : p = NextSubCheckpoint(prog, "Done", EmptyData)
  OBVIOUS
<1>2. /\ pc = "rollback" /\ pc' = "loop" /\ cursor' = 0 /\ cursor = Len(Running) /\ prog' = p
      /\ UNCHANGED <<srcVars, destVars, pipe, more, extra, interrupt, budget, lost>>
  BY <1>1 DEF FinishRollback, Goto, Persist
<1>3. Sub = "RollbackPipeline" /\ prog.subSyncState # "BeginCreateSnapshot"
  BY <1>2, RollingFacts
<1>4. /\ Keeps(prog, p) /\ KeepsSync(prog, p) /\ p.subSyncState = "Done"
      /\ p.persistData = EmptyData /\ p.inMemoryData = prog.inMemoryData
  BY <1>1, <1>3, ShapeFacts, NextSubCheckpointTyped DEF IncrementalStates, SubSyncStates
<1> QED
  BY <1>2, <1>3, <1>4 DEF Same, Sub, Data

\* What the end of a snapshot does to the job and to the target.
LEMMA SnapshotEffect ==
    ASSUME Shape, FinishFullSync \/ FinishPartialSync
    PROVE  /\ pc = "idle" /\ pc' = "idle" /\ Snapshotting /\ Sub' = "Done"
           /\ UNCHANGED <<srcVars, txns, pipe, more, cursor, interrupt, budget, lost>>
           /\ extra'.partialTable = extra.partialTable /\ extra'.skipTable = extra.skipTable
           /\ extra'.skipBy \in {"no", extra.skipBy} /\ extra'.skipSeq = extra.skipSeq
           /\ prog'.prevCommitSeq = prog'.commitSeq /\ prog'.syncState = "DBTablesIncrementalSync"
           /\ prog'.unknownCommitSeq = prog.unknownCommitSeq
           /\ prog'.partialTable = prog.partialTable
           /\ prog'.persistData = EmptyData /\ Data' = Nil
           /\ \/ /\ prog.syncState = "DBFullSync" /\ prog'.commitSeq \in SnapshotSeqs
                 /\ \A t \in Tables : /\ dest'[t].base \in SnapshotSeqs
                                      /\ dest'[t].applied = <<>>
                                      /\ prog'.tableCommitSeqMap[t] = dest'[t].base
                                      /\ prog'.commitSeq <= dest'[t].base
              \/ /\ prog.syncState = "DBPartialSync" /\ prog'.commitSeq = prog.commitSeq
                 /\ prog.partialTable \in Tables
                 /\ dest'[prog.partialTable].base \in SnapshotSeqs
                 /\ dest'[prog.partialTable].applied = <<>>
                 /\ prog'.tableCommitSeqMap[prog.partialTable] = dest'[prog.partialTable].base
                 /\ \A t \in Tables : t # prog.partialTable =>
                       /\ dest'[t] = dest[t]
                       /\ prog'.tableCommitSeqMap[t] = prog.tableCommitSeqMap[t]
<1>1. /\ pc = "idle" /\ pc' = "idle" /\ extra' = ResetSkip
      /\ prog.syncState \in {"DBFullSync", "DBPartialSync"}
      /\ UNCHANGED <<srcVars, txns, pipe, more, cursor, interrupt, budget, lost>>
  BY DEF FinishFullSync, FinishPartialSync
<1>2. /\ extra'.partialTable = extra.partialTable /\ extra'.skipTable = extra.skipTable
      /\ extra'.skipBy \in {"no", extra.skipBy} /\ extra'.skipSeq = extra.skipSeq
  BY <1>1, ResetSkipTyped
<1>3. Snapshotting
  BY <1>1, ShapeFacts DEF SyncOK, IsIncrementalSync, Snapshotting, Sub
<1>4. CASE FinishFullSync
  <2>1. PICK seqs \in [Tables -> SnapshotSeqs] : \E seq \in SnapshotSeqs : \E c \in 0..N :
             /\ Restored(seqs, Tables) /\ seqs \in [Tables -> 0..N] /\ c \in SnapshotSeqs
             /\ \A t \in Tables : c <= seqs[t]
             /\ Persist(NextWithPersist([prog EXCEPT !.tableCommitSeqMap = seqs], c,
                                        "DBTablesIncrementalSync", "Done"))
    BY <1>4, FullSyncFacts
  <2>2. PICK c \in 0..N :
             /\ Restored(seqs, Tables) /\ seqs \in [Tables -> 0..N] /\ c \in SnapshotSeqs
             /\ \A t \in Tables : c <= seqs[t]
             /\ Persist(NextWithPersist([prog EXCEPT !.tableCommitSeqMap = seqs], c,
                                        "DBTablesIncrementalSync", "Done"))
    BY <2>1
  <2>3. PICK p : p = NextWithPersist([prog EXCEPT !.tableCommitSeqMap = seqs], c,
                                     "DBTablesIncrementalSync", "Done")
    OBVIOUS
  <2>4. /\ p.subSyncState = "Done" /\ p.syncState = "DBTablesIncrementalSync"
        /\ p.commitSeq = c /\ p.prevCommitSeq = c /\ p.tableCommitSeqMap = seqs
        /\ p.unknownCommitSeq = prog.unknownCommitSeq /\ p.partialTable = prog.partialTable
        /\ p.persistData = EmptyData /\ p.inMemoryData = Nil
    BY <2>2, <2>3, ShapeFacts, SnapshotDoneTyped
  <2>5. prog' = p
    BY <2>2, <2>3 DEF Persist
  <2>6. \A t \in Tables : dest'[t].base = seqs[t] /\ dest'[t].applied = <<>>
    BY <2>2, RestoredTyped
  <2>7. \A t \in Tables : seqs[t] \in SnapshotSeqs
    BY <2>1
  <2>8. prog.syncState = "DBFullSync"
    BY <1>4 DEF FinishFullSync
  <2> QED
    BY <1>1, <1>2, <1>3, <2>2, <2>4, <2>5, <2>6, <2>7, <2>8 DEF Sub, Data
<1>5. CASE FinishPartialSync
  <2>1. PICK seq \in SnapshotSeqs : \E seqs \in [Tables -> 0..N] :
             /\ prog.partialTable \in Tables
             /\ seqs = [prog.tableCommitSeqMap EXCEPT ![prog.partialTable] = seq]
             /\ Restored(seqs, {prog.partialTable})
             /\ Persist(NextWithPersist([prog EXCEPT !.tableCommitSeqMap = seqs],
                                        prog.commitSeq, "DBTablesIncrementalSync", "Done"))
    BY <1>5, PartialSyncFacts
  <2>2. PICK seqs \in [Tables -> 0..N] :
             /\ prog.partialTable \in Tables
             /\ seqs = [prog.tableCommitSeqMap EXCEPT ![prog.partialTable] = seq]
             /\ Restored(seqs, {prog.partialTable})
             /\ Persist(NextWithPersist([prog EXCEPT !.tableCommitSeqMap = seqs],
                                        prog.commitSeq, "DBTablesIncrementalSync", "Done"))
    BY <2>1
  <2>3. PICK p : p = NextWithPersist([prog EXCEPT !.tableCommitSeqMap = seqs],
                                     prog.commitSeq, "DBTablesIncrementalSync", "Done")
    OBVIOUS
  <2>4. prog.commitSeq \in 0..N /\ prog.tableCommitSeqMap \in [Tables -> 0..N]
    BY ShapeFacts DEF ProgressAt
  <2>5. /\ p.subSyncState = "Done" /\ p.syncState = "DBTablesIncrementalSync"
        /\ p.commitSeq = prog.commitSeq /\ p.prevCommitSeq = prog.commitSeq
        /\ p.tableCommitSeqMap = seqs
        /\ p.unknownCommitSeq = prog.unknownCommitSeq /\ p.partialTable = prog.partialTable
        /\ p.persistData = EmptyData /\ p.inMemoryData = Nil
    BY <2>3, <2>4, ShapeFacts, SnapshotDoneTyped
  <2>6. prog' = p
    BY <2>2, <2>3 DEF Persist
  <2>7. \A t \in Tables : IF t \in {prog.partialTable}
                          THEN dest'[t].base = seqs[t] /\ dest'[t].applied = <<>>
                          ELSE dest'[t] = dest[t]
    BY <2>2, RestoredTyped
  <2>8. /\ seqs[prog.partialTable] = seq
        /\ \A t \in Tables : t # prog.partialTable => seqs[t] = prog.tableCommitSeqMap[t]
    BY <2>2, <2>4
  <2>9. prog.syncState = "DBPartialSync"
    BY <1>5 DEF FinishPartialSync
  <2>10. /\ dest'[prog.partialTable].base \in SnapshotSeqs
         /\ dest'[prog.partialTable].applied = <<>>
         /\ prog'.tableCommitSeqMap[prog.partialTable] = dest'[prog.partialTable].base
         /\ \A t \in Tables : t # prog.partialTable =>
               /\ dest'[t] = dest[t]
               /\ prog'.tableCommitSeqMap[t] = prog.tableCommitSeqMap[t]
    BY <2>2, <2>5, <2>6, <2>7, <2>8
  <2> QED
    BY <1>1, <1>2, <1>3, <2>2, <2>5, <2>6, <2>9, <2>10 DEF Sub, Data
<1> QED
  BY <1>4, <1>5
-----------------------------------------------------------------------------
\* The txns whose results the pipeline owes, and how many of them were taken from CommitCh.
Listed == IF Live THEN Running ELSE <<>>
Taken == IF Sub = "CommitPipelineTransaction" THEN 1 ELSE 0

\* Context c carries the txns R after the first k, from link l on: first the results in
\* CommitCh, then the goroutines in the order of their links, the last one at the end of R.
Links(c, R, k, l) ==
    /\ c.tokens = {l} /\ l <= c.link
    /\ Len(R) = k + Len(c.commitCh) + (c.link - l)
    /\ \A j \in 1..Len(c.commitCh) : c.commitCh[j].ctx = R[j + k]
    /\ \A w \in c.workers : /\ l <= w.prev /\ w.prev < c.link /\ w.next = w.prev + 1
                            /\ w.ctx = R[w.prev + (Len(R) - c.link) + 1]
    /\ \A w, v \in c.workers : w.prev = v.prev => w = v

\* A result that asks for a partial snapshot comes with the request.
PartialKnown ==
    /\ \A w \in pipe.workers : w.result = "partial" => extra.partialTable # Nil
    /\ \A j \in 1..Len(pipe.commitCh) :
          pipe.commitCh[j].err = "partial" => extra.partialTable # Nil

Ordered ==
    /\ pipe # Nil /\ (Live \/ extra.partialTable = Nil)
         => \E l \in Nat : Links(pipe, Listed, Taken, l)
    /\ pipe # Nil /\ Sub = "RollbackPipeline" => extra.partialTable # Nil
    /\ pipe # Nil => PartialKnown
    /\ pipe # Nil /\ Sub = "CommitPipelineTransaction" => Commitable = Head(Running)

SameLinks(c, d) ==
    /\ d.link = c.link /\ d.tokens = c.tokens /\ d.workers = c.workers
    /\ d.commitCh = c.commitCh

\* Links depend on the context's links, workers and results only.
LEMMA LinksKept ==
    ASSUME NEW c, NEW d, SameLinks(c, d), NEW R, NEW k, NEW l, Links(c, R, k, l)
    PROVE  Links(d, R, k, l)
BY DEF SameLinks, Links

\* The parts of a context.
LEMMA ContextParts ==
    ASSUME NEW n \in Nat, NEW m \in Nat, NEW c \in ContextsAt(n, m)
    PROVE  /\ c.commitCh \in Seq(ResultsAt(n, m)) /\ c.link \in Nat /\ Len(c.commitCh) \in Nat
           /\ \A w \in c.workers : w \in WorkersAt(n, m) /\ w.prev \in Nat /\ w.next \in Nat
BY DEF ContextsAt, WorkersAt

\* A goroutine ends: its result is there, its place is the same.
LEMMA LinksIngest ==
    ASSUME NEW c, NEW d, NEW R, NEW k, NEW l, Links(c, R, k, l),
           NEW n \in Nat, NEW m \in Nat, c \in ContextsAt(n, m), NEW w \in c.workers, NEW r,
           d.link = c.link, d.tokens = c.tokens, d.commitCh = c.commitCh,
           d.workers = (c.workers \ {w}) \cup {[w EXCEPT !.result = r]}
    PROVE  Links(d, R, k, l)
<1>1. PICK x : x = [w EXCEPT !.result = r]
  OBVIOUS
<1>2. w \in WorkersAt(n, m)
  BY DEF ContextsAt
<1>3. x.prev = w.prev /\ x.next = w.next /\ x.ctx = w.ctx
  BY <1>1, <1>2 DEF WorkersAt
<1>4. \A v \in d.workers : v = x \/ (v \in c.workers /\ v # w)
  BY <1>1
<1>5. \A v \in d.workers : /\ l <= v.prev /\ v.prev < d.link /\ v.next = v.prev + 1
                           /\ v.ctx = R[v.prev + (Len(R) - d.link) + 1]
  BY <1>3, <1>4 DEF Links
<1>6. \A u, v \in d.workers : u.prev = v.prev => u = v
  BY <1>3, <1>4 DEF Links
<1> QED
  BY <1>5, <1>6 DEF Links

\* The goroutine whose link has the signal sends its result.
LEMMA LinksSent ==
    ASSUME NEW c, NEW d, NEW R, NEW k \in Nat, NEW l \in Nat, Links(c, R, k, l),
           NEW n \in Nat, NEW m \in Nat, c \in ContextsAt(n, m), NEW w \in c.workers,
           w.prev \in c.tokens,
           d.link = c.link, d.tokens = (c.tokens \ {w.prev}) \cup {w.next},
           d.workers = c.workers \ {w},
           d.commitCh = Append(c.commitCh, [ctx |-> w.ctx, err |-> w.result])
    PROVE  Links(d, R, k, l + 1)
<1>1. /\ c.commitCh \in Seq(ResultsAt(n, m)) /\ c.link \in Nat
      /\ Len(c.commitCh) \in Nat
      /\ \A v \in c.workers : v.prev \in Nat /\ v.next \in Nat
  BY ContextParts
<1>2. PICK x : x = [ctx |-> w.ctx, err |-> w.result]
  OBVIOUS
<1>3. PICK K \in Nat : K = Len(c.commitCh)
  BY <1>1
<1>4. PICK L \in Nat : L = c.link
  BY <1>1
<1>5. /\ d.commitCh = Append(c.commitCh, x) /\ Len(d.commitCh) = K + 1
      /\ \A j \in 1..K : d.commitCh[j] = c.commitCh[j]
      /\ d.commitCh[K + 1] = x /\ x.ctx = w.ctx
  BY <1>1, <1>2, <1>3
<1>6. /\ c.tokens = {l} /\ l <= L /\ Len(R) = k + K + (L - l)
      /\ \A j \in 1..K : c.commitCh[j].ctx = R[j + k]
      /\ \A v \in c.workers : /\ l <= v.prev /\ v.prev < L /\ v.next = v.prev + 1
                              /\ v.ctx = R[v.prev + (Len(R) - L) + 1]
      /\ \A u, v \in c.workers : u.prev = v.prev => u = v
  BY <1>3, <1>4 DEF Links
<1>7. w.prev = l /\ w.next = l + 1 /\ l < L /\ w.ctx = R[l + (Len(R) - L) + 1]
  BY <1>6
<1>8. l + (Len(R) - L) + 1 = (K + 1) + k
  BY <1>6
<1>9. w.ctx = R[(K + 1) + k]
  BY <1>7, <1>8
<1>10. d.tokens = {l + 1}
  BY <1>6, <1>7
<1>11. l + 1 <= L /\ Len(R) = k + (K + 1) + (L - (l + 1))
  BY <1>6, <1>7
<1>12. ASSUME NEW j \in 1..K + 1
       PROVE  d.commitCh[j].ctx = R[j + k]
  <2>1. CASE j = K + 1
    BY <1>5, <1>9, <2>1
  <2>2. CASE j # K + 1
    <3>1. j \in 1..K
      BY <1>3, <2>2
    <3> QED
      BY <1>5, <1>6, <3>1
  <2> QED
    BY <2>1, <2>2
<1>13. ASSUME NEW v \in d.workers
       PROVE  l + 1 <= v.prev
  <2>1. v \in c.workers /\ v # w
    OBVIOUS
  <2>2. v.prev # l /\ l <= v.prev /\ v.prev \in Nat
    BY <1>1, <1>6, <1>7, <2>1
  <2> QED
    BY <2>2
<1>14. \A v \in d.workers : /\ v.prev < L /\ v.next = v.prev + 1
                            /\ v.ctx = R[v.prev + (Len(R) - L) + 1]
  BY <1>6
<1>15. \A u, v \in d.workers : u.prev = v.prev => u = v
  BY <1>6
<1> QED
  BY <1>4, <1>5, <1>10, <1>11, <1>12, <1>13, <1>14, <1>15 DEF Links

\* A txn is launched: it comes after all the others.
LEMMA LinksLaunched ==
    ASSUME NEW c, NEW d, NEW n \in Nat, NEW m \in Nat, c \in ContextsAt(n, m),
           NEW R \in Seq(TxnsAt(n, m)), NEW l \in Nat, Links(c, R, 0, l),
           NEW ctx \in TxnsAt(n, m), NEW S, S = Append(R, ctx), NEW x,
           x.ctx = ctx, x.prev = c.link, x.next = c.link + 1,
           d.link = c.link + 1, d.tokens = c.tokens, d.commitCh = c.commitCh,
           d.workers = c.workers \cup {x}
    PROVE  Links(d, S, 0, l)
<1>1. /\ c.commitCh \in Seq(ResultsAt(n, m)) /\ c.link \in Nat
      /\ Len(c.commitCh) \in Nat
      /\ \A v \in c.workers : v.prev \in Nat /\ v.next \in Nat
  BY ContextParts
<1>2. PICK K \in Nat : K = Len(c.commitCh)
  BY <1>1
<1>3. PICK L \in Nat : L = c.link
  BY <1>1
<1>4. PICK len \in Nat : len = Len(R)
  OBVIOUS
<1>5. /\ c.tokens = {l} /\ l <= L /\ len = 0 + K + (L - l)
      /\ \A j \in 1..K : c.commitCh[j].ctx = R[j + 0]
      /\ \A v \in c.workers : /\ l <= v.prev /\ v.prev < L /\ v.next = v.prev + 1
                              /\ v.ctx = R[v.prev + (len - L) + 1]
      /\ \A u, v \in c.workers : u.prev = v.prev => u = v
  BY <1>2, <1>3, <1>4 DEF Links
<1>6. /\ Len(S) = len + 1 /\ \A j \in 1..len : S[j] = R[j]
      /\ S[len + 1] = ctx
  BY <1>4
<1>7. x.ctx = ctx /\ x.prev = L /\ x.next = L + 1
  BY <1>3
<1>8. d.link = L + 1
  BY <1>3
<1>9. len + 1 = 0 + K + ((L + 1) - l) /\ l <= L + 1
  BY <1>5
<1>10. ASSUME NEW j \in 1..K
       PROVE  d.commitCh[j].ctx = S[j + 0]
  <2>1. j + 0 = j /\ j \in 1..len
    BY <1>5
  <2> QED
    BY <1>5, <1>6, <2>1
<1>11. ASSUME NEW v \in d.workers
       PROVE  /\ l <= v.prev /\ v.prev < L + 1 /\ v.next = v.prev + 1
              /\ v.ctx = S[v.prev + ((len + 1) - (L + 1)) + 1]
  <2>1. CASE v = x
    <3>1. L + ((len + 1) - (L + 1)) + 1 = len + 1
      OBVIOUS
    <3>2. v.prev = L /\ v.next = L + 1 /\ v.ctx = ctx
      BY <1>7, <2>1
    <3>3. v.ctx = S[v.prev + ((len + 1) - (L + 1)) + 1]
      BY <1>6, <3>1, <3>2
    <3>4. l <= L /\ L < L + 1
      BY <1>5
    <3> QED
      BY <3>2, <3>3, <3>4
  <2>2. CASE v \in c.workers
    <3>1. /\ l <= v.prev /\ v.prev < L /\ v.next = v.prev + 1 /\ v.prev \in Nat
          /\ v.ctx = R[v.prev + (len - L) + 1]
      BY <1>1, <1>5, <2>2
    <3>2. PICK p \in Nat : p = v.prev
      BY <3>1
    <3>3. PICK i \in Int : i = p + (len - L) + 1
      OBVIOUS
    <3>4. i = p + ((len + 1) - (L + 1)) + 1
      BY <3>3
    <3>5. len = 0 + K + (L - l) /\ l <= p /\ p < L
      BY <1>5, <3>1, <3>2
    <3>6. i \in 1..len /\ p < L + 1
      BY <3>3, <3>5
    <3>7. v.ctx = R[i] /\ R[i] = S[i]
      BY <1>6, <3>1, <3>2, <3>3, <3>6
    <3> QED
      BY <3>1, <3>2, <3>4, <3>6, <3>7
  <2> QED
    BY <2>1, <2>2
<1>12. ASSUME NEW u \in d.workers, NEW v \in d.workers, u.prev = v.prev
       PROVE  u = v
  <2>1. \A y \in c.workers : y.prev # x.prev
    BY <1>1, <1>5, <1>7
  <2>2. (u = x \/ u \in c.workers) /\ (v = x \/ v \in c.workers)
    OBVIOUS
  <2> QED
    BY <1>5, <1>12, <2>1, <2>2
<1> QED
  BY <1>2, <1>5, <1>6, <1>8, <1>9, <1>10, <1>11, <1>12, ZenonT(60) DEF Links

\* The oldest result is taken.
LEMMA LinksTaken ==
    ASSUME NEW c, NEW d, NEW n \in Nat, NEW m \in Nat, c \in ContextsAt(n, m),
           NEW R, NEW l \in Nat, Links(c, R, 0, l), c.commitCh # <<>>,
           d.link = c.link, d.tokens = c.tokens, d.workers = c.workers,
           d.commitCh = Tail(c.commitCh)
    PROVE  Links(d, R, 1, l)
<1>1. c.commitCh \in Seq(ResultsAt(n, m)) /\ c.link \in Nat /\ Len(c.commitCh) \in Nat
  BY ContextParts
<1>2. PICK K \in Nat : K = Len(c.commitCh)
  BY <1>1
<1>3. /\ Len(R) = 0 + K + (c.link - l)
      /\ \A j \in 1..K : c.commitCh[j].ctx = R[j + 0]
  BY <1>2 DEF Links
<1>4. /\ K > 0 /\ Len(d.commitCh) = K - 1
      /\ \A j \in 1..K - 1 : d.commitCh[j] = c.commitCh[j + 1]
  BY <1>1, <1>2
<1>5. ASSUME NEW j \in 1..K - 1
      PROVE  d.commitCh[j].ctx = R[j + 1]
  <2>1. j + 1 \in 1..K /\ (j + 1) + 0 = j + 1
    BY <1>4
  <2> QED
    BY <1>3, <1>4, <2>1
<1>6. Len(R) = 1 + (K - 1) + (c.link - l)
  BY <1>1, <1>3, <1>4
<1> QED
  BY <1>4, <1>5, <1>6 DEF Links

\* The oldest result is the one of the first txn of the list.
LEMMA LinksHead ==
    ASSUME NEW c, NEW n \in Nat, NEW m \in Nat, c \in ContextsAt(n, m),
           NEW R \in Seq(TxnsAt(n, m)), NEW l \in Nat, Links(c, R, 0, l), c.commitCh # <<>>
    PROVE  R # <<>> /\ Head(c.commitCh).ctx = Head(R)
<1>1. c.commitCh \in Seq(ResultsAt(n, m)) /\ c.link \in Nat /\ Len(c.commitCh) \in Nat
  BY ContextParts
<1>2. PICK K \in Nat : K = Len(c.commitCh)
  BY <1>1
<1>3. /\ l <= c.link /\ Len(R) = 0 + K + (c.link - l)
      /\ \A j \in 1..K : c.commitCh[j].ctx = R[j + 0]
  BY <1>2 DEF Links
<1>4. K > 0 /\ Head(c.commitCh) = c.commitCh[1]
  BY <1>1, <1>2
<1>5. Len(R) > 0
  BY <1>1, <1>3, <1>4
<1>6. R # <<>> /\ Head(R) = R[1]
  BY <1>5
<1>7. 1 \in 1..K /\ 1 + 0 = 1
  BY <1>4
<1> QED
  BY <1>3, <1>4, <1>6, <1>7

\* The txn whose result was taken is committed and leaves the list.
LEMMA LinksCommitted ==
    ASSUME NEW c, NEW n \in Nat, NEW m \in Nat, c \in ContextsAt(n, m),
           NEW R \in Seq(TxnsAt(n, m)), R # <<>>, NEW l \in Nat, Links(c, R, 1, l),
           NEW S, S = Tail(R)
    PROVE  Links(c, S, 0, l)
<1>1. /\ c.commitCh \in Seq(ResultsAt(n, m)) /\ c.link \in Nat
      /\ Len(c.commitCh) \in Nat
      /\ \A v \in c.workers : v.prev \in Nat /\ v.next \in Nat
  BY ContextParts
<1>2. PICK K \in Nat : K = Len(c.commitCh)
  BY <1>1
<1>3. PICK L \in Nat : L = c.link
  BY <1>1
<1>4. PICK len \in Nat : len = Len(R)
  OBVIOUS
<1>5. /\ c.tokens = {l} /\ l <= L /\ len = 1 + K + (L - l)
      /\ \A j \in 1..K : c.commitCh[j].ctx = R[j + 1]
      /\ \A v \in c.workers : /\ l <= v.prev /\ v.prev < L /\ v.next = v.prev + 1
                              /\ v.ctx = R[v.prev + (len - L) + 1]
      /\ \A u, v \in c.workers : u.prev = v.prev => u = v
  BY <1>2, <1>3, <1>4 DEF Links
<1>6. Len(S) = len - 1 /\ \A j \in 1..len - 1 : S[j] = R[j + 1]
  BY <1>4
<1>7. len - 1 = 0 + K + (L - l)
  BY <1>5
<1>8. ASSUME NEW j \in 1..K
      PROVE  c.commitCh[j].ctx = S[j + 0]
  <2>1. j \in 1..len - 1 /\ j + 0 = j
    BY <1>5
  <2> QED
    BY <1>5, <1>6, <2>1
<1>9. ASSUME NEW v \in c.workers
      PROVE  v.ctx = S[v.prev + ((len - 1) - L) + 1]
  <2>1. v.prev \in Nat /\ l <= v.prev /\ v.prev < L /\ v.ctx = R[v.prev + (len - L) + 1]
    BY <1>1, <1>5
  <2>2. PICK p \in Nat : p = v.prev
    BY <2>1
  <2>3. PICK i \in Int : i = p + ((len - 1) - L) + 1
    OBVIOUS
  <2>4. i + 1 = p + (len - L) + 1
    BY <2>3
  <2>5. len = 1 + K + (L - l) /\ l <= p /\ p < L
    BY <1>5, <2>1, <2>2
  <2>6. i \in 1..len - 1
    BY <2>3, <2>5
  <2>7. v.ctx = R[i + 1] /\ S[i] = R[i + 1]
    BY <1>6, <2>1, <2>2, <2>4, <2>6
  <2> QED
    BY <2>2, <2>3, <2>7
<1> QED
  BY <1>2, <1>3, <1>5, <1>6, <1>7, <1>8, <1>9 DEF Links
-----------------------------------------------------------------------------
\* What the environment does, a crash apart, leaves the job's records alone.
LEMMA EnvironmentEffect ==
    ASSUME Shape, SourceWrites \/ SourceCollects \/ TargetAborts \/ Interrupt \/ SkipBinlog
    PROVE  /\ UNCHANGED <<locked, dest, prog, disk, pipe, pc, more, cursor, lost>>
           /\ extra'.partialTable = extra.partialTable
<1>1. UNCHANGED <<locked, dest, prog, disk, pipe, pc, more, cursor, lost>>
  BY DEF SourceWrites, SourceCollects, TargetAborts, Interrupt, SkipBinlog, srcVars, destVars
<1>2. extra \in Extras
  BY DEF Shape, Typed, FlagsTyped
<1>3. extra' = extra \/ SkipBinlog
  BY DEF SourceWrites, SourceCollects, TargetAborts, Interrupt
<1>4. ASSUME SkipBinlog
      PROVE  extra'.partialTable = extra.partialTable
  BY <1>2, <1>4 DEF SkipBinlog, Extras
<1> QED
  BY <1>1, <1>3, <1>4

\* A step that keeps the list and the goroutines, or that drops the context.
LEMMA SameOrder ==
    ASSUME Shape, Ordered, pipe' # Nil => pipe # Nil,
           pipe' # Nil => SameLinks(pipe, pipe'),
           extra'.partialTable = extra.partialTable \/ pipe' = Nil,
           Listed' = Listed, Taken' = Taken,
           Live' => Live \/ extra.partialTable = Nil,
           Sub' = "RollbackPipeline" => Sub = "RollbackPipeline" \/ pipe' = Nil,
           Sub' = "CommitPipelineTransaction" =>
              Sub = "CommitPipelineTransaction" /\ Data' = Data
    PROVE  Ordered'
<1>1. CASE pipe' = Nil
  BY <1>1 DEF Ordered
<1>2. CASE pipe' # Nil
  <2>1. pipe # Nil /\ SameLinks(pipe, pipe') /\ extra'.partialTable = extra.partialTable
    BY <1>2
  <2>2. ASSUME Live' \/ extra'.partialTable = Nil
        PROVE  \E l \in Nat : Links(pipe', Listed', Taken', l)
    <3>1. PICK l \in Nat : Links(pipe, Listed, Taken, l)
      BY <2>1, <2>2 DEF Ordered
    <3> QED
      BY <2>1, <3>1, LinksKept
  <2>3. PartialKnown'
    BY <2>1 DEF Ordered, PartialKnown, SameLinks
  <2>4. Sub' = "CommitPipelineTransaction" => Commitable' = Head(Running')
    <3>1. ASSUME Sub' = "CommitPipelineTransaction"
          PROVE  Commitable' = Head(Running')
      <4>1. Commitable = Head(Running) /\ Data' = Data
        BY <2>1, <3>1 DEF Ordered
      <4> QED
        BY <4>1 DEF Commitable, Running, Data
    <3> QED
      BY <3>1
  <2> QED
    BY <1>2, <2>1, <2>2, <2>3, <2>4 DEF Ordered
<1> QED
  BY <1>1, <1>2

\* A step that keeps the state, the data and the links keeps the order.
LEMMA SameSubOrder ==
    ASSUME Shape, Ordered, pipe' # Nil => pipe # Nil /\ SameLinks(pipe, pipe'),
           extra'.partialTable = extra.partialTable, Sub' = Sub, Data' = Data
    PROVE  Ordered'
<1>1. Live' = Live
  BY DEF Live
<1>2. Listed' = Listed /\ Taken' = Taken
  BY <1>1 DEF Listed, Taken, Running
<1> QED
  BY <1>1, <1>2, SameOrder

\* A step between states in which the pipeline owes no result.
LEMMA NothingListedOrder ==
    ASSUME Shape, Ordered, pipe' # Nil => pipe # Nil /\ SameLinks(pipe, pipe'),
           extra'.partialTable = extra.partialTable \/ pipe' = Nil,
           Sub \notin LiveStates, Sub' \notin LiveStates,
           Sub' = "RollbackPipeline" => Sub = "RollbackPipeline" \/ pipe' = Nil
    PROVE  Ordered'
<1>1. ~Live /\ ~Live' /\ Sub' # "CommitPipelineTransaction" /\ Sub # "CommitPipelineTransaction"
  BY DEF Live, LiveStates
<1>2. Listed' = Listed /\ Taken' = Taken
  BY <1>1 DEF Listed, Taken
<1> QED
  BY <1>1, <1>2, SameOrder

\* Without a context there is nothing to order.
LEMMA NoContextOrder ==
    ASSUME pipe' = Nil
    PROVE  Ordered'
BY DEF Ordered

\* The context of a tick in state Done owes nothing.
LEMMA InitializedOrder ==
    ASSUME Shape, Ordered, Sub = "Done", extra.partialTable = Nil, extra' = extra,
           pipe' = InitializedContext, Listed' = <<>>, Taken' = 0,
           Sub' \in {"Done", "LaunchTransaction"}
    PROVE  Ordered'
<1>1. PICK c : c = InitializedContext
  OBVIOUS
<1>2. /\ c # Nil
      /\ \/ pipe = Nil /\ c = NewContext(prog.commitSeq)
         \/ /\ pipe # Nil /\ c.next = pipe.next /\ c.pos = pipe.pos /\ c.link = pipe.link
            /\ c.tokens = pipe.tokens /\ c.workers = pipe.workers
            /\ c.commitCh = pipe.commitCh
  BY <1>1, InitializedTyped
<1>3. Sub # "CommitPipelineTransaction" /\ ~Live
  BY DEF Live, LiveStates
<1>4. Listed = <<>> /\ Taken = 0
  BY <1>3 DEF Listed, Taken
<1>5. /\ \E l \in Nat : Links(c, <<>>, 0, l)
      /\ \A w \in c.workers : w.result = "partial" => extra.partialTable # Nil
      /\ \A j \in 1..Len(c.commitCh) : c.commitCh[j].err = "partial" => extra.partialTable # Nil
  <2>1. CASE pipe = Nil /\ c = NewContext(prog.commitSeq)
    <3>1. /\ c.link = 0 /\ c.tokens = {0} /\ c.workers = {} /\ c.commitCh = <<>>
          /\ Len(<<>>) = 0
      BY <2>1 DEF NewContext
    <3>2. Links(c, <<>>, 0, 0)
      BY <3>1 DEF Links
    <3> QED
      BY <3>1, <3>2
  <2>2. CASE pipe # Nil
    <3>1. SameLinks(pipe, c)
      BY <1>2, <2>2 DEF SameLinks
    <3>2. PICK l \in Nat : Links(pipe, <<>>, 0, l)
      BY <1>4, <2>2 DEF Ordered
    <3>3. Links(c, <<>>, 0, l)
      BY <3>1, <3>2, LinksKept
    <3>4. PartialKnown
      BY <2>2 DEF Ordered
    <3> QED
      BY <3>1, <3>3, <3>4 DEF PartialKnown, SameLinks
  <2> QED
    BY <1>2, <2>1, <2>2
<1>6. \E l \in Nat : Links(pipe', Listed', Taken', l)
  BY <1>1, <1>5
<1>7. PartialKnown'
  BY <1>1, <1>5 DEF PartialKnown
<1> QED
  BY <1>6, <1>7 DEF Ordered

\* The steps outside a running pipeline.
LEMMA QuietOrder ==
    ASSUME Shape, Ordered,
           \/ EnterSync \/ LeaveOnInterrupt \/ ConsumeInterruptSignals
           \/ StartPartialSnapshot \/ RecoverIncrementalSync \/ SkipByFullSync
           \/ SkipByPartialSync
    PROVE  Ordered'
<1>1. CASE EnterSync
  <2>1. CASE pipe = Nil
    BY <1>1, <2>1, EnterSyncEffect, NoContextOrder
  <2>2. CASE pipe # Nil
    <3>1. /\ prog' = prog /\ pipe'.link = pipe.link /\ pipe'.tokens = pipe.tokens
          /\ pipe'.workers = pipe.workers /\ pipe'.commitCh = pipe.commitCh
          /\ extra'.partialTable = extra.partialTable
      BY <1>1, <2>2, EnterSyncEffect
    <3>2. SameLinks(pipe, pipe')
      BY <3>1 DEF SameLinks
    <3>3. Sub' = Sub /\ Data' = Data
      BY <3>1 DEF Sub, Data
    <3> QED
      BY <2>2, <3>1, <3>2, <3>3, SameSubOrder
  <2> QED
    BY <2>1, <2>2
<1>2. CASE LeaveOnInterrupt \/ ConsumeInterruptSignals
  <2>1. prog' = prog /\ pipe' = pipe /\ extra' = extra
    BY <1>2 DEF LeaveOnInterrupt, ConsumeInterruptSignals
  <2>2. Sub' = Sub /\ Data' = Data /\ SameLinks(pipe, pipe')
    BY <2>1 DEF Sub, Data, SameLinks
  <2> QED
    BY <2>1, <2>2, SameSubOrder
<1>3. CASE StartPartialSnapshot \/ RecoverIncrementalSync \/ SkipByFullSync \/ SkipByPartialSync
  BY <1>3, LeaveDoneEffect, NoContextOrder
<1> QED
  BY <1>1, <1>2, <1>3

\* The start of a pipeline keeps the order.
LEMMA StartOrder ==
    ASSUME Shape, Ordered, StartPipeline \/ HandleBinlog
    PROVE  Ordered'
<1>1. CASE StartPipeline
  <2>1. /\ Sub = "Done" /\ extra.partialTable = Nil /\ extra' = extra
        /\ pipe' = InitializedContext /\ Sub' = "LaunchTransaction" /\ Data' = EmptyData
    BY <1>1, StartPipelineEffect
  <2>2. Running' = <<>>
    BY <2>1 DEF Running, EmptyData
  <2>3. Listed' = <<>> /\ Taken' = 0
    BY <2>1, <2>2 DEF Listed, Taken
  <2> QED
    BY <2>1, <2>3, InitializedOrder
<1>2. CASE HandleBinlog
  <2>1. /\ Sub = "Done" /\ extra.partialTable = Nil /\ extra' = extra
        /\ pipe' = InitializedContext /\ Sub' = "Done"
    BY <1>2, HandleBinlogEffect
  <2>2. ~Live' /\ Sub' # "CommitPipelineTransaction"
    BY <2>1 DEF Live, LiveStates
  <2>3. Listed' = <<>> /\ Taken' = 0
    BY <2>2 DEF Listed, Taken
  <2> QED
    BY <2>1, <2>3, InitializedOrder
<1> QED
  BY <1>1, <1>2

\* The handlers of a DDL keep the order.
LEMMA HandleOrder ==
    ASSUME Shape, Ordered,
           \/ HandleCommittedBinlog \/ ExecuteDDL \/ ExecuteDDLLosesReply \/ HandleBinlogFails
           \/ HandleBySnapshot \/ FinishBinlog \/ FinishBinlogLockFails
    PROVE  Ordered'
<1>1. SameLinks(pipe, pipe)
  BY DEF SameLinks
<1>2. CASE HandleCommittedBinlog \/ ExecuteDDL \/ ExecuteDDLLosesReply
  <2>1. pipe' = pipe /\ extra' = extra /\ Sub' = Sub /\ Data' = Data
    BY <1>2, ExecuteEffect
  <2> QED
    BY <1>1, <2>1, SameSubOrder
<1>3. CASE HandleBinlogFails
  <2>1. /\ pc = "handling" /\ pipe' = pipe /\ extra' = extra
        /\ prog' = prog \/ AsksFor(prog, prog', "DBFullSync")
    BY <1>3, HandleBinlogFailsEffect
  <2>2. Sub = "Done"
    BY <2>1, HandlingFacts
  <2>3. Sub' \in {"Done", "BeginCreateSnapshot"}
    BY <2>1, <2>2 DEF AsksFor, Sub
  <2> QED
    BY <1>1, <2>1, <2>2, <2>3, NothingListedOrder DEF LiveStates
<1>4. CASE HandleBySnapshot
  BY <1>4, HandleBySnapshotEffect, NoContextOrder
<1>5. CASE FinishBinlog \/ FinishBinlogLockFails
  <2>1. /\ pc = "handled" /\ extra' = extra /\ Sub = "Done" /\ Sub' = "Done" /\ Data' = Data
        /\ \/ pipe' = pipe
           \/ /\ pipe'.link = pipe.link /\ pipe'.tokens = pipe.tokens
              /\ pipe'.workers = pipe.workers /\ pipe'.commitCh = pipe.commitCh
    BY <1>5, FinishBinlogEffect
  <2>2. pipe # Nil
    BY <2>1, HandlingFacts
  <2>3. SameLinks(pipe, pipe')
    BY <2>1 DEF SameLinks
  <2> QED
    BY <2>1, <2>2, <2>3, SameSubOrder
<1> QED
  BY <1>2, <1>3, <1>4, <1>5
-----------------------------------------------------------------------------
\* Fetching binlogs, and the upserts that need no txn.
LEMMA FetchOrder ==
    ASSUME Shape, Ordered,
           \/ GetNextBinlogs \/ NoMoreBinlogs \/ GetNextBinlogsFails \/ PanicOnStaleContext
           \/ NothingToLaunch \/ SkipUpsert \/ BeginTxn \/ BeginTxnFails
    PROVE  Ordered'
<1>1. SameLinks(pipe, pipe)
  BY DEF SameLinks
<1>2. CASE GetNextBinlogs
  <2>1. /\ pc = "loop" /\ Live /\ prog' = prog /\ extra' = extra
        /\ LET from == Max({pipe.next, gc})
           IN pipe' = [pipe EXCEPT !.pos = from, !.next = Min({from + BatchSize, Len(log)})]
    BY <1>2 DEF GetNextBinlogs, NeedsBinlogs, AtLoop, Live, LiveStates, Sub
  <2>2. pipe # Nil /\ pipe \in ContextsAt(N, M)
    BY <2>1, LiveFacts
  <2>3. SameLinks(pipe, pipe')
    BY <2>1, <2>2 DEF ContextsAt, SameLinks
  <2>4. Sub' = Sub /\ Data' = Data
    BY <2>1 DEF Sub, Data
  <2> QED
    BY <2>1, <2>2, <2>3, <2>4, SameSubOrder
<1>3. CASE NoMoreBinlogs
  <2>1. pipe' = pipe /\ extra' = extra
    BY <1>3 DEF NoMoreBinlogs
  <2>2. Sub' = Sub /\ Data' = Data
    BY <1>3, NoMoreBinlogsEffect
  <2> QED
    BY <1>1, <2>1, <2>2, SameSubOrder
<1>4. CASE GetNextBinlogsFails \/ PanicOnStaleContext \/ BeginTxn
  <2>1. pipe' = pipe /\ extra' = extra /\ prog' = prog
    BY <1>4 DEF GetNextBinlogsFails, PanicOnStaleContext, BeginTxn
  <2>2. Sub' = Sub /\ Data' = Data
    BY <2>1 DEF Sub, Data
  <2> QED
    BY <1>1, <2>1, <2>2, SameSubOrder
<1>5. CASE NothingToLaunch \/ SkipUpsert
  <2>1. /\ pc # "idle" /\ Live /\ Sub = "LaunchTransaction" /\ extra' = extra
        /\ Sub' = "CommitPipeline" /\ Data' = Data
        /\ \/ pipe' = pipe
           \/ /\ pipe'.link = pipe.link /\ pipe'.tokens = pipe.tokens
              /\ pipe'.workers = pipe.workers /\ pipe'.commitCh = pipe.commitCh
    BY <1>5, SkippedEffect
  <2>2. pipe # Nil /\ SameLinks(pipe, pipe')
    BY <2>1, LiveFacts DEF SameLinks
  <2>3. Live' /\ Listed' = Listed /\ Taken' = Taken
    BY <2>1 DEF Live, LiveStates, Listed, Taken, Running
  <2> QED
    BY <2>1, <2>2, <2>3, SameOrder
<1>6. CASE BeginTxnFails
  BY <1>6, BeginTxnFailsEffect, NoContextOrder
<1> QED
  BY <1>2, <1>3, <1>4, <1>5, <1>6

\* The launches of an ingest job keep the order.
LEMMA LaunchOrder ==
    ASSUME Shape, Ordered,
           LaunchIngestJob \/ LaunchTriggersPartialSnapshot \/ LaunchIngestJobFails
    PROVE  Ordered'
<1>1. CASE LaunchIngestJobFails
  BY <1>1, LaunchFailsEffect, NoContextOrder
<1>2. CASE LaunchIngestJob \/ LaunchTriggersPartialSnapshot
  <2>1. PICK ctx \in TxnsAt(N, M) : \E r \in {"running", "partial"} :
           /\ pc = "begun" /\ Sub = "LaunchTransaction" /\ Sub' = "CommitPipeline"
           /\ Data'.running = Append(Running, ctx)
           /\ pipe'.link = pipe.link + 1 /\ pipe'.tokens = pipe.tokens
           /\ pipe'.commitCh = pipe.commitCh
           /\ pipe'.workers = pipe.workers \cup {[ctx |-> ctx, prev |-> pipe.link,
                                                  next |-> pipe.link + 1, result |-> r]}
           /\ \/ r = "running" /\ extra' = extra
              \/ r = "partial" /\ extra'.partialTable \in Tables
    BY <1>2, LaunchEffect
  <2>2. PICK r \in {"running", "partial"} :
           /\ pc = "begun" /\ Sub = "LaunchTransaction" /\ Sub' = "CommitPipeline"
           /\ Data'.running = Append(Running, ctx)
           /\ pipe'.link = pipe.link + 1 /\ pipe'.tokens = pipe.tokens
           /\ pipe'.commitCh = pipe.commitCh
           /\ pipe'.workers = pipe.workers \cup {[ctx |-> ctx, prev |-> pipe.link,
                                                  next |-> pipe.link + 1, result |-> r]}
           /\ \/ r = "running" /\ extra' = extra
              \/ r = "partial" /\ extra'.partialTable \in Tables
    BY <2>1
  <2>3. Live /\ pc # "idle" /\ Sub # "CommitPipelineTransaction"
    BY <2>2 DEF Live, LiveStates
  <2>4. /\ pipe # Nil /\ pipe \in ContextsAt(N, M) /\ Running \in Seq(TxnsAt(N, M))
        /\ N \in Nat /\ M \in Nat
    BY <2>3, LiveFacts, ShapeFacts
  <2>5. Listed = Running /\ Taken = 0
    BY <2>3 DEF Listed, Taken
  <2>6. Listed' = Append(Running, ctx) /\ Taken' = 0
    BY <2>2 DEF Listed, Taken, Live, LiveStates, Running
  <2>7. PICK l \in Nat : Links(pipe, Running, 0, l)
    BY <2>3, <2>4, <2>5 DEF Ordered
  <2>8. Links(pipe', Append(Running, ctx), 0, l)
    <3>1. PICK c : c = pipe
      OBVIOUS
    <3>2. PICK d : d = pipe'
      OBVIOUS
    <3>3. PICK R \in Seq(TxnsAt(N, M)) : R = Running
      BY <2>4
    <3>4. PICK S : S = Append(R, ctx)
      OBVIOUS
    <3>5. PICK x : x = [ctx |-> ctx, prev |-> pipe.link, next |-> pipe.link + 1, result |-> r]
      OBVIOUS
    <3>6. /\ d.link = c.link + 1 /\ d.tokens = c.tokens /\ d.commitCh = c.commitCh
          /\ d.workers = c.workers \cup {x}
          /\ x.ctx = ctx /\ x.prev = c.link /\ x.next = c.link + 1
      BY <2>2, <3>1, <3>2, <3>5
    <3>7. c \in ContextsAt(N, M) /\ Links(c, R, 0, l)
      BY <2>4, <2>7, <3>1, <3>3
    <3>8. Links(d, S, 0, l)
      BY <2>4, <3>4, <3>6, <3>7, LinksLaunched
    <3> QED
      BY <3>2, <3>3, <3>4, <3>8
  <2>9. PartialKnown'
    <3>1. PICK x : x = [ctx |-> ctx, prev |-> pipe.link, next |-> pipe.link + 1, result |-> r]
      OBVIOUS
    <3>2. x.result = r /\ pipe'.workers = pipe.workers \cup {x}
      BY <2>2, <3>1
    <3>3. r = "partial" => extra'.partialTable # Nil
      BY <2>2, NilAssumption
    <3>4. extra.partialTable # Nil => extra'.partialTable # Nil
      BY <2>2, NilAssumption
    <3>5. PartialKnown /\ pipe'.commitCh = pipe.commitCh
      BY <2>2, <2>4 DEF Ordered
    <3> QED
      BY <3>2, <3>3, <3>4, <3>5 DEF PartialKnown
  <2> QED
    BY <2>2, <2>6, <2>8, <2>9 DEF Ordered
<1> QED
  BY <1>1, <1>2

\* A step of a goroutine: its result, or the signal that lets the next one go on.
LEMMA WorkerOrder ==
    ASSUME Shape, Ordered, WorkerStep
    PROVE  Ordered'
<1>1. /\ prog' = prog /\ extra' = extra /\ pipe # Nil
      /\ pipe \in ContextsAt(N, M) /\ pipe' # Nil /\ pipe'.link = pipe.link
      /\ N \in Nat /\ M \in Nat
  BY WorkerTyped, ShapeFacts
<1>2. PICK w \in pipe.workers :
        \/ /\ w.result = "running" /\ pipe'.tokens = pipe.tokens
           /\ pipe'.commitCh = pipe.commitCh
           /\ \E r \in {"ok", "error", "meta"} :
                pipe'.workers = (pipe.workers \ {w}) \cup {[w EXCEPT !.result = r]}
        \/ /\ w.result \in Errors /\ w.prev \in pipe.tokens
           /\ pipe'.tokens = (pipe.tokens \ {w.prev}) \cup {w.next}
           /\ pipe'.workers = pipe.workers \ {w}
           /\ pipe'.commitCh = Append(pipe.commitCh, [ctx |-> w.ctx, err |-> w.result])
  BY WorkerTyped
<1>3. Sub' = Sub /\ Data' = Data /\ Live' = Live
  BY <1>1 DEF Sub, Data, Live
<1>4. Listed' = Listed /\ Taken' = Taken /\ Taken \in Nat
  BY <1>3 DEF Listed, Taken, Running
<1>5. PICK c \in ContextsAt(N, M) : c = pipe
  BY <1>1
<1>6. PICK d : d = pipe'
  OBVIOUS
<1>7. PICK R : R = Listed
  OBVIOUS
<1>8. PICK k \in Nat : k = Taken
  BY <1>4
<1>9. PartialKnown
  BY <1>1 DEF Ordered
<1>10. (\E l \in Nat : Links(d, R, k, l)) \/ ~(\E l \in Nat : Links(c, R, k, l))
  <2>1. ASSUME NEW l \in Nat, Links(c, R, k, l)
        PROVE  \E i \in Nat : Links(d, R, k, i)
    <3>1. CASE /\ w.result = "running" /\ pipe'.tokens = pipe.tokens
               /\ pipe'.commitCh = pipe.commitCh
               /\ \E r \in {"ok", "error", "meta"} :
                    pipe'.workers = (pipe.workers \ {w}) \cup {[w EXCEPT !.result = r]}
      <4>1. PICK r \in {"ok", "error", "meta"} :
               pipe'.workers = (pipe.workers \ {w}) \cup {[w EXCEPT !.result = r]}
        BY <3>1
      <4>2. Links(d, R, k, l)
        BY <1>1, <1>5, <1>6, <2>1, <3>1, <4>1, LinksIngest
      <4> QED
        BY <4>2
    <3>2. CASE /\ w.result \in Errors /\ w.prev \in pipe.tokens
               /\ pipe'.tokens = (pipe.tokens \ {w.prev}) \cup {w.next}
               /\ pipe'.workers = pipe.workers \ {w}
               /\ pipe'.commitCh = Append(pipe.commitCh, [ctx |-> w.ctx, err |-> w.result])
      <4>1. Links(d, R, k, l + 1)
        BY <1>1, <1>5, <1>6, <2>1, <3>2, LinksSent
      <4> QED
        BY <4>1
    <3> QED
      BY <1>2, <3>1, <3>2
  <2> QED
    BY <2>1
<1>11. PartialKnown'
  <2>1. pipe.commitCh \in Seq(ResultsAt(N, M)) /\ w \in WorkersAt(N, M)
    BY <1>1, <1>2, ContextParts
  <2>2. CASE /\ w.result = "running" /\ pipe'.commitCh = pipe.commitCh
             /\ \E r \in {"ok", "error", "meta"} :
                  pipe'.workers = (pipe.workers \ {w}) \cup {[w EXCEPT !.result = r]}
    <3>1. PICK r \in {"ok", "error", "meta"} :
             pipe'.workers = (pipe.workers \ {w}) \cup {[w EXCEPT !.result = r]}
      BY <2>2
    <3>2. PICK x : x = [w EXCEPT !.result = r]
      OBVIOUS
    <3>3. x.result # "partial"
      BY <2>1, <3>1, <3>2 DEF WorkersAt
    <3> QED
      BY <1>1, <1>9, <2>2, <3>1, <3>2, <3>3 DEF PartialKnown
  <2>3. CASE /\ pipe'.workers = pipe.workers \ {w}
             /\ pipe'.commitCh = Append(pipe.commitCh, [ctx |-> w.ctx, err |-> w.result])
    <3>1. PICK x : x = [ctx |-> w.ctx, err |-> w.result]
      OBVIOUS
    <3>2. x.err = w.result /\ (w.result = "partial" => extra.partialTable # Nil)
      BY <1>2, <1>9, <3>1 DEF PartialKnown
    <3>3. PICK K \in Nat : K = Len(pipe.commitCh)
      BY <2>1
    <3>4. /\ Len(pipe'.commitCh) = K + 1 /\ pipe'.commitCh[K + 1] = x
          /\ \A j \in 1..K : pipe'.commitCh[j] = pipe.commitCh[j]
      BY <2>1, <2>3, <3>1, <3>3
    <3>5. ASSUME NEW j \in 1..K + 1, pipe'.commitCh[j].err = "partial"
          PROVE  extra.partialTable # Nil
      <4>1. CASE j = K + 1
        BY <3>2, <3>4, <3>5, <4>1
      <4>2. CASE j \in 1..K
        BY <1>9, <3>3, <3>4, <3>5, <4>2 DEF PartialKnown
      <4> QED
        BY <4>1, <4>2
    <3> QED
      BY <1>1, <1>9, <2>3, <3>4, <3>5 DEF PartialKnown
  <2> QED
    BY <1>2, <2>2, <2>3
<1>12. /\ pipe' # Nil /\ (Live' \/ extra'.partialTable = Nil)
             => \E l \in Nat : Links(pipe', Listed', Taken', l)
  BY <1>1, <1>3, <1>4, <1>5, <1>6, <1>7, <1>8, <1>10 DEF Ordered
<1>13. Sub' = "CommitPipelineTransaction" => Commitable' = Head(Running')
  BY <1>1, <1>3 DEF Ordered, Commitable, Running, Data
<1>14. Sub' = "RollbackPipeline" => extra'.partialTable # Nil
  BY <1>1, <1>3 DEF Ordered
<1> QED
  BY <1>11, <1>12, <1>13, <1>14 DEF Ordered
-----------------------------------------------------------------------------
\* TakeResult keeps the order.
LEMMA TakeResultOrder ==
    ASSUME Shape, Ordered, TakeResult
    PROVE  Ordered'
<1>1. PICK r : r = Head(pipe.commitCh)
  OBVIOUS
<1>2. /\ Live /\ pc = "loop" /\ Sub = "CommitPipeline" /\ pipe # Nil /\ pipe.commitCh # <<>>
      /\ extra' = extra
      /\ \/ /\ r.err = "partial" /\ Sub' = "RollbackPipeline"
            /\ pipe' = [pipe EXCEPT !.commitCh = Tail(@)]
         \/ /\ r.err = "ok" /\ Sub' = "CommitPipelineTransaction"
            /\ prog'.inMemoryData = [Data EXCEPT !.commitable = r.ctx]
            /\ pipe' = [pipe EXCEPT !.commitCh = Tail(@)]
         \/ pipe' = Nil
  BY <1>1, TakeResultTyped
<1>3. /\ pipe \in ContextsAt(N, M) /\ Running \in Seq(TxnsAt(N, M)) /\ Data \in DataAt(N, M)
      /\ N \in Nat /\ M \in Nat
  BY <1>2, CommitFacts, ShapeFacts
<1>4. Listed = Running /\ Taken = 0
  BY <1>2 DEF Listed, Taken
<1>5. PICK l \in Nat : Links(pipe, Running, 0, l)
  BY <1>2, <1>4 DEF Ordered
<1>6. pipe.commitCh \in Seq(ResultsAt(N, M))
  BY <1>3, ContextParts
<1>7. PICK c \in ContextsAt(N, M) : c = pipe
  BY <1>3
<1>8. PICK R \in Seq(TxnsAt(N, M)) : R = Running
  BY <1>3
<1>9. R # <<>> /\ r.ctx = Head(R)
  BY <1>1, <1>2, <1>3, <1>5, <1>7, <1>8, LinksHead
<1>10. CASE pipe' = Nil
  BY <1>10, NoContextOrder
<1>11. ASSUME pipe' = [pipe EXCEPT !.commitCh = Tail(@)]
       PROVE  PartialKnown' /\ Links(pipe', Running, 1, l)
  <2>1. /\ pipe'.link = c.link /\ pipe'.tokens = c.tokens /\ pipe'.workers = c.workers
        /\ pipe'.commitCh = Tail(c.commitCh)
    BY <1>3, <1>7, <1>11 DEF ContextsAt
  <2>2. PartialKnown
    BY <1>2 DEF Ordered
  <2>3. /\ Len(Tail(c.commitCh)) = Len(c.commitCh) - 1 /\ Len(c.commitCh) \in Nat
        /\ \A j \in 1..Len(c.commitCh) - 1 : Tail(c.commitCh)[j] = c.commitCh[j + 1]
    BY <1>2, <1>6, <1>7
  <2>4. ASSUME NEW j \in 1..Len(c.commitCh) - 1, c.commitCh[j + 1].err = "partial"
        PROVE  extra.partialTable # Nil
    <3>1. j + 1 \in 1..Len(c.commitCh)
      BY <2>3
    <3> QED
      BY <1>7, <2>2, <2>4, <3>1 DEF PartialKnown
  <2>5. PartialKnown'
    BY <1>2, <1>7, <2>1, <2>2, <2>3, <2>4 DEF PartialKnown
  <2>6. PICK d : d = pipe'
    OBVIOUS
  <2>7. Links(d, R, 1, l)
    BY <1>2, <1>3, <1>5, <1>7, <1>8, <2>1, <2>6, LinksTaken
  <2> QED
    BY <1>8, <2>5, <2>6, <2>7
<1>12. CASE /\ r.err = "partial" /\ Sub' = "RollbackPipeline"
            /\ pipe' = [pipe EXCEPT !.commitCh = Tail(@)]
  <2>1. extra.partialTable # Nil
    <3>1. 1 \in 1..Len(pipe.commitCh) /\ r = pipe.commitCh[1]
      BY <1>1, <1>2, <1>6
    <3> QED
      BY <1>2, <1>12, <3>1 DEF Ordered, PartialKnown
  <2>2. ~Live' /\ Sub' # "CommitPipelineTransaction"
    BY <1>12 DEF Live, LiveStates
  <2> QED
    BY <1>2, <1>11, <1>12, <2>1, <2>2 DEF Ordered
<1>13. CASE /\ r.err = "ok" /\ Sub' = "CommitPipelineTransaction"
            /\ prog'.inMemoryData = [Data EXCEPT !.commitable = r.ctx]
            /\ pipe' = [pipe EXCEPT !.commitCh = Tail(@)]
  <2>1. Running' = Running /\ Commitable' = Head(Running')
    <3>1. prog'.inMemoryData.running = Data.running /\ prog'.inMemoryData.commitable = r.ctx
      BY <1>3, <1>13 DEF DataAt
    <3> QED
      BY <1>8, <1>9, <3>1 DEF Running, Data, Commitable
  <2>2. Live' /\ Sub' # "RollbackPipeline"
    BY <1>13 DEF Live, LiveStates
  <2>3. Listed' = Running /\ Taken' = 1
    BY <1>13, <2>1, <2>2 DEF Listed, Taken
  <2>4. Links(pipe', Listed', Taken', l)
    BY <1>11, <1>13, <2>3
  <2> QED
    BY <1>11, <1>13, <2>1, <2>2, <2>4 DEF Ordered
<1> QED
  BY <1>2, <1>10, <1>12, <1>13

\* A step without a result keeps the order.
LEMMA NoResultOrder ==
    ASSUME Shape, Ordered, FinishPipeline \/ LaunchMore \/ YieldPipeline
    PROVE  Ordered'
<1>1. SameLinks(pipe, pipe)
  BY DEF SameLinks
<1>2. CASE FinishPipeline
  <2>1. /\ pc = "loop" /\ Sub = "CommitPipeline" /\ Running = <<>> /\ pipe' = pipe
        /\ extra' = extra /\ Sub' = "Done"
    BY <1>2, FinishPipelineEffect
  <2>2. pipe # Nil
    BY <2>1, CommitFacts DEF Live, LiveStates
  <2>3. Live /\ ~Live' /\ Listed = <<>> /\ Listed' = <<>> /\ Taken = 0 /\ Taken' = 0
    BY <2>1 DEF Live, LiveStates, Listed, Taken
  <2> QED
    BY <1>1, <2>1, <2>2, <2>3, SameOrder
<1>3. CASE LaunchMore
  <2>1. /\ pc = "loop" /\ Sub = "CommitPipeline" /\ pipe' = pipe
        /\ extra' = extra /\ Sub' = "LaunchTransaction" /\ Data' = Data
    BY <1>3, LaunchMoreEffect
  <2>2. pipe # Nil
    BY <2>1, CommitFacts DEF Live, LiveStates
  <2>3. Live /\ Listed' = Listed /\ Taken' = Taken
    BY <2>1 DEF Live, LiveStates, Listed, Taken, Running
  <2> QED
    BY <1>1, <2>1, <2>2, <2>3, SameOrder
<1>4. CASE YieldPipeline
  <2>1. /\ pc = "loop" /\ Sub = "CommitPipeline" /\ pipe' = pipe
        /\ extra' = extra /\ Sub' = "CommitPipeline" /\ Data' = Data
    BY <1>4, YieldPipelineEffect
  <2>2. pipe # Nil
    BY <2>1, CommitFacts DEF Live, LiveStates
  <2> QED
    BY <1>1, <2>1, <2>2, SameSubOrder
<1> QED
  BY <1>2, <1>3, <1>4

\* A commit keeps the order.
LEMMA CommitOrder ==
    ASSUME Shape, Ordered, CommitTxn \/ CommitTxnFails \/ FinishCommit \/ FinishCommitLockFails
    PROVE  Ordered'
<1>1. CASE CommitTxn
  <2>1. prog' = prog /\ pipe' = pipe /\ extra' = extra
    BY <1>1 DEF CommitTxn
  <2>2. Sub' = Sub /\ Data' = Data /\ SameLinks(pipe, pipe')
    BY <2>1 DEF Sub, Data, SameLinks
  <2>3. pipe # Nil
    BY <1>1, CommitFacts DEF CommitTxn, AtLoop, Live, LiveStates, Sub
  <2> QED
    BY <2>1, <2>2, <2>3, SameSubOrder
<1>2. CASE CommitTxnFails
  BY <1>2, CommitTxnFailsEffect, NoContextOrder
<1>3. CASE FinishCommit \/ FinishCommitLockFails
  <2>1. /\ pc = "committed" /\ Sub = "CommitPipelineTransaction" /\ pipe' = pipe
        /\ extra' = extra /\ Sub' = "CommitPipeline" /\ Running' = Tail(Running)
    BY <1>3, FinishCommitEffect
  <2>2. Live /\ pc # "idle"
    BY <2>1 DEF Live, LiveStates
  <2>3. /\ pipe # Nil /\ pipe \in ContextsAt(N, M) /\ Running \in Seq(TxnsAt(N, M))
        /\ N \in Nat /\ M \in Nat
    BY <2>2, LiveFacts, ShapeFacts
  <2>4. Running # <<>>
    BY <2>1, <2>3, ShapeFacts DEF Control, Running
  <2>5. Listed = Running /\ Taken = 1
    BY <2>1, <2>2 DEF Listed, Taken
  <2>6. PICK l \in Nat : Links(pipe, Running, 1, l)
    BY <2>2, <2>3, <2>5 DEF Ordered
  <2>7. Links(pipe, Tail(Running), 0, l)
    <3>1. PICK c \in ContextsAt(N, M) : c = pipe
      BY <2>3
    <3>2. PICK R \in Seq(TxnsAt(N, M)) : R = Running
      BY <2>3
    <3>3. PICK S : S = Tail(R)
      OBVIOUS
    <3>4. Links(c, S, 0, l)
      BY <2>3, <2>4, <2>6, <3>1, <3>2, <3>3, LinksCommitted
    <3> QED
      BY <3>1, <3>2, <3>3, <3>4
  <2>8. Listed' = Tail(Running) /\ Taken' = 0
    BY <2>1 DEF Listed, Taken, Live, LiveStates
  <2>9. Links(pipe', Listed', Taken', l)
    BY <2>1, <2>7, <2>8
  <2>10. PartialKnown'
    BY <2>1, <2>3 DEF Ordered, PartialKnown
  <2> QED
    BY <2>1, <2>9, <2>10 DEF Ordered
<1> QED
  BY <1>1, <1>2, <1>3

\* A rollback keeps the order.
LEMMA RollbackOrder ==
    ASSUME Shape, Ordered, StartRollback \/ RollbackTxn \/ RollbackTxnFails \/ FinishRollback
    PROVE  Ordered'
<1>1. SameLinks(pipe, pipe)
  BY DEF SameLinks
<1>2. /\ pipe' = pipe /\ extra' = extra /\ Sub = "RollbackPipeline"
      /\ Sub' \in {"RollbackPipeline", "Done"}
  <2>1. CASE StartRollback
    BY <2>1, StartRollbackEffect
  <2>2. CASE RollbackTxn
    <3>1. pc = "rollback"
      BY <2>2 DEF RollbackTxn
    <3> QED
      BY <2>2, <3>1, RollbackTxnEffect, ShapeFacts DEF Control
  <2>3. CASE RollbackTxnFails
    <3>1. pc = "rollback" /\ prog' = prog /\ pipe' = pipe /\ extra' = extra
      BY <2>3 DEF RollbackTxnFails
    <3> QED
      BY <3>1, ShapeFacts DEF Control, Sub
  <2>4. CASE FinishRollback
    BY <2>4, FinishRollbackEffect
  <2> QED
    BY <2>1, <2>2, <2>3, <2>4
<1> QED
  BY <1>1, <1>2, NothingListedOrder DEF LiveStates

\* A finished snapshot sync keeps the order.
LEMMA SnapshotOrder ==
    ASSUME Shape, Ordered, FinishFullSync \/ FinishPartialSync
    PROVE  Ordered'
<1>1. SameLinks(pipe, pipe)
  BY DEF SameLinks
<1>2. /\ pipe' = pipe /\ extra'.partialTable = extra.partialTable
      /\ Sub = "BeginCreateSnapshot" /\ Sub' = "Done"
  BY SnapshotEffect DEF Snapshotting
<1> QED
  BY <1>1, <1>2, NothingListedOrder DEF LiveStates

\* A step of the environment keeps the order.
LEMMA EnvironmentOrder ==
    ASSUME Shape, Ordered, Environment \/ UNCHANGED vars
    PROVE  Ordered'
<1>1. CASE Crash
  BY <1>1, NoContextOrder DEF Crash
<1>2. CASE \/ SourceWrites \/ SourceCollects \/ TargetAborts \/ Interrupt \/ SkipBinlog
           \/ UNCHANGED vars
  <2>1. prog' = prog /\ pipe' = pipe /\ extra'.partialTable = extra.partialTable
    BY <1>2, EnvironmentEffect DEF vars
  <2>2. Sub' = Sub /\ Data' = Data /\ SameLinks(pipe, pipe')
    BY <2>1 DEF Sub, Data, SameLinks
  <2> QED
    BY <2>1, <2>2, SameSubOrder
<1> QED
  BY <1>1, <1>2 DEF Environment

\* Every step keeps the order.
LEMMA NextOrder ==
    ASSUME Shape, Ordered, [Next]_vars
    PROVE  Ordered'
<1>1. CASE JobStep
  <2>1. JobAction
    BY <1>1 DEF JobStep
  <2> QED
    BY <2>1, QuietOrder, StartOrder, HandleOrder, FetchOrder, LaunchOrder, TakeResultOrder,
       NoResultOrder, CommitOrder, RollbackOrder, SnapshotOrder DEF JobAction
<1>2. CASE WorkerStep
  BY <1>2, WorkerOrder
<1> QED
  BY <1>1, <1>2, EnvironmentOrder DEF Next

\* The order implies that results come in the order of the binlogs.
LEMMA OrderedIsInOrder ==
    ASSUME Shape, Ordered
    PROVE  ResultsInOrder
<1>1. ASSUME pipe # Nil, pipe.commitCh # <<>>, prog.subSyncState = "CommitPipeline"
      PROVE  Running # <<>> /\ Head(pipe.commitCh).ctx = Head(Running)
  <2>1. Live /\ Listed = Running /\ Taken = 0
    BY <1>1 DEF Live, LiveStates, Sub, Listed, Taken
  <2>2. PICK l \in Nat : Links(pipe, Running, 0, l)
    BY <1>1, <2>1 DEF Ordered
  <2>3. /\ N \in Nat /\ M \in Nat /\ pipe \in ContextsAt(N, M) /\ Data \in DataAt(N, M)
    BY <1>1, <2>1, ShapeFacts DEF Control, Data
  <2>4. Running \in Seq(TxnsAt(N, M))
    BY <2>3 DEF Running, DataAt
  <2>5. PICK c \in ContextsAt(N, M) : c = pipe
    BY <2>3
  <2>6. PICK R \in Seq(TxnsAt(N, M)) : R = Running
    BY <2>4
  <2>7. R # <<>> /\ Head(c.commitCh).ctx = Head(R)
    BY <1>1, <2>2, <2>3, <2>5, <2>6, LinksHead
  <2> QED
    BY <2>5, <2>6, <2>7
<1> QED
  BY <1>1 DEF ResultsInOrder

\* The results come in the order in which the txns were begun: the links hand the signal from
\* one goroutine to the next, whatever the order in which the goroutines end, however many
\* binlogs are in flight, and also across ticks that keep the context.
THEOREM PipelineResultsInOrder == Spec => []ResultsInOrder
<1>1. Init => Shape /\ Ordered
  BY InitShape DEF Init, Ordered
<1>2. Shape /\ Ordered /\ [Next]_vars => Shape' /\ Ordered'
  BY NextShape, NextOrder
<1>3. Shape /\ Ordered => ResultsInOrder
  BY OrderedIsInOrder
<1> QED
  BY <1>1, <1>2, <1>3, PTL DEF Spec
-----------------------------------------------------------------------------
\* What a txn was, it stays: committed for good, and never open again.
Settles ==
    /\ Len(txns') \in Nat /\ M <= Len(txns')
    /\ \A i \in 1..M :
         /\ txns[i].status = "COMMITTED" => txns'[i].status = "COMMITTED"
         /\ txns[i].status # "PREPARE" => txns'[i].status # "PREPARE"
         /\ txns[i].recorded => txns'[i].recorded

\* A step that changes no txn leaves what is settled settled.
LEMMA SameTxnsSettle ==
    ASSUME Shape, txns' = txns
    PROVE  Settles
BY ShapeFacts DEF Settles, M

\* So does the begin of a txn, which comes last and is not recorded.
LEMMA NewTxnSettles ==
    ASSUME Shape, Len(txns) < MaxTxn, txns' = NewTxn
    PROVE  /\ Settles /\ Len(txns') = M + 1 /\ ~txns'[M + 1].recorded
           /\ \A i \in 1..M : txns'[i] = txns[i]
BY NewTxnTyped, ShapeFacts DEF Settles

\* A txn moves to another status: it was not committed.
LEMMA StatusSettles ==
    ASSUME Shape, NEW i \in 1..M, NEW s \in {"COMMITTED", "ABORTED"},
           txns' = [txns EXCEPT ![i].status = s],
           s = "ABORTED" => txns[i].status # "COMMITTED"
    PROVE  /\ Settles /\ Len(txns') = M /\ txns'[i].status = s
           /\ \A k \in 1..M : txns'[k].recorded = txns[k].recorded
           /\ \A k \in 1..M : k # i => txns'[k] = txns[k]
<1>1. txns \in Seq(TxnRecords) /\ Len(txns) = M /\ M \in Nat
  BY ShapeFacts DEF Shape, Typed, TargetTyped, M
<1>2. PICK r : r = [txns[i] EXCEPT !.status = s]
  OBVIOUS
<1>3. txns[i] \in TxnRecords
  BY <1>1
<1>4. r.status = s /\ r.recorded = txns[i].recorded
  BY <1>2, <1>3 DEF TxnRecords
<1>5. txns' = [txns EXCEPT ![i] = r]
  BY <1>1, <1>2
<1>6. Len(txns') = M /\ txns'[i] = r /\ \A k \in 1..M : k # i => txns'[k] = txns[k]
  BY <1>1, <1>5
<1> QED
  BY <1>1, <1>4, <1>6 DEF Settles

\* So does recording one, which changes no status.
LEMMA RecordedSettles ==
    ASSUME Shape, Recorded
    PROVE  /\ Settles /\ Len(txns') = M
           /\ \A i \in 1..M : i # M => txns'[i] = txns[i]
           /\ \A i \in 1..M : txns'[i].status = txns[i].status
<1>1. txns \in Seq(TxnRecords) /\ Len(txns) = M /\ M \in Nat
  BY ShapeFacts DEF Shape, Typed, TargetTyped, M
<1>2. /\ txns' \in Seq(TxnRecords) /\ Len(txns') = M
      /\ \A i \in 1..M : txns'[i].status = txns[i].status
      /\ \A i \in 1..M : i # M => txns'[i] = txns[i]
  BY RecordedTyped
<1>3. ASSUME M \in 1..M
      PROVE  txns'[M].recorded
  <2>1. PICK r : r = [txns[M] EXCEPT !.recorded = TRUE]
    OBVIOUS
  <2>2. txns[M] \in TxnRecords
    BY <1>1, <1>3
  <2>3. r.recorded
    BY <2>1, <2>2 DEF TxnRecords
  <2>4. txns' = [txns EXCEPT ![M] = r]
    BY <1>1, <2>1 DEF Recorded
  <2> QED
    BY <1>1, <1>3, <2>3, <2>4
<1> QED
  BY <1>1, <1>2, <1>3 DEF Settles

\* The txn of the result that was taken.
LEMMA CommitableOpen ==
    ASSUME Shape, Live, Sub = "CommitPipelineTransaction", pc # "idle"
    PROVE  Commitable \in TxnsAt(N, M) /\ Commitable.txnId \in 1..M /\ Commitable.commitSeq \in 1..N
<1>1. pipe # Nil /\ Data \in DataAt(N, M) /\ Data = prog.inMemoryData
  BY LiveFacts
<1>2. Commitable # Nil
  BY <1>1, ShapeFacts DEF Control
<1>3. Commitable \in TxnsAt(N, M)
  BY <1>1, <1>2 DEF Commitable, DataAt
<1> QED
  BY <1>3 DEF TxnsAt

\* The txn a rollback is at is one of the txns.
LEMMA RollingTxn ==
    ASSUME Shape, pc = "rollback", cursor < Len(Running)
    PROVE  /\ cursor + 1 \in 1..Len(Running) /\ Running \in Seq(TxnsAt(N, M))
           /\ Running[cursor + 1] \in TxnsAt(N, M) /\ Running[cursor + 1].txnId \in 1..M
           /\ Running[cursor + 1].commitSeq \in 1..N
<1>1. Data # Nil /\ Data \in DataAt(N, M)
  BY ShapeFacts DEF Control, Data
<1>2. cursor \in Nat /\ Running \in Seq(TxnsAt(N, M))
  BY <1>1 DEF Shape, Typed, FlagsTyped, Running, DataAt
<1>3. cursor + 1 \in 1..Len(Running)
  BY <1>2
<1>4. Running[cursor + 1] \in TxnsAt(N, M)
  BY <1>2, <1>3
<1> QED
  BY <1>2, <1>3, <1>4 DEF TxnsAt

\* No step takes back a commit or an abort of a txn.
LEMMA NextSettles ==
    ASSUME Shape, [Next]_vars
    PROVE  Settles
<1>1. CASE CommitTxn
  <2>1. Sub = "CommitPipelineTransaction" /\ Live /\ pc # "idle"
        /\ txns' = [txns EXCEPT ![Commitable.txnId].status = "COMMITTED"]
    BY <1>1 DEF CommitTxn, AtLoop, Sub, Live, LiveStates
  <2> QED
    BY <2>1, CommitableOpen, StatusSettles
<1>2. CASE CommitTxnFails
  <2>1. Sub = "CommitPipelineTransaction" /\ Live /\ pc # "idle"
    BY <1>2, CommitTxnFailsEffect DEF Live, LiveStates
  <2>2. \/ txns' = txns
        \/ txns' = [txns EXCEPT ![Commitable.txnId].status = "COMMITTED"]
    BY <1>2, CommitTxnFailsEffect DEF destVars
  <2> QED
    BY <2>1, <2>2, CommitableOpen, StatusSettles, SameTxnsSettle
<1>3. CASE RollbackTxn
  <2>1. /\ pc = "rollback" /\ cursor < Len(Running)
        /\ \/ txns' = txns
           \/ /\ txns[Running[cursor + 1].txnId].status # "COMMITTED"
              /\ txns' = [txns EXCEPT ![Running[cursor + 1].txnId].status = "ABORTED"]
    BY <1>3, RollbackTxnEffect
  <2> QED
    BY <2>1, RollingTxn, StatusSettles, SameTxnsSettle
<1>4. CASE TargetAborts
  <2>1. PICK i \in DOMAIN txns : txns[i].status = "PREPARE"
                                 /\ txns' = [txns EXCEPT ![i].status = "ABORTED"]
    BY <1>4 DEF TargetAborts
  <2>2. i \in 1..M
    BY <2>1, ShapeFacts DEF Shape, Typed, TargetTyped, M
  <2> QED
    BY <2>1, <2>2, StatusSettles
<1>5. CASE BeginTxn
  BY <1>5, NewTxnSettles DEF BeginTxn
<1>6. CASE BeginTxnFails
  BY <1>6, NewTxnSettles, SameTxnsSettle DEF BeginTxnFails
<1>7. CASE LaunchIngestJob \/ LaunchTriggersPartialSnapshot \/ LaunchIngestJobFails
  BY <1>7, RecordedSettles
     DEF LaunchIngestJob, LaunchTriggersPartialSnapshot, LaunchIngestJobFails
<1>8. CASE txns' = txns
  BY <1>8, SameTxnsSettle
<1>9. CASE JobStep
  <2>1. CASE \/ EnterSync \/ LeaveOnInterrupt \/ ConsumeInterruptSignals
             \/ StartPartialSnapshot \/ RecoverIncrementalSync \/ SkipByFullSync
             \/ SkipByPartialSync \/ StartPipeline \/ HandleBinlog
    BY <1>8, <2>1
       DEF EnterSync, LeaveOnInterrupt, ConsumeInterruptSignals, StartPartialSnapshot,
           RecoverIncrementalSync, SkipByFullSync, SkipByPartialSync, StartPipeline,
           HandleBinlog, destVars
  <2>2. CASE \/ HandleCommittedBinlog \/ ExecuteDDL \/ ExecuteDDLLosesReply
             \/ HandleBinlogFails \/ HandleBySnapshot \/ FinishBinlog \/ FinishBinlogLockFails
             \/ GetNextBinlogs \/ NoMoreBinlogs \/ GetNextBinlogsFails
    BY <1>8, <2>2
       DEF HandleCommittedBinlog, ExecuteDDL, ExecuteDDLLosesReply, HandleBinlogFails,
           HandleBySnapshot, FinishBinlog, FinishBinlogLockFails, GetNextBinlogs,
           NoMoreBinlogs, GetNextBinlogsFails, destVars
  <2>3. CASE \/ PanicOnStaleContext \/ NothingToLaunch \/ SkipUpsert \/ TakeResult
             \/ FinishPipeline \/ LaunchMore \/ YieldPipeline \/ FinishCommit
             \/ FinishCommitLockFails \/ StartRollback \/ RollbackTxnFails \/ FinishRollback
             \/ FinishFullSync \/ FinishPartialSync
    BY <1>8, <2>3
       DEF PanicOnStaleContext, NothingToLaunch, SkipUpsert, TakeResult, FinishPipeline,
           LaunchMore, YieldPipeline, FinishCommit, FinishCommitLockFails, StartRollback,
           RollbackTxnFails, FinishRollback, FinishFullSync, FinishPartialSync, destVars
  <2> QED
    BY <1>1, <1>2, <1>3, <1>5, <1>6, <1>7, <1>9, <2>1, <2>2, <2>3 DEF JobStep, JobAction
<1>10. CASE WorkerStep
  BY <1>8, <1>10, WorkerTyped DEF destVars
<1>11. CASE Environment
  BY <1>4, <1>8, <1>11
     DEF Environment, SourceWrites, SourceCollects, Interrupt, SkipBinlog, Crash, destVars
<1>12. CASE UNCHANGED vars
  BY <1>8, <1>12 DEF vars
<1> QED
  BY <1>9, <1>10, <1>11, <1>12 DEF Next

\* The step from "committed" applies a txn that is committed.
CommitTookEffect ==
    pc = "committed" => txns[Commitable.txnId].status = "COMMITTED"

\* Every step keeps it that the txn of a finished commit is committed.
LEMMA NextTookEffect ==
    ASSUME Shape, CommitTookEffect, [Next]_vars
    PROVE  CommitTookEffect'
<1>1. CASE CommitTxn
  <2>1. /\ Sub = "CommitPipelineTransaction" /\ Live /\ pc # "idle" /\ prog' = prog
        /\ txns' = [txns EXCEPT ![Commitable.txnId].status = "COMMITTED"]
    BY <1>1 DEF CommitTxn, AtLoop, Sub, Live, LiveStates
  <2>2. txns'[Commitable.txnId].status = "COMMITTED"
    BY <2>1, CommitableOpen, StatusSettles
  <2> QED
    BY <2>1, <2>2 DEF CommitTookEffect, Commitable
<1>2. CASE pc' # "committed"
  BY <1>2 DEF CommitTookEffect
<1>3. CASE pc = "committed" /\ pc' = "committed" /\ prog' = prog
  <2>1. Sub = "CommitPipelineTransaction"
    BY <1>3, ShapeFacts DEF Control
  <2>2. Live /\ pc # "idle"
    BY <1>3, <2>1 DEF Live, LiveStates
  <2>3. Commitable.txnId \in 1..M
    BY <2>1, <2>2, CommitableOpen
  <2>4. txns'[Commitable.txnId].status = "COMMITTED"
    BY <1>3, <2>3, NextSettles DEF Settles, CommitTookEffect
  <2> QED
    BY <1>3, <2>4 DEF CommitTookEffect, Commitable
<1>4. CASE JobStep
  <2>1. CASE \/ EnterSync \/ LeaveOnInterrupt \/ ConsumeInterruptSignals
             \/ StartPartialSnapshot \/ RecoverIncrementalSync \/ SkipByFullSync
             \/ SkipByPartialSync \/ HandleBinlog
             \/ HandleCommittedBinlog \/ ExecuteDDL \/ ExecuteDDLLosesReply
             \/ HandleBinlogFails \/ HandleBySnapshot \/ FinishBinlog \/ FinishBinlogLockFails
    BY <1>2, <2>1
       DEF EnterSync, LeaveOnInterrupt, ConsumeInterruptSignals, StartPartialSnapshot,
           RecoverIncrementalSync, SkipByFullSync, SkipByPartialSync,
           HandleBinlog, HandleCommittedBinlog, ExecuteDDL, ExecuteDDLLosesReply,
           HandleBinlogFails, HandleBySnapshot, FinishBinlog, FinishBinlogLockFails, Goto
  <2>2. CASE \/ GetNextBinlogs \/ NoMoreBinlogs \/ GetNextBinlogsFails
             \/ PanicOnStaleContext \/ NothingToLaunch \/ SkipUpsert \/ BeginTxn \/ BeginTxnFails
             \/ LaunchIngestJob \/ LaunchTriggersPartialSnapshot \/ LaunchIngestJobFails
    BY <1>2, <2>2
       DEF GetNextBinlogs, NoMoreBinlogs, GetNextBinlogsFails, PanicOnStaleContext,
           NothingToLaunch, SkipUpsert, BeginTxn, BeginTxnFails, LaunchIngestJob,
           LaunchTriggersPartialSnapshot, LaunchIngestJobFails, ResetAndFail, Goto
  <2>3. CASE \/ StartPipeline \/ FinishPipeline \/ LaunchMore \/ YieldPipeline \/ TakeResult
    BY <1>2, <2>3, StartPipelineEffect, FinishPipelineEffect, LaunchMoreEffect,
       YieldPipelineEffect, TakeResultTyped
  <2>4. CASE \/ CommitTxnFails \/ FinishCommit \/ FinishCommitLockFails \/ StartRollback
             \/ RollbackTxn \/ RollbackTxnFails \/ FinishRollback
             \/ FinishFullSync \/ FinishPartialSync
    BY <1>2, <2>4, CommitTxnFailsEffect, FinishCommitEffect, StartRollbackEffect,
       RollbackTxnEffect, FinishRollbackEffect, SnapshotEffect DEF RollbackTxnFails, Goto
  <2> QED
    BY <1>1, <1>4, <2>1, <2>2, <2>3, <2>4 DEF JobStep, JobAction
<1>5. CASE WorkerStep
  BY <1>2, <1>3, <1>5, WorkerTyped
<1>6. CASE Environment
  <2>1. CASE Crash
    BY <1>2, <2>1 DEF Crash, Goto
  <2>2. CASE ~Crash
    <3>1. pc' = pc /\ prog' = prog
      BY <1>6, <2>2, EnvironmentEffect DEF Environment
    <3> QED
      BY <1>2, <1>3, <3>1
  <2> QED
    BY <2>1, <2>2
<1>7. CASE UNCHANGED vars
  BY <1>2, <1>3, <1>7 DEF vars
<1> QED
  BY <1>4, <1>5, <1>6, <1>7 DEF Next
-----------------------------------------------------------------------------
\* The faults that make the job forget the txns it has recorded: an error of category Meta
\* replaces the list by a new snapshot, a table that is gone rolls the progress back.
ForgettingFaults == {"meta", "tableGone"}

Open(i) == txns[i].recorded /\ txns[i].status = "PREPARE"
Stored == prog.persistData.running

\* Every open txn is in the list R.
OpenListed(R) == \A i \in 1..M : Open(i) => \E k \in 1..Len(R) : R[k].txnId = i

NoMetaResult == pipe # Nil =>
    /\ \A w \in pipe.workers : w.result # "meta"
    /\ \A j \in 1..Len(pipe.commitCh) : pipe.commitCh[j].err # "meta"

Resolved ==
    /\ NoMetaResult
    /\ OpenListed(Stored)
    /\ Sub \in {"Done", "BeginCreateSnapshot"} => Stored = <<>>
    /\ (Live \/ Sub = "RollbackPipeline") /\ Data # Nil => Stored = Running
    /\ Stored # <<>> => disk.subSyncState # "Done"
    /\ pc = "rollback" => \A k \in 1..cursor : txns[Running[k].txnId].status # "PREPARE"

\* A step that adds no result keeps the context free of meta errors.
LEMMA NoMetaKept ==
    ASSUME Shape, NoMetaResult,
           \/ pipe' = Nil \/ pipe' = InitializedContext
           \/ pipe # Nil /\ SameLinks(pipe, pipe')
    PROVE  NoMetaResult'
<1>1. CASE pipe' = Nil
  BY <1>1 DEF NoMetaResult
<1>2. CASE pipe # Nil /\ SameLinks(pipe, pipe')
  BY <1>2 DEF NoMetaResult, SameLinks
<1>3. CASE pipe' = InitializedContext
  <2>1. CASE pipe = Nil
    <3>1. pipe' = NewContext(prog.commitSeq)
      BY <1>3, <2>1 DEF InitializedContext
    <3>2. pipe'.workers = {} /\ pipe'.commitCh = <<>>
      BY <3>1 DEF NewContext
    <3> QED
      BY <3>2 DEF NoMetaResult
  <2>2. CASE pipe # Nil
    BY <1>2, <1>3, <2>2, InitializedTyped DEF SameLinks
  <2> QED
    BY <2>1, <2>2
<1> QED
  BY <1>1, <1>2, <1>3

\* No txn becomes open but one that the list gets.
NoneOpened ==
    /\ Settles
    /\ \A i \in 1..Len(txns') : Open(i)' => i \in 1..M /\ Open(i)

\* A step that changes no txn opens none.
LEMMA SameTxnsOpen ==
    ASSUME Shape, txns' = txns
    PROVE  NoneOpened
BY SameTxnsSettle DEF NoneOpened, Open, M

\* A txn just begun is not recorded yet, so it is not open.
LEMMA NewTxnOpen ==
    ASSUME Shape, Len(txns) < MaxTxn, txns' = NewTxn
    PROVE  NoneOpened
<1>1. /\ Settles /\ Len(txns') = M + 1 /\ ~txns'[M + 1].recorded
      /\ \A i \in 1..M : txns'[i] = txns[i]
  BY NewTxnSettles
<1>2. M \in Nat
  BY ShapeFacts
<1>3. ASSUME NEW i \in 1..Len(txns'), Open(i)'
      PROVE  i \in 1..M /\ Open(i)
  <2>1. i # M + 1
    BY <1>1, <1>3 DEF Open
  <2>2. i \in 1..M
    BY <1>1, <1>2, <2>1
  <2> QED
    BY <1>1, <1>3, <2>2 DEF Open
<1> QED
  BY <1>1, <1>3 DEF NoneOpened

\* Neither a commit nor an abort opens a txn.
LEMMA StatusOpen ==
    ASSUME Shape, NEW i \in 1..M, NEW s \in {"COMMITTED", "ABORTED"},
           txns' = [txns EXCEPT ![i].status = s],
           s = "ABORTED" => txns[i].status # "COMMITTED"
    PROVE  NoneOpened
<1>1. /\ Settles /\ Len(txns') = M /\ txns'[i].status = s
      /\ \A k \in 1..M : k # i => txns'[k] = txns[k]
  BY StatusSettles
<1>2. ASSUME NEW k \in 1..Len(txns'), Open(k)'
      PROVE  k \in 1..M /\ Open(k)
  BY <1>1, <1>2 DEF Open
<1> QED
  BY <1>1, <1>2 DEF NoneOpened

\* The stored list stays.
LEMMA SameListResolved ==
    ASSUME Shape, Resolved, NoneOpened, NoMetaResult', prog'.persistData.running = Stored,
           Sub' \in {"Done", "BeginCreateSnapshot"} => Stored = <<>>,
           (Live' \/ Sub' = "RollbackPipeline") /\ Data' # Nil => Data'.running = Stored,
           Stored = <<>> \/ disk'.subSyncState # "Done",
           pc' # "rollback"
    PROVE  Resolved'
<1>1. Stored' = Stored
  BY DEF Stored
<1>2. OpenListed(Stored)'
  BY <1>1 DEF Resolved, OpenListed, NoneOpened, M
<1> QED
  BY <1>1, <1>2 DEF Resolved, Running

\* The stored list is empty, and no txn is open.
LEMMA NoListResolved ==
    ASSUME Shape, Resolved, NoneOpened, NoMetaResult', prog'.persistData.running = <<>>,
           OpenListed(<<>>),
           (Live' \/ Sub' = "RollbackPipeline") /\ Data' # Nil => Data'.running = <<>>,
           pc' # "rollback"
    PROVE  Resolved'
<1>1. Stored' = <<>>
  BY DEF Stored
<1>2. OpenListed(Stored)'
  BY <1>1 DEF OpenListed, NoneOpened, M
<1> QED
  BY <1>1, <1>2 DEF Resolved, Running

\* The empty data lists no txn.
LEMMA EmptyRuns ==
    EmptyData.running = <<>>
BY DEF EmptyData

\* The entry of sync, or its exit on an interrupt, keeps the open txns among the stored ones.
LEMMA EnterResolved ==
    ASSUME Shape, Resolved, EnterSync \/ LeaveOnInterrupt \/ ConsumeInterruptSignals
    PROVE  Resolved'
<1>1. CASE EnterSync
  <2>1. NoneOpened /\ pc' # "rollback"
    BY <1>1, EnterSyncEffect, SameTxnsOpen DEF destVars
  <2>2. CASE prog' = prog /\ disk' = disk /\ (pipe = Nil => pipe' = Nil)
             /\ (pipe # Nil => /\ pipe'.link = pipe.link /\ pipe'.tokens = pipe.tokens
                               /\ pipe'.workers = pipe.workers
                               /\ pipe'.commitCh = pipe.commitCh)
    <3>1. NoMetaResult'
      BY <2>2, NoMetaKept DEF Resolved, SameLinks
    <3>2. Sub' = Sub /\ Data' = Data /\ Live' = Live
      BY <2>2 DEF Sub, Data, Live
    <3> QED
      BY <2>1, <2>2, <3>1, <3>2, SameListResolved DEF Resolved, Stored, Running
  <2>3. CASE /\ pipe = Nil /\ pipe' = Nil /\ Sub # "Done" /\ Sub' = "RollbackPipeline"
             /\ Data' = LoadedData /\ LoadedData \in DataAt(N, M)
             /\ \/ /\ Sub = "RollbackPipeline" /\ disk' = disk
                   /\ prog'.persistData = prog.persistData
                \/ /\ Sub # "RollbackPipeline" /\ KeepsSync(prog, disk')
                   /\ prog'.persistData = LoadedData
                   /\ disk'.subSyncState = "RollbackPipeline"
    <3>1. Sub # "BeginCreateSnapshot"
      BY <1>1, EnterSyncEffect DEF Snapshotting
    <3>2. Live \/ Sub = "RollbackPipeline"
      BY <2>3, <3>1, ShapeFacts DEF ProgressAt, SubSyncStates, Sub, Live, LiveStates
    <3>3. LoadedData.running = Stored
      BY <3>2 DEF LoadedData, Resolved, Stored, Running, Data
    <3>4. NoMetaResult'
      BY <2>3 DEF NoMetaResult
    <3>5. prog'.persistData.running = Stored
      BY <2>3, <3>3 DEF Stored
    <3>6. Stored = <<>> \/ disk'.subSyncState # "Done"
      BY <2>3 DEF Resolved
    <3> QED
      BY <2>1, <2>3, <3>3, <3>4, <3>5, <3>6, SameListResolved
  <2> QED
    BY <1>1, <2>2, <2>3, EnterSyncEffect
<1>2. CASE LeaveOnInterrupt \/ ConsumeInterruptSignals
  <2>1. /\ prog' = prog /\ pipe' = pipe /\ disk' = disk /\ txns' = txns /\ pc' # "rollback"
    BY <1>2 DEF LeaveOnInterrupt, ConsumeInterruptSignals, destVars, Goto
  <2>2. Sub' = Sub /\ Data' = Data /\ Live' = Live /\ NoneOpened
    BY <2>1, SameTxnsOpen DEF Sub, Data, Live
  <2>3. NoMetaResult'
    BY <2>1 DEF NoMetaResult, Resolved
  <2> QED
    BY <2>1, <2>2, <2>3, SameListResolved DEF Resolved, Stored, Running
<1> QED
  BY <1>1, <1>2

\* Nothing is listed at Done.
LEMMA DoneResolved ==
    ASSUME Shape, Resolved, Sub \in {"Done", "BeginCreateSnapshot"}, txns' = txns,
           NoMetaResult',
           prog'.persistData = prog.persistData \/ prog'.persistData = EmptyData,
           Data' = EmptyData \/ Sub' \in {"Done", "BeginCreateSnapshot"}, pc' # "rollback"
    PROVE  Resolved'
<1>1. Stored = <<>> /\ OpenListed(<<>>)
  BY DEF Resolved
<1>2. prog'.persistData.running = <<>>
  BY <1>1, EmptyRuns DEF Stored
<1>3. (Live' \/ Sub' = "RollbackPipeline") => Data'.running = <<>>
  BY EmptyRuns DEF Live, LiveStates
<1> QED
  BY <1>1, <1>2, <1>3, SameTxnsOpen, NoListResolved

\* A step at Done keeps the open txns among the stored ones.
LEMMA AtDoneResolved ==
    ASSUME Shape, Resolved,
           \/ StartPartialSnapshot \/ RecoverIncrementalSync \/ SkipByFullSync
           \/ SkipByPartialSync \/ StartPipeline \/ HandleBinlog
    PROVE  Resolved'
<1>1. CASE StartPartialSnapshot \/ RecoverIncrementalSync \/ SkipByFullSync \/ SkipByPartialSync
  <2>1. /\ Sub = "Done" /\ txns' = txns /\ pipe' = Nil /\ pc' = "idle"
        /\ \/ AsksFor(prog, prog', "DBPartialSync") \/ AsksFor(prog, prog', "DBFullSync")
           \/ RollsBack(prog, prog')
    BY <1>1, LeaveDoneEffect DEF destVars
  <2>2. /\ prog'.persistData = prog.persistData \/ prog'.persistData = EmptyData
        /\ prog'.subSyncState \in {"Done", "BeginCreateSnapshot"}
    BY <2>1 DEF AsksFor, RollsBack
  <2>3. Sub' \in {"Done", "BeginCreateSnapshot"}
    BY <2>2 DEF Sub
  <2>4. NoMetaResult'
    BY <2>1 DEF NoMetaResult
  <2> QED
    BY <2>1, <2>2, <2>3, <2>4, DoneResolved
<1>2. CASE StartPipeline
  <2>1. /\ Sub = "Done" /\ txns' = txns /\ pc' = "loop" /\ pipe' = InitializedContext
        /\ Data' = EmptyData /\ prog'.persistData = prog.persistData
    BY <1>2, StartPipelineEffect DEF destVars
  <2>2. NoMetaResult'
    BY <2>1, NoMetaKept DEF Resolved
  <2> QED
    BY <2>1, <2>2, DoneResolved
<1>3. CASE HandleBinlog
  <2>1. /\ Sub = "Done" /\ Sub' = "Done" /\ txns' = txns /\ pipe' = InitializedContext
        /\ pc' # "rollback" /\ prog'.persistData = prog.persistData
    BY <1>3, HandleBinlogEffect DEF destVars, IsSilenced
  <2>2. NoMetaResult'
    BY <2>1, NoMetaKept DEF Resolved
  <2> QED
    BY <2>1, <2>2, DoneResolved
<1> QED
  BY <1>1, <1>2, <1>3

\* The handlers of a DDL keep the open txns among the stored ones.
LEMMA HandleResolved ==
    ASSUME Shape, Resolved,
           \/ HandleCommittedBinlog \/ ExecuteDDL \/ ExecuteDDLLosesReply \/ HandleBinlogFails
           \/ HandleBySnapshot \/ FinishBinlog \/ FinishBinlogLockFails
    PROVE  Resolved'
<1>1. /\ pc \in {"handling", "handled"} /\ txns' = txns /\ pc' # "rollback"
      /\ prog'.persistData = prog.persistData \/ prog'.persistData = EmptyData
      /\ Sub' \in {Sub, "Done", "BeginCreateSnapshot"}
      /\ pipe' = pipe \/ pipe' = Nil \/ SameLinks(pipe, pipe')
  <2>1. CASE HandleCommittedBinlog \/ ExecuteDDL \/ ExecuteDDLLosesReply
    BY <2>1, ExecuteEffect
  <2>2. CASE HandleBinlogFails
    <3>1. /\ pc = "handling" /\ pc' = "idle" /\ txns' = txns /\ pipe' = pipe
          /\ prog' = prog \/ AsksFor(prog, prog', "DBFullSync")
      BY <2>2, HandleBinlogFailsEffect DEF destVars
    <3>2. /\ prog'.persistData = prog.persistData \/ prog'.persistData = EmptyData
          /\ Sub' \in {Sub, "BeginCreateSnapshot"}
      BY <3>1 DEF AsksFor, Sub
    <3> QED
      BY <3>1, <3>2
  <2>3. CASE HandleBySnapshot
    <3>1. /\ pc = "handling" /\ pc' = "idle" /\ txns' = txns /\ pipe' = Nil
          /\ AsksFor(prog, prog', "DBPartialSync") \/ AsksFor(prog, prog', "DBFullSync")
      BY <2>3, HandleBySnapshotEffect DEF destVars
    <3>2. prog'.persistData = EmptyData /\ Sub' = "BeginCreateSnapshot"
      BY <3>1 DEF AsksFor, Sub
    <3> QED
      BY <3>1, <3>2
  <2>4. CASE FinishBinlog \/ FinishBinlogLockFails
    BY <2>4, FinishBinlogEffect DEF destVars, SameLinks
  <2> QED
    BY <2>1, <2>2, <2>3, <2>4
<1>2. Sub = "Done" /\ pipe # Nil
  BY <1>1, HandlingFacts
<1>3. SameLinks(pipe, pipe)
  BY DEF SameLinks
<1>4. NoMetaResult'
  BY <1>1, <1>2, <1>3, NoMetaKept DEF Resolved
<1> QED
  BY <1>1, <1>2, <1>4, DoneResolved
-----------------------------------------------------------------------------
\* The steps of a running pipeline that leave the list alone.
LEMMA FetchResolved ==
    ASSUME Shape, Resolved, FaultKinds \cap ForgettingFaults = {},
           \/ GetNextBinlogs \/ NoMoreBinlogs \/ GetNextBinlogsFails \/ PanicOnStaleContext
           \/ NothingToLaunch \/ SkipUpsert \/ BeginTxn \/ BeginTxnFails
    PROVE  Resolved'
<1>1. /\ Sub = "LaunchTransaction" /\ pc # "idle" /\ pc' # "rollback" /\ NoneOpened
      /\ prog'.persistData = prog.persistData /\ Data' = Data
      /\ Sub' \in {"LaunchTransaction", "CommitPipeline"}
      /\ disk'.subSyncState = disk.subSyncState \/ disk'.subSyncState # "Done"
      /\ pipe' = Nil \/ SameLinks(pipe, pipe')
  <2>1. CASE GetNextBinlogs
    <3>1. /\ pc = "loop" /\ Sub = "LaunchTransaction" /\ prog' = prog /\ disk' = disk
          /\ pc' = "fetched" /\ txns' = txns
          /\ LET from == Max({pipe.next, gc})
             IN pipe' = [pipe EXCEPT !.pos = from, !.next = Min({from + BatchSize, Len(log)})]
      BY <2>1 DEF GetNextBinlogs, NeedsBinlogs, AtLoop, Sub, Goto, destVars
    <3>2. pipe # Nil /\ pipe \in ContextsAt(N, M)
      BY <3>1, LiveFacts DEF Live, LiveStates
    <3>3. SameLinks(pipe, pipe')
      BY <3>1, <3>2 DEF ContextsAt, SameLinks
    <3> QED
      BY <3>1, <3>3, SameTxnsOpen DEF Sub, Data
  <2>2. CASE NoMoreBinlogs
    <3>1. /\ pc = "loop" /\ Sub = "LaunchTransaction" /\ pc' = "fetched" /\ pipe' = pipe
          /\ txns' = txns
          /\ (prog' = prog /\ disk' = disk) \/ Persist(NoPrevTxn)
      BY <2>2 DEF NoMoreBinlogs, NeedsBinlogs, AtLoop, Sub, Goto, destVars
    <3>2. Sub' = Sub /\ Data' = Data /\ prog'.persistData = prog.persistData
      BY <2>2, NoMoreBinlogsEffect
    <3>3. ASSUME Persist(NoPrevTxn)
          PROVE  disk'.subSyncState # "Done"
      <4>1. PICK p : p = NoPrevTxn
        OBVIOUS
      <4>2. p \in ProgressAt(N, M) /\ p.subSyncState = Sub
        BY <4>1, NoPrevTxnEffect
      <4>3. disk' = Persisted(p)
        BY <3>3, <4>1 DEF Persist
      <4> QED
        BY <3>1, <4>2, <4>3, ShapeFacts, PersistedTyped
    <3> QED
      BY <3>1, <3>2, <3>3, SameTxnsOpen DEF SameLinks
  <2>3. CASE GetNextBinlogsFails \/ PanicOnStaleContext
    BY <2>3, SameTxnsOpen
       DEF GetNextBinlogsFails, PanicOnStaleContext, NeedsBinlogs, AtLoop, Sub, Data, Goto,
           destVars, SameLinks
  <2>4. CASE NothingToLaunch \/ SkipUpsert
    BY <2>4, SkippedEffect, SameTxnsOpen DEF SameLinks, destVars
  <2>5. CASE BeginTxn
    <3>1. /\ MayLaunch /\ Len(txns) < MaxTxn /\ txns' = NewTxn /\ pc' = "begun"
          /\ prog' = prog /\ disk' = disk /\ pipe' = pipe
      BY <2>5 DEF BeginTxn, NeedsTxn, Goto
    <3>2. Sub' = Sub /\ Data' = Data /\ SameLinks(pipe, pipe')
      BY <3>1 DEF Sub, Data, SameLinks
    <3> QED
      BY <3>1, <3>2, LaunchFacts, NewTxnOpen
  <2>6. CASE BeginTxnFails
    <3>1. /\ pipe' = Nil /\ pc' = "idle" /\ Sub = "LaunchTransaction" /\ pc # "idle"
          /\ prog' = prog /\ disk' = disk
      BY <2>6, BeginTxnFailsEffect DEF ForgettingFaults
    <3>2. NoneOpened
      BY <2>6, NewTxnOpen, SameTxnsOpen DEF BeginTxnFails
    <3> QED
      BY <3>1, <3>2 DEF Sub, Data
  <2> QED
    BY <2>1, <2>2, <2>3, <2>4, <2>5, <2>6
<1>2. pipe # Nil /\ Data # Nil
  BY <1>1, LiveFacts DEF Live, LiveStates
<1>3. Stored = Running /\ (Stored = <<>> \/ disk'.subSyncState # "Done")
  BY <1>1, <1>2 DEF Resolved, Live, LiveStates
<1>4. NoMetaResult'
  BY <1>1, <1>2, NoMetaKept DEF Resolved
<1>5. prog'.persistData.running = Stored /\ Data'.running = Stored
  BY <1>1, <1>3 DEF Stored, Running
<1> QED
  BY <1>1, <1>3, <1>4, <1>5, SameListResolved

\* The txn is recorded at the target and listed in the same step.
LEMMA LaunchResolved ==
    ASSUME Shape, Resolved, FaultKinds \cap ForgettingFaults = {},
           LaunchIngestJob \/ LaunchTriggersPartialSnapshot \/ LaunchIngestJobFails
    PROVE  Resolved'
<1>1. PICK ctx \in TxnsAt(N, M) :
         /\ pc = "begun" /\ pc' # "rollback" /\ Sub = "LaunchTransaction" /\ Recorded
         /\ ctx.txnId = M /\ Data'.running = Append(Running, ctx) /\ prog'.persistData = Data'
         /\ Sub' \in LiveStates /\ disk'.subSyncState = "LaunchTransaction"
  <2>1. CASE LaunchIngestJob \/ LaunchTriggersPartialSnapshot
    <3>1. PICK ctx \in TxnsAt(N, M) :
             /\ pc = "begun" /\ pc' = "loop" /\ Sub = "LaunchTransaction" /\ Recorded
             /\ ctx.txnId = M /\ Data'.running = Append(Running, ctx)
             /\ prog'.persistData = Data'
             /\ Sub' = "CommitPipeline" /\ disk'.subSyncState = "LaunchTransaction"
      BY <2>1, LaunchEffect
    <3> QED
      BY <3>1 DEF LiveStates
  <2>2. CASE LaunchIngestJobFails
    <3>1. PICK ctx \in TxnsAt(N, M) :
             /\ pc = "begun" /\ pc' = "idle" /\ Sub = "LaunchTransaction" /\ Recorded
             /\ ctx.txnId = M /\ Data'.running = Append(Running, ctx)
             /\ prog'.persistData = Data'
             /\ Sub' = "LaunchTransaction" /\ disk'.subSyncState = "LaunchTransaction"
      BY <2>2, LaunchFailsEffect DEF ForgettingFaults
    <3> QED
      BY <3>1 DEF LiveStates
  <2> QED
    BY <2>1, <2>2
<1>2. /\ pipe # Nil /\ pipe \in ContextsAt(N, M) /\ Data # Nil
      /\ Running \in Seq(TxnsAt(N, M)) /\ M \in Nat
  BY <1>1, LiveFacts, ShapeFacts DEF Live, LiveStates
<1>3. Stored = Running
  BY <1>1, <1>2 DEF Resolved, Live, LiveStates
<1>4. Stored' = Append(Running, ctx) /\ Running' = Append(Running, ctx)
  BY <1>1 DEF Stored, Running
<1>5. /\ Settles /\ Len(txns') = M /\ \A i \in 1..M : i # M => txns'[i] = txns[i]
  BY <1>1, RecordedSettles
<1>6. PICK R \in Seq(TxnsAt(N, M)) : R = Running
  BY <1>2
<1>7. PICK S : S = Append(R, ctx)
  OBVIOUS
<1>8. /\ Len(S) = Len(R) + 1 /\ S[Len(R) + 1] = ctx /\ \A k \in 1..Len(R) : S[k] = R[k]
      /\ Len(R) \in Nat
  BY <1>6, <1>7
<1>9. ASSUME NEW i \in 1..M, Open(i)'
      PROVE  \E k \in 1..Len(S) : S[k].txnId = i
  <2>1. CASE i = M
    BY <1>1, <1>8, <2>1
  <2>2. CASE i # M
    <3>1. Open(i)
      BY <1>5, <1>9, <2>2 DEF Open
    <3>2. PICK k \in 1..Len(R) : R[k].txnId = i
      BY <1>3, <1>6, <3>1 DEF Resolved, OpenListed
    <3>3. k \in 1..Len(S) /\ S[k] = R[k]
      BY <1>8
    <3> QED
      BY <3>2, <3>3
  <2> QED
    BY <2>1, <2>2
<1>10. OpenListed(Stored)'
  BY <1>4, <1>5, <1>6, <1>7, <1>9 DEF OpenListed, M
<1>11. NoMetaResult'
  <2>1. CASE LaunchIngestJobFails
    BY <2>1, LaunchFailsEffect DEF NoMetaResult
  <2>2. CASE LaunchIngestJob \/ LaunchTriggersPartialSnapshot
    <3>1. PICK c2 \in TxnsAt(N, M) : \E r \in {"running", "partial"} :
             /\ pipe'.commitCh = pipe.commitCh
             /\ pipe'.workers = pipe.workers \cup {[ctx |-> c2, prev |-> pipe.link,
                                                    next |-> pipe.link + 1, result |-> r]}
      BY <2>2, LaunchEffect
    <3>2. PICK r \in {"running", "partial"} :
             /\ pipe'.commitCh = pipe.commitCh
             /\ pipe'.workers = pipe.workers \cup {[ctx |-> c2, prev |-> pipe.link,
                                                    next |-> pipe.link + 1, result |-> r]}
      BY <3>1
    <3>3. PICK x : x = [ctx |-> c2, prev |-> pipe.link, next |-> pipe.link + 1, result |-> r]
      OBVIOUS
    <3>4. x.result # "meta"
      BY <3>2, <3>3
    <3> QED
      BY <1>2, <3>2, <3>3, <3>4 DEF NoMetaResult, Resolved
  <2> QED
    BY <2>1, <2>2
<1>12. /\ Sub' \notin {"Done", "BeginCreateSnapshot", "RollbackPipeline"} /\ Stored' = Running'
       /\ disk'.subSyncState # "Done"
  BY <1>1, <1>4 DEF LiveStates
<1> QED
  BY <1>1, <1>10, <1>11, <1>12 DEF Resolved

\* A worker's step keeps the open txns among the stored ones.
LEMMA WorkerResolved ==
    ASSUME Shape, Resolved, FaultKinds \cap ForgettingFaults = {}, WorkerStep
    PROVE  Resolved'
<1>1. /\ prog' = prog /\ disk' = disk /\ pc' = pc /\ cursor' = cursor /\ txns' = txns
      /\ pipe # Nil /\ pipe \in ContextsAt(N, M) /\ N \in Nat /\ M \in Nat
  BY WorkerTyped, ShapeFacts DEF destVars
<1>2. PICK w \in pipe.workers :
        \/ /\ pipe'.commitCh = pipe.commitCh
           /\ \E r \in {"ok", "error", "meta"} :
                /\ r = "meta" => "meta" \in FaultKinds
                /\ pipe'.workers = (pipe.workers \ {w}) \cup {[w EXCEPT !.result = r]}
        \/ /\ pipe'.workers = pipe.workers \ {w}
           /\ pipe'.commitCh = Append(pipe.commitCh, [ctx |-> w.ctx, err |-> w.result])
  BY WorkerTyped
<1>3. pipe.commitCh \in Seq(ResultsAt(N, M)) /\ w \in WorkersAt(N, M)
  BY <1>1, <1>2, ContextParts
<1>4. /\ \A v \in pipe.workers : v.result # "meta"
      /\ \A j \in 1..Len(pipe.commitCh) : pipe.commitCh[j].err # "meta"
  BY <1>1 DEF Resolved, NoMetaResult
<1>5. CASE /\ pipe'.commitCh = pipe.commitCh
           /\ \E r \in {"ok", "error", "meta"} :
                /\ r = "meta" => "meta" \in FaultKinds
                /\ pipe'.workers = (pipe.workers \ {w}) \cup {[w EXCEPT !.result = r]}
  <2>1. PICK r \in {"ok", "error"} :
           pipe'.workers = (pipe.workers \ {w}) \cup {[w EXCEPT !.result = r]}
    BY <1>5 DEF ForgettingFaults
  <2>2. PICK x : x = [w EXCEPT !.result = r]
    OBVIOUS
  <2>3. x.result # "meta"
    BY <1>3, <2>1, <2>2 DEF WorkersAt
  <2>4. NoMetaResult'
    BY <1>4, <1>5, <2>1, <2>2, <2>3 DEF NoMetaResult
  <2> QED
    BY <1>1, <2>4
       DEF Resolved, OpenListed, Open, Stored, Sub, Live, Data, Running, M
<1>6. CASE /\ pipe'.workers = pipe.workers \ {w}
           /\ pipe'.commitCh = Append(pipe.commitCh, [ctx |-> w.ctx, err |-> w.result])
  <2>1. PICK x : x = [ctx |-> w.ctx, err |-> w.result]
    OBVIOUS
  <2>2. x.err # "meta"
    BY <1>2, <1>4, <2>1
  <2>3. PICK K \in Nat : K = Len(pipe.commitCh)
    BY <1>3
  <2>4. /\ Len(pipe'.commitCh) = K + 1 /\ pipe'.commitCh[K + 1] = x
        /\ \A j \in 1..K : pipe'.commitCh[j] = pipe.commitCh[j]
    BY <1>3, <1>6, <2>1, <2>3
  <2>5. ASSUME NEW j \in 1..K + 1
        PROVE  pipe'.commitCh[j].err # "meta"
    <3>1. CASE j = K + 1
      BY <2>2, <2>4, <3>1
    <3>2. CASE j \in 1..K
      BY <1>4, <2>3, <2>4, <3>2
    <3> QED
      BY <3>1, <3>2
  <2>6. NoMetaResult'
    BY <1>4, <1>6, <2>4, <2>5 DEF NoMetaResult
  <2> QED
    BY <1>1, <2>6
       DEF Resolved, OpenListed, Open, Stored, Sub, Live, Data, Running, M
<1> QED
  BY <1>2, <1>5, <1>6
-----------------------------------------------------------------------------
\* TakeResult keeps the open txns among the stored ones.
LEMMA TakeResultResolved ==
    ASSUME Shape, Resolved, TakeResult
    PROVE  Resolved'
<1>1. PICK r : r = Head(pipe.commitCh)
  OBVIOUS
<1>2. /\ Live /\ pc = "loop" /\ Sub = "CommitPipeline" /\ pipe # Nil /\ pipe.commitCh # <<>>
      /\ txns' = txns /\ pc' # "rollback"
  BY <1>1, TakeResultTyped DEF destVars
<1>3. /\ pipe \in ContextsAt(N, M) /\ Data \in DataAt(N, M) /\ Data # Nil
      /\ pipe.commitCh \in Seq(ResultsAt(N, M))
  BY <1>2, CommitFacts
<1>4. Stored = Running /\ NoneOpened
  BY <1>2, <1>3, SameTxnsOpen DEF Resolved
<1>5. r.err # "meta"
  <2>1. 1 \in 1..Len(pipe.commitCh) /\ r = pipe.commitCh[1]
    BY <1>1, <1>2, <1>3
  <2> QED
    BY <1>2, <2>1 DEF Resolved, NoMetaResult
<1>6. \/ /\ prog' = prog /\ disk' = disk /\ pipe' = Nil
      \/ /\ prog'.persistData.running = Running /\ Data'.running = Running
         /\ Sub' \in {"RollbackPipeline", "CommitPipelineTransaction"}
         /\ disk'.subSyncState # "Done" /\ pipe' = [pipe EXCEPT !.commitCh = Tail(@)]
  <2>1. CASE /\ r.err = "partial" /\ Sub' = "RollbackPipeline"
             /\ prog'.persistData = Data /\ prog'.inMemoryData = Data
             /\ disk'.subSyncState = "RollbackPipeline"
             /\ pipe' = [pipe EXCEPT !.commitCh = Tail(@)]
    BY <2>1 DEF Running, Data
  <2>2. CASE /\ r.err = "ok" /\ Sub' = "CommitPipelineTransaction"
             /\ prog'.persistData = [Data EXCEPT !.commitable = r.ctx]
             /\ prog'.inMemoryData = [Data EXCEPT !.commitable = r.ctx]
             /\ disk'.subSyncState = "CommitPipelineTransaction"
             /\ pipe' = [pipe EXCEPT !.commitCh = Tail(@)]
    <3>1. PICK q : q = [Data EXCEPT !.commitable = r.ctx]
      OBVIOUS
    <3>2. q.running = Data.running
      BY <1>3, <3>1 DEF DataAt
    <3> QED
      BY <2>2, <3>1, <3>2 DEF Running, Data
  <2>3. CASE r.err = "ok" /\ ResetAndFail("error") /\ prog' = prog /\ disk' = disk /\ pipe' = Nil
    BY <2>3
  <2>4. CASE r.err \in {"error", "meta"} /\ ResetAndFail(r.err) /\ pipe' = Nil
    BY <1>5, <2>4, ResetAndFailEffect
  <2> QED
    BY <1>1, <2>1, <2>2, <2>3, <2>4, TakeResultTyped
<1>7. CASE prog' = prog /\ disk' = disk /\ pipe' = Nil
  <2>1. NoMetaResult'
    BY <1>7 DEF NoMetaResult
  <2>2. Sub' = Sub /\ Data' = Data /\ prog'.persistData.running = Stored
    BY <1>7 DEF Sub, Data, Stored
  <2> QED
    BY <1>2, <1>4, <1>7, <2>1, <2>2, SameListResolved DEF Resolved, Running
<1>8. CASE /\ prog'.persistData.running = Running /\ Data'.running = Running
           /\ Sub' \in {"RollbackPipeline", "CommitPipelineTransaction"}
           /\ disk'.subSyncState # "Done" /\ pipe' = [pipe EXCEPT !.commitCh = Tail(@)]
  <2>1. /\ Len(Tail(pipe.commitCh)) = Len(pipe.commitCh) - 1 /\ Len(pipe.commitCh) \in Nat
        /\ \A j \in 1..Len(pipe.commitCh) - 1 : Tail(pipe.commitCh)[j] = pipe.commitCh[j + 1]
    BY <1>2, <1>3
  <2>2. pipe'.workers = pipe.workers /\ pipe'.commitCh = Tail(pipe.commitCh)
    BY <1>3, <1>8 DEF ContextsAt
  <2>3. ASSUME NEW j \in 1..Len(pipe.commitCh) - 1
        PROVE  pipe.commitCh[j + 1].err # "meta"
    <3>1. j + 1 \in 1..Len(pipe.commitCh)
      BY <2>1
    <3> QED
      BY <1>2, <3>1 DEF Resolved, NoMetaResult
  <2>4. NoMetaResult'
    BY <1>2, <2>1, <2>2, <2>3 DEF Resolved, NoMetaResult
  <2> QED
    BY <1>2, <1>4, <1>8, <2>4, SameListResolved
<1> QED
  BY <1>6, <1>7, <1>8

\* A step without a result keeps the open txns among the stored ones.
LEMMA NoResultResolved ==
    ASSUME Shape, Resolved, FinishPipeline \/ LaunchMore \/ YieldPipeline
    PROVE  Resolved'
<1>1. /\ pc = "loop" /\ Sub = "CommitPipeline" /\ pipe' = pipe /\ txns' = txns
      /\ pc' # "rollback" /\ Data' = Data
      /\ \/ disk' = disk /\ Sub' = "LaunchTransaction" /\ prog'.persistData = prog.persistData
         \/ /\ Running = <<>> /\ Sub' \in {"Done", "CommitPipeline"}
            /\ prog'.persistData \in {EmptyData, Data}
  BY FinishPipelineEffect, LaunchMoreEffect, YieldPipelineEffect DEF destVars
<1>2. pipe # Nil /\ Data # Nil
  BY <1>1, CommitFacts DEF Live, LiveStates
<1>3. Stored = Running /\ NoneOpened /\ NoMetaResult'
  BY <1>1, <1>2, SameTxnsOpen DEF Resolved, Live, LiveStates, NoMetaResult
<1>4. CASE disk' = disk /\ Sub' = "LaunchTransaction" /\ prog'.persistData = prog.persistData
  <2>1. prog'.persistData.running = Stored /\ Data'.running = Stored
    BY <1>1, <1>3, <1>4 DEF Stored, Running
  <2> QED
    BY <1>1, <1>3, <1>4, <2>1, SameListResolved DEF Resolved
<1>5. CASE /\ Running = <<>> /\ Sub' \in {"Done", "CommitPipeline"}
           /\ prog'.persistData \in {EmptyData, Data}
  <2>1. prog'.persistData.running = <<>> /\ Data'.running = <<>> /\ OpenListed(<<>>)
    BY <1>1, <1>3, <1>5, EmptyRuns DEF Resolved, Running
  <2> QED
    BY <1>1, <1>3, <2>1, NoListResolved
<1> QED
  BY <1>1, <1>4, <1>5

\* A txn that was committed is no longer open when it leaves the list.
LEMMA CommitResolved ==
    ASSUME Shape, Ordered, CommitTookEffect, Resolved,
           CommitTxn \/ CommitTxnFails \/ FinishCommit \/ FinishCommitLockFails
    PROVE  Resolved'
<1>1. CASE CommitTxn \/ CommitTxnFails
  <2>1. /\ prog' = prog /\ disk' = disk /\ (pipe' = pipe \/ pipe' = Nil)
        /\ Sub = "CommitPipelineTransaction" /\ pc = "loop" /\ pc' # "rollback"
        /\ \/ txns' = txns
           \/ txns' = [txns EXCEPT ![Commitable.txnId].status = "COMMITTED"]
    <3>1. CASE CommitTxn
      BY <3>1 DEF CommitTxn, AtLoop, Sub, Goto
    <3>2. CASE CommitTxnFails
      BY <3>2, CommitTxnFailsEffect DEF destVars
    <3> QED
      BY <1>1, <3>1, <3>2
  <2>2. Live /\ pc # "idle"
    BY <2>1 DEF Live, LiveStates
  <2>3. NoneOpened
    BY <2>1, <2>2, CommitableOpen, StatusOpen, SameTxnsOpen
  <2>4. NoMetaResult'
    BY <2>1 DEF Resolved, NoMetaResult
  <2>5. Sub' = Sub /\ Data' = Data /\ prog'.persistData.running = Stored
    BY <2>1 DEF Sub, Data, Stored
  <2> QED
    BY <2>1, <2>2, <2>3, <2>4, <2>5, SameListResolved DEF Resolved, Running
<1>2. CASE FinishCommit \/ FinishCommitLockFails
  <2>1. /\ pc = "committed" /\ pc' # "rollback" /\ Sub = "CommitPipelineTransaction"
        /\ txns' = txns /\ pipe' = pipe /\ Sub' = "CommitPipeline"
        /\ Running' = Tail(Running) /\ prog'.persistData = Data'
    BY <1>2, FinishCommitEffect DEF destVars
  <2>2. Live /\ pc # "idle"
    BY <2>1 DEF Live, LiveStates
  <2>3. /\ pipe # Nil /\ Running \in Seq(TxnsAt(N, M)) /\ Data # Nil
    BY <2>2, LiveFacts
  <2>4. Running # <<>> /\ Commitable = Head(Running) /\ Stored = Running
    BY <2>1, <2>2, <2>3, ShapeFacts DEF Control, Running, Ordered, Resolved
  <2>5. PICK R \in Seq(TxnsAt(N, M)) : R = Running
    BY <2>3
  <2>6. PICK S : S = Tail(R)
    OBVIOUS
  <2>7. /\ Len(R) \in Nat /\ Len(S) = Len(R) - 1 /\ Head(R) = R[1]
        /\ \A k \in 1..Len(R) - 1 : S[k] = R[k + 1]
    BY <2>4, <2>5, <2>6
  <2>8. ~Open(R[1].txnId)
    BY <2>1, <2>4, <2>5, <2>7 DEF CommitTookEffect, Open
  <2>9. ASSUME NEW i \in 1..M, Open(i)
        PROVE  \E k \in 1..Len(S) : S[k].txnId = i
    <3>1. PICK k \in 1..Len(R) : R[k].txnId = i
      BY <2>4, <2>5, <2>9 DEF Resolved, OpenListed
    <3>2. k # 1
      BY <2>8, <2>9, <3>1
    <3>3. k - 1 \in 1..Len(S) /\ S[k - 1] = R[(k - 1) + 1] /\ (k - 1) + 1 = k
      BY <2>7, <3>1, <3>2
    <3>4. S[k - 1].txnId = i
      BY <3>1, <3>3
    <3> QED
      BY <3>3, <3>4
  <2>10. Stored' = S /\ Running' = S
    BY <2>1, <2>5, <2>6 DEF Stored, Running
  <2>11. OpenListed(Stored)'
    BY <2>1, <2>9, <2>10 DEF OpenListed, Open, M
  <2>12. disk'.subSyncState # "Done"
    <3>1. PICK p : p = CommittedProgress
      OBVIOUS
    <3>2. p \in ProgressAt(N, M) /\ p.subSyncState = "CommitPipeline" /\ N \in Nat /\ M \in Nat
      BY <2>1, <3>1, CommittedTyped, ShapeFacts
    <3>3. \/ disk' = Persisted(p)
          \/ prog' = p /\ disk' = Persisted(p)
      BY <1>2, <3>1 DEF FinishCommit, FinishCommitLockFails, LockBinlog, LockBinlogFails, Persist
    <3> QED
      BY <3>2, <3>3, PersistedTyped
  <2>13. NoMetaResult'
    BY <2>1 DEF Resolved, NoMetaResult
  <2> QED
    BY <2>1, <2>10, <2>11, <2>12, <2>13 DEF Resolved
<1> QED
  BY <1>1, <1>2
-----------------------------------------------------------------------------
\* StartRollback keeps the open txns among the stored ones.
LEMMA StartRollbackResolved ==
    ASSUME Shape, Resolved, StartRollback
    PROVE  Resolved'
<1>1. /\ Sub = "RollbackPipeline" /\ Sub' = "RollbackPipeline" /\ cursor' = 0
      /\ txns' = txns /\ disk' = disk /\ pipe' = pipe
      /\ Data' = LoadedData /\ prog'.persistData = prog.persistData
  BY StartRollbackEffect DEF destVars
<1>2. LoadedData.running = Stored
  BY <1>1 DEF LoadedData, Resolved, Stored, Running, Data
<1>3. NoneOpened /\ Stored' = Stored /\ Running' = Stored
  BY <1>1, <1>2, SameTxnsOpen DEF Stored, Running
<1>4. OpenListed(Stored)' /\ NoMetaResult'
  BY <1>1, <1>3 DEF Resolved, OpenListed, NoneOpened, NoMetaResult, M
<1>5. \A k \in 1..cursor' : txns'[Running'[k].txnId].status # "PREPARE"
  BY <1>1
<1> QED
  BY <1>1, <1>3, <1>4, <1>5 DEF Resolved

\* One txn more is known to be settled.
LEMMA RollbackTxnResolved ==
    ASSUME Shape, Resolved, RollbackTxn
    PROVE  Resolved'
<1>1. /\ pc = "rollback" /\ cursor < Len(Running) /\ cursor' = cursor + 1
      /\ disk' = disk /\ pipe' = pipe /\ Sub' = Sub /\ Data' = Data
      /\ prog'.persistData = prog.persistData
      /\ \/ txns[Running[cursor + 1].txnId].status = "COMMITTED" /\ txns' = txns
         \/ /\ txns[Running[cursor + 1].txnId].status # "COMMITTED"
            /\ txns' = [txns EXCEPT ![Running[cursor + 1].txnId].status = "ABORTED"]
  BY RollbackTxnEffect
<1>2. Sub = "RollbackPipeline"
  BY <1>1, ShapeFacts DEF Control
<1>3. PICK i \in 1..M : i = Running[cursor + 1].txnId
  BY <1>1, RollingTxn
<1>4. NoneOpened /\ txns'[i].status # "PREPARE"
  <2>1. CASE txns[i].status = "COMMITTED" /\ txns' = txns
    BY <2>1, SameTxnsOpen
  <2>2. CASE /\ txns[i].status # "COMMITTED"
             /\ txns' = [txns EXCEPT ![i].status = "ABORTED"]
    BY <2>2, StatusOpen, StatusSettles
  <2> QED
    BY <1>1, <1>3, <2>1, <2>2
<1>5. /\ Running \in Seq(TxnsAt(N, M)) /\ cursor \in Nat
      /\ \A k \in 1..Len(Running) : Running[k].txnId \in 1..M
  <2>1. Running \in Seq(TxnsAt(N, M)) /\ cursor \in Nat
    BY <1>1, RollingTxn DEF Shape, Typed, FlagsTyped
  <2>2. \A k \in 1..Len(Running) : Running[k] \in TxnsAt(N, M)
    BY <2>1
  <2> QED
    BY <2>1, <2>2 DEF TxnsAt
<1>6. Running' = Running /\ Stored' = Stored
  BY <1>1 DEF Running, Stored
<1>7. ASSUME NEW k \in 1..cursor'
      PROVE  txns'[Running'[k].txnId].status # "PREPARE"
  <2>1. CASE k = cursor + 1
    BY <1>3, <1>4, <1>6, <2>1
  <2>2. CASE k # cursor + 1
    <3>1. k \in 1..cursor /\ k \in 1..Len(Running)
      BY <1>1, <1>5, <2>2
    <3>2. txns[Running[k].txnId].status # "PREPARE" /\ Running[k].txnId \in 1..M
      BY <1>1, <1>5, <3>1 DEF Resolved
    <3> QED
      BY <1>4, <1>6, <3>2 DEF NoneOpened, Settles
  <2> QED
    BY <2>1, <2>2
<1>8. OpenListed(Stored)' /\ NoMetaResult'
  BY <1>1, <1>4, <1>6 DEF Resolved, OpenListed, NoneOpened, NoMetaResult, M
<1> QED
  BY <1>1, <1>2, <1>6, <1>7, <1>8 DEF Resolved

\* A rollback keeps the open txns among the stored ones.
LEMMA RollbackResolved ==
    ASSUME Shape, Resolved, StartRollback \/ RollbackTxn \/ RollbackTxnFails \/ FinishRollback
    PROVE  Resolved'
<1>1. CASE RollbackTxnFails
  <2>1. /\ pc' = "idle" /\ prog' = prog /\ disk' = disk /\ pipe' = pipe /\ txns' = txns
    BY <1>1 DEF RollbackTxnFails, Goto, destVars
  <2>2. Sub' = Sub /\ Data' = Data /\ Live' = Live /\ NoneOpened
    BY <2>1, SameTxnsOpen DEF Sub, Data, Live
  <2>3. NoMetaResult'
    BY <2>1 DEF NoMetaResult, Resolved
  <2> QED
    BY <2>1, <2>2, <2>3, SameListResolved DEF Resolved, Stored, Running
<1>2. CASE FinishRollback
  <2>1. /\ pc = "rollback" /\ pc' = "loop" /\ cursor = Len(Running) /\ txns' = txns
        /\ pipe' = pipe /\ Sub = "RollbackPipeline" /\ Sub' = "Done"
        /\ prog'.persistData = EmptyData
    BY <1>2, FinishRollbackEffect DEF destVars
  <2>2. Data # Nil
    BY <2>1, ShapeFacts DEF Control
  <2>3. Stored = Running
    BY <2>1, <2>2 DEF Resolved
  <2>4. OpenListed(<<>>)
    <3>1. ASSUME NEW i \in 1..M
          PROVE  ~Open(i)
      BY <2>1, <2>3 DEF Resolved, OpenListed, Open
    <3> QED
      BY <3>1 DEF OpenListed
  <2>5. NoMetaResult' /\ prog'.persistData.running = <<>> /\ ~Live'
    BY <2>1, EmptyRuns DEF NoMetaResult, Resolved, Live, LiveStates
  <2> QED
    BY <2>1, <2>4, <2>5, SameTxnsOpen, NoListResolved
<1> QED
  BY <1>1, <1>2, StartRollbackResolved, RollbackTxnResolved

\* A finished snapshot sync keeps the open txns among the stored ones.
LEMMA SnapshotResolved ==
    ASSUME Shape, Resolved, FinishFullSync \/ FinishPartialSync
    PROVE  Resolved'
<1>1. /\ pc' = "idle" /\ Sub = "BeginCreateSnapshot" /\ Sub' = "Done" /\ pipe' = pipe
      /\ txns' = txns /\ prog'.persistData = EmptyData
  BY SnapshotEffect DEF Snapshotting
<1>2. NoMetaResult'
  BY <1>1 DEF Resolved, NoMetaResult
<1> QED
  BY <1>1, <1>2, DoneResolved

\* A step of the environment keeps the open txns among the stored ones.
LEMMA EnvironmentResolved ==
    ASSUME Shape, Resolved, Environment \/ UNCHANGED vars
    PROVE  Resolved'
<1>1. CASE Crash
  <2>1. /\ prog' = disk /\ disk' = disk /\ pipe' = Nil /\ pc' = "idle" /\ txns' = txns
    BY <1>1 DEF Crash, Goto, destVars
  <2>2. /\ disk.persistData = prog.persistData /\ disk.inMemoryData = Nil
        /\ disk.subSyncState = "BeginCreateSnapshot" <=> Sub = "BeginCreateSnapshot"
    BY ShapeFacts DEF DiskFollows, Snapshotting
  <2>3. NoneOpened /\ NoMetaResult' /\ Data' = Nil /\ prog'.persistData.running = Stored
    BY <2>1, <2>2, SameTxnsOpen DEF NoMetaResult, Data, Stored
  <2>4. Sub' \in {"Done", "BeginCreateSnapshot"} => Stored = <<>>
    BY <2>1, <2>2 DEF Resolved, Sub
  <2>5. Stored = <<>> \/ disk'.subSyncState # "Done"
    BY <2>1 DEF Resolved
  <2> QED
    BY <2>1, <2>3, <2>4, <2>5, SameListResolved
<1>2. CASE \/ SourceWrites \/ SourceCollects \/ TargetAborts \/ Interrupt \/ SkipBinlog
           \/ UNCHANGED vars
  <2>1. prog' = prog /\ disk' = disk /\ pipe' = pipe /\ pc' = pc /\ cursor' = cursor
    BY <1>2, EnvironmentEffect DEF vars
  <2>2. NoneOpened
    <3>1. CASE TargetAborts
      <4>1. PICK i \in DOMAIN txns :
               /\ txns[i].status = "PREPARE"
               /\ txns' = [txns EXCEPT ![i].status = "ABORTED"]
        BY <3>1 DEF TargetAborts
      <4>2. i \in 1..M
        BY <4>1, ShapeFacts DEF Shape, Typed, TargetTyped, M
      <4> QED
        BY <4>1, <4>2, StatusOpen
    <3>2. CASE txns' = txns
      BY <3>2, SameTxnsOpen
    <3> QED
      BY <1>2, <3>1, <3>2
         DEF SourceWrites, SourceCollects, Interrupt, SkipBinlog, vars, destVars
  <2>3. Stored' = Stored /\ Sub' = Sub /\ Live' = Live /\ Data' = Data /\ Running' = Running
    BY <2>1 DEF Stored, Sub, Live, Data, Running
  <2>4. OpenListed(Stored)' /\ NoMetaResult'
    BY <2>1, <2>2, <2>3 DEF Resolved, OpenListed, NoneOpened, NoMetaResult, M
  <2>5. ASSUME pc = "rollback", NEW k \in 1..cursor
        PROVE  txns'[Running[k].txnId].status # "PREPARE"
    <3>1. Data # Nil /\ Data \in DataAt(N, M) /\ cursor <= Len(Running)
      BY <2>5, ShapeFacts DEF Control, Data
    <3>2. cursor \in Nat /\ Running \in Seq(TxnsAt(N, M))
      BY <3>1 DEF Shape, Typed, FlagsTyped, Running, DataAt
    <3>3. k \in 1..Len(Running)
      BY <3>1, <3>2
    <3>4. Running[k] \in TxnsAt(N, M)
      BY <3>2, <3>3
    <3>5. Running[k].txnId \in 1..M /\ txns[Running[k].txnId].status # "PREPARE"
      BY <2>5, <3>4 DEF TxnsAt, Resolved
    <3> QED
      BY <2>2, <3>5 DEF NoneOpened, Settles
  <2> QED
    BY <2>1, <2>3, <2>4, <2>5 DEF Resolved
<1> QED
  BY <1>1, <1>2 DEF Environment

\* Every step keeps every open txn among the stored ones.
LEMMA NextResolved ==
    ASSUME Shape, Ordered, CommitTookEffect, Resolved, [Next]_vars,
           FaultKinds \cap ForgettingFaults = {}
    PROVE  Resolved'
<1>1. CASE JobStep
  <2>1. JobAction
    BY <1>1 DEF JobStep
  <2> QED
    BY <2>1, EnterResolved, AtDoneResolved, HandleResolved, FetchResolved, LaunchResolved,
       TakeResultResolved, NoResultResolved, CommitResolved, RollbackResolved, SnapshotResolved
       DEF JobAction
<1>2. CASE WorkerStep
  BY <1>2, WorkerResolved
<1> QED
  BY <1>1, <1>2, EnvironmentResolved DEF Next

\* The initial states.
LEMMA InitResolved ==
    ASSUME Init
    PROVE  Ordered /\ CommitTookEffect /\ Resolved
<1>1. Ordered /\ CommitTookEffect
  BY DEF Init, Ordered, CommitTookEffect
<1>2. PICK seqs \in [Tables -> 1..Len(log)] : prog = InitialProgress(seqs)
  BY DEF Init
<1>3. Sub = "Done" /\ prog.persistData = EmptyData /\ prog.inMemoryData = Nil
  BY <1>2 DEF Sub, InitialProgress
<1>4. Stored = <<>> /\ ~Live /\ txns = <<>> /\ pipe = Nil /\ pc = "idle"
  BY <1>3, EmptyRuns DEF Init, Stored, Live, LiveStates
<1>5. OpenListed(Stored)
  BY <1>4 DEF OpenListed, M
<1> QED
  BY <1>1, <1>3, <1>4, <1>5 DEF Resolved, NoMetaResult

\* It implies the property.
LEMMA ResolvedIsResolved ==
    ASSUME Shape, Resolved
    PROVE  RecordedTxnsResolved
<1>1. disk.persistData = prog.persistData /\ Stored \in Seq(TxnsAt(N, M)) /\ DOMAIN txns = 1..M
  BY ShapeFacts DEF DiskFollows, Stored, DataAt, Shape, Typed, TargetTyped, M
<1>2. ASSUME NEW i \in DOMAIN txns, txns[i].recorded, txns[i].status = "PREPARE"
      PROVE  /\ disk.subSyncState # "Done"
             /\ \E k \in DOMAIN disk.persistData.running :
                  disk.persistData.running[k].txnId = i
  <2>1. PICK k \in 1..Len(Stored) : Stored[k].txnId = i
    BY <1>1, <1>2 DEF Resolved, OpenListed, Open
  <2>2. Stored # <<>> /\ k \in DOMAIN Stored
    BY <1>1
  <2> QED
    BY <1>1, <2>1, <2>2 DEF Resolved, Stored
<1> QED
  BY <1>2 DEF RecordedTxnsResolved

\* A txn that the job has recorded is committed, aborted or still on its stored list, in a state
\* from which the list is rolled back: across crashes, lost replies and failed calls, and for
\* every length of the log.  Two faults are left out, those for which the code drops the list.
THEOREM PipelineTxnsResolved ==
    ASSUME FaultKinds \cap ForgettingFaults = {}
    PROVE  Spec => []RecordedTxnsResolved
<1>1. Init => Shape /\ Ordered /\ CommitTookEffect /\ Resolved
  BY InitShape, InitResolved
<1>2. /\ Shape /\ Ordered /\ CommitTookEffect /\ Resolved /\ [Next]_vars
      => Shape' /\ Ordered' /\ CommitTookEffect' /\ Resolved'
  BY NextShape, NextOrder, NextTookEffect, NextResolved
<1>3. Shape /\ Ordered /\ CommitTookEffect /\ Resolved => RecordedTxnsResolved
  BY ResolvedIsResolved
<1> QED
  BY <1>1, <1>2, <1>3, PTL DEF Spec
=============================================================================
