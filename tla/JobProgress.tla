---------------------------- MODULE JobProgress ----------------------------
(***************************************************************************)
(* The progress record of a replication job (pkg/ccr/job_progress.go) and  *)
(* the transitions its methods make.  An operator takes the record and     *)
(* returns the new one; the caller decides whether the result is only      *)
(* assigned in memory (the NextSubVolatile style) or also written to the   *)
(* storage as Persisted(p).                                                *)
(*                                                                         *)
(* TableCommitSeqMap is a total function here: 0 stands for "no entry"     *)
(* (commit seqs start at 1), and the map with no entry is Go's nil map.    *)
(***************************************************************************)
EXTENDS Integers, Sequences

CONSTANTS Tables,       \* the source tables of the replicated database
          MaxSeq,       \* bound: the largest commit seq of the source
          MaxTxn,       \* bound: the number of transactions begun at the target
          Nil           \* Go's nil

ASSUME BoundsAssumption == MaxSeq \in Nat /\ MaxTxn \in Nat

SyncStates == {"DBFullSync", "DBPartialSync", "DBTablesIncrementalSync", "DBIncrementalSync"}

SubSyncStates == {"BeginCreateSnapshot", "Done", "LaunchTransaction", "CommitPipeline",
                  "CommitPipelineTransaction", "RollbackPipeline"}

Seqs == 0..MaxSeq
TxnIds == 1..MaxTxn

\* TxnContext: a transaction of the pipeline and the table records it carries.
TxnContext == [txnId : TxnIds, commitSeq : Seqs, tables : SUBSET Tables]

\* PipelineInMemoryData
PipelineData == [running : Seq(TxnContext), commitable : TxnContext \cup {Nil}]

EmptyData == [running |-> <<>>, commitable |-> Nil]

ASSUME NilAssumption == /\ Nil \notin TxnContext
                        /\ Nil \notin PipelineData
                        /\ Nil \notin Tables

SeqMaps == [Tables -> Seqs]
NoMap == [t \in Tables |-> 0]

Progress == [syncState : SyncStates, subSyncState : SubSyncStates,
             commitSeq : Seqs, prevCommitSeq : Seqs, unknownCommitSeq : Seqs,
             lockedCommitSeq : Seqs, tableCommitSeqMap : SeqMaps,
             prevTxnId : {-1} \cup TxnIds, partialTable : Tables \cup {Nil},
             persistData : PipelineData, inMemoryData : PipelineData \cup {Nil}]
-----------------------------------------------------------------------------
\* What the storage keeps: the fields tagged json:"-" are lost, and
\* NewJobProgressFromJson sets InMemoryData to nil.
Persisted(p) == [p EXCEPT !.inMemoryData = Nil, !.lockedCommitSeq = 0]

NextSubVolatile(p, sub, mem) == [p EXCEPT !.subSyncState = sub, !.inMemoryData = mem]

DoneSubCheckpoint(p, sub, data) ==
    [p EXCEPT !.prevCommitSeq = p.commitSeq, !.subSyncState = sub, !.persistData = data]

NextSubCheckpoint(p, sub, data) == [p EXCEPT !.subSyncState = sub, !.persistData = data]

\* PersistInMemoryData that stores the progress without the running list.
PersistInMemoryDataForgets(p) == p

PersistInMemoryData(p) == [p EXCEPT !.persistData = p.inMemoryData]

NextWithPersist(p, seq, syncState, sub) ==
    [p EXCEPT !.commitSeq = seq,
              !.prevCommitSeq = IF sub = "Done" THEN seq ELSE @,
              !.syncState = syncState,
              !.subSyncState = sub,
              !.persistData = EmptyData,
              !.inMemoryData = Nil]

StartHandle(p, seq) == [p EXCEPT !.commitSeq = seq]

IsDone(p) == p.subSyncState = "Done" /\ p.prevCommitSeq = p.commitSeq

Done(p) == [p EXCEPT !.subSyncState = "Done", !.prevCommitSeq = p.commitSeq]

\* Rollback as it would be if it took CommitSeq for synced.
RollbackForward(p) == [p EXCEPT !.subSyncState = "Done", !.unknownCommitSeq = p.commitSeq,
                                !.prevCommitSeq = p.commitSeq]

Rollback(p) == [p EXCEPT !.subSyncState = "Done",
                         !.unknownCommitSeq = p.commitSeq,
                         !.commitSeq = p.prevCommitSeq]

IsIncrementalSync(p) == p.syncState \in {"DBTablesIncrementalSync", "DBIncrementalSync"}
=============================================================================
