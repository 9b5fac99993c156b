----------------------------- MODULE TableNames -----------------------------
(***************************************************************************)
(* Which target table is the copy of a source table: the handlers of       *)
(* CREATE, DROP, RENAME, REPLACE and RECOVER of pkg/ccr/handle and         *)
(* pkg/ccr/job.go, the TableMapping of the progress, and the snapshots     *)
(* that rebuild it.                                                        *)
(*                                                                         *)
(* The source identifies a table by its id; a SQL statement at the target  *)
(* names it.  A binlog carries the names its tables had when it was        *)
(* written, TableMapping has the target id of a source id, and a snapshot  *)
(* has the names of the moment it was taken.  So the job is right only as  *)
(* long as the three agree, although a snapshot may be ahead of the log,   *)
(* the answer to a statement may be lost and the process may stop between  *)
(* the statement and the row of the progress.                              *)
(*                                                                         *)
(* An upsert is one step here, and a snapshot is taken at one commit seq:  *)
(* IncrementalSync, Pipeline and SnapshotSync have their steps.            *)
(* TableNameMapping is left out: only the full sync that wrote it reads it.*)
(***************************************************************************)
EXTENDS Integers, Sequences, FiniteSets, FiniteSetsExt, Functions

CONSTANTS SourceTables,  \* the ids of the source tables
          Names,         \* the table names
          InitialNames,  \* source table -> its name when the job starts, or Nil
          Kinds,         \* the binlogs the source writes
          FaultKinds,    \* the faults this instance allows
          MaxFaults,     \* bound: how many of them
          MaxSeq,        \* bound: the length of the log
          Nil

ASSUME NamesAssumption ==
    /\ MaxFaults \in Nat /\ MaxSeq \in Nat
    /\ Nil \notin Names /\ Nil \notin SourceTables
    /\ Nil \notin [table : SourceTables, name : Names, replace : BOOLEAN]
    /\ IsFiniteSet(SourceTables) /\ SourceTables \subseteq Nat /\ IsFiniteSet(Names)
    /\ InitialNames \in [SourceTables -> Names \cup {Nil}]
    /\ \A s, t \in SourceTables :
          InitialNames[s] = InitialNames[t] /\ InitialNames[s] # Nil => s = t

VARIABLES log,     \* the binlogs of the source
          names,   \* names[k + 1]: source table -> its name after k binlogs, or Nil
          target,  \* target id -> its name, and the upserts whose rows it has
          prog,    \* j.progress
          disk,    \* the progress row of the storage
          pc,      \* "idle" between two binlogs, "handle" in the handler, "handled" after it
          strayed, \* has a name misled the job since the last full sync?
          budget   \* faults left

nameVars == <<log, names, target, prog, disk, pc, strayed, budget>>

Seqs == 0..MaxSeq
MaxInt64 == MaxSeq + 1

\* Enough ids for the tables of the target and for those a stored mapping still refers to.
TargetIds == 1..(Cardinality(Names) + 2 * Cardinality(SourceTables) + 1)
NoTarget == 0

Binlog == [kind : Kinds, table : SourceTables, name : Names \cup {Nil},
           newTable : SourceTables \cup {Nil}, newName : Names \cup {Nil}, swap : BOOLEAN]

NameMaps == [SourceTables -> Names \cup {Nil}]

Partial == [table : SourceTables, name : Names, replace : BOOLEAN]

Progress == [syncState : {"DBFullSync", "DBPartialSync", "DBTablesIncrementalSync",
                          "DBIncrementalSync"},
             subSyncState : {"Done", "BeginCreateSnapshot", "RestoreSnapshot"},
             commitSeq : Seqs, prevCommitSeq : Seqs, unknownCommitSeq : Seqs,
             tableCommitSeqMap : [SourceTables -> 0..MaxInt64],
             tableMapping : [SourceTables -> TargetIds \cup {NoTarget}],
             partialSyncData : Partial \cup {Nil},
             snapshotSeq : Seqs]

NamesTypeOK ==
    /\ log \in Seq(Binlog) /\ Len(log) <= MaxSeq
    /\ names \in Seq(NameMaps) /\ Len(names) = Len(log) + 1
    /\ DOMAIN target \subseteq TargetIds
    /\ \A d \in DOMAIN target : target[d] \in [name : Names, rows : SUBSET Seqs]
    /\ \A d, e \in DOMAIN target : target[d].name = target[e].name => d = e
    /\ prog \in Progress /\ disk \in Progress
    /\ disk.prevCommitSeq = prog.prevCommitSeq
    /\ pc \in {"idle", "handle", "handled"}
    /\ strayed \in BOOLEAN /\ budget \in 0..MaxFaults
-----------------------------------------------------------------------------
Fault(k) == k \in FaultKinds /\ budget > 0 /\ budget' = budget - 1
NoFault == UNCHANGED budget

(* The source. *)

NameAt(s, k) == names[k + 1][s]
NameNow(s) == NameAt(s, Len(log))
LiveAt(k) == {s \in SourceTables : NameAt(s, k) # Nil}
IsTableDropped(s) == NameNow(s) = Nil
RowsOf(s, k) == {i \in 1..k : log[i].kind = "UPSERT" /\ log[i].table = s}

(* The target. *)

Exists(n) == \E d \in DOMAIN target : target[d].name = n
IdOf(n) == CHOOSE d \in DOMAIN target : target[d].name = n
Without(n) == Restrict(target, {d \in DOMAIN target : target[d].name # n})

\* An id is not used again while anything refers to it.
FreeIds == TargetIds \ (DOMAIN target \cup Range(prog.tableMapping) \cup Range(disk.tableMapping))
FreeId(n) == CHOOSE d \in FreeIds : Cardinality({e \in FreeIds : e < d}) = n

Table(n, rows) == [name |-> n, rows |-> rows]

\* The tables f take the place of those of g that have their ids.
Over(f, g) == [d \in DOMAIN f \cup DOMAIN g |-> IF d \in DOMAIN f THEN f[d] ELSE g[d]]
\* One table takes the place of the one that has its id.
Put(id, table, f) == [d \in DOMAIN f \cup {id} |-> IF d = id THEN table ELSE f[d]]
-----------------------------------------------------------------------------
(* The progress. *)

Persist(p) == prog' = p /\ disk' = p
Volatile(p) == prog' = p /\ UNCHANGED disk

IsDone == prog.subSyncState = "Done" /\ prog.prevCommitSeq = prog.commitSeq
IsIncrementalSync(p) == p.syncState \in {"DBTablesIncrementalSync", "DBIncrementalSync"}

NextWithPersist(p, seq, syncState, sub) ==
    [p EXCEPT !.commitSeq = seq, !.prevCommitSeq = IF sub = "Done" THEN seq ELSE @,
              !.syncState = syncState, !.subSyncState = sub, !.snapshotSeq = 0]

Done(p) == [p EXCEPT !.subSyncState = "Done", !.prevCommitSeq = p.commitSeq]

Rollback(p) == [p EXCEPT !.subSyncState = "Done", !.unknownCommitSeq = p.commitSeq,
                         !.commitSeq = p.prevCommitSeq]

NewSnapshot(seq) ==
    /\ Persist(NextWithPersist([prog EXCEPT !.partialSyncData = Nil], seq,
                               "DBFullSync", "BeginCreateSnapshot"))
    /\ pc' = "idle"

NewPartialSnapshot(s, n, replace) ==
    /\ Persist(NextWithPersist(
           [prog EXCEPT !.partialSyncData = [table |-> s, name |-> n, replace |-> replace]],
           prog.commitSeq, "DBPartialSync", "BeginCreateSnapshot"))
    /\ pc' = "idle"

NoMap == [s \in SourceTables |-> 0]

AfterHandleBinlog(p) ==
    IF p.tableCommitSeqMap # NoMap /\ \A s \in SourceTables : p.tableCommitSeqMap[s] <= p.commitSeq
    THEN [p EXCEPT !.tableCommitSeqMap = NoMap, !.syncState = "DBIncrementalSync"]
    ELSE p
-----------------------------------------------------------------------------
(* A binlog is handled. *)

B == log[prog.commitSeq]

StartHandle ==
    /\ pc = "idle" /\ IsIncrementalSync(prog) /\ IsDone /\ prog.commitSeq < Len(log)
    /\ Persist([prog EXCEPT !.commitSeq = @ + 1])
    /\ pc' = "handle"
    /\ UNCHANGED <<log, names, target, budget>>

\* recoverIncrementalSync
Recover ==
    /\ pc = "idle" /\ IsIncrementalSync(prog) /\ ~IsDone
    /\ Persist(Rollback(prog))
    /\ UNCHANGED <<log, names, target, pc, budget>>

IsUnknown == prog.unknownCommitSeq = prog.commitSeq

IsSynced(s) ==
    prog.syncState = "DBTablesIncrementalSync" /\ prog.commitSeq <= prog.tableCommitSeqMap[s]

\* determineBinlogState of a RENAME_TABLE: is there a table of the new name?
IsRenameTableCommitted == B.kind = "RENAME_TABLE" /\ IsUnknown /\ Exists(B.newName)

\* ... of a REPLACE_TABLE: nobody knows.
IsReplaceUnknown == B.kind = "REPLACE_TABLE" /\ IsUnknown

Handles(kind) ==
    /\ pc = "handle" /\ B.kind = kind
    /\ ~IsRenameTableCommitted /\ ~IsReplaceUnknown /\ ~IsSynced(B.table)

Handled == pc' = "handled"
Fails == pc' = "idle"

\* The handler returns, or its last answer is lost and it fails.
HandledOrLost(p) ==
    \/ Volatile(p) /\ Handled /\ NoFault
    \/ Fault("lostReply") /\ UNCHANGED <<prog, disk>> /\ Fails

SkipBinlog ==
    /\ pc = "handle" /\ ~IsReplaceUnknown
    /\ IsRenameTableCommitted \/ IsSynced(B.table)
    /\ Handled
    /\ UNCHANGED <<log, names, target, prog, disk, budget>>

SnapshotUnknownReplace ==
    /\ pc = "handle" /\ IsReplaceUnknown
    /\ NewSnapshot(prog.unknownCommitSeq)
    /\ UNCHANGED <<log, names, target, budget>>

HandleFails ==
    /\ pc = "handle" /\ Fault("rpc") /\ Fails
    /\ UNCHANGED <<log, names, target, prog, disk>>

\* GetDestTableIdBySrc: the mapping, else the table that has the *current* name of the source
\* table; NoTarget if the source has dropped it.
IsMapped(s) == prog.tableMapping[s] # NoTarget
CanMap(s) == IsMapped(s) \/ IsTableDropped(s) \/ Exists(NameNow(s))
DestTableId(s) ==
    IF IsMapped(s) THEN prog.tableMapping[s]
    ELSE IF IsTableDropped(s) THEN NoTarget ELSE IdOf(NameNow(s))

Mapped(s, d) == [prog EXCEPT !.tableMapping[s] = d]
Unmapped(s) == Mapped(s, NoTarget)

\* A table the source has dropped is skipped by the ingest.
HandleUpsert ==
    /\ Handles("UPSERT") /\ CanMap(B.table)
    /\ LET d == DestTableId(B.table)
       IN \/ /\ d = NoTarget
             /\ Handled /\ UNCHANGED <<target, prog, disk>>
          \/ /\ d \in DOMAIN target
             /\ target' = IF IsTableDropped(B.table) THEN target
                          ELSE [target EXCEPT ![d].rows = @ \cup {prog.commitSeq}]
             /\ Persist(Done(Mapped(B.table, d)))
             /\ Handled
          \/ /\ d \notin DOMAIN target \cup {NoTarget}  \* table not found: the mapping is stale
             /\ LET p == Rollback(prog)
                IN disk' = p /\ prog' = [p EXCEPT !.tableMapping[B.table] = NoTarget]
             /\ Fails /\ UNCHANGED target
    /\ UNCHANGED <<log, names, budget>>

\* handle/create_table.go
CreateTable ==
    /\ Handles("CREATE_TABLE") /\ ~Exists(B.name)
    /\ target' = Put(FreeId(0), Table(B.name, {}), target)
    /\ HandledOrLost(Mapped(B.table, FreeId(0)))
    /\ UNCHANGED <<log, names>>

\* The table of that name is taken for the new one.
CreateExistingTableMaps ==
    /\ Handles("CREATE_TABLE") /\ Exists(B.name)
    /\ Volatile(Mapped(B.table, IdOf(B.name))) /\ Handled
    /\ UNCHANGED <<log, names, target, budget>>

CreateExistingTable ==
    /\ Handles("CREATE_TABLE") /\ Exists(B.name)
    /\ NewPartialSnapshot(B.table, B.name, TRUE)
    /\ UNCHANGED <<log, names, target, budget>>

\* handle/drop_table.go
DropTable ==
    /\ Handles("DROP_TABLE") /\ IsMapped(B.table)
    /\ target' = Without(B.name)
    /\ HandledOrLost(Unmapped(B.table))
    /\ UNCHANGED <<log, names>>

DropUnknownTable ==
    /\ Handles("DROP_TABLE") /\ ~IsMapped(B.table)
    /\ Volatile([prog EXCEPT !.tableCommitSeqMap[B.table] = 0])
    /\ Handled
    /\ UNCHANGED <<log, names, target, budget>>

\* handleRenameTable: the statement has the old name of the binlog.
CanRename ==
    /\ CanMap(B.table) /\ DestTableId(B.table) \in DOMAIN target
    /\ Exists(B.name) /\ ~Exists(B.newName)

RenameTable ==
    /\ Handles("RENAME_TABLE") /\ CanRename
    /\ target' = [target EXCEPT ![IdOf(B.name)].name = B.newName]
    /\ HandledOrLost(Mapped(B.table, DestTableId(B.table)))
    /\ UNCHANGED <<log, names>>

\* handle/replace_table.go.  A table that is already synced: the origin table was filtered by
\* the generic handler before.
ReplaceSkipped ==
    /\ Handles("REPLACE_TABLE") /\ IsSynced(B.newTable) /\ ~B.swap
    /\ Handled
    /\ UNCHANGED <<log, names, target, prog, disk, budget>>

ReplaceBySnapshot ==
    /\ Handles("REPLACE_TABLE") /\ IsSynced(B.newTable) /\ B.swap
    /\ NewPartialSnapshot(B.table, B.newName, FALSE)
    /\ UNCHANGED <<log, names, target, budget>>

CanReplace == Exists(B.name) /\ Exists(B.newName)

Swapped == [target EXCEPT ![IdOf(B.name)].name = B.newName, ![IdOf(B.newName)].name = B.name]
Replaced == [Without(B.name) EXCEPT ![IdOf(B.newName)].name = B.name]

SwappedMapping == [prog EXCEPT !.tableMapping[B.table] = prog.tableMapping[B.newTable],
                               !.tableMapping[B.newTable] = prog.tableMapping[B.table]]

\* A swap of the names that swaps the ids as well.
ReplaceTableSwapsMapping ==
    /\ Handles("REPLACE_TABLE") /\ ~IsSynced(B.newTable) /\ CanReplace
    /\ IF B.swap THEN target' = Swapped /\ HandledOrLost(SwappedMapping)
                 ELSE target' = Replaced /\ HandledOrLost(Unmapped(B.table))
    /\ UNCHANGED <<log, names>>

ReplaceTable ==
    /\ Handles("REPLACE_TABLE") /\ ~IsSynced(B.newTable) /\ CanReplace
    /\ IF B.swap THEN target' = Swapped /\ HandledOrLost(prog)
                 ELSE target' = Replaced /\ HandledOrLost(Unmapped(B.table))
    /\ UNCHANGED <<log, names>>

\* The target refuses the statement, or the target table is not found.
StatementFails ==
    /\ \/ Handles("UPSERT") /\ ~CanMap(B.table)
       \/ Handles("RENAME_TABLE") /\ ~CanRename
       \/ Handles("REPLACE_TABLE") /\ ~IsSynced(B.newTable) /\ ~CanReplace
    /\ Fails
    /\ UNCHANGED <<log, names, target, prog, disk, budget>>

\* handle/recover_info.go, and the end of a schema change or a rollup of handle/alter_job_v2.go
RestoreChangedTable ==
    /\ Handles("RECOVER_INFO") \/ Handles("ALTER_JOB")
    /\ NewPartialSnapshot(B.table, B.name, TRUE)
    /\ UNCHANGED <<log, names, target, budget>>

FinishBinlog ==
    /\ pc = "handled"
    /\ LET p == AfterHandleBinlog(prog)
       IN IF IsDone THEN Volatile(p) ELSE Persist(Done(p))
    /\ pc' = "idle"
    /\ UNCHANGED <<log, names, target, budget>>
-----------------------------------------------------------------------------
(* The snapshots. *)

AtSnapshot(syncState, sub) == pc = "idle" /\ prog.syncState = syncState /\ prog.subSyncState = sub

Taken == [prog EXCEPT !.subSyncState = "RestoreSnapshot", !.snapshotSeq = Len(log)]

\* An empty database is waited for.
BackupAll ==
    /\ AtSnapshot("DBFullSync", "BeginCreateSnapshot") /\ LiveAt(Len(log)) # {}
    /\ Persist(Taken)
    /\ UNCHANGED <<log, names, target, pc, budget>>

\* Each table is restored into the one of its name; no other table is dropped.
RestoreAll ==
    /\ AtSnapshot("DBFullSync", "RestoreSnapshot")
    /\ LET k == prog.snapshotSeq
           live == LiveAt(k)
           new == {s \in live : ~Exists(NameAt(s, k))}
           id == [s \in live |-> IF s \in new THEN FreeId(Cardinality({r \in new : r < s}))
                                             ELSE IdOf(NameAt(s, k))]
           restored == [d \in Range(id) |-> LET s == CHOOSE s \in live : id[s] = d
                                            IN Table(NameAt(s, k), RowsOf(s, k))]
       IN   /\ target' = Over(restored, target)
            /\ Persist(NextWithPersist(
                   [prog EXCEPT !.tableMapping = [s \in SourceTables |->
                                                    IF s \in live THEN id[s] ELSE NoTarget],
                                !.tableCommitSeqMap = [s \in SourceTables |->
                                                         IF s \in live THEN k ELSE 0]],
                   k, "DBTablesIncrementalSync", "Done"))
    /\ UNCHANGED <<log, names, pc, budget>>

PS == prog.partialSyncData

BackupTable ==
    /\ AtSnapshot("DBPartialSync", "BeginCreateSnapshot")
    /\ NameNow(PS.table) = PS.name
    /\ Persist(Taken)
    /\ UNCHANGED <<log, names, target, pc, budget>>

\* GetSnapshotInfo: the backup is of another table.
BackupIdNotMatch ==
    /\ AtSnapshot("DBPartialSync", "BeginCreateSnapshot")
    /\ NameNow(PS.table) # PS.name /\ \E s \in SourceTables : NameNow(s) = PS.name
    /\ NewSnapshot(prog.commitSeq)
    /\ UNCHANGED <<log, names, target, budget>>

\* handlePartialSyncTableNotFound
BackupTableNotFound ==
    /\ AtSnapshot("DBPartialSync", "BeginCreateSnapshot")
    /\ \A s \in SourceTables : NameNow(s) # PS.name
    /\ IF IsTableDropped(PS.table)
       THEN /\ Persist(NextWithPersist([prog EXCEPT !.tableCommitSeqMap[PS.table] = MaxInt64],
                                       prog.commitSeq, "DBTablesIncrementalSync", "Done"))
            /\ UNCHANGED pc
       ELSE NewPartialSnapshot(PS.table, NameNow(PS.table), TRUE)
    /\ UNCHANGED <<log, names, target, budget>>

\* The alias is named without the table of the old name.
RestoreTableKeepsOld ==
    /\ AtSnapshot("DBPartialSync", "RestoreSnapshot")
    /\ target' = Put(FreeId(0), Table(PS.name, RowsOf(PS.table, prog.snapshotSeq)), target)
    /\ Persist(NextWithPersist(
           [prog EXCEPT !.tableMapping[PS.table] = FreeId(0),
                        !.tableCommitSeqMap[PS.table] = prog.snapshotSeq],
           prog.commitSeq, "DBTablesIncrementalSync", "Done"))
    /\ UNCHANGED <<log, names, pc, budget>>

\* With replace the table is restored under an alias, which then replaces the old table.
RestoreTable ==
    /\ AtSnapshot("DBPartialSync", "RestoreSnapshot")
    /\ LET k == prog.snapshotSeq
           id == IF Exists(PS.name) /\ ~PS.replace THEN IdOf(PS.name) ELSE FreeId(0)
       IN /\ target' = Put(id, Table(PS.name, RowsOf(PS.table, k)), Without(PS.name))
          /\ Persist(NextWithPersist(
                 [prog EXCEPT !.tableMapping[PS.table] = id,
                              !.tableCommitSeqMap[PS.table] = k],
                 prog.commitSeq, "DBTablesIncrementalSync", "Done"))
    /\ UNCHANGED <<log, names, pc, budget>>
-----------------------------------------------------------------------------
(* The environment. *)

Crash ==
    /\ Fault("crash")
    /\ prog' = disk /\ pc' = "idle"
    /\ UNCHANGED <<log, names, target, disk>>

\* An error of category Meta, or the user, asks for a full sync.
FullSyncAsked ==
    /\ pc = "idle" /\ IsIncrementalSync(prog) /\ IsDone /\ Fault("fullsync")
    /\ NewSnapshot(prog.commitSeq)
    /\ UNCHANGED <<log, names, target>>

NoBinlog == [kind |-> "UPSERT", table |-> Nil, name |-> Nil, newTable |-> Nil, newName |-> Nil,
             swap |-> FALSE]

Write(b, now) ==
    /\ b.kind \in Kinds /\ Len(log) < MaxSeq
    /\ log' = Append(log, b) /\ names' = Append(names, now)

Now == names[Len(names)]
FreeName(n) == \A s \in SourceTables : Now[s] # n
WasUsed(s) == \E k \in DOMAIN names : names[k][s] # Nil

SourceWrites ==
    /\ \/ \E s \in LiveAt(Len(log)) : Write([NoBinlog EXCEPT !.table = s], Now)
       \/ \E s \in SourceTables, n \in Names :
            /\ FreeName(n) /\ ~WasUsed(s)
            /\ Write([NoBinlog EXCEPT !.kind = "CREATE_TABLE", !.table = s, !.name = n],
                     [Now EXCEPT ![s] = n])
       \/ \E s \in SourceTables, n \in Names :
            /\ FreeName(n) /\ WasUsed(s) /\ Now[s] = Nil
            /\ Write([NoBinlog EXCEPT !.kind = "RECOVER_INFO", !.table = s, !.name = n],
                     [Now EXCEPT ![s] = n])
       \/ \E s \in LiveAt(Len(log)) :
            Write([NoBinlog EXCEPT !.kind = "ALTER_JOB", !.table = s, !.name = Now[s]], Now)
       \/ \E s \in LiveAt(Len(log)) :
            Write([NoBinlog EXCEPT !.kind = "DROP_TABLE", !.table = s, !.name = Now[s]],
                  [Now EXCEPT ![s] = Nil])
       \/ \E s \in LiveAt(Len(log)), n \in Names :
            /\ FreeName(n)
            /\ Write([NoBinlog EXCEPT !.kind = "RENAME_TABLE", !.table = s, !.name = Now[s],
                                      !.newName = n],
                     [Now EXCEPT ![s] = n])
       \/ \E s, t \in LiveAt(Len(log)), swap \in BOOLEAN :
            /\ s # t
            /\ Write([kind |-> "REPLACE_TABLE", table |-> s, name |-> Now[s], newTable |-> t,
                      newName |-> Now[t], swap |-> swap],
                     [Now EXCEPT ![s] = IF swap THEN Now[t] ELSE Nil, ![t] = Now[s]])
    /\ UNCHANGED <<target, prog, disk, pc, budget>>
-----------------------------------------------------------------------------
\* A new job.
NamesInit ==
    /\ log = <<>> /\ names = <<InitialNames>>
    /\ target = [d \in {} |-> Table(Nil, {})]
    /\ prog = [syncState |-> "DBFullSync", subSyncState |-> "BeginCreateSnapshot",
               commitSeq |-> 0, prevCommitSeq |-> 0, unknownCommitSeq |-> 0,
               tableCommitSeqMap |-> NoMap,
               tableMapping |-> [s \in SourceTables |-> NoTarget],
               partialSyncData |-> Nil, snapshotSeq |-> 0]
    /\ disk = prog /\ pc = "idle" /\ strayed = FALSE /\ budget = MaxFaults

JobStep ==
    \/ StartHandle \/ Recover \/ SkipBinlog \/ SnapshotUnknownReplace \/ HandleFails
    \/ HandleUpsert \/ CreateTable \/ CreateExistingTable \/ DropTable \/ DropUnknownTable
    \/ RenameTable \/ ReplaceSkipped \/ ReplaceBySnapshot \/ ReplaceTable \/ StatementFails
    \/ RestoreChangedTable \/ FinishBinlog
    \/ BackupAll \/ RestoreAll
    \/ BackupTable \/ BackupIdNotMatch \/ BackupTableNotFound \/ RestoreTable

-----------------------------------------------------------------------------
(* Where the code lets a name mislead it, until the next full sync rebuilds the mapping. *)

\* The snapshot of a table takes the place of another table's copy.
ReplacesAnother ==
    /\ AtSnapshot("DBPartialSync", "RestoreSnapshot")
    /\ \E s \in SourceTables \ {PS.table} : Exists(PS.name) /\ prog.tableMapping[s] = IdOf(PS.name)

\* The binlogs of a table are ended for ever.
GivesUp == \E s \in SourceTables : prog'.tableCommitSeqMap[s] = MaxInt64

\* Table s has a copy, and the name is another table's at the target.
Misnames(s, n) == IsMapped(s) /\ Exists(n) /\ prog.tableMapping[s] # IdOf(n)

\* The test whether a RENAME is committed finds another table's copy under the new name.
NamesAnother ==
    /\ pc = "handle" /\ ~IsSynced(B.table)
    /\ IsRenameTableCommitted /\ Misnames(B.table, B.newName)

\* A REPLACE is filtered because one of its tables is synced.
FiltersHalf ==
    /\ pc = "handle" /\ B.kind = "REPLACE_TABLE" /\ ~IsReplaceUnknown
    /\ IsSynced(B.table) /\ ~IsSynced(B.newTable)

FullSyncEnds == AtSnapshot("DBFullSync", "RestoreSnapshot")
-----------------------------------------------------------------------------
JobAction ==
    /\ JobStep
    /\ strayed' = IF FullSyncEnds THEN FALSE
                  ELSE strayed \/ ReplacesAnother \/ GivesUp \/ NamesAnother \/ FiltersHalf

Environment == (Crash \/ FullSyncAsked \/ SourceWrites) /\ UNCHANGED strayed

NamesNext == JobAction \/ Environment

NamesSpec == NamesInit /\ [][NamesNext]_nameVars
-----------------------------------------------------------------------------
CaughtUp == pc = "idle" /\ IsIncrementalSync(prog) /\ IsDone /\ prog.commitSeq = Len(log)

\* A copy has rows of its own source table only, whatever was renamed, swapped, dropped or
\* created between the write, the snapshot and the statement, unless a name misled the job since
\* the last full sync.
OneSource ==
    ~strayed => \A s \in SourceTables :
        LET d == prog.tableMapping[s]
        IN d \in DOMAIN target => \A i \in target[d].rows : log[i].table = s

\* The target table that the next upsert of s is written to.
CopyOf(s) == IF IsMapped(s) THEN prog.tableMapping[s] ELSE IdOf(NameNow(s))

\* A job that has handled the whole log has copied it: every table of the source is at the
\* target, under its name and with all its rows and no others.  A full sync brings this back
\* after a name has misled the job.
Mirror ==
    CaughtUp /\ ~strayed => \A s \in LiveAt(Len(log)) :
        /\ IsMapped(s) \/ Exists(NameNow(s))
        /\ CopyOf(s) \in DOMAIN target
        /\ target[CopyOf(s)] = Table(NameNow(s), RowsOf(s, Len(log)))
=============================================================================
