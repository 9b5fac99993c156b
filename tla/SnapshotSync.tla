---------------------------- MODULE SnapshotSync ----------------------------
(***************************************************************************)
(* Full and partial synchronisation of database jobs by backup and         *)
(* restore: fullSync and partialSync of pkg/ccr/job.go with the permits    *)
(* they take (backup_restore_limiter.go), the run loop's pause, the        *)
(* restart of the process, and the backups and restores that run in the    *)
(* two clusters by themselves (asked for and watched in base/spec.go).     *)
(*                                                                         *)
(* A sub sync state is done by one action or by an action per outcome.     *)
(* Most of them are volatile: after a restart the job repeats them, and    *)
(* finds the backup or the restore it had asked for by the prefix of its   *)
(* name.  All jobs replicate between the same two clusters, each job its   *)
(* own database, so they compete for the same permits.                     *)
(***************************************************************************)
EXTENDS Integers, Sequences, FiniteSetsExt, Functions

CONSTANTS Jobs, Tables, Nil,
          Limit,       \* flag max_backup_restore_concurrency_per_target
          FaultKinds,  \* the faults and requests this instance allows
          MaxSeq,      \* bound: the largest commit seq of a source database
          MaxFaults    \* bound: how many faults and requests

Keys == {"backup", "restore"}  \* the resources of buildBackupRestoreLimitKey

ASSUME SnapshotAssumption ==
    /\ Limit \in Nat \ {0} /\ MaxSeq \in Nat \ {0} /\ MaxFaults \in Nat
    /\ Nil \notin Tables

ASSUME LimiterAssumption == IsFiniteSet(Jobs) /\ Nil \notin Keys

VARIABLES
    src,      \* job -> its source database: last commit seq, tables, lock, collected binlogs
    backups,  \* job -> the backups of its source database, oldest first
    target,   \* job -> its target database: tables, alias tables, tables of another schema
    restores, \* job -> the restores of its target database, oldest first
    prog,     \* job -> j.progress
    disk,     \* job -> the progress row of the storage
    paused,   \* the jobs whose state is JobPaused
    permits,  \* the limiter: key -> permits in flight
    permitKey,\* job -> j.syncPermitKey
    asked,    \* job -> the last commit seq of its source when it asked for a snapshot
    budget    \* faults left

extVars == <<src, backups, target, restores>>
permitVars == <<permits, permitKey>>
jobVars == <<prog, disk, asked>>
vars == <<extVars, jobVars, permitVars, paused, budget>>

Seqs == 0..MaxSeq
\* The commit seq handlePartialSyncTableNotFound stores for a dropped table (math.MaxInt64).
Dropped == MaxSeq + 1
SyncIds == Nat \ {0}

\* An alias table is named after the sync that made it: 0 is no alias.
AliasMaps == [Tables -> SyncIds \cup {0}]
NoAliases == [t \in Tables |-> 0]

Backups == [sync : {"DBFullSync", "DBPartialSync"}, syncId : SyncIds,
            seqs : [Tables -> Seqs],  \* 0: not in the snapshot
            tables : SUBSET Tables, from : Seqs,
            state : {"running", "finished", "cancelled"}, gone : BOOLEAN]

Restores == [snap : Nat, tables : SUBSET Tables, aliases : AliasMaps,
             state : {"running", "finished", "cancelled", "mismatch"}, table : Tables \cup {Nil}]

Progress == [sync : {"DBFullSync", "DBPartialSync", "DBTablesIncrementalSync"},
             sub : {"BeginCreateSnapshot", "WaitBackupDone", "GetSnapshotInfo",
                    "RestoreSnapshot", "WaitRestoreDone", "PersistRestoreInfo", "Done"},
             syncId : SyncIds, commitSeq : Seqs,
             seqs : [Tables -> Seqs \cup {Dropped}],  \* TableCommitSeqMap, 0: no entry
             aliases : AliasMaps,                     \* TableAliases
             table : Tables \cup {Nil},               \* PartialSyncData
             name : Nat, label : Nat]                 \* the snapshot and the restore of the step

TypeOK ==
    /\ src \in [Jobs -> [last : Seqs, tables : SUBSET Tables, locked : Seqs, gc : Seqs]]
    /\ backups \in [Jobs -> Seq(Backups)] /\ restores \in [Jobs -> Seq(Restores)]
    /\ target \in [Jobs -> [held : [Tables -> Seqs], differs : SUBSET Tables,
                            aliased : SUBSET [table : Tables, alias : SyncIds, seq : Seqs]]]
    /\ prog \in [Jobs -> Progress] /\ disk \in [Jobs -> Progress]
    /\ paused \subseteq Jobs
    /\ permits \in [Keys -> Nat] /\ permitKey \in [Jobs -> Keys \cup {Nil}]
    /\ asked \in [Jobs -> Seqs] /\ budget \in 0..MaxFaults
-----------------------------------------------------------------------------
Fault(k) == k \in FaultKinds /\ budget > 0 /\ budget' = budget - 1

Volatile(j, p) == prog' = [prog EXCEPT ![j] = p] /\ UNCHANGED <<disk, asked>>

\* The restore label lives in InMemoryData only.
Persist(j, p) == /\ prog' = [prog EXCEPT ![j] = p]
                 /\ disk' = [disk EXCEPT ![j] = [p EXCEPT !.label = 0]]

\* A progress that keeps its sync id would find the backup of the sync before it.
NextSyncIdKept(p) == p.syncId

NextSyncId(p) == p.syncId + 1

BeginSync(p) == [p EXCEPT !.sub = "BeginCreateSnapshot", !.syncId = NextSyncId(p),
                          !.name = 0, !.label = 0]

\* NewSnapshot
NewSnapshot(j) ==
    /\ Persist(j, [BeginSync(prog[j]) EXCEPT !.sync = "DBFullSync", !.table = Nil,
                                             !.aliases = NoAliases])
    /\ asked' = [asked EXCEPT ![j] = src[j].last]

\* NewPartialSnapshot; with replace the table is restored under an alias.
NewPartialSnapshot(j, t, replace) ==
    LET p == BeginSync(prog[j])
    IN /\ Persist(j, [p EXCEPT !.sync = "DBPartialSync", !.table = t,
                               !.aliases = IF replace THEN [NoAliases EXCEPT ![t] = p.syncId]
                                           ELSE NoAliases])
       /\ asked' = [asked EXCEPT ![j] = src[j].last]

HasAliases(p) == p.aliases # NoAliases

\* The snapshot cannot be used any more: ask for another of the same kind.
SyncAgain(j) ==
    IF prog[j].sync = "DBFullSync" THEN NewSnapshot(j)
    ELSE NewPartialSnapshot(j, prog[j].table, HasAliases(prog[j]))

(* The limiter.  Only a full sync takes permits. *)

IsFull(j) == prog[j].sync = "DBFullSync"

\* Release
Released(j) ==
    IF permitKey[j] = Nil THEN permits
    ELSE [permits EXCEPT ![permitKey[j]] = IF @ > 0 THEN @ - 1 ELSE 0]

ReleasePermit(j) == permits' = Released(j) /\ permitKey' = [permitKey EXCEPT ![j] = Nil]

\* A job that changes keys and leaves its old permit taken.
HoldBoth(j, key) ==
    IF permitKey[j] = key THEN UNCHANGED permitVars
    ELSE /\ permits' = [permits EXCEPT ![key] = @ + 1]
         /\ permitKey' = [permitKey EXCEPT ![j] = key]

\* Both tryAcquirePermit and observePermit give the old permit back first.
Hold(j, key) ==
    IF permitKey[j] = key THEN UNCHANGED permitVars
    ELSE /\ permits' = [Released(j) EXCEPT ![key] = @ + 1]
         /\ permitKey' = [permitKey EXCEPT ![j] = key]

CanAcquire(j, key) == permitKey[j] = key \/ Released(j)[key] < Limit

TryAcquirePermit(j, key) ==
    IF IsFull(j) THEN CanAcquire(j, key) /\ Hold(j, key) ELSE UNCHANGED permitVars

ObservePermit(j, key) == IF IsFull(j) THEN Hold(j, key) ELSE UNCHANGED permitVars

\* default of fullSync, and its error return.
WithoutPermit(j) == IF IsFull(j) THEN ReleasePermit(j) ELSE UNCHANGED permitVars

\* An action that needed a permit and failed: the permit is taken and given back.
FailsWithPermit(j, key) == (IsFull(j) => CanAcquire(j, key)) /\ WithoutPermit(j)

At(j, sub) == prog[j].sync # "DBTablesIncrementalSync" /\ prog[j].sub = sub /\ j \notin paused

\* tryAcquirePermit fails: the old permit is gone all the same.
WaitForPermit(j) ==
    /\ IsFull(j) /\ ReleasePermit(j)
    /\ \/ At(j, "BeginCreateSnapshot") /\ ~CanAcquire(j, "backup")
       \/ At(j, "RestoreSnapshot") /\ ~CanAcquire(j, "restore")
    /\ UNCHANGED <<extVars, jobVars, paused, budget>>
-----------------------------------------------------------------------------
(* case BeginCreateSnapshot *)

\* GetValidBackupJob: the backups whose name starts with the prefix of this sync.
ValidBackups(j) ==
    {i \in DOMAIN backups[j] : /\ backups[j][i].sync = prog[j].sync
                               /\ backups[j][i].syncId = prog[j].syncId
                               /\ backups[j][i].state # "cancelled"}

\* lockBinlog moved in front of the search for a backup to reuse.
LockEvenOnReuse(j) == [src EXCEPT ![j].locked = src[j].last]

LockOnReuse(j) == src

ReuseBackup(j) ==
    /\ At(j, "BeginCreateSnapshot") /\ ValidBackups(j) # {}
    /\ TryAcquirePermit(j, "backup")
    /\ Volatile(j, [prog[j] EXCEPT !.sub = "WaitBackupDone", !.name = Max(ValidBackups(j))])
    /\ src' = LockOnReuse(j)
    /\ UNCHANGED <<backups, target, restores, paused, budget>>

MustCreate(j) == At(j, "BeginCreateSnapshot") /\ ValidBackups(j) = {}

\* lockBinlog(LockLastBinlogCommitSeq): only a full sync locks here.
LockBinlog(j) ==
    src' = IF IsFull(j) THEN [src EXCEPT ![j].locked = src[j].last] ELSE src

\* The source runs one backup of a database at a time.
SourceBusy(j) == \E i \in DOMAIN backups[j] : backups[j][i].state = "running"

SnapshotTables(j) == IF IsFull(j) THEN src[j].tables ELSE {prog[j].table} \cap src[j].tables

NewBackup(j) == [sync |-> prog[j].sync, syncId |-> prog[j].syncId,
                 seqs |-> [t \in Tables |-> 0], tables |-> SnapshotTables(j),
                 from |-> src[j].last, state |-> "running", gone |-> FALSE]

CanCreate(j) == MustCreate(j) /\ SnapshotTables(j) # {} /\ ~SourceBusy(j)

CreateSnapshot(j) ==
    /\ CanCreate(j)
    /\ TryAcquirePermit(j, "backup")
    /\ LockBinlog(j)
    /\ backups' = [backups EXCEPT ![j] = Append(@, NewBackup(j))]
    /\ Volatile(j, [prog[j] EXCEPT !.sub = "WaitBackupDone", !.name = Len(backups[j]) + 1])
    /\ UNCHANGED <<target, restores, paused, budget>>

CreateSnapshotLosesReply(j) ==
    /\ CanCreate(j) /\ Fault("lostReply")
    /\ FailsWithPermit(j, "backup")
    /\ LockBinlog(j)
    /\ backups' = [backups EXCEPT ![j] = Append(@, NewBackup(j))]
    /\ UNCHANGED <<target, restores, jobVars, paused>>

CreateSnapshotFails(j) ==
    /\ MustCreate(j) /\ SnapshotTables(j) # {}
    /\ FailsWithPermit(j, "backup")
    /\ LockBinlog(j)
    /\ \/ SourceBusy(j) /\ UNCHANGED <<jobVars, budget>>
       \/ Fault("rpc") /\ UNCHANGED jobVars
       \/ Fault("meta") /\ NewSnapshot(j)   \* handleError
    /\ UNCHANGED <<backups, target, restores, paused>>

\* "full sync but source db is empty! retry later": the permit stays taken.
SourceIsEmpty(j) ==
    /\ MustCreate(j) /\ IsFull(j) /\ src[j].tables = {}
    /\ TryAcquirePermit(j, "backup")
    /\ LockBinlog(j)
    /\ UNCHANGED <<backups, target, restores, jobVars, paused, budget>>

\* handlePartialSyncTableNotFound: the table has been dropped, leave it to the binlogs.
SkipDroppedTable(j) ==
    /\ MustCreate(j) /\ ~IsFull(j) /\ SnapshotTables(j) = {}
    /\ Persist(j, [prog[j] EXCEPT !.seqs[prog[j].table] = Dropped,
                                  !.sync = "DBTablesIncrementalSync", !.sub = "Done",
                                  !.name = 0])
    /\ UNCHANGED <<extVars, asked, permitVars, paused, budget>>
-----------------------------------------------------------------------------
(* case WaitBackupDone, GetSnapshotInfo (and AddExtraInfo, which only edits the job info) *)

BackupState(j) == backups[j][prog[j].name].state

WaitBackup(j) ==
    /\ At(j, "WaitBackupDone") /\ BackupState(j) = "running"
    /\ ObservePermit(j, "backup")
    /\ UNCHANGED <<extVars, jobVars, paused, budget>>

BackupDone(j) ==
    /\ At(j, "WaitBackupDone") /\ BackupState(j) = "finished"
    /\ ObservePermit(j, "backup")
    /\ Persist(j, [prog[j] EXCEPT !.sub = "GetSnapshotInfo"])
    /\ UNCHANGED <<extVars, asked, paused, budget>>

BackupFailed(j) ==
    /\ At(j, "WaitBackupDone") /\ BackupState(j) = "cancelled"
    /\ WithoutPermit(j)
    /\ Volatile(j, [prog[j] EXCEPT !.sub = "BeginCreateSnapshot"])
    /\ UNCHANGED <<extVars, paused, budget>>

Snapshot(j) == backups[j][prog[j].name]

SnapshotNotExist(j) ==
    /\ At(j, "GetSnapshotInfo") /\ Snapshot(j).gone
    /\ WithoutPermit(j)
    /\ SyncAgain(j)
    /\ UNCHANGED <<extVars, paused, budget>>

GetSnapshotInfo(j) ==
    /\ At(j, "GetSnapshotInfo") /\ ~Snapshot(j).gone
    /\ WithoutPermit(j)
    /\ Volatile(j, [prog[j] EXCEPT !.sub = "RestoreSnapshot"])
    /\ UNCHANGED <<extVars, paused, budget>>
-----------------------------------------------------------------------------
(* case RestoreSnapshot *)

\* GetValidRestoreJob: the restores of this snapshot that have not failed.
ValidRestores(j) ==
    {i \in DOMAIN restores[j] : /\ restores[j][i].snap = prog[j].name
                                /\ restores[j][i].state \in {"running", "finished"}}

ReuseRestore(j) ==
    /\ At(j, "RestoreSnapshot") /\ ValidRestores(j) # {}
    /\ TryAcquirePermit(j, "restore")
    /\ Volatile(j, [prog[j] EXCEPT !.sub = "WaitRestoreDone", !.label = Max(ValidRestores(j))])
    /\ UNCHANGED <<extVars, paused, budget>>

MustRestore(j) == At(j, "RestoreSnapshot") /\ ValidRestores(j) = {}

\* The target runs one restore of a database at a time.
TargetBusy(j) == \E i \in DOMAIN restores[j] : restores[j][i].state = "running"

NewRestore(j) == [snap |-> prog[j].name, tables |-> Snapshot(j).tables,
                  aliases |-> prog[j].aliases, state |-> "running", table |-> Nil]

RestoreSnapshot(j) ==
    /\ MustRestore(j) /\ ~TargetBusy(j)
    /\ TryAcquirePermit(j, "restore")
    /\ restores' = [restores EXCEPT ![j] = Append(@, NewRestore(j))]
    /\ Volatile(j, [prog[j] EXCEPT !.sub = "WaitRestoreDone", !.label = Len(restores[j]) + 1])
    /\ UNCHANGED <<src, backups, target, paused, budget>>

RestoreSnapshotLosesReply(j) ==
    /\ MustRestore(j) /\ ~TargetBusy(j) /\ Fault("lostReply")
    /\ FailsWithPermit(j, "restore")
    /\ restores' = [restores EXCEPT ![j] = Append(@, NewRestore(j))]
    /\ UNCHANGED <<src, backups, target, jobVars, paused>>

RestoreSnapshotFails(j) ==
    /\ MustRestore(j) /\ TargetBusy(j)
    /\ FailsWithPermit(j, "restore")
    /\ UNCHANGED <<extVars, jobVars, paused, budget>>
-----------------------------------------------------------------------------
(* case WaitRestoreDone *)

Restore(j) == restores[j][prog[j].label]

\* The snapshot expired: CancelRestoreIfExists, and ask for another.
RestoreExpired(j) ==
    /\ At(j, "WaitRestoreDone") /\ Snapshot(j).gone
    /\ ObservePermit(j, "restore")
    /\ restores' = [restores EXCEPT ![j][prog[j].label].state =
                        IF @ = "running" THEN "cancelled" ELSE @]
    /\ SyncAgain(j)
    /\ UNCHANGED <<src, backups, target, paused, budget>>

AtRestore(j, state) ==
    At(j, "WaitRestoreDone") /\ ~Snapshot(j).gone /\ Restore(j).state = state

WaitRestore(j) ==
    /\ AtRestore(j, "running")
    /\ ObservePermit(j, "restore")
    /\ UNCHANGED <<extVars, jobVars, paused, budget>>

\* Dropping the table of another schema to make room for the restore.
SignatureNotMatchedDrops(j) ==
    /\ AtRestore(j, "mismatch") /\ IsFull(j)
    /\ ObservePermit(j, "restore")
    /\ target' = [target EXCEPT ![j].held[Restore(j).table] = 0,
                               ![j].differs = @ \ {Restore(j).table}]
    /\ Volatile(j, [prog[j] EXCEPT !.sub = "RestoreSnapshot"])
    /\ UNCHANGED <<src, backups, restores, paused, budget>>

\* The schema of a table differs: restore it under an alias.  A partial sync starts again.
SignatureNotMatched(j) ==
    /\ AtRestore(j, "mismatch")
    /\ ObservePermit(j, "restore")
    /\ LET t == Restore(j).table
           p == [prog[j] EXCEPT !.aliases[t] = prog[j].syncId]
       IN IF IsFull(j)
          THEN /\ prog' = [prog EXCEPT ![j] = [p EXCEPT !.sub = "RestoreSnapshot"]]
               /\ disk' = [disk EXCEPT ![j] = [p EXCEPT !.sub = "GetSnapshotInfo", !.label = 0]]
               /\ UNCHANGED asked
          ELSE NewPartialSnapshot(j, prog[j].table, TRUE)
    /\ UNCHANGED <<extVars, paused, budget>>

RestoreFailed(j) ==
    /\ AtRestore(j, "cancelled")
    /\ WithoutPermit(j)
    /\ Volatile(j, [prog[j] EXCEPT !.sub = "RestoreSnapshot"])
    /\ UNCHANGED <<extVars, paused, budget>>

\* The log replayed from the last table of the snapshot on.
LargestSeq(b) == Max({b.seqs[t] : t \in b.tables})

\* The loop that computes the minimum starts at the largest seq and never runs.
SmallestOfNone(b) == MaxSeq + 1

SmallestSeq(b) == Min({b.seqs[t] : t \in b.tables})

\* A full sync replaces the table commit seqs, a partial one merges its own into them.
RestoredProgress(p, b) ==
    IF p.sync = "DBFullSync"
    THEN [p EXCEPT !.seqs = b.seqs, !.commitSeq = SmallestSeq(b)]
    ELSE [p EXCEPT !.seqs = [t \in Tables |-> IF t \in b.tables THEN b.seqs[t] ELSE @[t]]]

RestoreDone(j) ==
    /\ AtRestore(j, "finished")
    /\ ObservePermit(j, "restore")
    /\ Persist(j, [RestoredProgress(prog[j], Snapshot(j)) EXCEPT !.sub = "PersistRestoreInfo"])
    /\ UNCHANGED <<extVars, asked, paused, budget>>
-----------------------------------------------------------------------------
(* case PersistRestoreInfo *)

\* The alias tables of the current aliases that exist at the target (CheckTableExistsByName).
UnswappedAliases(j) == {a \in target[j].aliased : prog[j].aliases[a.table] = a.alias}

\* ReplaceTable (or RenameTableWithName): the alias table takes the place of the table.
SwapAlias(j) ==
    /\ At(j, "PersistRestoreInfo") /\ WithoutPermit(j)
    /\ \E a \in UnswappedAliases(j) :
        target' = [target EXCEPT ![j] = [held |-> [@.held EXCEPT ![a.table] = a.seq],
                                         differs |-> @.differs \ {a.table},
                                         aliased |-> @.aliased \ {a}]]
    /\ UNCHANGED <<src, backups, restores, jobVars, paused, budget>>

\* The aliases are forgotten once the first of several tables has been swapped.
SomeSwapped(j) == UnswappedAliases(j) = {} \/ Cardinality(UnswappedAliases(j)) < 2

AllSwapped(j) == UnswappedAliases(j) = {}

ForgetAliases(j) ==
    /\ At(j, "PersistRestoreInfo") /\ WithoutPermit(j)
    /\ HasAliases(prog[j]) /\ AllSwapped(j)
    /\ Persist(j, [prog[j] EXCEPT !.aliases = NoAliases])
    /\ UNCHANGED <<extVars, asked, paused, budget>>

FinishSync(j) ==
    /\ At(j, "PersistRestoreInfo") /\ WithoutPermit(j)
    /\ ~HasAliases(prog[j])
    /\ Persist(j, [prog[j] EXCEPT !.sync = "DBTablesIncrementalSync", !.sub = "Done",
                                  !.name = 0, !.label = 0])
    /\ UNCHANGED <<extVars, asked, paused, budget>>

\* The id of a table is not found at the target: handleError makes a full snapshot.
FinishSyncFails(j) ==
    /\ At(j, "PersistRestoreInfo") /\ WithoutPermit(j)
    /\ ~HasAliases(prog[j])
    /\ Fault("meta") /\ NewSnapshot(j)
    /\ UNCHANGED <<extVars, paused>>
-----------------------------------------------------------------------------
(* Incremental sync, which Pipeline models, as far as a snapshot can tell. *)

IsIncremental(j) == prog[j].sync = "DBTablesIncrementalSync" /\ j \notin paused

\* The job has replayed everything, and moves its lock on the binlogs.
Replay(j) ==
    /\ IsIncremental(j) /\ prog[j].commitSeq < src[j].last
    /\ target' = [target EXCEPT ![j].held = [t \in Tables |->
                     IF t \in src[j].tables THEN src[j].last ELSE @[t]]]
    /\ Persist(j, [prog[j] EXCEPT !.commitSeq = src[j].last,
           !.seqs = [t \in Tables |-> IF @[t] = Dropped THEN Dropped ELSE 0]])
    /\ src' = [src EXCEPT ![j].locked = src[j].last]
    /\ UNCHANGED <<backups, restores, asked, permitVars, paused, budget>>

\* A binlog, an error or a user asks for a snapshot.
AskFullSync(j) ==
    /\ IsIncremental(j) /\ Fault("fullsync") /\ NewSnapshot(j)
    /\ UNCHANGED <<extVars, permitVars, paused>>

AskPartialSync(j) ==
    /\ IsIncremental(j) /\ Fault("partialsync")
    /\ \E t \in src[j].tables, replace \in BOOLEAN : NewPartialSnapshot(j, t, replace)
    /\ UNCHANGED <<extVars, permitVars, paused>>
-----------------------------------------------------------------------------
(* The clusters. *)

SourceWrites(j) ==
    /\ src[j].last < MaxSeq
    /\ src' = [src EXCEPT ![j].last = @ + 1]
    /\ UNCHANGED <<backups, target, restores, jobVars, permitVars, paused, budget>>

DropTable(j) ==
    /\ Fault("drop")
    /\ \E t \in src[j].tables : src' = [src EXCEPT ![j].tables = @ \ {t}]
    /\ UNCHANGED <<backups, target, restores, jobVars, permitVars, paused>>

\* Binlogs up to the lock may go; a job that holds no lock has locked = MaxSeq.
SourceCollects(j) ==
    /\ src' = [src EXCEPT ![j].gc = Max({@, Min({src[j].locked, src[j].last})})]
    /\ UNCHANGED <<backups, target, restores, jobVars, permitVars, paused, budget>>

\* Each table is copied at a moment of its own.
BackupFinishes(j) ==
    /\ \E i \in DOMAIN backups[j] :
        /\ backups[j][i].state = "running"
        /\ \E seqs \in [backups[j][i].tables -> backups[j][i].from..src[j].last] :
              backups' = [backups EXCEPT ![j][i].state = "finished",
                  ![j][i].seqs = [t \in Tables |-> IF t \in DOMAIN seqs THEN seqs[t] ELSE 0]]
    /\ UNCHANGED <<src, target, restores, jobVars, permitVars, paused, budget>>

BackupCancelled(j) ==
    /\ Fault("cancel")
    /\ \E i \in DOMAIN backups[j] :
        /\ backups[j][i].state = "running"
        /\ backups' = [backups EXCEPT ![j][i].state = "cancelled"]
    /\ UNCHANGED <<src, target, restores, jobVars, permitVars, paused>>

BackupExpires(j) ==
    /\ Fault("expire")
    /\ \E i \in DOMAIN backups[j] :
        /\ backups[j][i].state = "finished" /\ ~backups[j][i].gone
        /\ backups' = [backups EXCEPT ![j][i].gone = TRUE]
    /\ UNCHANGED <<src, target, restores, jobVars, permitVars, paused>>

\* The tables whose schema at the target stops restore r.
Mismatches(j, r) == {t \in r.tables : r.aliases[t] = 0 /\ t \in target[j].differs}

RestoreFinishes(j) ==
    /\ \E i \in DOMAIN restores[j] :
        LET r == restores[j][i]
            seqs == backups[j][r.snap].seqs
        IN /\ r.state = "running" /\ Mismatches(j, r) = {}
           /\ restores' = [restores EXCEPT ![j][i].state = "finished"]
           /\ target' = [target EXCEPT
                  ![j].held = [t \in Tables |->
                      IF t \in r.tables /\ r.aliases[t] = 0 THEN seqs[t] ELSE @[t]],
                  ![j].aliased = @ \cup {[table |-> t, alias |-> r.aliases[t], seq |-> seqs[t]] :
                      t \in {u \in r.tables : r.aliases[u] # 0}}]
    /\ UNCHANGED <<src, backups, jobVars, permitVars, paused, budget>>

RestoreMismatches(j) ==
    /\ \E i \in DOMAIN restores[j] : \E t \in Mismatches(j, restores[j][i]) :
        /\ restores[j][i].state = "running"
        /\ restores' = [restores EXCEPT ![j][i].state = "mismatch", ![j][i].table = t]
    /\ UNCHANGED <<src, backups, target, jobVars, permitVars, paused, budget>>

RestoreCancelled(j) ==
    /\ Fault("cancel")
    /\ \E i \in DOMAIN restores[j] :
        /\ restores[j][i].state = "running"
        /\ restores' = [restores EXCEPT ![j][i].state = "cancelled"]
    /\ UNCHANGED <<src, backups, target, jobVars, permitVars, paused>>

\* The schema of a target table no longer is the one of its source table.
SchemaDiffers(j) ==
    /\ Fault("schema")
    /\ \E t \in Tables :
        /\ target[j].held[t] > 0
        /\ target' = [target EXCEPT ![j].differs = @ \cup {t}]
    /\ UNCHANGED <<src, backups, restores, jobVars, permitVars, paused>>
-----------------------------------------------------------------------------
(* The user and the process. *)

Pause(j) ==
    /\ Fault("pause") /\ j \notin paused /\ paused' = paused \cup {j}
    /\ UNCHANGED <<extVars, jobVars, permitVars>>

\* A run loop that leaves a paused job its permit.
PausedTickKeeps(j) ==
    j \in paused /\ UNCHANGED vars

\* The run loop ticks while the job is paused.
PausedTick(j) ==
    /\ j \in paused /\ ReleasePermit(j)
    /\ UNCHANGED <<extVars, jobVars, paused, budget>>

Resume(j) ==
    /\ j \in paused /\ paused' = paused \ {j}
    /\ UNCHANGED <<extVars, jobVars, permitVars, budget>>

Crash ==
    /\ Fault("crash")
    /\ prog' = disk
    /\ permits' = [k \in Keys |-> 0] /\ permitKey' = [j \in Jobs |-> Nil]
    /\ UNCHANGED <<extVars, disk, asked, paused>>
-----------------------------------------------------------------------------
\* A new job, and a source whose binlogs nobody has locked.
Init ==
    /\ src = [j \in Jobs |-> [last |-> 1, tables |-> Tables, locked |-> MaxSeq, gc |-> 0]]
    /\ backups = [j \in Jobs |-> <<>>] /\ restores = [j \in Jobs |-> <<>>]
    /\ target = [j \in Jobs |-> [held |-> [t \in Tables |-> 0], differs |-> {}, aliased |-> {}]]
    /\ prog = [j \in Jobs |->
                  [sync |-> "DBFullSync", sub |-> "BeginCreateSnapshot", syncId |-> 1,
                   commitSeq |-> 0, seqs |-> [t \in Tables |-> 0], aliases |-> NoAliases,
                   table |-> Nil, name |-> 0, label |-> 0]]
    /\ disk = prog
    /\ paused = {} /\ permits = [k \in Keys |-> 0] /\ permitKey = [j \in Jobs |-> Nil]
    /\ asked = [j \in Jobs |-> 1] /\ budget = MaxFaults

SyncStep(j) ==
    \/ WaitForPermit(j)
    \/ ReuseBackup(j) \/ CreateSnapshot(j) \/ CreateSnapshotLosesReply(j)
    \/ CreateSnapshotFails(j) \/ SourceIsEmpty(j) \/ SkipDroppedTable(j)
    \/ WaitBackup(j) \/ BackupDone(j) \/ BackupFailed(j)
    \/ SnapshotNotExist(j) \/ GetSnapshotInfo(j)
    \/ ReuseRestore(j) \/ RestoreSnapshot(j) \/ RestoreSnapshotLosesReply(j)
    \/ RestoreSnapshotFails(j)
    \/ RestoreExpired(j) \/ WaitRestore(j) \/ SignatureNotMatched(j) \/ RestoreFailed(j)
    \/ RestoreDone(j)
    \/ SwapAlias(j) \/ ForgetAliases(j) \/ FinishSync(j) \/ FinishSyncFails(j)

JobStep(j) == SyncStep(j) \/ PausedTick(j) \/ Replay(j)

ClusterStep(j) ==
    \/ BackupFinishes(j) \/ RestoreFinishes(j) \/ RestoreMismatches(j)

Environment(j) ==
    \/ AskFullSync(j) \/ AskPartialSync(j) \/ Pause(j) \/ Resume(j)
    \/ SourceWrites(j) \/ DropTable(j) \/ SourceCollects(j)
    \/ BackupCancelled(j) \/ BackupExpires(j) \/ RestoreCancelled(j) \/ SchemaDiffers(j)

Next == Crash \/ \E j \in Jobs : JobStep(j) \/ ClusterStep(j) \/ Environment(j)

Spec == Init /\ [][Next]_vars

\* The run loop of each job ticks, and the clusters finish what they run.
Fairness == \A j \in Jobs : WF_vars(JobStep(j)) /\ WF_vars(ClusterStep(j))

FairSpec == Spec /\ Fairness
-----------------------------------------------------------------------------
(* What the snapshots promise. *)

\* What the stored progress of an incremental job says of a table is what the target has of it,
\* whichever backup or restore was reused and wherever the process stopped: the replay
\* filters the binlogs of a table by its entry, and drops too many or too few if it is wrong.
MapMatchesTarget ==
    \A j \in Jobs : disk[j].sync = "DBTablesIncrementalSync" =>
        \A t \in src[j].tables :
            target[j].held[t] = IF disk[j].seqs[t] = 0 THEN disk[j].commitSeq
                                ELSE disk[j].seqs[t]

\* The replay starts before the first binlog that some table of the snapshot lacks.
ReplayStartsEarlyEnough ==
    \A j \in Jobs : disk[j].sync = "DBTablesIncrementalSync" =>
        \A t \in src[j].tables : disk[j].commitSeq <= target[j].held[t]

\* A sync ends with a snapshot taken after it was asked for: the cause of the request, a
\* binlog that cannot be replayed, is in it.  A backup of an earlier sync is not reused.
SnapshotIsFresh ==
    [][\A j \in Jobs :
          disk[j].sync # "DBTablesIncrementalSync" /\ disk'[j].sync = "DBTablesIncrementalSync"
          => \A t \in SnapshotTables(j) : target[j].held[t] >= asked[j]]_vars

\* The binlogs after the commit seq the replay starts from are still there.
BinlogsKept ==
    \A j \in Jobs : disk[j].sync # "DBFullSync" => src[j].gc <= disk[j].commitSeq

\* A table of the target is never dropped to make room for a restore, and never replaced by an
\* older state of it: a restore the job has given up does not finish over a newer one.
TargetNeverGoesBack ==
    [][\A j \in Jobs : \A t \in Tables : target'[j].held[t] >= target[j].held[t]]_vars

\* The limiter counts the jobs that hold a permit, also when they change keys, fail, pause or
\* ask again: no permit is lost, none is given back twice.
PermitsMatchHolders ==
    \A k \in Keys : permits[k] = Cardinality({j \in Jobs : permitKey[j] = k})

\* Once faults stop, a job that runs leaves its snapshot, although the jobs compete for permits.
SnapshotEnds ==
    \A j \in Jobs : prog[j].sync # "DBTablesIncrementalSync" ~>
        (prog[j].sync = "DBTablesIncrementalSync" \/ j \in paused \/ src[j].tables = {})
=============================================================================
