-------------------------- MODULE SnapshotSyncProofs --------------------------
(***************************************************************************)
(* What SnapshotSync keeps, for every set of jobs, tables and keys, every  *)
(* number of faults and any length of a run.                               *)
(*                                                                         *)
(* 1. The permits: the limiter counts the jobs that hold a permit.  Every  *)
(*    step touches it in one of three ways (PermitStep) or restarts it.    *)
(* 2. The snapshots: Good relates the values of one job, that is its       *)
(*    source, the backups and restores of its clusters, its target, its    *)
(*    progress, the row of it and the commit seq it asked its snapshot at. *)
(*    Every step moves one job (Becomes) and leaves it Good.               *)
(*                                                                         *)
(* The second proof has two layers.  The lemmas named "...IsGood" are      *)
(* about values, what a call makes of them, and mention no variable; the   *)
(* lemmas named "...Moves" show that an action makes just these values.    *)
(***************************************************************************)
EXTENDS SnapshotSync, FiniteSetTheorems, WellFoundedInduction, TLAPS

\* The jobs that hold a permit of key k.
Holders(k) == {j \in Jobs : permitKey[j] = k}

PermitTypeOK == permits \in [Keys -> Nat] /\ permitKey \in [Jobs -> Keys \cup {Nil}]

PermitInv == PermitTypeOK /\ PermitsMatchHolders

\* What a step of job j does to the limiter.
PermitStep(j) ==
    UNCHANGED permitVars \/ ReleasePermit(j) \/ \E k \in Keys : Hold(j, k)
-----------------------------------------------------------------------------
\* The holders of a key are a finite set, so that they can be counted.
LEMMA HoldersFinite == \A k : IsFiniteSet(Holders(k)) /\ Cardinality(Holders(k)) \in Nat
<1> TAKE k
<1>1. Holders(k) \in SUBSET Jobs
  BY DEF Holders
<1> QED
  BY <1>1, LimiterAssumption, FS_Subset, FS_CardinalityType

\* A job that gives its permit back (or has none) leaves the others counted: Released(j) is the
\* number of the jobs other than j that hold each key.
LEMMA ReleasedCounts ==
    ASSUME PermitInv, NEW j \in Jobs
    PROVE  /\ Released(j) \in [Keys -> Nat]
           /\ \A k \in Keys : Released(j)[k] = Cardinality(Holders(k) \ {j})
<1>1. ASSUME NEW k \in Keys
      PROVE  /\ Cardinality(Holders(k) \ {j}) =
                  IF permitKey[j] = k THEN permits[k] - 1 ELSE permits[k]
             /\ permits[k] \in Nat /\ Cardinality(Holders(k) \ {j}) \in Nat
  <2>1. permits[k] = Cardinality(Holders(k)) /\ permits[k] \in Nat
    BY DEF PermitInv, PermitTypeOK, PermitsMatchHolders, Holders
  <2>2. /\ IsFiniteSet(Holders(k) \ {j})
        /\ Cardinality(Holders(k) \ {j}) =
             IF j \in Holders(k) THEN Cardinality(Holders(k)) - 1 ELSE Cardinality(Holders(k))
    BY HoldersFinite, FS_RemoveElement
  <2>3. j \in Holders(k) <=> permitKey[j] = k
    BY DEF Holders
  <2>4. Cardinality(Holders(k) \ {j}) \in Nat
    BY <2>2, FS_CardinalityType
  <2> QED
    BY <2>1, <2>2, <2>3, <2>4
<1>2. CASE permitKey[j] = Nil
  <2>1. \A k \in Keys : permitKey[j] # k
    BY <1>2, LimiterAssumption
  <2>2. Released(j) = permits
    BY <1>2 DEF Released
  <2>3. permits \in [Keys -> Nat]
    BY DEF PermitInv, PermitTypeOK
  <2> QED
    BY <1>1, <2>1, <2>2, <2>3
<1>3. CASE permitKey[j] # Nil
  <2> DEFINE held == permitKey[j]
  <2>1. held \in Keys /\ permits \in [Keys -> Nat]
    BY <1>3 DEF PermitInv, PermitTypeOK
  <2>2. permits[held] > 0 /\ permits[held] - 1 \in Nat
    <3>1. permits[permitKey[j]] \in Nat /\ permits[permitKey[j]] - 1 \in Nat
      BY <1>1, <2>1
    <3> QED
      BY <3>1
  <2>3. Released(j) = [permits EXCEPT ![held] = permits[held] - 1]
    BY <1>3, <2>1, <2>2 DEF Released
  <2>4. Released(j) \in [Keys -> Nat]
    BY <2>1, <2>2, <2>3
  <2>5. ASSUME NEW k \in Keys
        PROVE  Released(j)[k] = Cardinality(Holders(k) \ {j})
    BY <1>1, <2>1, <2>3
  <2> QED
    BY <2>4, <2>5
<1> QED
  BY <1>2, <1>3

\* A step of PermitStep keeps the count.
LEMMA PermitStepKeepsCount ==
    ASSUME PermitInv, NEW j \in Jobs, PermitStep(j)
    PROVE  PermitInv'
<1> USE DEF PermitInv
<1>1. CASE UNCHANGED permitVars
  BY <1>1 DEF permitVars, PermitTypeOK, PermitsMatchHolders
<1>2. CASE ReleasePermit(j)
  <2>1. /\ permitKey' = [permitKey EXCEPT ![j] = Nil]
        /\ permitKey \in [Jobs -> Keys \cup {Nil}]
        /\ permits' = Released(j)
    BY <1>2 DEF ReleasePermit, PermitTypeOK
  <2>2. PermitTypeOK'
    BY <2>1, ReleasedCounts DEF PermitTypeOK
  <2>3. ASSUME NEW k \in Keys
        PROVE  Holders(k)' = Holders(k) \ {j}
    BY <2>1, LimiterAssumption DEF Holders
  <2>4. PermitsMatchHolders'
    BY <2>1, <2>3, ReleasedCounts DEF PermitsMatchHolders, Holders
  <2> QED
    BY <2>2, <2>4
<1>3. ASSUME NEW k \in Keys, Hold(j, k), permitKey[j] # k
      PROVE  PermitInv'
  <2>1. /\ permitKey' = [permitKey EXCEPT ![j] = k]
        /\ permitKey \in [Jobs -> Keys \cup {Nil}]
        /\ permits' = [Released(j) EXCEPT ![k] = Released(j)[k] + 1]
    BY <1>3 DEF Hold, PermitTypeOK
  <2>2. Released(j) \in [Keys -> Nat]
    BY ReleasedCounts
  <2>3. PermitTypeOK'
    BY <2>1, <2>2 DEF PermitTypeOK
  <2>4. ASSUME NEW i \in Keys
        PROVE  permits'[i] = Cardinality(Holders(i)')
    <3>1. CASE i = k
      <4>1. Holders(i)' = (Holders(i) \ {j}) \cup {j}
        BY <2>1, <3>1 DEF Holders
      <4>2. IsFiniteSet(Holders(i) \ {j})
        BY HoldersFinite, FS_RemoveElement
      <4>3. Cardinality(Holders(i)') = Cardinality(Holders(i) \ {j}) + 1
        BY <4>1, <4>2, FS_AddElement
      <4> QED
        BY <2>1, <2>2, <3>1, <4>3, ReleasedCounts
    <3>2. CASE i # k
      <4>1. Holders(i)' = Holders(i) \ {j}
        BY <2>1, <3>2 DEF Holders
      <4> QED
        BY <2>1, <2>2, <3>2, <4>1, ReleasedCounts
    <3> QED
      BY <3>1, <3>2
  <2>5. PermitsMatchHolders'
    BY <2>4 DEF PermitsMatchHolders, Holders
  <2> QED
    BY <2>3, <2>5
<1>4. ASSUME NEW k \in Keys, Hold(j, k), permitKey[j] = k
      PROVE  PermitInv'
  BY <1>1, <1>4 DEF Hold
<1> QED
  BY <1>1, <1>2, <1>3, <1>4 DEF PermitStep
-----------------------------------------------------------------------------
\* Every step of a job, of its clusters and of its users is a PermitStep.
LEMMA StepIsPermitStep ==
    ASSUME NEW j \in Jobs, JobStep(j) \/ ClusterStep(j) \/ Environment(j)
    PROVE  PermitStep(j)
<1> USE DEF PermitStep, permitVars, Keys, WithoutPermit, ObservePermit, TryAcquirePermit,
            FailsWithPermit
<1>1. CASE ClusterStep(j)
  BY <1>1 DEF ClusterStep, BackupFinishes, RestoreFinishes, RestoreMismatches
<1>2. CASE Environment(j)
  BY <1>2 DEF Environment, AskFullSync, AskPartialSync, Pause, Resume, SourceWrites, DropTable,
              SourceCollects, BackupCancelled, BackupExpires, RestoreCancelled, SchemaDiffers
<1>3. CASE PausedTick(j) \/ Replay(j) \/ WaitForPermit(j)
  BY <1>3 DEF PausedTick, Replay, WaitForPermit
<1>4. CASE \/ ReuseBackup(j) \/ CreateSnapshot(j) \/ CreateSnapshotLosesReply(j)
           \/ CreateSnapshotFails(j) \/ SourceIsEmpty(j) \/ SkipDroppedTable(j)
  BY <1>4 DEF ReuseBackup, CreateSnapshot, CreateSnapshotLosesReply, CreateSnapshotFails,
              SourceIsEmpty, SkipDroppedTable
<1>5. CASE WaitBackup(j) \/ BackupDone(j) \/ BackupFailed(j) \/ SnapshotNotExist(j)
           \/ GetSnapshotInfo(j)
  BY <1>5 DEF WaitBackup, BackupDone, BackupFailed, SnapshotNotExist, GetSnapshotInfo
<1>6. CASE ReuseRestore(j) \/ RestoreSnapshot(j) \/ RestoreSnapshotLosesReply(j)
           \/ RestoreSnapshotFails(j)
  BY <1>6 DEF ReuseRestore, RestoreSnapshot, RestoreSnapshotLosesReply, RestoreSnapshotFails
<1>7. CASE RestoreExpired(j) \/ WaitRestore(j) \/ SignatureNotMatched(j) \/ RestoreFailed(j)
           \/ RestoreDone(j)
  BY <1>7 DEF RestoreExpired, WaitRestore, SignatureNotMatched, RestoreFailed, RestoreDone
<1>8. CASE SwapAlias(j) \/ ForgetAliases(j) \/ FinishSync(j) \/ FinishSyncFails(j)
  BY <1>8 DEF SwapAlias, ForgetAliases, FinishSync, FinishSyncFails
<1> QED
  BY <1>1, <1>2, <1>3, <1>4, <1>5, <1>6, <1>7, <1>8 DEF JobStep, SyncStep

\* A limiter that nobody uses counts nobody.
LEMMA EmptyLimiter ==
    ASSUME permits \in [Keys -> {0}], permitKey \in [Jobs -> {Nil}]
    PROVE  PermitInv
<1>1. ASSUME NEW k \in Keys
      PROVE  permits[k] = Cardinality(Holders(k))
  <2>1. Holders(k) = {}
    BY LimiterAssumption DEF Holders
  <2> QED
    BY <2>1, FS_EmptySet
<1> QED
  BY <1>1 DEF PermitInv, PermitTypeOK, PermitsMatchHolders, Holders

\* A permit is never lost and never given back twice: releasePermit, tryAcquirePermit and
\* observePermit keep the count of the limiter equal to the number of jobs that hold the key,
\* for every number of jobs and every limit, through pauses, errors and restarts.
THEOREM PermitsCounted == Spec => []PermitsMatchHolders
<1>1. Init => PermitInv
  BY EmptyLimiter DEF Init
<1>2. PermitInv /\ [Next]_vars => PermitInv'
  <2> SUFFICES ASSUME PermitInv, [Next]_vars
               PROVE  PermitInv'
    OBVIOUS
  <2>1. CASE UNCHANGED vars
    BY <2>1 DEF vars, permitVars, PermitInv, PermitTypeOK, PermitsMatchHolders
  <2>2. CASE Crash
    <3>1. permits' \in [Keys -> {0}] /\ permitKey' \in [Jobs -> {Nil}]
      BY <2>2 DEF Crash
    <3>2. ASSUME NEW k \in Keys
          PROVE  permits'[k] = Cardinality({j \in Jobs : permitKey'[j] = k})
      <4>1. {j \in Jobs : permitKey'[j] = k} = {}
        BY <3>1, LimiterAssumption
      <4> QED
        BY <3>1, <4>1, FS_EmptySet
    <3> QED
      BY <3>1, <3>2 DEF PermitInv, PermitTypeOK, PermitsMatchHolders
  <2>3. CASE \E j \in Jobs : JobStep(j) \/ ClusterStep(j) \/ Environment(j)
    BY <2>3, StepIsPermitStep, PermitStepKeepsCount
  <2> QED
    BY <2>1, <2>2, <2>3 DEF Next
<1>3. PermitInv => PermitsMatchHolders
  BY DEF PermitInv
<1> QED
  BY <1>1, <1>2, <1>3, PTL DEF Spec
-----------------------------------------------------------------------------
(***************************************************************************)
(* The invariant of the snapshots, of the values of one job.               *)
(***************************************************************************)

\* The parts of the state of one job.
Sources == [last : Seqs, tables : SUBSET Tables, locked : Seqs, gc : Seqs]

Aliases == [table : Tables, alias : SyncIds, seq : Seqs]

Targets == [held : [Tables -> Seqs], differs : SUBSET Tables, aliased : SUBSET Aliases]

\* The values of one job: source s, backups B, restores R, target g, progress p, its row d,
\* and a, the commit seq it asked its snapshot at.
TypedJob(s, B, R, g, p, d, a) ==
    /\ s \in Sources /\ B \in Seq(Backups) /\ R \in Seq(Restores) /\ g \in Targets
    /\ p \in Progress /\ d \in Progress /\ a \in Seqs

\* The tables with a commit seq of their own, and the others at the commit seq of the job.
Claimed(d, t) == IF d.seqs[t] = 0 THEN d.commitSeq ELSE d.seqs[t]

\* A restore that has brought, or may still bring, its tables.
Live(r) == r.state \in {"running", "finished"}

\* The row names the snapshot the job restores.
HasSnapshot(d) == d.sub \in {"GetSnapshotInfo", "PersistRestoreInfo"}

\* What the volatile progress adds to its row.
VolatileOK(B, R, p, d) ==
    /\ p.sync = d.sync /\ p.syncId = d.syncId /\ p.commitSeq = d.commitSeq
    /\ p.seqs = d.seqs /\ p.aliases = d.aliases /\ p.table = d.table
    /\ d.sub \in {"BeginCreateSnapshot", "GetSnapshotInfo", "PersistRestoreInfo", "Done"}
    /\ d.label = 0
    /\ d.sub = "BeginCreateSnapshot" => p.sub \in {"BeginCreateSnapshot", "WaitBackupDone"}
    /\ d.sub = "GetSnapshotInfo" =>
          p.sub \in {"GetSnapshotInfo", "RestoreSnapshot", "WaitRestoreDone"}
    /\ d.sub \in {"PersistRestoreInfo", "Done"} => p.sub = d.sub
    /\ HasSnapshot(d) => p.name = d.name
    /\ p.sub = "WaitBackupDone" => p.name \in DOMAIN B /\ B[p.name].syncId = d.syncId
    /\ p.sub = "WaitRestoreDone" =>
          /\ p.label \in DOMAIN R /\ R[p.label].snap = d.name
          /\ \A i \in DOMAIN R : R[i].snap = d.name /\ Live(R[i]) => i = p.label

\* The row and the source: where the job stands, what is locked for it, and the tables with a
\* commit seq of their own.
RowOK(s, d, a) ==
    /\ d.sync = "DBTablesIncrementalSync" <=> d.sub = "Done"
    /\ d.sync = "DBPartialSync" => d.table \in Tables /\ d.commitSeq <= a
    /\ \A t \in Tables : d.aliases[t] \in {0, d.syncId}
    /\ 1 <= s.last /\ d.commitSeq <= s.last /\ a <= s.last /\ s.gc <= s.last
    /\ d.sync # "DBFullSync" => s.locked <= d.commitSeq /\ s.gc <= d.commitSeq
    /\ d.sync # "DBFullSync" \/ d.sub = "PersistRestoreInfo" =>
          \A t \in s.tables : d.seqs[t] = 0 \/ d.commitSeq <= d.seqs[t]

\* A backup b of the source: it covers what was committed before it, and one of this sync is
\* not older than the sync.
BackupOK(s, d, a, b) ==
    /\ b.tables # {} /\ b.syncId <= d.syncId
    /\ 1 <= b.from /\ b.from <= s.last
    /\ b.state = "finished" => \A t \in b.tables : b.from <= b.seqs[t] /\ b.seqs[t] <= s.last
    /\ b.state = "running" => b.syncId = d.syncId /\ d.sub = "BeginCreateSnapshot"
    /\ b.state = "finished" /\ b.syncId < d.syncId => \A t \in b.tables : b.seqs[t] <= a
    /\ b.syncId = d.syncId => a <= b.from
    /\ b.syncId = d.syncId /\ d.sync = "DBPartialSync" =>
          b.sync = d.sync /\ b.tables = {d.table}
    /\ b.syncId = d.syncId /\ d.sync = "DBFullSync" =>
          /\ b.sync = d.sync /\ s.tables \subseteq b.tables
          /\ b.state # "cancelled" => s.locked <= b.from /\ s.gc <= b.from

\* The backups of the source: one of this sync at most, and the row names it when it is done.
BackupsOK(s, B, d, a) ==
    /\ \A i \in DOMAIN B : BackupOK(s, d, a, B[i])
    /\ \A i, k \in DOMAIN B :
          /\ B[i].syncId = d.syncId /\ B[i].state # "cancelled"
          /\ B[k].syncId = d.syncId /\ B[k].state # "cancelled"
          => i = k
    /\ HasSnapshot(d) => /\ d.name \in DOMAIN B
                         /\ B[d.name].syncId = d.syncId /\ B[d.name].state = "finished"
    /\ d.sub = "PersistRestoreInfo" =>
          /\ \A t \in B[d.name].tables : d.seqs[t] = B[d.name].seqs[t]
          /\ d.sync = "DBFullSync" => B[d.name].from <= d.commitSeq

\* A restore r of the target: of a finished backup, one that is running brings nothing older
\* than the target has, and one of this sync that is finished has brought its tables.
RestoreOK(s, B, g, d, r) ==
    /\ r.snap \in DOMAIN B /\ B[r.snap].state = "finished" /\ r.tables = B[r.snap].tables
    /\ \A t \in Tables : r.aliases[t] \in {0, B[r.snap].syncId}
    /\ B[r.snap].syncId = d.syncId => d.sub # "BeginCreateSnapshot"
    /\ r.state = "mismatch" => r.table \in Tables
    /\ r.state = "running" =>
          /\ d.sub # "PersistRestoreInfo"
          /\ \A t \in r.tables : g.held[t] <= B[r.snap].seqs[t]
          /\ d.sync # "DBFullSync" =>
                \A t \in r.tables \cap s.tables : d.sync = "DBPartialSync" /\ t = d.table
    /\ d.sub = "GetSnapshotInfo" /\ r.snap = d.name /\ Live(r) => r.aliases = d.aliases
    /\ d.sub = "GetSnapshotInfo" /\ r.snap = d.name /\ r.state = "finished" =>
          \A t \in r.tables :
             IF r.aliases[t] = 0 THEN g.held[t] = B[r.snap].seqs[t]
             ELSE [table |-> t, alias |-> r.aliases[t], seq |-> B[r.snap].seqs[t]] \in g.aliased

\* The restores of the target: one runs at a time, and it is the newest.
RestoresOK(s, B, R, g, d) ==
    /\ \A i \in DOMAIN R : RestoreOK(s, B, g, d, R[i])
    /\ \A i, k \in DOMAIN R :
          R[i].state = "running" =>
             /\ R[k].state = "running" => k = i
             /\ B[R[k].snap].syncId <= B[R[i].snap].syncId
    /\ d.sub = "GetSnapshotInfo" =>
          \A i, k \in DOMAIN R : /\ R[i].snap = d.name /\ Live(R[i])
                                 /\ R[k].snap = d.name /\ Live(R[k])
                                 => i = k

\* The target: nothing is newer than the source, and until the sync is over nothing is newer
\* than what was asked, but for the tables of the snapshot of this sync.
TargetOK(s, B, g, d, a) ==
    /\ \A t \in Tables : g.held[t] <= s.last
    /\ d.sub # "Done" =>
          \A t \in Tables :
             \/ g.held[t] <= a
             \/ HasSnapshot(d) /\ t \in B[d.name].tables /\ g.held[t] = B[d.name].seqs[t]
    /\ \A x \in g.aliased :
          /\ x.alias <= d.syncId /\ x.seq <= s.last
          /\ x.alias = d.syncId /\ d.sub # "Done" =>
                HasSnapshot(d) /\ x.table \in B[d.name].tables /\ x.seq = B[d.name].seqs[x.table]

\* The restored progress agrees with the target, but for the aliases that are not swapped yet.
MapOK(s, g, d) ==
    /\ d.sub = "Done" => \A t \in s.tables : g.held[t] = Claimed(d, t)
    /\ d.sync = "DBPartialSync" /\ d.sub # "PersistRestoreInfo" =>
          \A t \in s.tables \ {d.table} : g.held[t] = Claimed(d, t)
    /\ d.sub = "PersistRestoreInfo" =>
          \A t \in s.tables :
             \/ g.held[t] = Claimed(d, t)
             \/ \E x \in g.aliased : x.table = t /\ x.alias = d.aliases[t] /\ x.seq = Claimed(d, t)

\* All of it for one job.
Good(s, B, R, g, p, d, a) ==
    /\ TypedJob(s, B, R, g, p, d, a)
    /\ VolatileOK(B, R, p, d) /\ RowOK(s, d, a) /\ BackupsOK(s, B, d, a)
    /\ RestoresOK(s, B, R, g, d) /\ TargetOK(s, B, g, d, a) /\ MapOK(s, g, d)
-----------------------------------------------------------------------------
\* The values in the fields that the arithmetic below is about.
LEMMA JobFacts ==
    ASSUME NEW s, NEW B, NEW R, NEW g, NEW p, NEW d, NEW a, TypedJob(s, B, R, g, p, d, a)
    PROVE  /\ s.last \in Nat /\ s.locked \in Nat /\ s.gc \in Nat /\ a \in Nat
           /\ s.tables \subseteq Tables
           /\ d.syncId \in Nat /\ d.syncId # 0 /\ d.commitSeq \in Nat
           /\ \A t \in Tables : d.seqs[t] \in Nat /\ g.held[t] \in Nat /\ d.aliases[t] \in Nat
           /\ \A i \in DOMAIN B :
                 /\ B[i] \in Backups /\ B[i].syncId \in Nat /\ B[i].from \in Nat
                 /\ B[i].tables \subseteq Tables
                 /\ \A t \in Tables : B[i].seqs[t] \in Nat
           /\ \A i \in DOMAIN R : /\ R[i] \in Restores /\ R[i].tables \subseteq Tables
                                  /\ \A t \in Tables : R[i].aliases[t] \in Nat
           /\ \A x \in g.aliased : /\ x.table \in Tables /\ x.alias \in Nat /\ x.seq \in Nat
                                   /\ x.alias # 0
<1>1. Seqs \subseteq Nat /\ Seqs \cup {Dropped} \subseteq Nat /\ SyncIds \subseteq Nat
  BY SnapshotAssumption DEF Seqs, Dropped, SyncIds
<1>2. s \in Sources /\ B \in Seq(Backups) /\ R \in Seq(Restores) /\ g \in Targets
      /\ d \in Progress /\ a \in Seqs
  BY DEF TypedJob
<1>3. /\ s.last \in Nat /\ s.locked \in Nat /\ s.gc \in Nat /\ a \in Nat
      /\ s.tables \subseteq Tables
  BY <1>1, <1>2 DEF Sources
<1>4. /\ d.syncId \in Nat /\ d.syncId # 0 /\ d.commitSeq \in Nat
      /\ \A t \in Tables : d.seqs[t] \in Nat /\ d.aliases[t] \in Nat
  BY <1>1, <1>2 DEF Progress, AliasMaps, SyncIds
<1>5. g.held \in [Tables -> Seqs] /\ g.aliased \subseteq Aliases
  BY <1>2 DEF Targets
<1>6. \A t \in Tables : g.held[t] \in Nat
  BY <1>1, <1>5
<1>7. \A x \in g.aliased : /\ x.table \in Tables /\ x.alias \in Nat /\ x.seq \in Nat
                           /\ x.alias # 0
  BY <1>1, <1>5 DEF Aliases, SyncIds
<1>8. \A b \in Backups : /\ b.syncId \in Nat /\ b.from \in Nat /\ b.tables \subseteq Tables
                         /\ \A t \in Tables : b.seqs[t] \in Nat
  BY <1>1 DEF Backups
<1>9. \A r \in Restores : r.tables \subseteq Tables /\ \A t \in Tables : r.aliases[t] \in Nat
  <2>1. \A r \in Restores : r.tables \subseteq Tables /\ r.aliases \in AliasMaps
    BY DEF Restores
  <2>2. \A f \in AliasMaps : \A t \in Tables : f[t] \in Nat
    BY DEF AliasMaps, SyncIds
  <2> QED
    BY <2>1, <2>2
<1>10. \A i \in DOMAIN B : B[i] \in Backups
  BY <1>2
<1>11. \A i \in DOMAIN R : R[i] \in Restores
  BY <1>2
<1> QED
  BY <1>3, <1>4, <1>6, <1>7, <1>8, <1>9, <1>10, <1>11

\* A crash: the job goes on with the progress of its row.
LEMMA RestartIsGood ==
    ASSUME NEW s, NEW B, NEW R, NEW g, NEW p, NEW d, NEW a, Good(s, B, R, g, p, d, a)
    PROVE  Good(s, B, R, g, d, d, a)
<1>1. TypedJob(s, B, R, g, d, d, a)
  BY DEF Good, TypedJob
<1>2. VolatileOK(B, R, d, d)
  BY DEF Good, VolatileOK
<1> QED
  BY <1>1, <1>2 DEF Good

\* A job that keeps its row may have any progress that fits it.
LEMMA VolatileIsGood ==
    ASSUME NEW s, NEW B, NEW R, NEW g, NEW p, NEW d, NEW a, Good(s, B, R, g, p, d, a),
           NEW p2 \in Progress, VolatileOK(B, R, p2, d)
    PROVE  Good(s, B, R, g, p2, d, a)
BY DEF Good, TypedJob

\* lockBinlog
LEMMA LockIsGood ==
    ASSUME NEW s, NEW B, NEW R, NEW g, NEW p, NEW d, NEW a, Good(s, B, R, g, p, d, a),
           d.sync = "DBFullSync", d.sub = "BeginCreateSnapshot",
           \A i \in DOMAIN B : B[i].syncId = d.syncId => B[i].state = "cancelled",
           NEW s2 \in Sources, s2.last = s.last, s2.tables = s.tables, s2.gc = s.gc
    PROVE  Good(s2, B, R, g, p, d, a)
<1>1. TypedJob(s2, B, R, g, p, d, a)
  BY DEF Good, TypedJob
<1>2. RowOK(s2, d, a)
  BY DEF Good, RowOK
<1>3. \A i \in DOMAIN B : BackupOK(s2, d, a, B[i])
  BY DEF Good, BackupsOK, BackupOK
<1>4. BackupsOK(s2, B, d, a)
  BY <1>3 DEF Good, BackupsOK
<1>5. TargetOK(s2, B, g, d, a) /\ MapOK(s2, g, d)
  BY DEF Good, TargetOK, MapOK
<1>6. RestoresOK(s2, B, R, g, d)
  <2>1. \A i \in DOMAIN R : RestoreOK(s2, B, g, d, R[i])
    BY DEF Good, RestoresOK, RestoreOK
  <2> QED
    BY <2>1 DEF Good, RestoresOK
<1> QED
  BY <1>1, <1>2, <1>4, <1>5, <1>6 DEF Good

\* NewSnapshot, NewPartialSnapshot
LEMMA NewSyncIsGood ==
    ASSUME NEW s, NEW B, NEW R, NEW g, NEW p, NEW d, NEW a, Good(s, B, R, g, p, d, a),
           \A i \in DOMAIN B : B[i].state # "running",
           NEW q \in Progress, q.sub = "BeginCreateSnapshot", q.syncId = d.syncId + 1,
           q.label = 0, q.commitSeq = d.commitSeq, q.seqs = d.seqs,
           q.sync # "DBTablesIncrementalSync",
           \A t \in Tables : q.aliases[t] \in {0, q.syncId},
           q.sync = "DBPartialSync" =>
              /\ q.table \in Tables
              /\ \/ d.sync = "DBTablesIncrementalSync"
                 \/ d.sync = "DBPartialSync" /\ d.sub # "PersistRestoreInfo" /\ d.table = q.table
    PROVE  Good(s, B, R, g, q, q, s.last)
<1> DEFINE b == s.last
<1>0. TypedJob(s, B, R, g, p, d, a)
  BY DEF Good
<1>1. TypedJob(s, B, R, g, q, q, s.last)
  BY <1>0 DEF TypedJob, Sources
<1>2. VolatileOK(B, R, q, q)
  BY DEF VolatileOK, HasSnapshot
<1>3. RowOK(s, q, s.last)
  <2>1. /\ s.last \in Nat /\ 1 <= s.last /\ q.commitSeq <= s.last /\ s.last <= s.last
        /\ s.gc <= s.last
    BY <1>0, JobFacts DEF Good, RowOK
  <2>2. q.sync # "DBFullSync" => q.sync = "DBPartialSync"
    BY DEF Progress
  <2>3. q.sync # "DBFullSync" => d.sync # "DBFullSync"
    BY <2>2
  <2> QED
    BY <2>1, <2>2, <2>3 DEF Good, RowOK
<1>4. \A i \in DOMAIN B : BackupOK(s, q, s.last, B[i])
  <2>1. ASSUME NEW i \in DOMAIN B
        PROVE  BackupOK(s, q, s.last, B[i])
    <3>1. BackupOK(s, d, a, B[i]) /\ B[i].state # "running"
      BY DEF Good, BackupsOK
    <3>2. d.syncId \in Nat /\ B[i].syncId \in Nat
      BY <1>0, JobFacts
    <3> QED
      BY <3>1, <3>2 DEF BackupOK
  <2> QED
    BY <2>1
<1>5. BackupsOK(s, B, q, s.last)
  <2>1. \A i \in DOMAIN B : B[i].syncId # q.syncId
    BY <1>0, JobFacts DEF Good, BackupsOK, BackupOK
  <2> QED
    BY <1>4, <2>1 DEF BackupsOK, HasSnapshot
<1>6. RestoresOK(s, B, R, g, q)
  <2>1. ASSUME NEW i \in DOMAIN R
        PROVE  RestoreOK(s, B, g, q, R[i])
    <3>1. RestoreOK(s, B, g, d, R[i])
      BY DEF Good, RestoresOK
    <3>2. B[R[i].snap].syncId # q.syncId
      BY <1>0, <3>1, JobFacts DEF Good, BackupsOK, BackupOK, RestoreOK
    <3>3. R[i].state = "running" /\ q.sync # "DBFullSync" =>
             \A t \in R[i].tables \cap s.tables : q.sync = "DBPartialSync" /\ t = q.table
      <4>1. q.sync # "DBFullSync" => q.sync = "DBPartialSync"
        BY DEF Progress
      <4> QED
        BY <3>1, <4>1 DEF RestoreOK
    <3> QED
      BY <3>1, <3>2, <3>3 DEF RestoreOK
  <2> QED
    BY <2>1 DEF Good, RestoresOK
<1>7. TargetOK(s, B, g, q, s.last)
  <2>1. \A x \in g.aliased : x.alias # q.syncId /\ x.alias <= q.syncId
    BY <1>0, JobFacts DEF Good, TargetOK
  <2> QED
    BY <2>1 DEF Good, TargetOK
<1>8. MapOK(s, g, q)
  BY DEF Good, MapOK, Claimed, RowOK
<1> QED
  BY <1>1, <1>2, <1>3, <1>5, <1>6, <1>7, <1>8 DEF Good
-----------------------------------------------------------------------------
\* CreateSnapshot: the cluster starts a backup.
LEMMA AppendedBackupIsGood ==
    ASSUME NEW s, NEW B, NEW R, NEW g, NEW p, NEW d, NEW a, Good(s, B, R, g, p, d, a),
           d.sub = "BeginCreateSnapshot",
           \A i \in DOMAIN B : B[i].syncId = d.syncId => B[i].state = "cancelled",
           NEW b \in Backups, b.sync = d.sync, b.syncId = d.syncId, b.from = s.last,
           b.state = "running", b.tables # {},
           d.sync = "DBFullSync" => b.tables = s.tables /\ s.locked = s.last,
           d.sync = "DBPartialSync" => b.tables = {d.table}
    PROVE  Good(s, Append(B, b), R, g, p, d, a)
<1> DEFINE C == Append(B, b)
<1>0. TypedJob(s, B, R, g, p, d, a) /\ B \in Seq(Backups)
  BY DEF Good, TypedJob
<1>1. /\ C \in Seq(Backups) /\ DOMAIN C = DOMAIN B \cup {Len(B) + 1}
      /\ \A i \in DOMAIN B : C[i] = B[i] /\ i # Len(B) + 1
      /\ C[Len(B) + 1] = b
  BY <1>0
<1> HIDE DEF C
<1>2. TypedJob(s, C, R, g, p, d, a)
  BY <1>0, <1>1 DEF TypedJob
<1>3. VolatileOK(C, R, p, d)
  BY <1>1 DEF Good, VolatileOK
<1>4. BackupsOK(s, C, d, a)
  <2>1. BackupOK(s, d, a, b)
    BY <1>0, JobFacts DEF Good, RowOK, BackupOK
  <2>2. \A i \in DOMAIN C : BackupOK(s, d, a, C[i])
    BY <1>1, <2>1 DEF Good, BackupsOK
  <2>3. \A i \in DOMAIN C : C[i].syncId = d.syncId /\ C[i].state # "cancelled" => i = Len(B) + 1
    BY <1>1
  <2> QED
    BY <2>2, <2>3 DEF BackupsOK, HasSnapshot
<1>5. RestoresOK(s, C, R, g, d)
  <2>1. ASSUME NEW i \in DOMAIN R
        PROVE  RestoreOK(s, C, g, d, R[i]) /\ C[R[i].snap] = B[R[i].snap]
    <3>1. RestoreOK(s, B, g, d, R[i])
      BY DEF Good, RestoresOK
    <3>2. R[i].snap \in DOMAIN B
      BY <3>1 DEF RestoreOK
    <3>3. R[i].snap \in DOMAIN C /\ C[R[i].snap] = B[R[i].snap]
      BY <1>1, <3>2
    <3> QED
      BY <3>1, <3>3 DEF RestoreOK
  <2> QED
    BY <2>1 DEF Good, RestoresOK
<1>6. TargetOK(s, C, g, d, a)
  BY DEF Good, TargetOK, HasSnapshot
<1> QED
  BY <1>2, <1>3, <1>4, <1>5, <1>6 DEF Good, C

\* handlePartialSyncTableNotFound
LEMMA SkippedTableIsGood ==
    ASSUME NEW s, NEW B, NEW R, NEW g, NEW p, NEW d, NEW a, Good(s, B, R, g, p, d, a),
           d.sync = "DBPartialSync", d.sub = "BeginCreateSnapshot", d.table \notin s.tables,
           \A i \in DOMAIN B : B[i].state # "running",
           NEW q \in Progress, NEW e \in Progress, VolatileOK(B, R, q, e),
           e.sync = "DBTablesIncrementalSync", e.sub = "Done",
           e.syncId = d.syncId, e.commitSeq = d.commitSeq, e.aliases = d.aliases,
           e.seqs = [d.seqs EXCEPT ![d.table] = Dropped]
    PROVE  Good(s, B, R, g, q, e, a)
<1>0. TypedJob(s, B, R, g, p, d, a)
  BY DEF Good
<1>1. TypedJob(s, B, R, g, q, e, a)
  BY <1>0 DEF TypedJob
<1>2. \A t \in s.tables : t # d.table /\ e.seqs[t] = d.seqs[t]
  <2>1. d.seqs \in [Tables -> Seqs \cup {Dropped}] /\ s.tables \subseteq Tables
    BY <1>0 DEF TypedJob, Progress, Sources
  <2> QED
    BY <2>1
<1>3. RowOK(s, e, a)
  BY <1>2 DEF Good, RowOK
<1>4. BackupsOK(s, B, e, a)
  <2>1. \A i \in DOMAIN B : BackupOK(s, e, a, B[i])
    BY DEF Good, BackupsOK, BackupOK
  <2> QED
    BY <2>1 DEF Good, BackupsOK, HasSnapshot
<1>5. RestoresOK(s, B, R, g, e)
  <2>1. \A i \in DOMAIN R : RestoreOK(s, B, g, e, R[i])
    BY DEF Good, RestoresOK, RestoreOK
  <2> QED
    BY <2>1 DEF Good, RestoresOK
<1>6. TargetOK(s, B, g, e, a) /\ MapOK(s, g, e)
  BY <1>2 DEF Good, TargetOK, MapOK, Claimed
<1> QED
  BY <1>1, <1>3, <1>4, <1>5, <1>6 DEF Good

\* The backup is done: the name of its snapshot is stored.
LEMMA SnapshotFoundIsGood ==
    ASSUME NEW s, NEW B, NEW R, NEW g, NEW p, NEW d, NEW a, Good(s, B, R, g, p, d, a),
           d.sub = "BeginCreateSnapshot", NEW n \in DOMAIN B,
           B[n].syncId = d.syncId, B[n].state = "finished",
           NEW q \in Progress, NEW e \in Progress, VolatileOK(B, R, q, e),
           e.sync = d.sync, e.sub = "GetSnapshotInfo", e.name = n, e.table = d.table,
           e.syncId = d.syncId, e.commitSeq = d.commitSeq, e.aliases = d.aliases,
           e.seqs = d.seqs
    PROVE  Good(s, B, R, g, q, e, a)
<1>0. TypedJob(s, B, R, g, p, d, a)
  BY DEF Good
<1>1. TypedJob(s, B, R, g, q, e, a)
  BY <1>0 DEF TypedJob
<1>2. RowOK(s, e, a)
  BY DEF Good, RowOK
<1>3. BackupsOK(s, B, e, a)
  <2>1. ASSUME NEW i \in DOMAIN B
        PROVE  BackupOK(s, e, a, B[i])
    <3>1. BackupOK(s, d, a, B[i])
      BY DEF Good, BackupsOK
    <3>2. B[i].state = "running" => i = n
      BY <3>1 DEF Good, BackupsOK, BackupOK
    <3>3. B[i].state # "running"
      BY <3>2
    <3> QED
      BY <3>1, <3>3 DEF BackupOK
  <2> QED
    BY <2>1 DEF Good, BackupsOK, HasSnapshot
<1>4. RestoresOK(s, B, R, g, e)
  <2>1. ASSUME NEW i \in DOMAIN R
        PROVE  RestoreOK(s, B, g, e, R[i]) /\ R[i].snap # e.name
    <3>1. RestoreOK(s, B, g, d, R[i])
      BY DEF Good, RestoresOK
    <3>2. R[i].snap # e.name
      BY <3>1 DEF RestoreOK
    <3> QED
      BY <3>1, <3>2 DEF RestoreOK
  <2> QED
    BY <2>1 DEF Good, RestoresOK
<1>5. TargetOK(s, B, g, e, a) /\ MapOK(s, g, e)
  BY DEF Good, TargetOK, MapOK, Claimed, HasSnapshot
<1> QED
  BY <1>1, <1>2, <1>3, <1>4, <1>5 DEF Good

\* RestoreSnapshot: the cluster starts a restore.
LEMMA AppendedRestoreIsGood ==
    ASSUME NEW s, NEW B, NEW R, NEW g, NEW p, NEW d, NEW a, Good(s, B, R, g, p, d, a),
           d.sub = "GetSnapshotInfo", p.sub # "WaitRestoreDone",
           \A i \in DOMAIN R : R[i].state # "running",
           \A i \in DOMAIN R : R[i].snap = d.name => ~Live(R[i]),
           NEW r \in Restores, r.snap = d.name, r.tables = B[d.name].tables,
           r.aliases = d.aliases, r.state = "running"
    PROVE  Good(s, B, Append(R, r), g, p, d, a)
<1> DEFINE Q == Append(R, r)
<1>0. TypedJob(s, B, R, g, p, d, a) /\ R \in Seq(Restores)
  BY DEF Good, TypedJob
<1>1. /\ Q \in Seq(Restores) /\ DOMAIN Q = DOMAIN R \cup {Len(R) + 1}
      /\ \A i \in DOMAIN R : Q[i] = R[i] /\ i # Len(R) + 1
      /\ Q[Len(R) + 1] = r
  BY <1>0
<1> HIDE DEF Q
<1>2. TypedJob(s, B, Q, g, p, d, a)
  BY <1>0, <1>1 DEF TypedJob
<1>3. VolatileOK(B, Q, p, d)
  BY DEF Good, VolatileOK
<1>4. RestoreOK(s, B, g, d, r)
  <2>1. d.name \in DOMAIN B /\ B[d.name].state = "finished" /\ B[d.name].syncId = d.syncId
    BY DEF Good, BackupsOK, HasSnapshot
  <2>2. BackupOK(s, d, a, B[d.name])
    BY <2>1 DEF Good, BackupsOK
  <2>3. /\ B[d.name].tables \subseteq Tables /\ B[d.name].from \in Nat /\ a \in Nat
        /\ \A t \in Tables : B[d.name].seqs[t] \in Nat /\ g.held[t] \in Nat
    BY <1>0, <2>1, JobFacts
  <2>4. d.sub # "Done"
    OBVIOUS
  <2>5. \A t \in r.tables : g.held[t] <= B[r.snap].seqs[t]
    BY <2>1, <2>2, <2>3, <2>4 DEF Good, BackupOK, TargetOK
  <2>6. d.sync # "DBFullSync" =>
           \A t \in r.tables \cap s.tables : d.sync = "DBPartialSync" /\ t = d.table
    <3>1. d.sync # "DBFullSync" => d.sync = "DBPartialSync"
      BY <1>0 DEF Good, RowOK, TypedJob, Progress
    <3> QED
      BY <2>1, <2>2, <3>1 DEF BackupOK
  <2>7. \A t \in Tables : r.aliases[t] \in {0, B[r.snap].syncId}
    BY <2>1 DEF Good, RowOK
  <2> QED
    BY <2>1, <2>5, <2>6, <2>7 DEF RestoreOK
<1>5. \A i \in DOMAIN R : B[R[i].snap].syncId <= B[r.snap].syncId
  <2>1. d.name \in DOMAIN B /\ B[d.name].syncId = d.syncId
    BY DEF Good, BackupsOK, HasSnapshot
  <2>2. \A i \in DOMAIN R : R[i].snap \in DOMAIN B
    BY DEF Good, RestoresOK, RestoreOK
  <2> QED
    BY <2>1, <2>2 DEF Good, BackupsOK, BackupOK
<1>6. RestoresOK(s, B, Q, g, d)
  <2>1. \A i \in DOMAIN Q : RestoreOK(s, B, g, d, Q[i])
    BY <1>1, <1>4 DEF Good, RestoresOK
  <2>2. \A i \in DOMAIN Q : Q[i].state = "running" => i = Len(R) + 1
    BY <1>1
  <2>3. B[r.snap].syncId <= B[r.snap].syncId
    <3>1. r.snap \in DOMAIN B
      BY <1>4 DEF RestoreOK
    <3> QED
      BY <1>0, <3>1, JobFacts
  <2>4. \A k \in DOMAIN Q : B[Q[k].snap].syncId <= B[r.snap].syncId
    BY <1>1, <1>5, <2>3
  <2>5. \A i \in DOMAIN Q : Q[i].snap = d.name /\ Live(Q[i]) => i = Len(R) + 1
    BY <1>1
  <2> QED
    BY <1>1, <2>1, <2>2, <2>4, <2>5 DEF RestoresOK
<1> QED
  BY <1>2, <1>3, <1>6 DEF Good, Q
-----------------------------------------------------------------------------
\* A running restore ends without its tables: it is cancelled, or stopped by a schema.
LEMMA EndedRestoreIsGood ==
    ASSUME NEW s, NEW B, NEW R, NEW g, NEW p, NEW d, NEW a, Good(s, B, R, g, p, d, a),
           NEW n \in DOMAIN R, NEW r \in Restores,
           r.snap = R[n].snap, r.tables = R[n].tables, r.aliases = R[n].aliases,
           ~Live(r), r.state = "mismatch" => r.table \in Tables
    PROVE  Good(s, B, [R EXCEPT ![n] = r], g, p, d, a)
<1> DEFINE Q == [R EXCEPT ![n] = r]
<1>0. TypedJob(s, B, R, g, p, d, a) /\ R \in Seq(Restores)
  BY DEF Good, TypedJob
<1>1. /\ Q \in Seq(Restores) /\ DOMAIN Q = DOMAIN R
      /\ \A i \in DOMAIN R : i # n => Q[i] = R[i]
      /\ Q[n] = r
  BY <1>0
<1> HIDE DEF Q
<1>2. TypedJob(s, B, Q, g, p, d, a)
  BY <1>0, <1>1 DEF TypedJob
<1>3. \A i \in DOMAIN Q : Q[i].snap = R[i].snap /\ (Live(Q[i]) => Q[i] = R[i])
  BY <1>1
<1>4. VolatileOK(B, Q, p, d)
  BY <1>1, <1>3 DEF Good, VolatileOK
<1>5. RestoreOK(s, B, g, d, r)
  <2>1. RestoreOK(s, B, g, d, R[n])
    BY DEF Good, RestoresOK
  <2> QED
    BY <2>1 DEF RestoreOK, Live
<1>6. RestoresOK(s, B, Q, g, d)
  <2>1. \A i \in DOMAIN Q : RestoreOK(s, B, g, d, Q[i])
    BY <1>1, <1>5 DEF Good, RestoresOK
  <2>2. \A i \in DOMAIN Q : Q[i].state = "running" => Q[i] = R[i]
    BY <1>3 DEF Live
  <2> QED
    BY <1>1, <1>3, <2>1, <2>2 DEF Good, RestoresOK
<1> QED
  BY <1>2, <1>4, <1>6 DEF Good, Q

\* handleRestoreSignatureNotMatched of a full sync: another alias is stored.
LEMMA AddedAliasIsGood ==
    ASSUME NEW s, NEW B, NEW R, NEW g, NEW p, NEW d, NEW a, Good(s, B, R, g, p, d, a),
           d.sync = "DBFullSync", d.sub = "GetSnapshotInfo",
           \A i \in DOMAIN R : R[i].snap = d.name => ~Live(R[i]),
           NEW t \in Tables,
           NEW q \in Progress, NEW e \in Progress, VolatileOK(B, R, q, e),
           e.sync = d.sync, e.sub = d.sub, e.name = d.name, e.table = d.table,
           e.syncId = d.syncId, e.commitSeq = d.commitSeq, e.seqs = d.seqs,
           e.aliases = [d.aliases EXCEPT ![t] = d.syncId]
    PROVE  Good(s, B, R, g, q, e, a)
<1>0. TypedJob(s, B, R, g, p, d, a) /\ d.aliases \in AliasMaps
  BY DEF Good, TypedJob, Progress
<1>1. TypedJob(s, B, R, g, q, e, a)
  BY <1>0 DEF TypedJob
<1>2. \A u \in Tables : e.aliases[u] \in {0, e.syncId}
  BY <1>0 DEF Good, RowOK, AliasMaps
<1>3. RowOK(s, e, a)
  BY <1>2 DEF Good, RowOK
<1>4. BackupsOK(s, B, e, a)
  BY DEF Good, BackupsOK, BackupOK, HasSnapshot
<1>5. RestoresOK(s, B, R, g, e)
  <2>1. \A i \in DOMAIN R : RestoreOK(s, B, g, e, R[i])
    BY DEF Good, RestoresOK, RestoreOK, Live
  <2> QED
    BY <2>1 DEF Good, RestoresOK
<1>6. TargetOK(s, B, g, e, a) /\ MapOK(s, g, e)
  BY DEF Good, TargetOK, MapOK, HasSnapshot
<1> QED
  BY <1>1, <1>3, <1>4, <1>5, <1>6 DEF Good

\* While the restore of the job's snapshot is finished, no restore runs: one of an earlier
\* snapshot would have stopped it from being made.
LEMMA NoneRunsBesideFinished ==
    ASSUME NEW s, NEW B, NEW R, NEW g, NEW p, NEW d, NEW a, Good(s, B, R, g, p, d, a),
           d.sub = "GetSnapshotInfo", NEW n \in DOMAIN R, R[n].snap = d.name,
           R[n].state = "finished"
    PROVE  \A i \in DOMAIN R : R[i].state # "running"
<1> SUFFICES ASSUME NEW i \in DOMAIN R, R[i].state = "running"
             PROVE  FALSE
  OBVIOUS
<1>0. TypedJob(s, B, R, g, p, d, a)
  BY DEF Good
<1>1. d.name \in DOMAIN B /\ B[d.name].syncId = d.syncId /\ B[d.name].state = "finished"
  BY DEF Good, BackupsOK, HasSnapshot
<1>2. R[i].snap \in DOMAIN B /\ B[R[i].snap].state = "finished"
  BY DEF Good, RestoresOK, RestoreOK
<1>3. B[R[i].snap].syncId <= d.syncId
  BY <1>2 DEF Good, BackupsOK, BackupOK
<1>4. d.syncId <= B[R[i].snap].syncId
  BY <1>1 DEF Good, RestoresOK
<1>5. d.syncId \in Nat /\ B[R[i].snap].syncId \in Nat
  BY <1>0, <1>2, JobFacts
<1>6. B[R[i].snap].syncId = d.syncId
  BY <1>3, <1>4, <1>5
<1>7. R[i].snap = d.name
  BY <1>1, <1>2, <1>6 DEF Good, BackupsOK
<1>8. i = n
  BY <1>7 DEF Good, RestoresOK, Live
<1> QED
  BY <1>8

\* The restore is done: the commit seqs of its snapshot are stored.
LEMMA RestoredIsGood ==
    ASSUME NEW s, NEW B, NEW R, NEW g, NEW p, NEW d, NEW a, Good(s, B, R, g, p, d, a),
           d.sub = "GetSnapshotInfo",
           NEW n \in DOMAIN R, R[n].snap = d.name, R[n].state = "finished",
           NEW q \in Progress, NEW e \in Progress, VolatileOK(B, R, q, e),
           e.sync = d.sync, e.sub = "PersistRestoreInfo", e.name = d.name, e.table = d.table,
           e.syncId = d.syncId, e.aliases = d.aliases,
           \A t \in Tables :
              e.seqs[t] = IF t \in B[d.name].tables \/ d.sync = "DBFullSync"
                          THEN B[d.name].seqs[t] ELSE d.seqs[t],
           d.sync = "DBPartialSync" => e.commitSeq = d.commitSeq,
           d.sync = "DBFullSync" =>
              /\ B[d.name].from <= e.commitSeq
              /\ \A t \in B[d.name].tables : e.commitSeq <= B[d.name].seqs[t]
    PROVE  Good(s, B, R, g, q, e, a)
<1> DEFINE b == B[d.name]
<1>0. TypedJob(s, B, R, g, p, d, a) /\ TypedJob(s, B, R, g, q, e, a)
  BY DEF Good, TypedJob
<1>1. /\ d.name \in DOMAIN B /\ b.syncId = d.syncId /\ b.state = "finished"
      /\ BackupOK(s, d, a, b)
  BY DEF Good, BackupsOK, HasSnapshot
<1>2. /\ s.last \in Nat /\ a \in Nat /\ b.from \in Nat /\ b.tables \subseteq Tables
      /\ e.commitSeq \in Nat /\ d.commitSeq \in Nat
      /\ s.tables \subseteq Tables /\ s.locked \in Nat /\ s.gc \in Nat
      /\ \A t \in Tables : b.seqs[t] \in Nat /\ d.seqs[t] \in Nat
  BY <1>0, <1>1, JobFacts
<1>3. /\ b.tables # {} /\ 1 <= b.from /\ a <= b.from
      /\ \A t \in b.tables : b.from <= b.seqs[t] /\ b.seqs[t] <= s.last
      /\ d.sync = "DBFullSync" => s.tables \subseteq b.tables
      /\ d.sync = "DBPartialSync" => b.tables = {d.table}
  BY <1>1 DEF BackupOK
<1>4. d.sync = "DBFullSync" \/ d.sync = "DBPartialSync"
  BY <1>0 DEF Good, RowOK, TypedJob, Progress
<1>5. \A t \in b.tables : e.seqs[t] = b.seqs[t] /\ Claimed(e, t) = b.seqs[t] /\ e.seqs[t] # 0
  <2>1. \A t \in b.tables : e.seqs[t] = b.seqs[t]
    BY <1>2
  <2>2. \A t \in b.tables : b.seqs[t] # 0
    BY <1>2, <1>3
  <2> QED
    BY <2>1, <2>2 DEF Claimed
<1>6. \A t \in s.tables \ b.tables :
         d.sync = "DBPartialSync" /\ e.seqs[t] = d.seqs[t] /\ Claimed(e, t) = Claimed(d, t)
  BY <1>2, <1>3, <1>4 DEF Claimed
<1>7. RowOK(s, e, a)
  <2>1. e.commitSeq <= s.last
    <3>1. CASE d.sync = "DBFullSync"
      <4>1. PICK t \in b.tables : TRUE
        BY <1>3
      <4>2. e.commitSeq <= b.seqs[t] /\ b.seqs[t] <= s.last /\ b.seqs[t] \in Nat
        BY <1>2, <1>3, <3>1, <4>1
      <4> QED
        BY <1>2, <4>2
    <3>2. CASE d.sync = "DBPartialSync"
      BY <3>2 DEF Good, RowOK
    <3> QED
      BY <1>4, <3>1, <3>2
  <2>2. \A t \in s.tables : e.seqs[t] = 0 \/ e.commitSeq <= e.seqs[t]
    <3>1. ASSUME NEW t \in s.tables, t \in b.tables
          PROVE  e.commitSeq <= e.seqs[t]
      <4>1. CASE d.sync = "DBFullSync"
        BY <1>5, <3>1, <4>1
      <4>2. CASE d.sync = "DBPartialSync"
        <5>1. e.commitSeq <= a /\ a <= b.from /\ b.from <= b.seqs[t] /\ b.seqs[t] \in Nat
          BY <1>2, <1>3, <3>1, <4>2 DEF Good, RowOK
        <5> QED
          BY <1>2, <1>5, <3>1, <5>1
      <4> QED
        BY <1>4, <4>1, <4>2
    <3>2. ASSUME NEW t \in s.tables, t \notin b.tables
          PROVE  e.seqs[t] = 0 \/ e.commitSeq <= e.seqs[t]
      BY <1>6, <3>2 DEF Good, RowOK
    <3> QED
      BY <3>1, <3>2
  <2>3. RowOK(s, d, a)
    BY DEF Good
  <2>4. /\ e.sync = "DBPartialSync" => e.table \in Tables /\ e.commitSeq <= a
        /\ e.sync # "DBFullSync" => s.locked <= e.commitSeq /\ s.gc <= e.commitSeq
    BY <1>4, <2>3 DEF RowOK
  <2>5. \A t \in Tables : e.aliases[t] \in {0, e.syncId}
    BY <2>3 DEF RowOK
  <2>6. 1 <= s.last /\ a <= s.last /\ s.gc <= s.last
    BY <2>3 DEF RowOK
  <2>7. e.sync # "DBTablesIncrementalSync" /\ e.sub # "Done"
    BY <1>4
  <2> QED
    BY <2>1, <2>2, <2>4, <2>5, <2>6, <2>7 DEF RowOK
<1>8. BackupsOK(s, B, e, a)
  <2>1. ASSUME NEW i \in DOMAIN B
        PROVE  BackupOK(s, e, a, B[i])
    BY DEF Good, BackupsOK, BackupOK
  <2> QED
    BY <1>1, <1>5, <2>1 DEF Good, BackupsOK, HasSnapshot
<1>9. RestoresOK(s, B, R, g, e)
  <2>1. \A i \in DOMAIN R : R[i].state # "running"
    BY NoneRunsBesideFinished
  <2>2. \A i \in DOMAIN R : RestoreOK(s, B, g, e, R[i])
    BY <2>1 DEF Good, RestoresOK, RestoreOK
  <2> QED
    BY <2>1, <2>2 DEF RestoresOK
<1>10. TargetOK(s, B, g, e, a)
  BY DEF Good, TargetOK, HasSnapshot
<1>11. MapOK(s, g, e)
  <2>1. ASSUME NEW t \in s.tables, t \in b.tables
        PROVE  \/ g.held[t] = Claimed(e, t)
               \/ \E x \in g.aliased :
                     x.table = t /\ x.alias = e.aliases[t] /\ x.seq = Claimed(e, t)
    <3>1. /\ R[n].tables = b.tables /\ R[n].aliases = d.aliases
          /\ IF d.aliases[t] = 0 THEN g.held[t] = b.seqs[t]
             ELSE [table |-> t, alias |-> d.aliases[t], seq |-> b.seqs[t]] \in g.aliased
      BY <2>1 DEF Good, RestoresOK, RestoreOK, Live
    <3>2. CASE d.aliases[t] = 0
      BY <1>5, <2>1, <3>1, <3>2
    <3>3. CASE d.aliases[t] # 0
      <4> DEFINE x == [table |-> t, alias |-> d.aliases[t], seq |-> b.seqs[t]]
      <4>1. x \in g.aliased /\ x.table = t /\ x.alias = e.aliases[t] /\ x.seq = Claimed(e, t)
        BY <1>5, <2>1, <3>1, <3>3
      <4> QED
        BY <4>1
    <3> QED
      BY <3>2, <3>3
  <2>2. ASSUME NEW t \in s.tables, t \notin b.tables
        PROVE  g.held[t] = Claimed(e, t)
    <3>1. t # d.table
      BY <1>3, <1>6, <2>2
    <3> QED
      BY <1>6, <2>2, <3>1 DEF Good, MapOK
  <2> QED
    BY <2>1, <2>2 DEF MapOK
<1> QED
  BY <1>0, <1>7, <1>8, <1>9, <1>10, <1>11 DEF Good
-----------------------------------------------------------------------------
\* ReplaceTable: alias x takes the place of its table, which becomes newer.
LEMMA SwappedIsGood ==
    ASSUME NEW s, NEW B, NEW R, NEW g, NEW p, NEW d, NEW a, Good(s, B, R, g, p, d, a),
           d.sub = "PersistRestoreInfo",
           NEW x \in g.aliased, d.aliases[x.table] = x.alias,
           NEW h \in Targets, h.held = [g.held EXCEPT ![x.table] = x.seq],
           h.aliased = g.aliased \ {x}
    PROVE  Good(s, B, R, h, p, d, a) /\ g.held[x.table] <= x.seq
<1> DEFINE b == B[d.name]
<1>0. TypedJob(s, B, R, g, p, d, a) /\ TypedJob(s, B, R, h, p, d, a)
  BY DEF Good, TypedJob
<1>1. d.name \in DOMAIN B /\ b.syncId = d.syncId /\ b.state = "finished"
  BY DEF Good, BackupsOK, HasSnapshot
<1>2. /\ a <= b.from
      /\ \A t \in b.tables : 1 <= b.seqs[t] /\ b.from <= b.seqs[t] /\ b.seqs[t] <= s.last
  <2>1. BackupOK(s, d, a, b) /\ b.from \in Nat
        /\ b.tables \subseteq Tables /\ \A t \in Tables : b.seqs[t] \in Nat
    BY <1>0, <1>1, JobFacts DEF Good, BackupsOK
  <2> QED
    BY <1>1, <2>1 DEF BackupOK
<1>3. x.table \in Tables /\ x.alias # 0 /\ x.seq \in Nat
  BY <1>0, JobFacts
<1>4. x.alias = d.syncId
  BY <1>3 DEF Good, RowOK
<1>5. x.table \in b.tables /\ x.seq = b.seqs[x.table]
  BY <1>4 DEF Good, TargetOK
<1>6. /\ g.held \in [Tables -> Seqs] /\ h.held[x.table] = x.seq
      /\ \A t \in Tables : t # x.table => h.held[t] = g.held[t]
  BY <1>0, <1>3 DEF TypedJob, Targets
<1>7. x.seq = Claimed(d, x.table)
  BY <1>2, <1>5 DEF Good, BackupsOK, Claimed
<1>8. RestoresOK(s, B, R, h, d)
  <2>1. \A i \in DOMAIN R : RestoreOK(s, B, h, d, R[i])
    BY DEF Good, RestoresOK, RestoreOK
  <2> QED
    BY <2>1 DEF Good, RestoresOK
<1>9. TargetOK(s, B, h, d, a)
  <2>1. ASSUME NEW t \in Tables
        PROVE  /\ h.held[t] <= s.last
               /\ \/ h.held[t] <= a
                  \/ HasSnapshot(d) /\ t \in b.tables /\ h.held[t] = b.seqs[t]
    <3>1. CASE t = x.table
      BY <1>2, <1>5, <1>6, <3>1 DEF HasSnapshot
    <3>2. CASE t # x.table
      BY <1>6, <3>2 DEF Good, TargetOK
    <3> QED
      BY <3>1, <3>2
  <2> QED
    BY <2>1 DEF Good, TargetOK
<1>10. MapOK(s, h, d)
  <2>1. ASSUME NEW t \in s.tables
        PROVE  \/ h.held[t] = Claimed(d, t)
               \/ \E y \in h.aliased :
                     y.table = t /\ y.alias = d.aliases[t] /\ y.seq = Claimed(d, t)
    <3>1. t \in Tables
      BY <1>0, JobFacts
    <3>2. CASE t = x.table
      BY <1>6, <1>7, <3>2
    <3>3. CASE t # x.table
      BY <1>6, <3>1, <3>3 DEF Good, MapOK
    <3> QED
      BY <3>2, <3>3
  <2> QED
    BY <2>1 DEF Good, MapOK, RowOK
<1>11. g.held[x.table] <= x.seq
  <2>1. /\ g.held[x.table] \in Nat /\ a \in Nat /\ b.from \in Nat
        /\ b.seqs[x.table] \in Nat
    BY <1>0, <1>1, <1>3, JobFacts
  <2>2. g.held[x.table] <= a \/ g.held[x.table] = b.seqs[x.table]
    BY <1>3 DEF Good, TargetOK
  <2>3. a <= b.from /\ b.from <= b.seqs[x.table]
    BY <1>2, <1>5
  <2> QED
    BY <1>5, <2>1, <2>2, <2>3
<1> QED
  BY <1>0, <1>8, <1>9, <1>10, <1>11 DEF Good

\* Every alias is swapped: the progress agrees with the target.
LEMMA NothingUnswapped ==
    ASSUME NEW s, NEW B, NEW R, NEW g, NEW p, NEW d, NEW a, Good(s, B, R, g, p, d, a),
           d.sub = "PersistRestoreInfo",
           \A x \in g.aliased : d.aliases[x.table] # x.alias
    PROVE  \A t \in s.tables : g.held[t] = Claimed(d, t)
BY DEF Good, MapOK

\* ForgetAliases
LEMMA ForgottenAliasesAreGood ==
    ASSUME NEW s, NEW B, NEW R, NEW g, NEW p, NEW d, NEW a, Good(s, B, R, g, p, d, a),
           d.sub = "PersistRestoreInfo",
           \A x \in g.aliased : d.aliases[x.table] # x.alias,
           NEW q \in Progress, NEW e \in Progress, VolatileOK(B, R, q, e),
           e.sync = d.sync, e.sub = d.sub, e.name = d.name, e.table = d.table,
           e.syncId = d.syncId, e.commitSeq = d.commitSeq, e.seqs = d.seqs,
           e.aliases = NoAliases
    PROVE  Good(s, B, R, g, q, e, a)
<1>0. TypedJob(s, B, R, g, p, d, a) /\ TypedJob(s, B, R, g, q, e, a)
  BY DEF Good, TypedJob
<1>1. RowOK(s, e, a)
  BY DEF Good, RowOK, NoAliases
<1>2. BackupsOK(s, B, e, a)
  BY DEF Good, BackupsOK, BackupOK, HasSnapshot
<1>3. RestoresOK(s, B, R, g, e)
  <2>1. \A i \in DOMAIN R : RestoreOK(s, B, g, e, R[i])
    BY DEF Good, RestoresOK, RestoreOK
  <2> QED
    BY <2>1 DEF Good, RestoresOK
<1>4. TargetOK(s, B, g, e, a)
  BY DEF Good, TargetOK, HasSnapshot
<1>5. MapOK(s, g, e)
  <2>1. \A t \in s.tables : g.held[t] = Claimed(e, t)
    BY NothingUnswapped DEF Claimed
  <2> QED
    BY <2>1 DEF Good, MapOK, RowOK
<1> QED
  BY <1>0, <1>1, <1>2, <1>3, <1>4, <1>5 DEF Good

\* The sync is over: incremental sync goes on, with a snapshot that is not older than asked.
LEMMA FinishedSyncIsGood ==
    ASSUME NEW s, NEW B, NEW R, NEW g, NEW p, NEW d, NEW a, Good(s, B, R, g, p, d, a),
           d.sub = "PersistRestoreInfo", d.aliases = NoAliases,
           NEW q \in Progress, NEW e \in Progress, VolatileOK(B, R, q, e),
           e.sync = "DBTablesIncrementalSync", e.sub = "Done",
           e.syncId = d.syncId, e.commitSeq = d.commitSeq, e.seqs = d.seqs,
           e.aliases = d.aliases
    PROVE  /\ Good(s, B, R, g, q, e, a)
           /\ \A t \in s.tables : d.sync = "DBFullSync" \/ t = d.table => a <= g.held[t]
<1>0. TypedJob(s, B, R, g, p, d, a) /\ TypedJob(s, B, R, g, q, e, a)
  BY DEF Good, TypedJob
<1>1. \A t \in s.tables : g.held[t] = Claimed(d, t)
  <2>1. \A x \in g.aliased : d.aliases[x.table] # x.alias
    BY <1>0, JobFacts DEF NoAliases
  <2> QED
    BY <2>1, NothingUnswapped
<1>2. d.name \in DOMAIN B /\ B[d.name].syncId = d.syncId /\ B[d.name].state = "finished"
  BY DEF Good, BackupsOK, HasSnapshot
<1>3. BackupOK(s, d, a, B[d.name])
  BY <1>2 DEF Good, BackupsOK
<1>4. d.sync = "DBFullSync" \/ d.sync = "DBPartialSync"
  BY <1>0 DEF Good, RowOK, TypedJob, Progress
<1>5. RowOK(s, e, a)
  <2>1. /\ d.commitSeq \in Nat /\ B[d.name].from \in Nat /\ s.gc \in Nat /\ s.locked \in Nat
    BY <1>0, <1>2, JobFacts
  <2>2. s.locked <= d.commitSeq /\ s.gc <= d.commitSeq
    <3>1. CASE d.sync = "DBFullSync"
      <4>1. /\ s.locked <= B[d.name].from /\ s.gc <= B[d.name].from
            /\ B[d.name].from <= d.commitSeq
        BY <1>2, <1>3, <3>1 DEF Good, BackupsOK, BackupOK
      <4> QED
        BY <2>1, <4>1
    <3>2. CASE d.sync = "DBPartialSync"
      BY <3>2 DEF Good, RowOK
    <3> QED
      BY <1>4, <3>1, <3>2
  <2> QED
    BY <2>2 DEF Good, RowOK
<1>6. BackupsOK(s, B, e, a)
  <2>1. \A i \in DOMAIN B : BackupOK(s, e, a, B[i])
    BY DEF Good, BackupsOK, BackupOK
  <2> QED
    BY <2>1 DEF Good, BackupsOK, HasSnapshot
<1>7. RestoresOK(s, B, R, g, e)
  <2>1. \A i \in DOMAIN R : RestoreOK(s, B, g, e, R[i])
    BY DEF Good, RestoresOK, RestoreOK
  <2> QED
    BY <2>1 DEF Good, RestoresOK
<1>8. TargetOK(s, B, g, e, a)
  BY DEF Good, TargetOK
<1>9. MapOK(s, g, e)
  BY <1>1 DEF MapOK, Claimed
<1>10. ASSUME NEW t \in s.tables, d.sync = "DBFullSync" \/ t = d.table
       PROVE  a <= g.held[t]
  <2>1. t \in B[d.name].tables
    BY <1>2, <1>3, <1>4, <1>10 DEF BackupOK
  <2>2. d.seqs[t] = B[d.name].seqs[t]
    BY <2>1 DEF Good, BackupsOK
  <2>3. /\ a <= B[d.name].from /\ B[d.name].from <= B[d.name].seqs[t]
        /\ 1 <= B[d.name].from
    BY <1>2, <1>3, <2>1 DEF BackupOK
  <2>4. a \in Nat /\ B[d.name].from \in Nat /\ B[d.name].seqs[t] \in Nat
    BY <1>0, <1>2, <2>1, JobFacts
  <2>5. g.held[t] = B[d.name].seqs[t]
    BY <1>1, <2>2, <2>3, <2>4 DEF Claimed
  <2> QED
    BY <2>3, <2>4, <2>5
<1> QED
  BY <1>0, <1>5, <1>6, <1>7, <1>8, <1>9, <1>10 DEF Good

\* The job replays the binlogs and moves its lock.
LEMMA ReplayedIsGood ==
    ASSUME NEW s, NEW B, NEW R, NEW g, NEW p, NEW d, NEW a, Good(s, B, R, g, p, d, a),
           d.sub = "Done",
           NEW s2 \in Sources, s2.last = s.last, s2.tables = s.tables, s2.gc = s.gc,
           s2.locked = s.last,
           NEW h \in Targets, h.aliased = g.aliased,
           h.held = [t \in Tables |-> IF t \in s.tables THEN s.last ELSE g.held[t]],
           NEW q \in Progress, NEW e \in Progress, VolatileOK(B, R, q, e),
           e.sync = d.sync, e.sub = d.sub, e.syncId = d.syncId, e.aliases = d.aliases,
           e.commitSeq = s.last,
           e.seqs = [t \in Tables |-> IF d.seqs[t] = Dropped THEN Dropped ELSE 0]
    PROVE  /\ Good(s2, B, R, h, q, e, a)
           /\ \A t \in Tables : g.held[t] <= h.held[t]
<1>0. TypedJob(s, B, R, g, p, d, a) /\ TypedJob(s2, B, R, h, q, e, a)
  BY DEF Good, TypedJob
<1>1. d.sync = "DBTablesIncrementalSync" /\ s.last \in Nat /\ s.tables \subseteq Tables
  BY <1>0, JobFacts DEF Good, RowOK
<1>2. \A t \in s.tables : e.seqs[t] = 0
  <2>1. ASSUME NEW t \in s.tables, d.seqs[t] = Dropped
        PROVE  FALSE
    <3>1. Dropped # 0 /\ Dropped \notin Seqs
      BY SnapshotAssumption DEF Dropped, Seqs
    <3>2. g.held[t] = Dropped
      BY <2>1, <3>1 DEF Good, MapOK, Claimed
    <3>3. g.held[t] \in Seqs
      BY <1>0, <1>1 DEF TypedJob, Targets
    <3> QED
      BY <3>1, <3>2, <3>3
  <2> QED
    BY <1>1, <2>1
<1>3. RowOK(s2, e, a)
  BY <1>0, <1>1, <1>2 DEF Good, RowOK
<1>4. BackupsOK(s2, B, e, a)
  <2>1. \A i \in DOMAIN B : BackupOK(s2, e, a, B[i])
    BY <1>1 DEF Good, BackupsOK, BackupOK
  <2> QED
    BY <2>1 DEF Good, BackupsOK, HasSnapshot
<1>5. RestoresOK(s2, B, R, h, e)
  <2>1. ASSUME NEW i \in DOMAIN R
        PROVE  RestoreOK(s2, B, h, e, R[i])
    <3>1. RestoreOK(s, B, g, d, R[i]) /\ R[i].tables \subseteq Tables
      BY <1>0, JobFacts DEF Good, RestoresOK
    <3>2. R[i].state = "running" => \A t \in R[i].tables : t \notin s.tables
      BY <1>1, <3>1 DEF RestoreOK
    <3>3. \A t \in Tables : t \notin s.tables => h.held[t] = g.held[t]
      OBVIOUS
    <3> QED
      BY <1>1, <3>1, <3>2, <3>3 DEF RestoreOK
  <2> QED
    BY <2>1 DEF Good, RestoresOK
<1>6. TargetOK(s2, B, h, e, a)
  <2>1. \A t \in Tables : h.held[t] <= s.last
    BY <1>1 DEF Good, TargetOK
  <2> QED
    BY <2>1 DEF Good, TargetOK
<1>7. MapOK(s2, h, e)
  <2>1. \A t \in s.tables : h.held[t] = Claimed(e, t)
    BY <1>1, <1>2 DEF Claimed
  <2> QED
    BY <1>1, <2>1 DEF MapOK
<1>8. \A t \in Tables : g.held[t] <= h.held[t]
  <2>1. \A t \in Tables : g.held[t] <= s.last /\ g.held[t] \in Nat
    BY <1>0, JobFacts DEF Good, TargetOK
  <2> QED
    BY <2>1
<1> QED
  BY <1>0, <1>3, <1>4, <1>5, <1>6, <1>7, <1>8 DEF Good
-----------------------------------------------------------------------------
\* The source writes, loses a table or collects binlogs.
LEMMA MovedSourceIsGood ==
    ASSUME NEW s, NEW B, NEW R, NEW g, NEW p, NEW d, NEW a, Good(s, B, R, g, p, d, a),
           NEW s2 \in Sources, s.last <= s2.last, s2.tables \subseteq s.tables,
           s2.locked = s.locked, s2.gc <= s2.last,
           s2.gc = s.gc \/ s2.gc <= s.locked
    PROVE  Good(s2, B, R, g, p, d, a)
<1>0. TypedJob(s, B, R, g, p, d, a) /\ TypedJob(s2, B, R, g, p, d, a)
  BY DEF Good, TypedJob
<1>1. /\ s.last \in Nat /\ s2.last \in Nat /\ s.gc \in Nat /\ s2.gc \in Nat /\ s.locked \in Nat
      /\ d.commitSeq \in Nat /\ a \in Nat
      /\ \A t \in Tables : g.held[t] \in Nat
      /\ \A x \in g.aliased : x.seq \in Nat
  BY <1>0, JobFacts
<1>2. RowOK(s2, d, a)
  BY <1>1 DEF Good, RowOK
<1>3. \A i \in DOMAIN B : BackupOK(s2, d, a, B[i])
  <2>1. ASSUME NEW i \in DOMAIN B
        PROVE  BackupOK(s2, d, a, B[i])
    <3>1. BackupOK(s, d, a, B[i])
      BY DEF Good, BackupsOK
    <3>2. /\ B[i].from \in Nat /\ B[i].tables \subseteq Tables
          /\ \A t \in Tables : B[i].seqs[t] \in Nat
      BY <1>0, JobFacts
    <3>3. s.gc <= B[i].from /\ s.locked <= B[i].from => s2.gc <= B[i].from
      BY <1>1, <3>2
    <3>4. B[i].from <= s.last => B[i].from <= s2.last
      BY <1>1, <3>2
    <3>5. \A t \in B[i].tables : B[i].seqs[t] <= s.last => B[i].seqs[t] <= s2.last
      BY <1>1, <3>2
    <3> QED
      BY <3>1, <3>3, <3>4, <3>5 DEF BackupOK
  <2> QED
    BY <2>1
<1>4. BackupsOK(s2, B, d, a)
  BY <1>3 DEF Good, BackupsOK
<1>5. TargetOK(s2, B, g, d, a)
  <2>1. \A t \in Tables : g.held[t] <= s2.last
    BY <1>1 DEF Good, TargetOK
  <2>2. \A x \in g.aliased : x.seq <= s2.last
    BY <1>1 DEF Good, TargetOK
  <2> QED
    BY <2>1, <2>2 DEF Good, TargetOK
<1>6. MapOK(s2, g, d)
  BY DEF Good, MapOK
<1>7. RestoresOK(s2, B, R, g, d)
  <2>1. \A i \in DOMAIN R : RestoreOK(s2, B, g, d, R[i])
    BY DEF Good, RestoresOK, RestoreOK
  <2> QED
    BY <2>1 DEF Good, RestoresOK
<1> QED
  BY <1>0, <1>2, <1>4, <1>5, <1>6, <1>7 DEF Good

\* A running backup ends: it is cancelled, or finished with the commit seqs of its tables.
LEMMA EndedBackupIsGood ==
    ASSUME NEW s, NEW B, NEW R, NEW g, NEW p, NEW d, NEW a, Good(s, B, R, g, p, d, a),
           NEW n \in DOMAIN B, B[n].state = "running",
           NEW b \in Backups, b.sync = B[n].sync, b.syncId = B[n].syncId,
           b.tables = B[n].tables, b.from = B[n].from, b.state \in {"finished", "cancelled"},
           b.state = "finished" => \A t \in b.tables : b.from <= b.seqs[t] /\ b.seqs[t] <= s.last
    PROVE  Good(s, [B EXCEPT ![n] = b], R, g, p, d, a)
<1> DEFINE C == [B EXCEPT ![n] = b]
<1>0. TypedJob(s, B, R, g, p, d, a) /\ B \in Seq(Backups)
  BY DEF Good, TypedJob
<1>1. /\ C \in Seq(Backups) /\ DOMAIN C = DOMAIN B /\ C[n] = b
      /\ \A i \in DOMAIN B : i # n => C[i] = B[i]
  BY <1>0
<1> HIDE DEF C
<1>2. TypedJob(s, C, R, g, p, d, a)
  BY <1>0, <1>1 DEF TypedJob
<1>3. BackupOK(s, d, a, B[n])
  BY DEF Good, BackupsOK
<1>4. B[n].syncId = d.syncId /\ d.sub = "BeginCreateSnapshot" /\ d.syncId \in Nat
  BY <1>0, <1>3, JobFacts DEF BackupOK
<1>5. BackupOK(s, d, a, b)
  BY <1>3, <1>4 DEF BackupOK
<1>6. BackupsOK(s, C, d, a)
  <2>1. \A i \in DOMAIN C : BackupOK(s, d, a, C[i])
    BY <1>1, <1>5 DEF Good, BackupsOK
  <2>2. \A i \in DOMAIN C : /\ C[i].syncId = B[i].syncId
                            /\ C[i].state # "cancelled" => B[i].state # "cancelled"
    BY <1>1
  <2> QED
    BY <1>1, <1>4, <2>1, <2>2 DEF Good, BackupsOK, HasSnapshot
<1>7. VolatileOK(C, R, p, d)
  <2>1. \A i \in DOMAIN C : C[i].syncId = B[i].syncId
    BY <1>1
  <2> QED
    BY <1>1, <2>1 DEF Good, VolatileOK
<1>8. \A i \in DOMAIN R : R[i].snap \in DOMAIN B /\ C[R[i].snap] = B[R[i].snap]
  <2>1. \A i \in DOMAIN R : R[i].snap \in DOMAIN B /\ B[R[i].snap].state = "finished"
    BY DEF Good, RestoresOK, RestoreOK
  <2> QED
    BY <1>1, <2>1
<1>9. RestoresOK(s, C, R, g, d)
  <2>1. \A i \in DOMAIN R : RestoreOK(s, C, g, d, R[i])
    BY <1>1, <1>8 DEF Good, RestoresOK, RestoreOK
  <2> QED
    BY <1>8, <2>1 DEF Good, RestoresOK
<1>10. TargetOK(s, C, g, d, a)
  BY <1>4 DEF Good, TargetOK, HasSnapshot
<1> QED
  BY <1>2, <1>6, <1>7, <1>9, <1>10 DEF Good, C

\* A finished backup expires.
LEMMA ExpiredBackupIsGood ==
    ASSUME NEW s, NEW B, NEW R, NEW g, NEW p, NEW d, NEW a, Good(s, B, R, g, p, d, a),
           NEW n \in DOMAIN B,
           NEW b \in Backups, b.sync = B[n].sync, b.syncId = B[n].syncId,
           b.tables = B[n].tables, b.from = B[n].from, b.state = B[n].state,
           b.seqs = B[n].seqs
    PROVE  Good(s, [B EXCEPT ![n] = b], R, g, p, d, a)
<1> DEFINE C == [B EXCEPT ![n] = b]
<1>0. TypedJob(s, B, R, g, p, d, a) /\ B \in Seq(Backups)
  BY DEF Good, TypedJob
<1>1. /\ C \in Seq(Backups) /\ DOMAIN C = DOMAIN B
      /\ \A i \in DOMAIN B : /\ C[i].sync = B[i].sync /\ C[i].syncId = B[i].syncId
                             /\ C[i].tables = B[i].tables /\ C[i].from = B[i].from
                             /\ C[i].state = B[i].state /\ C[i].seqs = B[i].seqs
  BY <1>0
<1> HIDE DEF C
<1>2. TypedJob(s, C, R, g, p, d, a)
  BY <1>0, <1>1 DEF TypedJob
<1>3. VolatileOK(C, R, p, d)
  BY <1>1 DEF Good, VolatileOK
<1>4. BackupsOK(s, C, d, a)
  <2>1. \A i \in DOMAIN C : BackupOK(s, d, a, C[i])
    BY <1>1 DEF Good, BackupsOK, BackupOK
  <2> QED
    BY <1>1, <2>1 DEF Good, BackupsOK, HasSnapshot
<1>5. RestoresOK(s, C, R, g, d)
  <2>1. ASSUME NEW i \in DOMAIN R
        PROVE  RestoreOK(s, C, g, d, R[i]) /\ R[i].snap \in DOMAIN B
    <3>1. RestoreOK(s, B, g, d, R[i]) /\ R[i].snap \in DOMAIN B
      BY DEF Good, RestoresOK, RestoreOK
    <3> QED
      BY <1>1, <3>1 DEF RestoreOK
  <2> QED
    BY <1>1, <2>1 DEF Good, RestoresOK
<1>6. TargetOK(s, C, g, d, a)
  <2>1. HasSnapshot(d) => d.name \in DOMAIN B
    BY DEF Good, BackupsOK
  <2> QED
    BY <1>1, <2>1 DEF Good, TargetOK
<1> QED
  BY <1>2, <1>3, <1>4, <1>5, <1>6 DEF Good, C

\* The schema of a target table changes.
LEMMA DifferingTargetIsGood ==
    ASSUME NEW s, NEW B, NEW R, NEW g, NEW p, NEW d, NEW a, Good(s, B, R, g, p, d, a),
           NEW h \in Targets, h.held = g.held, h.aliased = g.aliased
    PROVE  Good(s, B, R, h, p, d, a)
<1>1. TypedJob(s, B, R, h, p, d, a)
  BY DEF Good, TypedJob
<1>2. RestoresOK(s, B, R, h, d) /\ TargetOK(s, B, h, d, a) /\ MapOK(s, h, d)
  BY DEF Good, RestoresOK, RestoreOK, TargetOK, MapOK
<1> QED
  BY <1>1, <1>2 DEF Good

\* What a restore r makes of target g, from the backups B.
Restored(B, g, r, h) ==
    /\ \A t \in Tables : h.held[t] = IF t \in r.tables /\ r.aliases[t] = 0
                                     THEN B[r.snap].seqs[t] ELSE g.held[t]
    /\ \A x : x \in h.aliased <=>
          \/ x \in g.aliased
          \/ \E t \in r.tables :
                /\ r.aliases[t] # 0
                /\ x = [table |-> t, alias |-> r.aliases[t], seq |-> B[r.snap].seqs[t]]

\* A restore finishes: its tables are replaced by newer ones, or come beside them as aliases.
LEMMA FinishedRestoreIsGood ==
    ASSUME NEW s, NEW B, NEW R, NEW g, NEW p, NEW d, NEW a, Good(s, B, R, g, p, d, a),
           NEW n \in DOMAIN R, R[n].state = "running",
           NEW r \in Restores, r.snap = R[n].snap, r.tables = R[n].tables,
           r.aliases = R[n].aliases, r.state = "finished",
           NEW h \in Targets,
           Restored(B, g, r, h)
    PROVE  /\ Good(s, B, [R EXCEPT ![n] = r], h, p, d, a)
           /\ \A t \in Tables : g.held[t] <= h.held[t]
<1> DEFINE Q == [R EXCEPT ![n] = r]
           b == B[r.snap]
<1>0. TypedJob(s, B, R, g, p, d, a) /\ R \in Seq(Restores)
  BY DEF Good, TypedJob
<1> USE DEF Restored
<1>1. /\ Q \in Seq(Restores) /\ DOMAIN Q = DOMAIN R /\ Q[n] = r
      /\ \A i \in DOMAIN R : i # n => Q[i] = R[i]
  BY <1>0
<1> HIDE DEF Q
<1>2. TypedJob(s, B, Q, h, p, d, a)
  BY <1>0, <1>1 DEF TypedJob
<1>3. RestoreOK(s, B, g, d, R[n])
  BY DEF Good, RestoresOK
<1>4. /\ r.snap \in DOMAIN B /\ b.state = "finished" /\ r.tables = b.tables
      /\ \A t \in Tables : r.aliases[t] \in {0, b.syncId}
      /\ d.sub # "PersistRestoreInfo"
      /\ \A t \in r.tables : g.held[t] <= b.seqs[t]
      /\ d.sync # "DBFullSync" =>
            \A t \in r.tables \cap s.tables : d.sync = "DBPartialSync" /\ t = d.table
      /\ b.syncId = d.syncId => d.sub \in {"GetSnapshotInfo", "Done"}
  <2>1. d.sub \in {"BeginCreateSnapshot", "GetSnapshotInfo", "PersistRestoreInfo", "Done"}
    BY DEF Good, VolatileOK
  <2> QED
    BY <1>3, <2>1 DEF RestoreOK
<1>5. BackupOK(s, d, a, b)
  BY <1>4 DEF Good, BackupsOK
<1>6. b.syncId = d.syncId /\ d.sub # "Done" => r.snap = d.name /\ HasSnapshot(d)
  BY <1>4 DEF Good, BackupsOK, HasSnapshot
<1>7. /\ b.syncId \in Nat /\ d.syncId \in Nat /\ b.syncId <= d.syncId /\ a \in Nat
      /\ \A t \in Tables : b.seqs[t] \in Nat /\ g.held[t] \in Nat
      /\ r.tables \subseteq Tables
  BY <1>0, <1>4, <1>5, JobFacts DEF BackupOK
<1>8. \A t \in r.tables : b.seqs[t] <= s.last /\ (b.syncId # d.syncId => b.seqs[t] <= a)
  BY <1>4, <1>5, <1>7 DEF BackupOK
<1>9. \A t \in Tables :
         \/ h.held[t] = g.held[t]
         \/ t \in r.tables /\ h.held[t] = b.seqs[t]
  <2>1. ASSUME NEW t \in Tables, t \in r.tables /\ r.aliases[t] = 0
        PROVE  h.held[t] = b.seqs[t]
    BY <2>1
  <2>2. ASSUME NEW t \in Tables, ~(t \in r.tables /\ r.aliases[t] = 0)
        PROVE  h.held[t] = g.held[t]
    BY <2>2
  <2> QED
    BY <2>1, <2>2
<1>10. \A t \in Tables : g.held[t] <= h.held[t]
  BY <1>4, <1>7, <1>9
<1>11. \A i \in DOMAIN Q : Q[i].snap = R[i].snap /\ (Live(Q[i]) => Live(R[i]))
  BY <1>1 DEF Live
<1>12. VolatileOK(B, Q, p, d)
  BY <1>1, <1>11 DEF Good, VolatileOK
<1>13. \A i \in DOMAIN R : i # n => R[i].state # "running"
  BY DEF Good, RestoresOK
<1>14. ASSUME NEW i \in DOMAIN Q
       PROVE  RestoreOK(s, B, h, d, Q[i])
  <2>1. CASE i = n
    <3>1. \A t \in r.tables :
             IF r.aliases[t] = 0 THEN h.held[t] = b.seqs[t]
             ELSE [table |-> t, alias |-> r.aliases[t], seq |-> b.seqs[t]] \in h.aliased
      BY <1>7
    <3>2. RestoreOK(s, B, h, d, r)
      BY <1>3, <1>4, <3>1 DEF RestoreOK, Live
    <3> QED
      BY <1>1, <2>1, <3>2
  <2>2. CASE i # n
    <3>1. RestoreOK(s, B, g, d, R[i]) /\ R[i].state # "running" /\ Q[i] = R[i]
      BY <1>1, <1>13, <2>2 DEF Good, RestoresOK
    <3>2. CASE d.sub = "GetSnapshotInfo" /\ R[i].snap = d.name /\ R[i].state = "finished"
      <4>1. d.name \in DOMAIN B /\ B[d.name].syncId = d.syncId
        BY <3>2 DEF Good, BackupsOK, HasSnapshot
      <4>2. B[d.name].syncId <= b.syncId
        BY <1>1, <3>2 DEF Good, RestoresOK
      <4>3. r.snap = d.name
        BY <1>6, <1>7, <3>2, <4>1, <4>2
      <4>4. i = n
        BY <1>1, <3>2, <4>3 DEF Good, RestoresOK, Live
      <4> QED
        BY <2>2, <4>4
    <3>3. CASE ~(d.sub = "GetSnapshotInfo" /\ R[i].snap = d.name /\ R[i].state = "finished")
      BY <3>1, <3>3 DEF RestoreOK
    <3> QED
      BY <3>2, <3>3
  <2> QED
    BY <2>1, <2>2
<1>15. RestoresOK(s, B, Q, h, d)
  <2>1. \A i \in DOMAIN Q : Q[i].state # "running"
    BY <1>1, <1>13
  <2> QED
    BY <1>1, <1>11, <1>14, <2>1 DEF Good, RestoresOK
<1>16. TargetOK(s, B, h, d, a)
  <2>1. ASSUME NEW t \in Tables
        PROVE  /\ h.held[t] <= s.last
               /\ d.sub # "Done" =>
                    \/ h.held[t] <= a
                    \/ /\ HasSnapshot(d) /\ t \in B[d.name].tables
                       /\ h.held[t] = B[d.name].seqs[t]
    <3>1. CASE h.held[t] = g.held[t]
      BY <1>4, <3>1 DEF Good, TargetOK
    <3>2. CASE t \in r.tables /\ h.held[t] = b.seqs[t]
      BY <1>4, <1>6, <1>8, <3>2
    <3> QED
      BY <1>9, <3>1, <3>2
  <2>2. ASSUME NEW x \in h.aliased
        PROVE  /\ x.alias <= d.syncId /\ x.seq <= s.last
               /\ x.alias = d.syncId /\ d.sub # "Done" =>
                    /\ HasSnapshot(d) /\ x.table \in B[d.name].tables
                    /\ x.seq = B[d.name].seqs[x.table]
    <3>1. CASE x \in g.aliased
      BY <3>1 DEF Good, TargetOK
    <3>2. CASE x \notin g.aliased
      <4>1. PICK t \in r.tables : /\ r.aliases[t] # 0 /\ x.table = t
                                  /\ x.alias = r.aliases[t] /\ x.seq = b.seqs[t]
        BY <3>2
      <4>2. x.alias = b.syncId
        BY <1>4, <1>7, <4>1
      <4> QED
        BY <1>4, <1>6, <1>7, <1>8, <4>1, <4>2
    <3> QED
      BY <3>1, <3>2
  <2> QED
    BY <2>1, <2>2 DEF TargetOK
<1>17. MapOK(s, h, d)
  <2>1. ASSUME NEW t \in s.tables, d.sync # "DBFullSync",
                 d.sync # "DBPartialSync" \/ t # d.table
        PROVE  h.held[t] = g.held[t]
    <3>1. t \in Tables
      BY <1>0, JobFacts
    <3>2. t \notin r.tables
      BY <1>4, <2>1
    <3> QED
      BY <1>9, <3>1, <3>2
  <2>2. d.sub = "Done" => d.sync # "DBFullSync" /\ d.sync # "DBPartialSync"
    BY DEF Good, RowOK
  <2> QED
    BY <1>4, <2>1, <2>2 DEF Good, MapOK
<1> QED
  BY <1>2, <1>10, <1>12, <1>15, <1>16, <1>17 DEF Good, Q
-----------------------------------------------------------------------------
\* Every job has values of its type.
JobsTyped ==
    /\ src \in [Jobs -> Sources]
    /\ backups \in [Jobs -> Seq(Backups)] /\ restores \in [Jobs -> Seq(Restores)]
    /\ target \in [Jobs -> Targets]
    /\ prog \in [Jobs -> Progress] /\ disk \in [Jobs -> Progress] /\ asked \in [Jobs -> Seqs]

\* Job j is good now.
JobGood(j) ==
    Good(src[j], backups[j], restores[j], target[j], prog[j], disk[j], asked[j])

\* The values of job j.
Now(j, s, B, R, g, p, d, a) ==
    /\ s = src[j] /\ B = backups[j] /\ R = restores[j] /\ g = target[j]
    /\ p = prog[j] /\ d = disk[j] /\ a = asked[j]

\* The values of job j after a step that touches no other job.
Becomes(j, s, B, R, g, p, d, a) ==
    /\ src' = [src EXCEPT ![j] = s] /\ backups' = [backups EXCEPT ![j] = B]
    /\ restores' = [restores EXCEPT ![j] = R] /\ target' = [target EXCEPT ![j] = g]
    /\ prog' = [prog EXCEPT ![j] = p] /\ disk' = [disk EXCEPT ![j] = d]
    /\ asked' = [asked EXCEPT ![j] = a]

\* A step that leaves the job good, and the others alone.
JobMoves(j) ==
    \E s, B, R, g, p, d, a : Good(s, B, R, g, p, d, a) /\ Becomes(j, s, B, R, g, p, d, a)

\* What the lemmas of the actions assume of the job.
JobReady(j) == JobsTyped /\ j \in Jobs /\ JobGood(j)

\* What UNCHANGED says in the words of Becomes.
LEMMA Stays ==
    ASSUME NEW j \in Jobs, JobsTyped, NEW s, NEW B, NEW R, NEW g, NEW p, NEW d, NEW a,
           Now(j, s, B, R, g, p, d, a)
    PROVE  /\ src = [src EXCEPT ![j] = s] /\ backups = [backups EXCEPT ![j] = B]
           /\ restores = [restores EXCEPT ![j] = R] /\ target = [target EXCEPT ![j] = g]
           /\ prog = [prog EXCEPT ![j] = p] /\ disk = [disk EXCEPT ![j] = d]
           /\ asked = [asked EXCEPT ![j] = a]
BY DEF JobsTyped, Now

\* The stored sub state says where the job is.
LEMMA SubOfRow ==
    ASSUME NEW s, NEW B, NEW R, NEW g, NEW p, NEW d, NEW a, Good(s, B, R, g, p, d, a)
    PROVE  /\ p \in Progress /\ d \in Progress
           /\ p.sub \in {"BeginCreateSnapshot", "WaitBackupDone"} => d.sub = "BeginCreateSnapshot"
           /\ p.sub \in {"GetSnapshotInfo", "RestoreSnapshot", "WaitRestoreDone"} =>
                 d.sub = "GetSnapshotInfo" /\ p.name = d.name
           /\ p.sub = "PersistRestoreInfo" => d.sub = p.sub /\ p.name = d.name
           /\ p.sub = "Done" => d.sub = p.sub
           /\ p.sync = d.sync /\ p.syncId = d.syncId /\ p.commitSeq = d.commitSeq
           /\ p.seqs = d.seqs /\ p.aliases = d.aliases /\ p.table = d.table
<1>1. p \in Progress /\ d \in Progress
  BY DEF Good, TypedJob
<1> QED
  BY <1>1 DEF Good, VolatileOK, HasSnapshot

\* checkBackupFinished: the finished backup becomes the snapshot of the sync, and is stored.
LEMMA BackupDoneMoves ==
    ASSUME NEW j, JobReady(j), BackupDone(j)
    PROVE  JobMoves(j)
<1>1. PICK s, B, R, g, p, d, a : Now(j, s, B, R, g, p, d, a)
  BY DEF Now
<1>2. j \in Jobs /\ JobsTyped /\ Good(s, B, R, g, p, d, a)
  BY <1>1 DEF Now, JobReady, JobGood
<1>3. p.sub = "WaitBackupDone" /\ B[p.name].state = "finished"
  BY <1>1 DEF BackupDone, At, BackupState, Now
<1>4. /\ p \in Progress /\ d \in Progress /\ d.sub = "BeginCreateSnapshot"
      /\ p.name \in DOMAIN B /\ B[p.name].syncId = d.syncId
  BY <1>2, <1>3, SubOfRow DEF Good, VolatileOK
<1>5. PICK q : q = [p EXCEPT !.sub = "GetSnapshotInfo"]
  OBVIOUS
<1>6. PICK e : e = [q EXCEPT !.label = 0]
  OBVIOUS
<1>7. /\ q \in Progress /\ e \in Progress
      /\ e.sub = "GetSnapshotInfo" /\ e.name = p.name /\ e.label = 0
      /\ e.sync = p.sync /\ e.table = p.table /\ e.syncId = p.syncId
      /\ e.commitSeq = p.commitSeq /\ e.aliases = p.aliases /\ e.seqs = p.seqs
      /\ q.sub = e.sub /\ q.name = e.name
      /\ q.sync = p.sync /\ q.table = p.table /\ q.syncId = p.syncId
      /\ q.commitSeq = p.commitSeq /\ q.aliases = p.aliases /\ q.seqs = p.seqs
  BY <1>4, <1>5, <1>6 DEF Progress
<1>8. VolatileOK(B, R, q, e)
  BY <1>7 DEF VolatileOK, HasSnapshot
<1>9. Good(s, B, R, g, q, e, a)
  BY <1>2, <1>3, <1>4, <1>7, <1>8, SubOfRow, SnapshotFoundIsGood
<1>10. Becomes(j, s, B, R, g, q, e, a)
  <2>1. /\ UNCHANGED <<src, backups, target, restores, asked>>
        /\ prog' = [prog EXCEPT ![j] = q] /\ disk' = [disk EXCEPT ![j] = e]
    BY <1>1, <1>5, <1>6 DEF BackupDone, Persist, extVars, Now
  <2> QED
    BY <1>1, <1>2, <2>1, Stays DEF Becomes
<1> QED
  BY <1>9, <1>10 DEF JobMoves
-----------------------------------------------------------------------------
\* Max picks a member of a set of positions.
LEMMA MaxOfInterval ==
    ASSUME NEW n \in Nat, NEW S, S \subseteq 1..n, S # {}
    PROVE  Max(S) \in S
<1> DEFINE bounds == {m \in Nat : \A s \in S : s <= m}
<1>1. n \in bounds
  OBVIOUS
<1>2. PICK m \in bounds : \A k \in bounds : <<k, m>> \notin OpToRel(<, Nat)
  BY <1>1, NatLessThanWellFounded, WFMin
<1>3. \A k \in bounds : ~ k < m
  BY <1>2 DEF OpToRel
<1>4. m \in S
  <2>1. PICK s \in S : s \in 1..n /\ s <= m
    OBVIOUS
  <2>2. m - 1 \in Nat /\ m - 1 \notin bounds
    BY <1>3, <2>1
  <2> QED
    BY <2>2
<1> QED
  BY <1>4 DEF Max

\* Min picks the least member of a set of naturals.
LEMMA MinOfNats ==
    ASSUME NEW S, S \subseteq Nat, S # {}
    PROVE  Min(S) \in S /\ \A x \in S : Min(S) <= x
<1>1. PICK m \in S : \A k \in S : <<k, m>> \notin OpToRel(<, Nat)
  BY NatLessThanWellFounded, WFMin
<1>2. \A k \in S : ~ k < m
  BY <1>1 DEF OpToRel
<1>3. \A k \in S : m <= k
  BY <1>2
<1> QED
  BY <1>3 DEF Min

\* No backup runs once the snapshot of the sync is named, or the sync is over.
LEMMA NoBackupRuns ==
    ASSUME NEW s, NEW B, NEW R, NEW g, NEW p, NEW d, NEW a, Good(s, B, R, g, p, d, a),
           d.sub # "BeginCreateSnapshot"
    PROVE  \A i \in DOMAIN B : B[i].state # "running"
BY DEF Good, BackupsOK, BackupOK

\* Job j asks for a snapshot, and is good with these values of its clusters.
SyncRestarts(j, s, B, R, g) ==
    \E q : /\ Good(s, B, R, g, q, q, s.last)
           /\ prog' = [prog EXCEPT ![j] = q] /\ disk' = [disk EXCEPT ![j] = q]
           /\ asked' = [asked EXCEPT ![j] = s.last]

\* NewSnapshot leaves the job with a good first progress of a full sync.
LEMMA NewSnapshotIsGood ==
    ASSUME NEW j \in Jobs, JobsTyped,
           NEW s, NEW B, NEW R, NEW g, NEW p, NEW d, NEW a, Good(s, B, R, g, p, d, a),
           p = prog[j], s.last = src[j].last,
           \A i \in DOMAIN B : B[i].state # "running",
           NewSnapshot(j)
    PROVE  SyncRestarts(j, s, B, R, g)
<1>1. PICK b : b = BeginSync(p)
  OBVIOUS
<1>2. PICK q : q = [b EXCEPT !.sync = "DBFullSync", !.table = Nil, !.aliases = NoAliases]
  OBVIOUS
<1>3. PICK e : e = [q EXCEPT !.label = 0]
  OBVIOUS
<1>4. /\ prog' = [prog EXCEPT ![j] = q] /\ disk' = [disk EXCEPT ![j] = e]
      /\ asked' = [asked EXCEPT ![j] = s.last]
  BY <1>1, <1>2, <1>3 DEF NewSnapshot, Persist
<1>5. p \in Progress /\ p.syncId \in Nat /\ p.syncId + 1 \in SyncIds
  BY SubOfRow DEF Progress, SyncIds
<1>6. /\ b \in Progress /\ b.sub = "BeginCreateSnapshot" /\ b.syncId = p.syncId + 1
      /\ b.label = 0 /\ b.commitSeq = p.commitSeq /\ b.seqs = p.seqs
  BY <1>1, <1>5 DEF BeginSync, NextSyncId, Progress
<1>7. NoAliases \in AliasMaps /\ \A t \in Tables : NoAliases[t] = 0
  BY DEF NoAliases, AliasMaps
<1>8. /\ q \in Progress /\ q.sub = "BeginCreateSnapshot" /\ q.syncId = p.syncId + 1
      /\ q.label = 0 /\ q.commitSeq = p.commitSeq /\ q.seqs = p.seqs
      /\ q.sync = "DBFullSync" /\ q.aliases = NoAliases
  BY <1>2, <1>6, <1>7 DEF Progress
<1>9. e = q
  BY <1>3, <1>8 DEF Progress
<1>10. Good(s, B, R, g, q, q, s.last)
  BY <1>7, <1>8, SubOfRow, NewSyncIsGood
<1> QED
  BY <1>4, <1>9, <1>10 DEF SyncRestarts

\* NewPartialSnapshot does, for a table of an incremental job or the table of the sync.
LEMMA NewPartialIsGood ==
    ASSUME NEW j \in Jobs, JobsTyped,
           NEW s, NEW B, NEW R, NEW g, NEW p, NEW d, NEW a, Good(s, B, R, g, p, d, a),
           p = prog[j], s.last = src[j].last,
           \A i \in DOMAIN B : B[i].state # "running",
           NEW t \in Tables, NEW replace,
           \/ d.sync = "DBTablesIncrementalSync"
           \/ d.sync = "DBPartialSync" /\ d.sub # "PersistRestoreInfo" /\ d.table = t,
           NewPartialSnapshot(j, t, replace)
    PROVE  SyncRestarts(j, s, B, R, g)
<1>1. PICK b : b = BeginSync(p)
  OBVIOUS
<1>2. PICK m : m = IF replace THEN [NoAliases EXCEPT ![t] = b.syncId] ELSE NoAliases
  OBVIOUS
<1>3. PICK q : q = [b EXCEPT !.sync = "DBPartialSync", !.table = t, !.aliases = m]
  OBVIOUS
<1>4. PICK e : e = [q EXCEPT !.label = 0]
  OBVIOUS
<1>5. /\ prog' = [prog EXCEPT ![j] = q] /\ disk' = [disk EXCEPT ![j] = e]
      /\ asked' = [asked EXCEPT ![j] = s.last]
  BY <1>1, <1>2, <1>3, <1>4 DEF NewPartialSnapshot, Persist
<1>6. p \in Progress /\ p.syncId \in Nat /\ p.syncId + 1 \in SyncIds
  BY SubOfRow DEF Progress, SyncIds
<1>7. /\ b \in Progress /\ b.sub = "BeginCreateSnapshot" /\ b.syncId = p.syncId + 1
      /\ b.label = 0 /\ b.commitSeq = p.commitSeq /\ b.seqs = p.seqs
  BY <1>1, <1>6 DEF BeginSync, NextSyncId, Progress
<1>8. m \in AliasMaps /\ \A u \in Tables : m[u] \in {0, b.syncId}
  BY <1>2, <1>6, <1>7 DEF NoAliases, AliasMaps
<1>9. /\ q \in Progress /\ q.sub = "BeginCreateSnapshot" /\ q.syncId = p.syncId + 1
      /\ q.label = 0 /\ q.commitSeq = p.commitSeq /\ q.seqs = p.seqs
      /\ q.sync = "DBPartialSync" /\ q.aliases = m /\ q.table = t
  BY <1>3, <1>7, <1>8 DEF Progress
<1>10. e = q
  BY <1>4, <1>9 DEF Progress
<1>11. Good(s, B, R, g, q, q, s.last)
  BY <1>7, <1>8, <1>9, SubOfRow, NewSyncIsGood
<1> QED
  BY <1>5, <1>10, <1>11 DEF SyncRestarts

\* A snapshot that cannot be used is asked for again.
LEMMA SyncAgainIsGood ==
    ASSUME NEW j \in Jobs, JobsTyped,
           NEW s, NEW B, NEW R, NEW g, NEW p, NEW d, NEW a, Good(s, B, R, g, p, d, a),
           p = prog[j], s.last = src[j].last, d.sub = "GetSnapshotInfo",
           SyncAgain(j)
    PROVE  SyncRestarts(j, s, B, R, g)
<1>1. \A i \in DOMAIN B : B[i].state # "running"
  BY NoBackupRuns
<1>2. CASE p.sync = "DBFullSync"
  <2>1. NewSnapshot(j)
    BY <1>2 DEF SyncAgain
  <2> QED
    BY <1>1, <2>1, NewSnapshotIsGood
<1>3. CASE p.sync # "DBFullSync"
  <2>1. d.sync = "DBPartialSync" /\ d.table \in Tables /\ d.table = p.table
    <3>1. d.sync # "DBTablesIncrementalSync" /\ d.sync # "DBFullSync" /\ d.table = p.table
      BY <1>3, SubOfRow DEF Good, RowOK
    <3>2. d.sync = "DBPartialSync"
      BY <3>1, SubOfRow DEF Progress
    <3> QED
      BY <3>1, <3>2 DEF Good, RowOK
  <2>2. PICK t, replace : t = p.table /\ replace = HasAliases(p)
    OBVIOUS
  <2>3. NewPartialSnapshot(j, t, replace)
    BY <1>3, <2>2 DEF SyncAgain
  <2>4. d.sync = "DBPartialSync" /\ d.sub # "PersistRestoreInfo" /\ d.table = t /\ t \in Tables
    BY <2>1, <2>2
  <2> QED
    BY <1>1, <2>3, <2>4, NewPartialIsGood
<1> QED
  BY <1>2, <1>3
-----------------------------------------------------------------------------
\* No backup of this sync is left: nothing of it runs.
LEMMA MustCreateFacts ==
    ASSUME NEW j \in Jobs, JobsTyped,
           NEW s, NEW B, NEW R, NEW g, NEW p, NEW d, NEW a, Good(s, B, R, g, p, d, a),
           Now(j, s, B, R, g, p, d, a), MustCreate(j)
    PROVE  /\ p.sub = "BeginCreateSnapshot" /\ d.sub = "BeginCreateSnapshot"
           /\ p.sync = "DBFullSync" \/ p.sync = "DBPartialSync"
           /\ \A i \in DOMAIN B : B[i].syncId = d.syncId => B[i].state = "cancelled"
           /\ \A i \in DOMAIN B : B[i].state # "running"
<1>1. /\ p.sub = "BeginCreateSnapshot" /\ p.sync # "DBTablesIncrementalSync"
      /\ d.sub = "BeginCreateSnapshot"
  BY SubOfRow DEF MustCreate, At, Now
<1>2. p.sync = "DBFullSync" \/ p.sync = "DBPartialSync"
  BY <1>1, SubOfRow DEF Progress
<1>3. \A i \in DOMAIN B : B[i].syncId = d.syncId => B[i].sync = p.sync
  BY <1>2, SubOfRow DEF Good, BackupsOK, BackupOK
<1>4. \A i \in DOMAIN B : B[i].syncId = d.syncId => B[i].state = "cancelled"
  BY <1>3, SubOfRow DEF MustCreate, ValidBackups, Now
<1>5. \A i \in DOMAIN B : B[i].state = "running" => B[i].syncId = d.syncId
  BY DEF Good, BackupsOK, BackupOK
<1> QED
  BY <1>1, <1>2, <1>4, <1>5

\* lockBinlog before a backup is made.
LEMMA LockMoves ==
    ASSUME NEW j \in Jobs, JobsTyped,
           NEW s, NEW B, NEW R, NEW g, NEW p, NEW d, NEW a, Good(s, B, R, g, p, d, a),
           Now(j, s, B, R, g, p, d, a), MustCreate(j), LockBinlog(j)
    PROVE  \E z : /\ Good(z, B, R, g, p, d, a) /\ src' = [src EXCEPT ![j] = z]
                  /\ z.last = s.last /\ z.tables = s.tables
                  /\ p.sync = "DBFullSync" => z.locked = z.last
<1>1. CASE p.sync = "DBFullSync"
  <2>1. PICK z : z = [s EXCEPT !.locked = s.last]
    OBVIOUS
  <2>2. s \in Sources
    BY DEF Good, TypedJob
  <2>3. /\ z \in Sources /\ z.last = s.last /\ z.tables = s.tables /\ z.gc = s.gc
        /\ z.locked = z.last
    BY <2>1, <2>2 DEF Sources
  <2>4. src' = [src EXCEPT ![j] = z]
    BY <1>1, <2>1 DEF LockBinlog, IsFull, Now
  <2>5. Good(z, B, R, g, p, d, a)
    BY <1>1, <2>3, MustCreateFacts, SubOfRow, LockIsGood
  <2> QED
    BY <2>3, <2>4, <2>5
<1>2. CASE p.sync # "DBFullSync"
  <2>1. src' = [src EXCEPT ![j] = s]
    BY <1>2, Stays DEF LockBinlog, IsFull, Now
  <2> QED
    BY <1>2, <2>1
<1> QED
  BY <1>1, <1>2

\* The backup that CreateSnapshot starts.
LEMMA CreatedIsGood ==
    ASSUME NEW j \in Jobs, JobsTyped,
           NEW s, NEW B, NEW R, NEW g, NEW p, NEW d, NEW a, Good(s, B, R, g, p, d, a),
           Now(j, s, B, R, g, p, d, a), CanCreate(j), LockBinlog(j)
    PROVE  \E z, b : /\ Good(z, Append(B, b), R, g, p, d, a)
                     /\ src' = [src EXCEPT ![j] = z]
                     /\ b = NewBackup(j) /\ b \in Backups
                     /\ b.syncId = d.syncId
<1>1. MustCreate(j) /\ SnapshotTables(j) # {}
  BY DEF CanCreate
<1>2. PICK z : /\ Good(z, B, R, g, p, d, a) /\ src' = [src EXCEPT ![j] = z]
               /\ z.last = s.last /\ z.tables = s.tables
               /\ p.sync = "DBFullSync" => z.locked = z.last
  BY <1>1, LockMoves
<1>3. /\ p.sync = d.sync /\ p.syncId = d.syncId /\ p.table = d.table
      /\ p.sync = "DBFullSync" \/ p.sync = "DBPartialSync"
      /\ d.sub = "BeginCreateSnapshot"
      /\ \A i \in DOMAIN B : B[i].syncId = d.syncId => B[i].state = "cancelled"
  BY <1>1, MustCreateFacts, SubOfRow
<1>4. PICK b : b = NewBackup(j)
  OBVIOUS
<1>5. /\ b = [sync |-> p.sync, syncId |-> p.syncId, seqs |-> [t \in Tables |-> 0],
              tables |-> SnapshotTables(j), from |-> s.last, state |-> "running", gone |-> FALSE]
  BY <1>4 DEF NewBackup, Now
<1>6. SnapshotTables(j) = IF p.sync = "DBFullSync" THEN s.tables ELSE {p.table} \cap s.tables
  BY DEF SnapshotTables, IsFull, Now
<1>7. s.tables \subseteq Tables /\ s.last \in Seqs /\ p.syncId \in SyncIds
  BY DEF Good, TypedJob, Sources, Progress
<1>8. 0 \in Seqs
  BY SnapshotAssumption DEF Seqs
<1>9. b \in Backups
  BY <1>3, <1>5, <1>6, <1>7, <1>8 DEF Backups
<1>10. /\ b.sync = d.sync /\ b.syncId = d.syncId /\ b.from = z.last /\ b.state = "running"
       /\ b.tables # {}
       /\ d.sync = "DBFullSync" => b.tables = z.tables /\ z.locked = z.last
       /\ d.sync = "DBPartialSync" => b.tables = {d.table}
  BY <1>1, <1>2, <1>3, <1>5, <1>6
<1>11. Good(z, Append(B, b), R, g, p, d, a)
  BY <1>2, <1>3, <1>9, <1>10, AppendedBackupIsGood
<1> QED
  BY <1>2, <1>4, <1>9, <1>10, <1>11
-----------------------------------------------------------------------------
\* The search for a backup of this sync, after one was made or found.
LEMMA FoundBackupIsGood ==
    ASSUME NEW s, NEW B, NEW R, NEW g, NEW p, NEW d, NEW a, Good(s, B, R, g, p, d, a),
           d.sub = "BeginCreateSnapshot", NEW n \in DOMAIN B, B[n].syncId = d.syncId,
           NEW q, q = [p EXCEPT !.sub = "WaitBackupDone", !.name = n]
    PROVE  Good(s, B, R, g, q, d, a)
<1>1. p \in Progress /\ n \in Nat
  <2>1. B \in Seq(Backups)
    BY DEF Good, TypedJob
  <2> QED
    BY <2>1, SubOfRow
<1>2. /\ q \in Progress /\ q.sub = "WaitBackupDone" /\ q.name = n
      /\ q.sync = p.sync /\ q.table = p.table /\ q.syncId = p.syncId
      /\ q.commitSeq = p.commitSeq /\ q.aliases = p.aliases /\ q.seqs = p.seqs
  BY <1>1 DEF Progress
<1>3. VolatileOK(B, R, q, d)
  BY <1>2 DEF Good, VolatileOK, HasSnapshot
<1> QED
  BY <1>2, <1>3, VolatileIsGood

\* isBackupDone finds a backup of this sync: the job waits for that one.
LEMMA ReuseBackupMoves ==
    ASSUME NEW j, JobReady(j), ReuseBackup(j)
    PROVE  JobMoves(j)
<1>1. PICK s, B, R, g, p, d, a : Now(j, s, B, R, g, p, d, a)
  BY DEF Now
<1>2. j \in Jobs /\ JobsTyped /\ Good(s, B, R, g, p, d, a)
  BY <1>1 DEF Now, JobReady, JobGood
<1>3. PICK n : n = Max(ValidBackups(j))
  OBVIOUS
<1>4. n \in ValidBackups(j)
  <2>1. B \in Seq(Backups)
    BY <1>2 DEF Good, TypedJob
  <2>2. DOMAIN B = 1..Len(B) /\ Len(B) \in Nat
    BY <2>1
  <2>3. ValidBackups(j) \subseteq 1..Len(B) /\ ValidBackups(j) # {}
    BY <1>1, <2>2 DEF ValidBackups, ReuseBackup, Now
  <2> QED
    BY <1>3, <2>2, <2>3, MaxOfInterval
<1>5. n \in DOMAIN B /\ B[n].syncId = d.syncId /\ d.sub = "BeginCreateSnapshot"
  BY <1>1, <1>2, <1>4, SubOfRow DEF ValidBackups, Now, ReuseBackup, At
<1>6. PICK q : q = [p EXCEPT !.sub = "WaitBackupDone", !.name = n]
  OBVIOUS
<1>7. Good(s, B, R, g, q, d, a)
  BY <1>2, <1>5, <1>6, FoundBackupIsGood
<1>8. Becomes(j, s, B, R, g, q, d, a)
  <2>1. /\ UNCHANGED <<src, backups, target, restores, disk, asked>>
        /\ prog' = [prog EXCEPT ![j] = q]
    BY <1>1, <1>3, <1>6 DEF ReuseBackup, Volatile, LockOnReuse, Now
  <2> QED
    BY <1>1, <1>2, <2>1, Stays DEF Becomes
<1> QED
  BY <1>7, <1>8 DEF JobMoves

\* CreateSnapshot: the binlogs are locked first, then a backup is started; when the reply is
\* lost the job does not know it.
LEMMA CreateSnapshotMoves ==
    ASSUME NEW j, JobReady(j), CreateSnapshot(j) \/ CreateSnapshotLosesReply(j)
    PROVE  JobMoves(j)
<1>1. PICK s, B, R, g, p, d, a : Now(j, s, B, R, g, p, d, a)
  BY DEF Now
<1>2. j \in Jobs /\ JobsTyped /\ Good(s, B, R, g, p, d, a)
  BY <1>1 DEF Now, JobReady, JobGood
<1>3. CanCreate(j) /\ LockBinlog(j)
  BY DEF CreateSnapshot, CreateSnapshotLosesReply
<1>4. PICK z, b : /\ Good(z, Append(B, b), R, g, p, d, a) /\ src' = [src EXCEPT ![j] = z]
                  /\ b = NewBackup(j) /\ b \in Backups /\ b.syncId = d.syncId
  BY <1>1, <1>2, <1>3, CreatedIsGood
<1>5. PICK C : C = Append(B, b)
  OBVIOUS
<1>6. backups' = [backups EXCEPT ![j] = C]
  BY <1>1, <1>4, <1>5 DEF CreateSnapshot, CreateSnapshotLosesReply, Now
<1>7. Good(z, C, R, g, p, d, a)
  BY <1>4, <1>5
<1>8. CASE CreateSnapshotLosesReply(j)
  <2>1. Becomes(j, z, C, R, g, p, d, a)
    BY <1>1, <1>2, <1>4, <1>6, <1>8, Stays DEF Becomes, CreateSnapshotLosesReply, jobVars
  <2> QED
    BY <1>7, <2>1 DEF JobMoves
<1>9. CASE CreateSnapshot(j)
  <2>1. B \in Seq(Backups) /\ d.sub = "BeginCreateSnapshot"
    BY <1>1, <1>2, <1>3, MustCreateFacts DEF CanCreate, Good, TypedJob
  <2>2. PICK n : n = Len(B) + 1
    OBVIOUS
  <2>3. n \in DOMAIN C /\ C[n].syncId = d.syncId
    BY <1>4, <1>5, <2>1, <2>2
  <2>4. PICK q : q = [p EXCEPT !.sub = "WaitBackupDone", !.name = n]
    OBVIOUS
  <2>5. Good(z, C, R, g, q, d, a)
    BY <1>7, <2>1, <2>3, <2>4, FoundBackupIsGood
  <2>6. /\ prog' = [prog EXCEPT ![j] = q] /\ UNCHANGED <<target, restores, disk, asked>>
    BY <1>1, <1>9, <2>2, <2>4 DEF CreateSnapshot, Volatile, Now
  <2>7. Becomes(j, z, C, R, g, q, d, a)
    BY <1>1, <1>2, <1>4, <1>6, <2>6, Stays DEF Becomes
  <2> QED
    BY <2>5, <2>7 DEF JobMoves
<1> QED
  BY <1>8, <1>9

\* CreateSnapshot is refused: the binlogs are locked all the same.  With no table left there is
\* nothing to back up, and the job is asked for a new snapshot.
LEMMA CreateSnapshotFailsMoves ==
    ASSUME NEW j, JobReady(j), CreateSnapshotFails(j) \/ SourceIsEmpty(j)
    PROVE  JobMoves(j)
<1>1. PICK s, B, R, g, p, d, a : Now(j, s, B, R, g, p, d, a)
  BY DEF Now
<1>2. j \in Jobs /\ JobsTyped /\ Good(s, B, R, g, p, d, a)
  BY <1>1 DEF Now, JobReady, JobGood
<1>3. /\ MustCreate(j) /\ LockBinlog(j) /\ UNCHANGED <<backups, target, restores>>
      /\ UNCHANGED jobVars \/ NewSnapshot(j)
  BY DEF CreateSnapshotFails, SourceIsEmpty
<1>4. PICK z : /\ Good(z, B, R, g, p, d, a) /\ src' = [src EXCEPT ![j] = z] /\ z.last = s.last
  BY <1>1, <1>2, <1>3, LockMoves
<1>5. CASE UNCHANGED jobVars
  <2>1. Becomes(j, z, B, R, g, p, d, a)
    BY <1>1, <1>2, <1>3, <1>4, <1>5, Stays DEF Becomes, jobVars
  <2> QED
    BY <1>4, <2>1 DEF JobMoves
<1>6. CASE NewSnapshot(j)
  <2>1. \A i \in DOMAIN B : B[i].state # "running"
    BY <1>1, <1>2, <1>3, MustCreateFacts
  <2>2. p = prog[j] /\ z.last = src[j].last
    BY <1>1, <1>4 DEF Now
  <2>3. SyncRestarts(j, z, B, R, g)
    BY <1>2, <1>4, <1>6, <2>1, <2>2, NewSnapshotIsGood
  <2>4. PICK q : /\ Good(z, B, R, g, q, q, z.last)
                 /\ prog' = [prog EXCEPT ![j] = q] /\ disk' = [disk EXCEPT ![j] = q]
                 /\ asked' = [asked EXCEPT ![j] = z.last]
    BY <2>3 DEF SyncRestarts
  <2>5. Becomes(j, z, B, R, g, q, q, z.last)
    BY <1>1, <1>2, <1>3, <1>4, <2>4, Stays DEF Becomes
  <2> QED
    BY <2>4, <2>5 DEF JobMoves
<1> QED
  BY <1>3, <1>5, <1>6

\* A job whose clusters stay as they are asks for a snapshot.
LEMMA RestartMoves ==
    ASSUME NEW j \in Jobs, JobsTyped,
           NEW s, NEW B, NEW R, NEW g, NEW p, NEW d, NEW a, Now(j, s, B, R, g, p, d, a),
           SyncRestarts(j, s, B, R, g), UNCHANGED extVars
    PROVE  JobMoves(j)
<1>1. PICK q : /\ Good(s, B, R, g, q, q, s.last)
               /\ prog' = [prog EXCEPT ![j] = q] /\ disk' = [disk EXCEPT ![j] = q]
               /\ asked' = [asked EXCEPT ![j] = s.last]
  BY DEF SyncRestarts
<1>2. Becomes(j, s, B, R, g, q, q, s.last)
  BY <1>1, Stays DEF Becomes, extVars
<1> QED
  BY <1>1, <1>2 DEF JobMoves

\* The table of a partial sync was dropped: the job goes back to the binlogs as it is, and the
\* restore it waited for may still be running.
LEMMA SkipDroppedTableMoves ==
    ASSUME NEW j, JobReady(j), SkipDroppedTable(j)
    PROVE  JobMoves(j)
<1>1. PICK s, B, R, g, p, d, a : Now(j, s, B, R, g, p, d, a)
  BY DEF Now
<1>2. j \in Jobs /\ JobsTyped /\ Good(s, B, R, g, p, d, a)
  BY <1>1 DEF Now, JobReady, JobGood
<1>3. MustCreate(j) /\ p.sync # "DBFullSync"
  BY <1>1 DEF SkipDroppedTable, IsFull, Now
<1>4. /\ p.sync = "DBPartialSync" /\ d.sync = "DBPartialSync" /\ p.table = d.table
      /\ d.sub = "BeginCreateSnapshot"
      /\ \A i \in DOMAIN B : B[i].syncId = d.syncId => B[i].state = "cancelled"
      /\ \A i \in DOMAIN B : B[i].state # "running"
  BY <1>1, <1>2, <1>3, MustCreateFacts, SubOfRow
<1>5. d.table \in Tables
  BY <1>2, <1>4 DEF Good, RowOK
<1>6. d.table \notin s.tables
  BY <1>1, <1>3, <1>4 DEF SkipDroppedTable, SnapshotTables, IsFull, Now
<1>7. PICK q : q = [p EXCEPT !.seqs[p.table] = Dropped,
                             !.sync = "DBTablesIncrementalSync", !.sub = "Done", !.name = 0]
  OBVIOUS
<1>8. PICK e : e = [q EXCEPT !.label = 0]
  OBVIOUS
<1>9. PICK f : f = [p.seqs EXCEPT ![p.table] = Dropped]
  OBVIOUS
<1>10. p \in Progress /\ p.seqs \in [Tables -> Seqs \cup {Dropped}]
  BY <1>2, SubOfRow DEF Progress
<1>11. f \in [Tables -> Seqs \cup {Dropped}]
  BY <1>9, <1>10
<1>12. q = [p EXCEPT !.seqs = f, !.sync = "DBTablesIncrementalSync", !.sub = "Done", !.name = 0]
  BY <1>7, <1>9, <1>10 DEF Progress
<1>13. /\ q \in Progress /\ q.sub = "Done" /\ q.seqs = f
       /\ q.sync = "DBTablesIncrementalSync"
       /\ q.table = p.table /\ q.syncId = p.syncId
       /\ q.commitSeq = p.commitSeq /\ q.aliases = p.aliases
  BY <1>10, <1>11, <1>12 DEF Progress
<1>14. /\ e \in Progress /\ e.sub = "Done" /\ e.seqs = f /\ e.label = 0
       /\ e.sync = "DBTablesIncrementalSync"
       /\ e.table = p.table /\ e.syncId = p.syncId
       /\ e.commitSeq = p.commitSeq /\ e.aliases = p.aliases
  BY <1>8, <1>13 DEF Progress
<1>15. VolatileOK(B, R, q, e)
  BY <1>13, <1>14 DEF VolatileOK, HasSnapshot
<1>16. Good(s, B, R, g, q, e, a)
  <2>1. /\ e.syncId = d.syncId /\ e.commitSeq = d.commitSeq /\ e.aliases = d.aliases
        /\ e.seqs = [d.seqs EXCEPT ![d.table] = Dropped]
    BY <1>2, <1>4, <1>9, <1>14, SubOfRow
  <2> QED
    BY <1>2, <1>4, <1>6, <1>13, <1>14, <1>15, <2>1, SkippedTableIsGood
<1>17. Becomes(j, s, B, R, g, q, e, a)
  <2>1. /\ UNCHANGED <<src, backups, target, restores, asked>>
        /\ prog' = [prog EXCEPT ![j] = q] /\ disk' = [disk EXCEPT ![j] = e]
    BY <1>1, <1>7, <1>8 DEF SkipDroppedTable, Persist, extVars, Now
  <2> QED
    BY <1>1, <1>2, <2>1, Stays DEF Becomes
<1> QED
  BY <1>16, <1>17 DEF JobMoves
-----------------------------------------------------------------------------
\* A step that leaves the clusters and the progress as they are.
LEMMA QuietMoves ==
    ASSUME NEW j, JobReady(j), UNCHANGED extVars, UNCHANGED jobVars
    PROVE  JobMoves(j)
<1>1. PICK s, B, R, g, p, d, a : Now(j, s, B, R, g, p, d, a)
  BY DEF Now
<1>2. j \in Jobs /\ JobsTyped /\ Good(s, B, R, g, p, d, a)
  BY <1>1 DEF Now, JobReady, JobGood
<1>3. Becomes(j, s, B, R, g, p, d, a)
  BY <1>1, <1>2, Stays DEF Becomes, extVars, jobVars
<1> QED
  BY <1>2, <1>3 DEF JobMoves

\* A volatile progress that waits for nothing: the sub state changes within what is stored.
LEMMA SubMoves ==
    ASSUME NEW j, JobReady(j), NEW sub,
           \/ sub = "BeginCreateSnapshot" /\ prog[j].sub = "WaitBackupDone"
           \/ /\ sub = "RestoreSnapshot"
              /\ prog[j].sub \in {"GetSnapshotInfo", "WaitRestoreDone"},
           Volatile(j, [prog[j] EXCEPT !.sub = sub]), UNCHANGED extVars
    PROVE  JobMoves(j)
<1>1. PICK s, B, R, g, p, d, a : Now(j, s, B, R, g, p, d, a)
  BY DEF Now
<1>2. j \in Jobs /\ JobsTyped /\ Good(s, B, R, g, p, d, a)
  BY <1>1 DEF Now, JobReady, JobGood
<1>3. PICK q : q = [p EXCEPT !.sub = sub]
  OBVIOUS
<1>4. /\ q \in Progress /\ q.sub = sub /\ q.name = p.name
      /\ q.sync = p.sync /\ q.table = p.table /\ q.syncId = p.syncId
      /\ q.commitSeq = p.commitSeq /\ q.aliases = p.aliases /\ q.seqs = p.seqs
  BY <1>2, <1>3, SubOfRow DEF Progress
<1>5. VolatileOK(B, R, q, d)
  <2>1. p.sub = prog[j].sub
    BY <1>1 DEF Now
  <2> QED
    BY <1>2, <1>4, <2>1, SubOfRow DEF Good, VolatileOK, HasSnapshot
<1>6. Good(s, B, R, g, q, d, a)
  BY <1>2, <1>4, <1>5, VolatileIsGood
<1>7. Becomes(j, s, B, R, g, q, d, a)
  <2>1. prog' = [prog EXCEPT ![j] = q] /\ UNCHANGED <<disk, asked>>
    BY <1>1, <1>3 DEF Volatile, Now
  <2> QED
    BY <1>1, <1>2, <2>1, Stays DEF Becomes, extVars
<1> QED
  BY <1>6, <1>7 DEF JobMoves

\* A failed backup or restore, and a snapshot that was read: only the sub state moves.
LEMMA SubStateMoves ==
    ASSUME NEW j, JobReady(j), BackupFailed(j) \/ GetSnapshotInfo(j) \/ RestoreFailed(j)
    PROVE  JobMoves(j)
<1>1. CASE BackupFailed(j)
  BY <1>1, SubMoves DEF BackupFailed, At
<1>2. CASE GetSnapshotInfo(j)
  BY <1>2, SubMoves DEF GetSnapshotInfo, At
<1>3. CASE RestoreFailed(j)
  BY <1>3, SubMoves DEF RestoreFailed, AtRestore, At
<1> QED
  BY <1>1, <1>2, <1>3

\* GetSnapshotInfo finds no snapshot: the job asks for a new one.
LEMMA SnapshotNotExistMoves ==
    ASSUME NEW j, JobReady(j), SnapshotNotExist(j)
    PROVE  JobMoves(j)
<1>1. PICK s, B, R, g, p, d, a : Now(j, s, B, R, g, p, d, a)
  BY DEF Now
<1>2. j \in Jobs /\ JobsTyped /\ Good(s, B, R, g, p, d, a)
  BY <1>1 DEF Now, JobReady, JobGood
<1>3. p = prog[j] /\ s.last = src[j].last /\ d.sub = "GetSnapshotInfo"
  BY <1>1, <1>2, SubOfRow DEF Now, SnapshotNotExist, At
<1>4. SyncAgain(j) /\ UNCHANGED extVars
  BY DEF SnapshotNotExist
<1>5. SyncRestarts(j, s, B, R, g)
  BY <1>2, <1>3, <1>4, SyncAgainIsGood
<1> QED
  BY <1>1, <1>2, <1>4, <1>5, RestartMoves

\* The search for a restore of the snapshot, after one was made or found.
LEMMA FoundRestoreIsGood ==
    ASSUME NEW s, NEW B, NEW R, NEW g, NEW p, NEW d, NEW a, Good(s, B, R, g, p, d, a),
           d.sub = "GetSnapshotInfo", NEW n \in DOMAIN R, R[n].snap = d.name, Live(R[n]),
           NEW q, q = [p EXCEPT !.sub = "WaitRestoreDone", !.label = n]
    PROVE  Good(s, B, R, g, q, d, a)
<1>1. p \in Progress /\ n \in Nat
  <2>1. R \in Seq(Restores)
    BY DEF Good, TypedJob
  <2> QED
    BY <2>1, SubOfRow
<1>2. /\ q \in Progress /\ q.sub = "WaitRestoreDone" /\ q.name = p.name /\ q.label = n
      /\ q.sync = p.sync /\ q.table = p.table /\ q.syncId = p.syncId
      /\ q.commitSeq = p.commitSeq /\ q.aliases = p.aliases /\ q.seqs = p.seqs
  BY <1>1 DEF Progress
<1>3. \A i \in DOMAIN R : R[i].snap = d.name /\ Live(R[i]) => i = n
  BY DEF Good, RestoresOK
<1>4. VolatileOK(B, R, q, d)
  BY <1>2, <1>3 DEF Good, VolatileOK, HasSnapshot
<1> QED
  BY <1>2, <1>4, VolatileIsGood

\* isRestoreDone finds a restore of this snapshot: the job waits for that one.
LEMMA ReuseRestoreMoves ==
    ASSUME NEW j, JobReady(j), ReuseRestore(j)
    PROVE  JobMoves(j)
<1>1. PICK s, B, R, g, p, d, a : Now(j, s, B, R, g, p, d, a)
  BY DEF Now
<1>2. j \in Jobs /\ JobsTyped /\ Good(s, B, R, g, p, d, a)
  BY <1>1 DEF Now, JobReady, JobGood
<1>3. PICK n : n = Max(ValidRestores(j))
  OBVIOUS
<1>4. n \in ValidRestores(j)
  <2>1. R \in Seq(Restores)
    BY <1>2 DEF Good, TypedJob
  <2>2. DOMAIN R = 1..Len(R) /\ Len(R) \in Nat
    BY <2>1
  <2>3. ValidRestores(j) \subseteq 1..Len(R) /\ ValidRestores(j) # {}
    BY <1>1, <2>2 DEF ValidRestores, ReuseRestore, Now
  <2> QED
    BY <1>3, <2>2, <2>3, MaxOfInterval
<1>5. n \in DOMAIN R /\ R[n].snap = d.name /\ Live(R[n]) /\ d.sub = "GetSnapshotInfo"
  BY <1>1, <1>2, <1>4, SubOfRow DEF ValidRestores, Now, ReuseRestore, At, Live
<1>6. PICK q : q = [p EXCEPT !.sub = "WaitRestoreDone", !.label = n]
  OBVIOUS
<1>7. Good(s, B, R, g, q, d, a)
  BY <1>2, <1>5, <1>6, FoundRestoreIsGood
<1>8. Becomes(j, s, B, R, g, q, d, a)
  <2>1. UNCHANGED extVars /\ prog' = [prog EXCEPT ![j] = q] /\ UNCHANGED <<disk, asked>>
    BY <1>1, <1>3, <1>6 DEF ReuseRestore, Volatile, Now
  <2> QED
    BY <1>1, <1>2, <2>1, Stays DEF Becomes, extVars
<1> QED
  BY <1>7, <1>8 DEF JobMoves

\* RestoreSnapshot starts a restore of the snapshot; when the reply is lost the job looks for
\* it again, under the same label.
LEMMA RestoreSnapshotMoves ==
    ASSUME NEW j, JobReady(j), RestoreSnapshot(j) \/ RestoreSnapshotLosesReply(j)
    PROVE  JobMoves(j)
<1>1. PICK s, B, R, g, p, d, a : Now(j, s, B, R, g, p, d, a)
  BY DEF Now
<1>2. j \in Jobs /\ JobsTyped /\ Good(s, B, R, g, p, d, a)
  BY <1>1 DEF Now, JobReady, JobGood
<1>3. MustRestore(j) /\ ~TargetBusy(j)
  BY DEF RestoreSnapshot, RestoreSnapshotLosesReply
<1>4. /\ p.sub = "RestoreSnapshot" /\ d.sub = "GetSnapshotInfo" /\ p.name = d.name
      /\ p.aliases = d.aliases
  BY <1>1, <1>2, <1>3, SubOfRow DEF MustRestore, At, Now
<1>5. /\ \A i \in DOMAIN R : R[i].state # "running"
      /\ \A i \in DOMAIN R : R[i].snap = d.name => ~Live(R[i])
  BY <1>1, <1>3, <1>4 DEF MustRestore, TargetBusy, ValidRestores, Live, Now
<1>6. PICK r : r = NewRestore(j)
  OBVIOUS
<1>7. r = [snap |-> d.name, tables |-> B[d.name].tables, aliases |-> d.aliases,
           state |-> "running", table |-> Nil]
  BY <1>1, <1>4, <1>6 DEF NewRestore, Snapshot, Now
<1>8. r \in Restores
  <2>1. d \in Progress
    BY <1>2, SubOfRow
  <2>2. d.name \in Nat /\ d.aliases \in AliasMaps
    BY <2>1 DEF Progress
  <2>3. d.name \in DOMAIN B
    BY <1>2, <1>4 DEF Good, BackupsOK, HasSnapshot
  <2>4. B[d.name].tables \subseteq Tables
    BY <1>2, <2>3, JobFacts DEF Good
  <2> QED
    BY <1>7, <2>2, <2>4 DEF Restores
<1>9. PICK Q : Q = Append(R, r)
  OBVIOUS
<1>10. Good(s, B, Q, g, p, d, a)
  BY <1>2, <1>4, <1>5, <1>7, <1>8, <1>9, AppendedRestoreIsGood
<1>11. restores' = [restores EXCEPT ![j] = Q]
  BY <1>1, <1>6, <1>9 DEF RestoreSnapshot, RestoreSnapshotLosesReply, Now
<1>12. CASE RestoreSnapshotLosesReply(j)
  <2>1. Becomes(j, s, B, Q, g, p, d, a)
    BY <1>1, <1>2, <1>11, <1>12, Stays DEF Becomes, RestoreSnapshotLosesReply, jobVars
  <2> QED
    BY <1>10, <2>1 DEF JobMoves
<1>13. CASE RestoreSnapshot(j)
  <2>1. R \in Seq(Restores)
    BY <1>2 DEF Good, TypedJob
  <2>2. PICK n : n = Len(R) + 1
    OBVIOUS
  <2>3. n \in DOMAIN Q /\ Q[n] = r
    BY <1>8, <1>9, <2>1, <2>2
  <2>4. Q[n].snap = d.name /\ Live(Q[n])
    BY <1>7, <2>3 DEF Live
  <2>5. PICK q : q = [p EXCEPT !.sub = "WaitRestoreDone", !.label = n]
    OBVIOUS
  <2>6. Good(s, B, Q, g, q, d, a)
    BY <1>4, <1>10, <2>3, <2>4, <2>5, FoundRestoreIsGood
  <2>7. /\ prog' = [prog EXCEPT ![j] = q] /\ UNCHANGED <<src, backups, target, disk, asked>>
    BY <1>1, <1>13, <2>2, <2>5 DEF RestoreSnapshot, Volatile, Now
  <2>8. Becomes(j, s, B, Q, g, q, d, a)
    BY <1>1, <1>2, <1>11, <2>7, Stays DEF Becomes
  <2> QED
    BY <2>6, <2>8 DEF JobMoves
<1> QED
  BY <1>12, <1>13
-----------------------------------------------------------------------------
\* The restore is gone, and the snapshot with it: the job asks for a new one.
LEMMA RestoreExpiredMoves ==
    ASSUME NEW j, JobReady(j), RestoreExpired(j)
    PROVE  JobMoves(j)
<1>1. PICK s, B, R, g, p, d, a : Now(j, s, B, R, g, p, d, a)
  BY DEF Now
<1>2. j \in Jobs /\ JobsTyped /\ Good(s, B, R, g, p, d, a)
  BY <1>1 DEF Now, JobReady, JobGood
<1>3. /\ p.sub = "WaitRestoreDone" /\ d.sub = "GetSnapshotInfo" /\ p.label \in DOMAIN R
      /\ p = prog[j] /\ s.last = src[j].last
      /\ SyncAgain(j) /\ UNCHANGED <<src, backups, target>>
  <2>1. p.sub = "WaitRestoreDone" /\ p = prog[j] /\ s.last = src[j].last
    BY <1>1 DEF RestoreExpired, At, Now
  <2>2. p.label \in DOMAIN R /\ d.sub = "GetSnapshotInfo"
    BY <1>2, <2>1, SubOfRow DEF Good, VolatileOK
  <2> QED
    BY <2>1, <2>2 DEF RestoreExpired
<1>4. PICK r : r = [R[p.label] EXCEPT !.state = IF R[p.label].state = "running" THEN "cancelled"
                                                ELSE R[p.label].state]
  OBVIOUS
<1>5. R \in Seq(Restores) /\ R[p.label] \in Restores
  BY <1>2, <1>3 DEF Good, TypedJob
<1>6. /\ r \in Restores /\ r.snap = R[p.label].snap /\ r.tables = R[p.label].tables
      /\ r.aliases = R[p.label].aliases
      /\ R[p.label].state = "running" => r.state = "cancelled"
      /\ R[p.label].state # "running" => r = R[p.label]
  BY <1>4, <1>5 DEF Restores
<1>7. restores' = [restores EXCEPT ![j] = [R EXCEPT ![p.label] = r]]
  BY <1>1, <1>2, <1>3, <1>4, <1>5 DEF RestoreExpired, Now, JobsTyped, Restores
<1>8. PICK Q : Good(s, B, Q, g, p, d, a) /\ restores' = [restores EXCEPT ![j] = Q]
  <2>1. CASE R[p.label].state = "running"
    <3>1. ~Live(r) /\ r.state # "mismatch"
      BY <1>6, <2>1 DEF Live
    <3>2. Good(s, B, [R EXCEPT ![p.label] = r], g, p, d, a)
      BY <1>2, <1>3, <1>6, <3>1, EndedRestoreIsGood
    <3> QED
      BY <1>7, <3>2
  <2>2. CASE R[p.label].state # "running"
    <3>1. [R EXCEPT ![p.label] = r] = R
      BY <1>3, <1>5, <1>6, <2>2
    <3> QED
      BY <1>2, <1>7, <3>1
  <2> QED
    BY <2>1, <2>2
<1>9. SyncRestarts(j, s, B, Q, g)
  BY <1>2, <1>3, <1>8, SyncAgainIsGood
<1>10. PICK q : /\ Good(s, B, Q, g, q, q, s.last)
                /\ prog' = [prog EXCEPT ![j] = q] /\ disk' = [disk EXCEPT ![j] = q]
                /\ asked' = [asked EXCEPT ![j] = s.last]
  BY <1>9 DEF SyncRestarts
<1>11. Becomes(j, s, B, Q, g, q, q, s.last)
  BY <1>1, <1>2, <1>3, <1>8, <1>10, Stays DEF Becomes
<1> QED
  BY <1>10, <1>11 DEF JobMoves
-----------------------------------------------------------------------------
\* The restore the job waits for, when the job finds it in some state.
LEMMA AtRestoreFacts ==
    ASSUME NEW j \in Jobs, JobsTyped,
           NEW s, NEW B, NEW R, NEW g, NEW p, NEW d, NEW a, Good(s, B, R, g, p, d, a),
           Now(j, s, B, R, g, p, d, a), NEW state, AtRestore(j, state)
    PROVE  /\ p.sub = "WaitRestoreDone" /\ d.sub = "GetSnapshotInfo" /\ p.name = d.name
           /\ p.label \in DOMAIN R /\ R[p.label].snap = d.name /\ R[p.label].state = state
           /\ \A i \in DOMAIN R : R[i].snap = d.name /\ Live(R[i]) => i = p.label
<1>1. p.sub = "WaitRestoreDone" /\ R[p.label].state = state
  BY DEF AtRestore, At, Restore, Now
<1> QED
  BY <1>1, SubOfRow DEF Good, VolatileOK

\* A table whose schema differs is restored under an alias by a full sync, and backed up again
\* for an alias by a partial one.
LEMMA SignatureNotMatchedMoves ==
    ASSUME NEW j, JobReady(j), SignatureNotMatched(j)
    PROVE  JobMoves(j)
<1>1. PICK s, B, R, g, p, d, a : Now(j, s, B, R, g, p, d, a)
  BY DEF Now
<1>2. j \in Jobs /\ JobsTyped /\ Good(s, B, R, g, p, d, a)
  BY <1>1 DEF Now, JobReady, JobGood
<1>3. AtRestore(j, "mismatch") /\ UNCHANGED extVars
  BY DEF SignatureNotMatched
<1>4. /\ p.sub = "WaitRestoreDone" /\ d.sub = "GetSnapshotInfo" /\ p.name = d.name
      /\ p.label \in DOMAIN R /\ R[p.label].snap = d.name /\ R[p.label].state = "mismatch"
      /\ \A i \in DOMAIN R : R[i].snap = d.name => ~Live(R[i])
  BY <1>1, <1>2, <1>3, AtRestoreFacts DEF Live
<1>5. PICK t : t = Restore(j).table
  OBVIOUS
<1>6. t \in Tables
  <2>1. t = R[p.label].table
    BY <1>1, <1>5 DEF Restore, Now
  <2> QED
    BY <1>2, <1>4, <2>1 DEF Good, RestoresOK, RestoreOK
<1>7. CASE p.sync = "DBFullSync"
  <2>1. PICK m : m = [p.aliases EXCEPT ![t] = p.syncId]
    OBVIOUS
  <2>2. PICK f : f = [p EXCEPT !.aliases[t] = p.syncId]
    OBVIOUS
  <2>3. PICK q : q = [f EXCEPT !.sub = "RestoreSnapshot"]
    OBVIOUS
  <2>4. PICK e : e = [f EXCEPT !.sub = "GetSnapshotInfo", !.label = 0]
    OBVIOUS
  <2>5. /\ prog' = [prog EXCEPT ![j] = q] /\ disk' = [disk EXCEPT ![j] = e]
        /\ UNCHANGED asked
    BY <1>1, <1>5, <1>7, <2>2, <2>3, <2>4 DEF SignatureNotMatched, IsFull, Now
  <2>6. p \in Progress /\ p.aliases \in AliasMaps /\ p.syncId \in SyncIds
    BY <1>2, SubOfRow DEF Progress
  <2>7. m \in AliasMaps
    BY <1>6, <2>1, <2>6 DEF AliasMaps
  <2>8. /\ f \in Progress /\ f.aliases = m /\ f.sync = p.sync /\ f.syncId = p.syncId
        /\ f.commitSeq = p.commitSeq /\ f.seqs = p.seqs /\ f.table = p.table
        /\ f.name = p.name
    <3>1. f = [p EXCEPT !.aliases = m]
      BY <2>1, <2>2, <2>6 DEF Progress
    <3> QED
      BY <2>6, <2>7, <3>1 DEF Progress
  <2>9. /\ q \in Progress /\ q.aliases = m /\ q.sync = p.sync /\ q.syncId = p.syncId
        /\ q.commitSeq = p.commitSeq /\ q.seqs = p.seqs /\ q.table = p.table
        /\ q.name = p.name /\ q.sub = "RestoreSnapshot"
    BY <2>3, <2>8 DEF Progress
  <2>10. /\ e \in Progress /\ e.aliases = m /\ e.sync = p.sync /\ e.syncId = p.syncId
         /\ e.commitSeq = p.commitSeq /\ e.seqs = p.seqs /\ e.table = p.table
         /\ e.name = p.name /\ e.sub = "GetSnapshotInfo" /\ e.label = 0
    BY <2>4, <2>8 DEF Progress
  <2>11. VolatileOK(B, R, q, e)
    BY <2>9, <2>10 DEF VolatileOK, HasSnapshot
  <2>12. Good(s, B, R, g, q, e, a)
    <3>1. /\ e.sync = d.sync /\ e.sub = d.sub /\ e.name = d.name /\ e.table = d.table
          /\ e.syncId = d.syncId /\ e.commitSeq = d.commitSeq /\ e.seqs = d.seqs
          /\ e.aliases = [d.aliases EXCEPT ![t] = d.syncId] /\ d.sync = "DBFullSync"
      BY <1>2, <1>4, <1>7, <2>1, <2>10, SubOfRow
    <3> QED
      BY <1>2, <1>4, <1>6, <2>9, <2>10, <2>11, <3>1, AddedAliasIsGood
  <2>13. Becomes(j, s, B, R, g, q, e, a)
    BY <1>1, <1>2, <1>3, <2>5, Stays DEF Becomes, extVars
  <2> QED
    BY <2>12, <2>13 DEF JobMoves
<1>8. CASE p.sync # "DBFullSync"
  <2>1. PICK u, replace : u = p.table /\ replace = TRUE
    OBVIOUS
  <2>2. NewPartialSnapshot(j, u, replace)
    BY <1>1, <1>8, <2>1 DEF SignatureNotMatched, IsFull, Now
  <2>3. p.sync = "DBPartialSync"
    BY <1>1, <1>2, <1>3, <1>8, SubOfRow DEF AtRestore, At, Now, Progress
  <2>4. d.sync = "DBPartialSync" /\ d.sub # "PersistRestoreInfo" /\ d.table = u /\ u \in Tables
    BY <1>2, <1>4, <2>1, <2>3, SubOfRow DEF Good, RowOK
  <2>5. p = prog[j] /\ s.last = src[j].last /\ \A i \in DOMAIN B : B[i].state # "running"
    BY <1>1, <1>2, <1>4, NoBackupRuns DEF Now
  <2>6. SyncRestarts(j, s, B, R, g)
    BY <1>2, <2>2, <2>4, <2>5, NewPartialIsGood
  <2> QED
    BY <1>1, <1>2, <1>3, <2>6, RestartMoves
<1> QED
  BY <1>7, <1>8

\* What RestoreDone stores of its snapshot.
LEMMA RestoreDoneMoves ==
    ASSUME NEW j, JobReady(j), RestoreDone(j)
    PROVE  JobMoves(j)
<1>1. PICK s, B, R, g, p, d, a : Now(j, s, B, R, g, p, d, a)
  BY DEF Now
<1>2. j \in Jobs /\ JobsTyped /\ Good(s, B, R, g, p, d, a)
  BY <1>1 DEF Now, JobReady, JobGood
<1>3. AtRestore(j, "finished")
  BY DEF RestoreDone
<1>4. /\ d.sub = "GetSnapshotInfo" /\ p.name = d.name
      /\ p.label \in DOMAIN R /\ R[p.label].snap = d.name /\ R[p.label].state = "finished"
  BY <1>1, <1>2, <1>3, AtRestoreFacts
<1>5. PICK b : b = B[d.name]
  OBVIOUS
<1>6. /\ b \in Backups /\ b.tables # {} /\ b.tables \subseteq Tables /\ b.from \in Nat
      /\ b.seqs \in [Tables -> Seqs]
      /\ \A t \in b.tables : b.from <= b.seqs[t] /\ b.seqs[t] \in Seqs
  <2>1. d.name \in DOMAIN B /\ b.state = "finished"
    BY <1>2, <1>4, <1>5 DEF Good, BackupsOK, HasSnapshot
  <2>2. b \in Backups /\ b.from \in Nat
    BY <1>2, <1>5, <2>1, JobFacts DEF Good
  <2>3. BackupOK(s, d, a, b)
    BY <1>2, <1>5, <2>1 DEF Good, BackupsOK
  <2>4. b.tables \subseteq Tables /\ b.seqs \in [Tables -> Seqs]
    BY <2>2 DEF Backups
  <2> QED
    BY <2>1, <2>2, <2>3, <2>4 DEF BackupOK
<1>7. PICK c : c = SmallestSeq(b)
  OBVIOUS
<1>8. c \in Seqs /\ b.from <= c /\ \A t \in b.tables : c <= b.seqs[t]
  <2>1. PICK S : S = {b.seqs[t] : t \in b.tables}
    OBVIOUS
  <2>2. S \subseteq Nat /\ S # {}
    BY <1>6, <2>1 DEF Seqs
  <2>3. c \in S /\ \A x \in S : c <= x
    BY <1>7, <2>1, <2>2, MinOfNats DEF SmallestSeq
  <2> QED
    BY <1>6, <2>1, <2>3
<1>9. PICK f : f = RestoredProgress(p, b)
  OBVIOUS
<1>10. PICK q : q = [f EXCEPT !.sub = "PersistRestoreInfo"]
  OBVIOUS
<1>11. PICK e : e = [q EXCEPT !.label = 0]
  OBVIOUS
<1>12. p \in Progress /\ p.seqs \in [Tables -> Seqs \cup {Dropped}]
  BY <1>2, SubOfRow DEF Progress
<1>13. /\ f \in Progress /\ f.sync = p.sync /\ f.syncId = p.syncId /\ f.aliases = p.aliases
       /\ f.table = p.table /\ f.name = p.name
       /\ \A t \in Tables : f.seqs[t] = IF t \in b.tables \/ p.sync = "DBFullSync"
                                        THEN b.seqs[t] ELSE p.seqs[t]
       /\ f.commitSeq = IF p.sync = "DBFullSync" THEN c ELSE p.commitSeq
  <2>1. CASE p.sync = "DBFullSync"
    <3>1. f = [p EXCEPT !.seqs = b.seqs, !.commitSeq = c]
      BY <1>7, <1>9, <2>1 DEF RestoredProgress
    <3>2. b.seqs \in [Tables -> Seqs \cup {Dropped}]
      BY <1>6
    <3>3. \A t \in Tables : f.seqs[t] = b.seqs[t]
      BY <1>12, <3>1 DEF Progress
    <3> QED
      BY <1>8, <1>12, <2>1, <3>1, <3>2, <3>3 DEF Progress
  <2>2. CASE p.sync # "DBFullSync"
    <3>1. PICK h : h = [t \in Tables |-> IF t \in b.tables THEN b.seqs[t] ELSE p.seqs[t]]
      OBVIOUS
    <3>2. h \in [Tables -> Seqs \cup {Dropped}]
      BY <1>6, <1>12, <3>1
    <3>3. f = [p EXCEPT !.seqs = h]
      BY <1>9, <1>12, <2>2, <3>1 DEF RestoredProgress, Progress
    <3>4. f.seqs = h /\ f.commitSeq = p.commitSeq
      BY <1>12, <3>3 DEF Progress
    <3>5. \A t \in Tables : f.seqs[t] = IF t \in b.tables THEN b.seqs[t] ELSE p.seqs[t]
      BY <3>1, <3>4
    <3>6. /\ f \in Progress /\ f.sync = p.sync /\ f.syncId = p.syncId /\ f.aliases = p.aliases
          /\ f.table = p.table /\ f.name = p.name
      BY <1>12, <3>2, <3>3 DEF Progress
    <3> QED
      BY <2>2, <3>4, <3>5, <3>6
  <2> QED
    BY <2>1, <2>2
<1>14. /\ q \in Progress /\ q.sync = p.sync /\ q.syncId = p.syncId /\ q.aliases = p.aliases
       /\ q.table = p.table /\ q.name = p.name /\ q.seqs = f.seqs /\ q.commitSeq = f.commitSeq
       /\ q.sub = "PersistRestoreInfo"
  BY <1>10, <1>13 DEF Progress
<1>15. /\ e \in Progress /\ e.sync = p.sync /\ e.syncId = p.syncId /\ e.aliases = p.aliases
       /\ e.table = p.table /\ e.name = p.name /\ e.seqs = f.seqs /\ e.commitSeq = f.commitSeq
       /\ e.sub = "PersistRestoreInfo" /\ e.label = 0
  BY <1>11, <1>14 DEF Progress
<1>16. VolatileOK(B, R, q, e)
  BY <1>14, <1>15 DEF VolatileOK, HasSnapshot
<1>17. Good(s, B, R, g, q, e, a)
  <2>1. /\ p.sync = d.sync /\ p.syncId = d.syncId /\ p.aliases = d.aliases /\ p.table = d.table
        /\ p.seqs = d.seqs /\ p.commitSeq = d.commitSeq
    BY <1>2, SubOfRow
  <2>2. \A t \in Tables :
           e.seqs[t] = IF t \in B[d.name].tables \/ d.sync = "DBFullSync"
                       THEN B[d.name].seqs[t] ELSE d.seqs[t]
    BY <1>5, <1>13, <1>15, <2>1
  <2>3. /\ d.sync = "DBPartialSync" => e.commitSeq = d.commitSeq
        /\ d.sync = "DBFullSync" =>
              /\ B[d.name].from <= e.commitSeq
              /\ \A t \in B[d.name].tables : e.commitSeq <= B[d.name].seqs[t]
    BY <1>5, <1>8, <1>13, <1>15, <2>1
  <2>4. /\ e.sync = d.sync /\ e.name = d.name /\ e.table = d.table
        /\ e.syncId = d.syncId /\ e.aliases = d.aliases
    BY <1>4, <1>15, <2>1
  <2> QED
    BY <1>2, <1>4, <1>14, <1>15, <1>16, <2>2, <2>3, <2>4, RestoredIsGood
<1>18. Becomes(j, s, B, R, g, q, e, a)
  <2>1. /\ UNCHANGED extVars /\ UNCHANGED asked
        /\ prog' = [prog EXCEPT ![j] = q] /\ disk' = [disk EXCEPT ![j] = e]
    <3>1. p = prog[j] /\ b = Snapshot(j)
      BY <1>1, <1>4, <1>5 DEF Snapshot, Now
    <3> QED
      BY <1>9, <1>10, <1>11, <3>1 DEF RestoreDone, Persist
  <2> QED
    BY <1>1, <1>2, <2>1, Stays DEF Becomes, extVars
<1> QED
  BY <1>17, <1>18 DEF JobMoves
-----------------------------------------------------------------------------
\* SwapAlias replaces a table by a newer one.
LEMMA SwapAliasMoves ==
    ASSUME NEW j, JobReady(j), SwapAlias(j)
    PROVE  JobMoves(j) /\ \A t \in Tables : target[j].held[t] <= target'[j].held[t]
<1>1. PICK s, B, R, g, p, d, a : Now(j, s, B, R, g, p, d, a)
  BY DEF Now
<1>2. j \in Jobs /\ JobsTyped /\ Good(s, B, R, g, p, d, a)
  BY <1>1 DEF Now, JobReady, JobGood
<1>3. PICK x \in UnswappedAliases(j) :
         target' = [target EXCEPT ![j] = [held |-> [g.held EXCEPT ![x.table] = x.seq],
                                          differs |-> g.differs \ {x.table},
                                          aliased |-> g.aliased \ {x}]]
  BY <1>1, <1>2 DEF SwapAlias, Now, JobsTyped
<1>4. x \in g.aliased /\ d.aliases[x.table] = x.alias /\ d.sub = "PersistRestoreInfo"
  BY <1>1, <1>2, <1>3, SubOfRow DEF UnswappedAliases, Now, SwapAlias, At
<1>5. PICK h : h = [held |-> [g.held EXCEPT ![x.table] = x.seq],
                    differs |-> g.differs \ {x.table}, aliased |-> g.aliased \ {x}]
  OBVIOUS
<1>6. g \in Targets /\ x \in Aliases
  BY <1>2, <1>4 DEF Good, TypedJob, Targets
<1>7. /\ h \in Targets /\ h.held = [g.held EXCEPT ![x.table] = x.seq]
      /\ h.aliased = g.aliased \ {x}
  BY <1>5, <1>6 DEF Targets, Aliases
<1>8. Good(s, B, R, h, p, d, a) /\ g.held[x.table] <= x.seq
  BY <1>2, <1>4, <1>7, SwappedIsGood
<1>9. Becomes(j, s, B, R, h, p, d, a)
  <2>1. target' = [target EXCEPT ![j] = h] /\ UNCHANGED <<src, backups, restores, jobVars>>
    BY <1>3, <1>5 DEF SwapAlias
  <2> QED
    BY <1>1, <1>2, <2>1, Stays DEF Becomes, jobVars
<1>10. ASSUME NEW t \in Tables
       PROVE  g.held[t] <= h.held[t]
  <2>1. x.table \in Tables /\ g.held \in [Tables -> Seqs] /\ g.held[t] \in Nat
    BY <1>2, <1>6, JobFacts DEF Good, Targets, Aliases
  <2>2. CASE t = x.table
    BY <1>7, <1>8, <2>1, <2>2
  <2>3. CASE t # x.table
    <3>1. h.held[t] = g.held[t]
      BY <1>7, <2>1, <2>3
    <3> QED
      BY <2>1, <3>1
  <2> QED
    BY <2>2, <2>3
<1>11. target[j] = g /\ target'[j] = h
  BY <1>1, <1>2, <1>9 DEF Now, Becomes, JobsTyped
<1> QED
  BY <1>8, <1>9, <1>10, <1>11 DEF JobMoves
-----------------------------------------------------------------------------
\* The aliases of a full sync are forgotten once every one of them is swapped in.
LEMMA ForgetAliasesMoves ==
    ASSUME NEW j, JobReady(j), ForgetAliases(j)
    PROVE  JobMoves(j)
<1>1. PICK s, B, R, g, p, d, a : Now(j, s, B, R, g, p, d, a)
  BY DEF Now
<1>2. j \in Jobs /\ JobsTyped /\ Good(s, B, R, g, p, d, a)
  BY <1>1 DEF Now, JobReady, JobGood
<1>3. /\ p.sub = "PersistRestoreInfo" /\ d.sub = "PersistRestoreInfo" /\ p.name = d.name
      /\ \A x \in g.aliased : d.aliases[x.table] # x.alias
  BY <1>1, <1>2, SubOfRow DEF ForgetAliases, AllSwapped, UnswappedAliases, At, Now
<1>4. PICK q : q = [p EXCEPT !.aliases = NoAliases]
  OBVIOUS
<1>5. PICK e : e = [q EXCEPT !.label = 0]
  OBVIOUS
<1>6. p \in Progress /\ NoAliases \in AliasMaps
  BY <1>2, SubOfRow DEF NoAliases, AliasMaps
<1>7. /\ q \in Progress /\ e \in Progress
      /\ q.sub = p.sub /\ q.name = p.name
      /\ q.sync = p.sync /\ q.table = p.table /\ q.syncId = p.syncId
      /\ q.commitSeq = p.commitSeq /\ q.aliases = NoAliases /\ q.seqs = p.seqs
      /\ e.sub = p.sub /\ e.name = p.name /\ e.label = 0
      /\ e.sync = p.sync /\ e.table = p.table /\ e.syncId = p.syncId
      /\ e.commitSeq = p.commitSeq /\ e.aliases = NoAliases /\ e.seqs = p.seqs
  BY <1>4, <1>5, <1>6 DEF Progress
<1>8. VolatileOK(B, R, q, e)
  BY <1>3, <1>7 DEF VolatileOK, HasSnapshot
<1>9. Good(s, B, R, g, q, e, a)
  <2>1. /\ e.sync = d.sync /\ e.sub = d.sub /\ e.name = d.name /\ e.table = d.table
        /\ e.syncId = d.syncId /\ e.commitSeq = d.commitSeq /\ e.seqs = d.seqs
    BY <1>2, <1>3, <1>7, SubOfRow
  <2> QED
    BY <1>2, <1>3, <1>7, <1>8, <2>1, ForgottenAliasesAreGood
<1>10. Becomes(j, s, B, R, g, q, e, a)
  <2>1. /\ UNCHANGED extVars /\ UNCHANGED asked
        /\ prog' = [prog EXCEPT ![j] = q] /\ disk' = [disk EXCEPT ![j] = e]
    BY <1>1, <1>4, <1>5 DEF ForgetAliases, Persist, Now
  <2> QED
    BY <1>1, <1>2, <2>1, Stays DEF Becomes, extVars
<1> QED
  BY <1>9, <1>10 DEF JobMoves

\* FinishSync ends with the snapshot in its place.
LEMMA FinishSyncMoves ==
    ASSUME NEW j, JobReady(j), FinishSync(j)
    PROVE  JobMoves(j) /\ \A t \in SnapshotTables(j) : asked[j] <= target[j].held[t]
<1>1. PICK s, B, R, g, p, d, a : Now(j, s, B, R, g, p, d, a)
  BY DEF Now
<1>2. j \in Jobs /\ JobsTyped /\ Good(s, B, R, g, p, d, a)
  BY <1>1 DEF Now, JobReady, JobGood
<1>3. /\ p.sub = "PersistRestoreInfo" /\ d.sub = "PersistRestoreInfo"
      /\ d.aliases = NoAliases /\ p.aliases = d.aliases
      /\ p.sync = d.sync /\ p.table = d.table /\ p.syncId = d.syncId
      /\ p.commitSeq = d.commitSeq /\ p.seqs = d.seqs
  BY <1>1, <1>2, SubOfRow DEF FinishSync, HasAliases, At, Now
<1>4. PICK q : q = [p EXCEPT !.sync = "DBTablesIncrementalSync", !.sub = "Done",
                             !.name = 0, !.label = 0]
  OBVIOUS
<1>5. PICK e : e = [q EXCEPT !.label = 0]
  OBVIOUS
<1>6. /\ q \in Progress
      /\ q.sub = "Done" /\ q.sync = "DBTablesIncrementalSync"
      /\ q.table = p.table /\ q.syncId = p.syncId /\ q.label = 0
      /\ q.commitSeq = p.commitSeq /\ q.aliases = p.aliases /\ q.seqs = p.seqs
  <2>1. p \in Progress
    BY <1>2, SubOfRow
  <2> QED
    BY <1>4, <2>1 DEF Progress
<1>7. e = q
  BY <1>5, <1>6 DEF Progress
<1>8. VolatileOK(B, R, q, e)
  BY <1>6, <1>7 DEF VolatileOK, HasSnapshot
<1>9. /\ Good(s, B, R, g, q, e, a)
      /\ \A t \in s.tables : d.sync = "DBFullSync" \/ t = d.table => a <= g.held[t]
  BY <1>2, <1>3, <1>6, <1>7, <1>8, FinishedSyncIsGood
<1>10. Becomes(j, s, B, R, g, q, e, a)
  <2>1. /\ UNCHANGED extVars /\ UNCHANGED asked
        /\ prog' = [prog EXCEPT ![j] = q] /\ disk' = [disk EXCEPT ![j] = e]
    BY <1>1, <1>4, <1>5 DEF FinishSync, Persist, Now
  <2> QED
    BY <1>1, <1>2, <2>1, Stays DEF Becomes, extVars
<1>11. \A t \in SnapshotTables(j) : t \in s.tables /\ (d.sync = "DBFullSync" \/ t = d.table)
  BY <1>1, <1>3 DEF SnapshotTables, IsFull, Now
<1> QED
  BY <1>1, <1>9, <1>10, <1>11 DEF JobMoves, Now

\* A request for a snapshot by an incremental job, or by one that cannot end its sync.
LEMMA AskMoves ==
    ASSUME NEW j, JobReady(j), FinishSyncFails(j) \/ AskFullSync(j) \/ AskPartialSync(j)
    PROVE  JobMoves(j)
<1>1. PICK s, B, R, g, p, d, a : Now(j, s, B, R, g, p, d, a)
  BY DEF Now
<1>2. j \in Jobs /\ JobsTyped /\ Good(s, B, R, g, p, d, a)
  BY <1>1 DEF Now, JobReady, JobGood
<1>3. UNCHANGED extVars
  BY DEF FinishSyncFails, AskFullSync, AskPartialSync
<1>4. d.sub # "BeginCreateSnapshot"
      /\ (AskPartialSync(j) => d.sync = "DBTablesIncrementalSync")
  <2>1. CASE FinishSyncFails(j)
    <3>1. d.sub = "PersistRestoreInfo" /\ ~AskPartialSync(j)
      BY <1>1, <1>2, <2>1, SubOfRow
         DEF FinishSyncFails, At, Now, AskPartialSync, IsIncremental
    <3> QED
      BY <3>1
  <2>2. CASE AskFullSync(j) \/ AskPartialSync(j)
    <3>1. d.sync = "DBTablesIncrementalSync"
      BY <1>1, <1>2, <2>2, SubOfRow DEF AskFullSync, AskPartialSync, IsIncremental, Now
    <3>2. d.sub = "Done"
      BY <1>2, <3>1 DEF Good, RowOK
    <3> QED
      BY <3>1, <3>2
  <2> QED
    BY <2>1, <2>2
<1>5. p = prog[j] /\ s.last = src[j].last /\ \A i \in DOMAIN B : B[i].state # "running"
  BY <1>1, <1>2, <1>4, NoBackupRuns DEF Now
<1>6. SyncRestarts(j, s, B, R, g)
  <2>1. CASE NewSnapshot(j)
    BY <1>2, <1>5, <2>1, NewSnapshotIsGood
  <2>2. CASE AskPartialSync(j)
    <3>1. PICK t \in src[j].tables, replace \in BOOLEAN : NewPartialSnapshot(j, t, replace)
      BY <2>2 DEF AskPartialSync
    <3>2. t \in Tables
      BY <1>1, <1>2, <3>1, JobFacts DEF Now, Good
    <3> QED
      BY <1>2, <1>4, <1>5, <2>2, <3>1, <3>2, NewPartialIsGood
  <2> QED
    BY <2>1, <2>2 DEF FinishSyncFails, AskFullSync
<1> QED
  BY <1>1, <1>2, <1>3, <1>6, RestartMoves

\* Replay brings every table up to the source.
LEMMA ReplayMoves ==
    ASSUME NEW j, JobReady(j), Replay(j)
    PROVE  JobMoves(j) /\ \A t \in Tables : target[j].held[t] <= target'[j].held[t]
<1>1. PICK s, B, R, g, p, d, a : Now(j, s, B, R, g, p, d, a)
  BY DEF Now
<1>2. j \in Jobs /\ JobsTyped /\ Good(s, B, R, g, p, d, a)
  BY <1>1 DEF Now, JobReady, JobGood
<1>3. /\ d.sync = "DBTablesIncrementalSync" /\ d.sub = "Done" /\ p.sub = "Done"
      /\ p.sync = d.sync /\ p.syncId = d.syncId /\ p.aliases = d.aliases /\ p.seqs = d.seqs
  <2>1. d.sync = "DBTablesIncrementalSync"
    BY <1>1, <1>2, SubOfRow DEF Replay, IsIncremental, Now
  <2>2. d.sub = "Done"
    BY <1>2, <2>1 DEF Good, RowOK
  <2>3. p.sub = "Done"
    BY <1>2, <2>2 DEF Good, VolatileOK
  <2> QED
    BY <1>2, <2>1, <2>2, <2>3, SubOfRow
<1>4. PICK z : z = [s EXCEPT !.locked = s.last]
  OBVIOUS
<1>5. PICK k : k = [t \in Tables |-> IF t \in s.tables THEN s.last ELSE g.held[t]]
  OBVIOUS
<1>6. PICK h : h = [g EXCEPT !.held = k]
  OBVIOUS
<1>7. PICK m : m = [t \in Tables |-> IF p.seqs[t] = Dropped THEN Dropped ELSE 0]
  OBVIOUS
<1>8. PICK q : q = [p EXCEPT !.commitSeq = s.last, !.seqs = m]
  OBVIOUS
<1>9. PICK e : e = [q EXCEPT !.label = 0]
  OBVIOUS
<1>10. s \in Sources /\ g \in Targets /\ p \in Progress /\ s.last \in Seqs
  BY <1>2, SubOfRow DEF Good, TypedJob, Sources
<1>11. /\ z \in Sources /\ z.last = s.last /\ z.tables = s.tables /\ z.gc = s.gc
       /\ z.locked = s.last
  BY <1>4, <1>10 DEF Sources
<1>12. h \in Targets /\ h.held = k /\ h.aliased = g.aliased
  <2>1. k \in [Tables -> Seqs]
    BY <1>5, <1>10 DEF Targets
  <2> QED
    BY <1>6, <1>10, <2>1 DEF Targets
<1>13. /\ q \in Progress /\ e \in Progress
       /\ q.sub = p.sub /\ q.name = p.name
       /\ q.sync = p.sync /\ q.table = p.table /\ q.syncId = p.syncId
       /\ q.commitSeq = s.last /\ q.aliases = p.aliases /\ q.seqs = m
       /\ e.sub = p.sub /\ e.name = p.name /\ e.label = 0
       /\ e.sync = p.sync /\ e.table = p.table /\ e.syncId = p.syncId
       /\ e.commitSeq = s.last /\ e.aliases = p.aliases /\ e.seqs = m
  <2>1. m \in [Tables -> Seqs \cup {Dropped}]
    <3>1. 0 \in Seqs
      BY SnapshotAssumption DEF Seqs
    <3> QED
      BY <1>7, <3>1
  <2> QED
    BY <1>8, <1>9, <1>10, <2>1 DEF Progress
<1>14. VolatileOK(B, R, q, e)
  BY <1>3, <1>13 DEF VolatileOK, HasSnapshot
<1>15. Good(z, B, R, h, q, e, a) /\ \A t \in Tables : g.held[t] <= h.held[t]
  <2>1. /\ e.sync = d.sync /\ e.sub = d.sub /\ e.syncId = d.syncId /\ e.aliases = d.aliases
        /\ e.seqs = [t \in Tables |-> IF d.seqs[t] = Dropped THEN Dropped ELSE 0]
        /\ h.held = [t \in Tables |-> IF t \in s.tables THEN s.last ELSE g.held[t]]
    BY <1>3, <1>5, <1>7, <1>12, <1>13
  <2> QED
    BY <1>2, <1>3, <1>11, <1>12, <1>13, <1>14, <2>1, ReplayedIsGood
<1>16. /\ src' = [src EXCEPT ![j] = z] /\ target' = [target EXCEPT ![j] = h]
       /\ prog' = [prog EXCEPT ![j] = q] /\ disk' = [disk EXCEPT ![j] = e]
       /\ UNCHANGED <<backups, restores, asked>>
  <2>1. src' = [src EXCEPT ![j] = z] /\ UNCHANGED <<backups, restores, asked>>
    BY <1>1, <1>4 DEF Replay, Now
  <2>2. target' = [target EXCEPT ![j] = h]
    BY <1>1, <1>2, <1>5, <1>6, <1>10 DEF Replay, Now, JobsTyped, Targets
  <2>3. [prog[j] EXCEPT !.commitSeq = src[j].last,
             !.seqs = [t \in Tables |-> IF @[t] = Dropped THEN Dropped ELSE 0]] = q
    BY <1>1, <1>7, <1>8, <1>10 DEF Now, Progress
  <2>4. prog' = [prog EXCEPT ![j] = q] /\ disk' = [disk EXCEPT ![j] = e]
    BY <1>9, <2>3 DEF Replay, Persist
  <2> QED
    BY <2>1, <2>2, <2>4
<1>17. Becomes(j, z, B, R, h, q, e, a)
  BY <1>1, <1>2, <1>16, Stays DEF Becomes
<1>18. target[j] = g /\ target'[j] = h
  BY <1>1, <1>2, <1>16 DEF Now, JobsTyped
<1> QED
  BY <1>15, <1>17, <1>18 DEF JobMoves
-----------------------------------------------------------------------------
\* The source of a job writes, loses a table or collects binlogs.
LEMMA SourceMoves ==
    ASSUME NEW j, JobReady(j), SourceWrites(j) \/ DropTable(j) \/ SourceCollects(j)
    PROVE  JobMoves(j)
<1>1. PICK s, B, R, g, p, d, a : Now(j, s, B, R, g, p, d, a)
  BY DEF Now
<1>2. j \in Jobs /\ JobsTyped /\ Good(s, B, R, g, p, d, a)
  BY <1>1 DEF Now, JobReady, JobGood
<1>3. /\ s \in Sources /\ s.last \in Nat /\ s.locked \in Nat /\ s.gc \in Nat /\ s.gc <= s.last
      /\ s.last \in Seqs /\ s.locked \in Seqs /\ s.gc \in Seqs /\ s.last <= MaxSeq
      /\ s.tables \subseteq Tables
  <2>1. s \in Sources /\ s.gc <= s.last
    BY <1>2 DEF Good, TypedJob, RowOK
  <2> QED
    BY <2>1, SnapshotAssumption DEF Sources, Seqs
<1>4. PICK z : /\ z \in Sources /\ s.last <= z.last /\ z.tables \subseteq s.tables
               /\ z.locked = s.locked /\ z.gc <= z.last
               /\ z.gc = s.gc \/ z.gc <= s.locked
               /\ src' = [src EXCEPT ![j] = z]
  <2>1. CASE SourceWrites(j)
    <3>1. PICK z : z = [s EXCEPT !.last = s.last + 1]
      OBVIOUS
    <3>2. s.last < MaxSeq
      BY <1>1, <2>1 DEF SourceWrites, Now
    <3>3. s.last + 1 \in Seqs
      BY <1>3, <3>2, SnapshotAssumption DEF Seqs
    <3>4. src' = [src EXCEPT ![j] = z]
      BY <1>1, <1>2, <1>3, <2>1, <3>1 DEF SourceWrites, Now, JobsTyped, Sources
    <3>5. /\ z \in Sources /\ z.last = s.last + 1 /\ z.tables = s.tables
          /\ z.locked = s.locked /\ z.gc = s.gc
      BY <1>3, <3>1, <3>3 DEF Sources
    <3>6. /\ z \in Sources /\ s.last <= z.last /\ z.tables \subseteq s.tables
          /\ z.locked = s.locked /\ z.gc <= z.last
          /\ z.gc = s.gc \/ z.gc <= s.locked
      BY <1>3, <3>5
    <3> QED
      BY <3>4, <3>6
  <2>2. CASE DropTable(j)
    <3>1. PICK t \in s.tables : src' = [src EXCEPT ![j].tables = @ \ {t}]
      BY <1>1, <2>2 DEF DropTable, Now
    <3>2. PICK z : z = [s EXCEPT !.tables = s.tables \ {t}]
      OBVIOUS
    <3>3. src' = [src EXCEPT ![j] = z]
      BY <1>1, <1>2, <1>3, <3>1, <3>2 DEF Now, JobsTyped, Sources
    <3>4. /\ z \in Sources /\ z.last = s.last /\ z.tables = s.tables \ {t}
          /\ z.locked = s.locked /\ z.gc = s.gc
      BY <1>3, <3>2 DEF Sources
    <3>5. /\ z \in Sources /\ s.last <= z.last /\ z.tables \subseteq s.tables
          /\ z.locked = s.locked /\ z.gc <= z.last
          /\ z.gc = s.gc \/ z.gc <= s.locked
      BY <1>3, <3>4
    <3> QED
      BY <3>3, <3>5
  <2>3. CASE SourceCollects(j)
    <3>1. PICK m : m = Min({s.locked, s.last})
      OBVIOUS
    <3>2. m \in {s.locked, s.last} /\ m <= s.locked /\ m <= s.last
      BY <1>3, <3>1, MinOfNats
    <3>3. PICK c : c = Max({s.gc, m})
      OBVIOUS
    <3>4. m \in Nat /\ m \in Seqs
      BY <1>3, <3>2
    <3>5. c \in {s.gc, m}
      <4>1. \E x \in {s.gc, m} : \A y \in {s.gc, m} : x >= y
        <5>1. CASE s.gc <= m
          BY <1>3, <3>4, <5>1
        <5>2. CASE m <= s.gc
          BY <1>3, <3>4, <5>2
        <5> QED
          BY <1>3, <3>4, <5>1, <5>2
      <4> QED
        BY <3>3, <4>1 DEF Max
    <3>6. PICK z : z = [s EXCEPT !.gc = c]
      OBVIOUS
    <3>7. src' = [src EXCEPT ![j] = z]
      BY <1>1, <1>2, <1>3, <2>3, <3>1, <3>3, <3>6 DEF SourceCollects, Now, JobsTyped, Sources
    <3>8. /\ z \in Sources /\ z.last = s.last /\ z.tables = s.tables
          /\ z.locked = s.locked /\ z.gc = c
      BY <1>3, <3>4, <3>5, <3>6 DEF Sources
    <3>9. /\ z \in Sources /\ s.last <= z.last /\ z.tables \subseteq s.tables
          /\ z.locked = s.locked /\ z.gc <= z.last
          /\ z.gc = s.gc \/ z.gc <= s.locked
      BY <1>3, <3>2, <3>4, <3>5, <3>8
    <3> QED
      BY <3>7, <3>9
  <2> QED
    BY <2>1, <2>2, <2>3
<1>5. Good(z, B, R, g, p, d, a)
  BY <1>2, <1>4, MovedSourceIsGood
<1>6. Becomes(j, z, B, R, g, p, d, a)
  BY <1>1, <1>2, <1>4, Stays DEF Becomes, SourceWrites, DropTable, SourceCollects, jobVars
<1> QED
  BY <1>5, <1>6 DEF JobMoves

\* A backup of a job finishes, is cancelled or expires.
LEMMA BackupMoves ==
    ASSUME NEW j, JobReady(j), BackupFinishes(j) \/ BackupCancelled(j) \/ BackupExpires(j)
    PROVE  JobMoves(j)
<1>1. PICK s, B, R, g, p, d, a : Now(j, s, B, R, g, p, d, a)
  BY DEF Now
<1>2. j \in Jobs /\ JobsTyped /\ Good(s, B, R, g, p, d, a) /\ B \in Seq(Backups)
  BY <1>1 DEF Now, JobReady, JobGood, Good, TypedJob
<1>3. PICK C : Good(s, C, R, g, p, d, a) /\ backups' = [backups EXCEPT ![j] = C]
  <2>1. CASE BackupFinishes(j)
    <3>1. PICK i \in DOMAIN B : B[i].state = "running"
          /\ \E seqs \in [B[i].tables -> B[i].from..s.last] :
                backups' = [backups EXCEPT ![j][i].state = "finished",
                    ![j][i].seqs = [t \in Tables |-> IF t \in DOMAIN seqs THEN seqs[t] ELSE 0]]
      BY <1>1, <2>1 DEF BackupFinishes, Now
    <3>2. PICK seqs \in [B[i].tables -> B[i].from..s.last] :
              backups' = [backups EXCEPT ![j][i].state = "finished",
                    ![j][i].seqs = [t \in Tables |-> IF t \in DOMAIN seqs THEN seqs[t] ELSE 0]]
      BY <3>1
    <3>3. PICK m : m = [t \in Tables |-> IF t \in DOMAIN seqs THEN seqs[t] ELSE 0]
      OBVIOUS
    <3>4. /\ B[i] \in Backups /\ B[i].tables \subseteq Tables /\ B[i].from \in Nat
          /\ s.last \in Nat /\ s.last <= MaxSeq /\ 0 \in Seqs
      <4>1. s.last \in Seqs /\ B[i] \in Backups
        BY <1>2 DEF Good, TypedJob, Sources
      <4> QED
        BY <4>1, SnapshotAssumption DEF Seqs, Backups
    <3>5. \A x \in B[i].from..s.last : x \in Seqs
      BY <3>4, SnapshotAssumption DEF Seqs
    <3>6. m \in [Tables -> Seqs]
      BY <3>3, <3>4, <3>5
    <3>7. \A t \in B[i].tables : B[i].from <= m[t] /\ m[t] <= s.last
      BY <3>3, <3>4
    <3>8. PICK b : b = [B[i] EXCEPT !.state = "finished", !.seqs = m]
      OBVIOUS
    <3>9. /\ b \in Backups /\ b.sync = B[i].sync /\ b.syncId = B[i].syncId
          /\ b.tables = B[i].tables /\ b.from = B[i].from /\ b.state = "finished" /\ b.seqs = m
      BY <3>4, <3>6, <3>8 DEF Backups
    <3>10. Good(s, [B EXCEPT ![i] = b], R, g, p, d, a)
      BY <1>2, <3>1, <3>7, <3>9, EndedBackupIsGood
    <3>11. backups' = [backups EXCEPT ![j] = [B EXCEPT ![i] = b]]
      BY <1>1, <1>2, <3>2, <3>3, <3>4, <3>8 DEF Now, JobsTyped, Backups
    <3> QED
      BY <3>10, <3>11
  <2>2. CASE BackupCancelled(j)
    <3>1. PICK i \in DOMAIN B : /\ B[i].state = "running"
                                /\ backups' = [backups EXCEPT ![j][i].state = "cancelled"]
      BY <1>1, <2>2 DEF BackupCancelled, Now
    <3>2. PICK b : b = [B[i] EXCEPT !.state = "cancelled"]
      OBVIOUS
    <3>3. B[i] \in Backups
      BY <1>2
    <3>4. /\ b \in Backups /\ b.sync = B[i].sync /\ b.syncId = B[i].syncId
          /\ b.tables = B[i].tables /\ b.from = B[i].from /\ b.state = "cancelled"
      BY <3>2, <3>3 DEF Backups
    <3>5. Good(s, [B EXCEPT ![i] = b], R, g, p, d, a)
      BY <1>2, <3>1, <3>4, EndedBackupIsGood
    <3>6. backups' = [backups EXCEPT ![j] = [B EXCEPT ![i] = b]]
      BY <1>1, <1>2, <3>1, <3>2, <3>3 DEF Now, JobsTyped, Backups
    <3> QED
      BY <3>5, <3>6
  <2>3. CASE BackupExpires(j)
    <3>1. PICK i \in DOMAIN B : backups' = [backups EXCEPT ![j][i].gone = TRUE]
      BY <1>1, <2>3 DEF BackupExpires, Now
    <3>2. PICK b : b = [B[i] EXCEPT !.gone = TRUE]
      OBVIOUS
    <3>3. B[i] \in Backups
      BY <1>2
    <3>4. /\ b \in Backups /\ b.sync = B[i].sync /\ b.syncId = B[i].syncId
          /\ b.tables = B[i].tables /\ b.from = B[i].from /\ b.state = B[i].state
          /\ b.seqs = B[i].seqs
      BY <3>2, <3>3 DEF Backups
    <3>5. Good(s, [B EXCEPT ![i] = b], R, g, p, d, a)
      BY <1>2, <3>4, ExpiredBackupIsGood
    <3>6. backups' = [backups EXCEPT ![j] = [B EXCEPT ![i] = b]]
      BY <1>1, <1>2, <3>1, <3>2, <3>3 DEF Now, JobsTyped, Backups
    <3> QED
      BY <3>5, <3>6
  <2> QED
    BY <2>1, <2>2, <2>3
<1>4. Becomes(j, s, C, R, g, p, d, a)
  BY <1>1, <1>2, <1>3, Stays DEF Becomes, BackupFinishes, BackupCancelled, BackupExpires, jobVars
<1> QED
  BY <1>3, <1>4 DEF JobMoves

\* A restore of a job stops before its end.
LEMMA RestoreStopsMoves ==
    ASSUME NEW j, JobReady(j), RestoreMismatches(j) \/ RestoreCancelled(j)
    PROVE  JobMoves(j)
<1>1. PICK s, B, R, g, p, d, a : Now(j, s, B, R, g, p, d, a)
  BY DEF Now
<1>2. j \in Jobs /\ JobsTyped /\ Good(s, B, R, g, p, d, a) /\ R \in Seq(Restores)
  BY <1>1 DEF Now, JobReady, JobGood, Good, TypedJob
<1>3. PICK i \in DOMAIN R, r \in Restores :
         /\ r.snap = R[i].snap /\ r.tables = R[i].tables /\ r.aliases = R[i].aliases
         /\ ~Live(r) /\ (r.state = "mismatch" => r.table \in Tables)
         /\ restores' = [restores EXCEPT ![j] = [R EXCEPT ![i] = r]]
  <2>1. CASE RestoreMismatches(j)
    <3>1. PICK i \in DOMAIN R : \E t \in Mismatches(j, R[i]) :
              restores' = [restores EXCEPT ![j][i].state = "mismatch", ![j][i].table = t]
      BY <1>1, <2>1 DEF RestoreMismatches, Now
    <3>2. PICK t \in Mismatches(j, R[i]) :
              restores' = [restores EXCEPT ![j][i].state = "mismatch", ![j][i].table = t]
      BY <3>1
    <3>3. R[i] \in Restores
      BY <1>2
    <3>4. t \in Tables
      BY <3>2, <3>3 DEF Mismatches, Restores
    <3>5. PICK r : r = [R[i] EXCEPT !.state = "mismatch", !.table = t]
      OBVIOUS
    <3>6. /\ r \in Restores /\ r.snap = R[i].snap /\ r.tables = R[i].tables
          /\ r.aliases = R[i].aliases /\ r.state = "mismatch" /\ r.table = t
      BY <3>3, <3>4, <3>5 DEF Restores
    <3>7. restores' = [restores EXCEPT ![j] = [R EXCEPT ![i] = r]]
      BY <1>1, <1>2, <3>2, <3>3, <3>5 DEF Now, JobsTyped, Restores
    <3> QED
      BY <3>4, <3>6, <3>7 DEF Live
  <2>2. CASE RestoreCancelled(j)
    <3>1. PICK i \in DOMAIN R : restores' = [restores EXCEPT ![j][i].state = "cancelled"]
      BY <1>1, <2>2 DEF RestoreCancelled, Now
    <3>2. PICK r : r = [R[i] EXCEPT !.state = "cancelled"]
      OBVIOUS
    <3>3. R[i] \in Restores
      BY <1>2
    <3>4. /\ r \in Restores /\ r.snap = R[i].snap /\ r.tables = R[i].tables
          /\ r.aliases = R[i].aliases /\ r.state = "cancelled"
      BY <3>2, <3>3 DEF Restores
    <3>5. restores' = [restores EXCEPT ![j] = [R EXCEPT ![i] = r]]
      BY <1>1, <1>2, <3>1, <3>2, <3>3 DEF Now, JobsTyped, Restores
    <3> QED
      BY <3>4, <3>5 DEF Live
  <2> QED
    BY <2>1, <2>2
<1>4. Good(s, B, [R EXCEPT ![i] = r], g, p, d, a)
  BY <1>2, <1>3, EndedRestoreIsGood
<1>5. Becomes(j, s, B, [R EXCEPT ![i] = r], g, p, d, a)
  BY <1>1, <1>2, <1>3, Stays DEF Becomes, RestoreMismatches, RestoreCancelled, jobVars
<1> QED
  BY <1>4, <1>5 DEF JobMoves

\* A restore finishes, and no table of the target becomes older.
LEMMA RestoreFinishesMoves ==
    ASSUME NEW j, JobReady(j), RestoreFinishes(j)
    PROVE  JobMoves(j) /\ \A t \in Tables : target[j].held[t] <= target'[j].held[t]
<1>1. PICK s, B, R, g, p, d, a : Now(j, s, B, R, g, p, d, a)
  BY DEF Now
<1>2. j \in Jobs /\ JobsTyped /\ Good(s, B, R, g, p, d, a) /\ R \in Seq(Restores)
      /\ g \in Targets
  BY <1>1 DEF Now, JobReady, JobGood, Good, TypedJob
<1>3. PICK i \in DOMAIN restores[j] :
         /\ restores[j][i].state = "running"
         /\ restores' = [restores EXCEPT ![j][i].state = "finished"]
         /\ target' = [target EXCEPT
                  ![j].held = [t \in Tables |->
                      IF t \in restores[j][i].tables /\ restores[j][i].aliases[t] = 0
                      THEN backups[j][restores[j][i].snap].seqs[t] ELSE @[t]],
                  ![j].aliased = @ \cup {[table |-> t, alias |-> restores[j][i].aliases[t],
                                          seq |-> backups[j][restores[j][i].snap].seqs[t]] :
                      t \in {u \in restores[j][i].tables : restores[j][i].aliases[u] # 0}}]
  BY DEF RestoreFinishes
<1>4. /\ i \in DOMAIN R /\ R[i].state = "running"
         /\ restores' = [restores EXCEPT ![j][i].state = "finished"]
         /\ target' = [target EXCEPT
                  ![j].held = [t \in Tables |->
                      IF t \in R[i].tables /\ R[i].aliases[t] = 0
                      THEN B[R[i].snap].seqs[t] ELSE @[t]],
                  ![j].aliased = @ \cup {[table |-> t, alias |-> R[i].aliases[t],
                                          seq |-> B[R[i].snap].seqs[t]] :
                      t \in {u \in R[i].tables : R[i].aliases[u] # 0}}]
  BY <1>1, <1>3 DEF Now
<1>5. PICK b : b = B[R[i].snap]
  OBVIOUS
<1>6. PICK r : r = [R[i] EXCEPT !.state = "finished"]
  OBVIOUS
<1>7. PICK k : k = [t \in Tables |-> IF t \in R[i].tables /\ R[i].aliases[t] = 0
                                     THEN b.seqs[t] ELSE g.held[t]]
  OBVIOUS
<1>8. PICK A : A = {[table |-> t, alias |-> R[i].aliases[t], seq |-> b.seqs[t]] :
                      t \in {u \in R[i].tables : R[i].aliases[u] # 0}}
  OBVIOUS
<1>9. PICK h : h = [g EXCEPT !.held = k, !.aliased = g.aliased \cup A]
  OBVIOUS
<1>10. R[i] \in Restores /\ b \in Backups
  <2>1. R[i] \in Restores /\ R[i].snap \in DOMAIN B
    BY <1>2, <1>4 DEF Good, RestoresOK, RestoreOK
  <2> QED
    BY <1>2, <1>5, <2>1, JobFacts DEF Good
<1>11. /\ r \in Restores /\ r.snap = R[i].snap /\ r.tables = R[i].tables
       /\ r.aliases = R[i].aliases /\ r.state = "finished"
  BY <1>6, <1>10 DEF Restores
<1>12. A \subseteq Aliases
  <2>1. /\ R[i].tables \subseteq Tables /\ R[i].aliases \in [Tables -> SyncIds \cup {0}]
        /\ b.seqs \in [Tables -> Seqs]
    BY <1>10 DEF Restores, AliasMaps, Backups
  <2>2. \A t \in R[i].tables : R[i].aliases[t] # 0 =>
           t \in Tables /\ R[i].aliases[t] \in SyncIds /\ b.seqs[t] \in Seqs
    BY <2>1
  <2> QED
    BY <1>8, <2>2 DEF Aliases
<1>13. k \in [Tables -> Seqs]
  <2>1. g.held \in [Tables -> Seqs] /\ b.seqs \in [Tables -> Seqs]
    BY <1>2, <1>10 DEF Targets, Backups
  <2> QED
    BY <1>7, <2>1
<1>14. h \in Targets /\ h.held = k /\ h.aliased = g.aliased \cup A
  BY <1>2, <1>9, <1>12, <1>13 DEF Targets
<1>15. /\ Good(s, B, [R EXCEPT ![i] = r], h, p, d, a)
       /\ \A t \in Tables : g.held[t] <= h.held[t]
  <2>1. \A t \in Tables : h.held[t] = IF t \in r.tables /\ r.aliases[t] = 0
                                      THEN B[r.snap].seqs[t] ELSE g.held[t]
    BY <1>5, <1>7, <1>11, <1>14
  <2>2. \A x : x \in h.aliased <=>
           \/ x \in g.aliased
           \/ \E t \in r.tables :
                 /\ r.aliases[t] # 0
                 /\ x = [table |-> t, alias |-> r.aliases[t], seq |-> B[r.snap].seqs[t]]
    BY <1>5, <1>8, <1>11, <1>14
  <2>3. Restored(B, g, r, h)
    BY <2>1, <2>2 DEF Restored
  <2> QED
    BY <1>2, <1>4, <1>11, <1>14, <2>3, FinishedRestoreIsGood
<1>16. restores' = [restores EXCEPT ![j] = [R EXCEPT ![i] = r]]
  BY <1>1, <1>2, <1>4, <1>6, <1>10 DEF Now, JobsTyped, Restores
<1>17. target' = [target EXCEPT ![j] = h]
  <2>1. target' = [target EXCEPT ![j].held = k, ![j].aliased = @ \cup A]
    BY <1>1, <1>4, <1>5, <1>7, <1>8 DEF Now
  <2> QED
    BY <1>1, <1>2, <1>9, <2>1 DEF Now, JobsTyped, Targets
<1>18. Becomes(j, s, B, [R EXCEPT ![i] = r], h, p, d, a)
  <2>1. UNCHANGED <<src, backups, jobVars>>
    BY DEF RestoreFinishes
  <2> QED
    BY <1>1, <1>2, <1>16, <1>17, <2>1, Stays DEF Becomes, jobVars
<1>19. target[j] = g /\ target'[j] = h
  BY <1>1, <1>2, <1>17 DEF Now, JobsTyped
<1> QED
  BY <1>15, <1>18, <1>19 DEF JobMoves

\* A table of the target gets another schema.
LEMMA SchemaDiffersMoves ==
    ASSUME NEW j, JobReady(j), SchemaDiffers(j)
    PROVE  JobMoves(j) /\ target'[j].held = target[j].held
<1>1. PICK s, B, R, g, p, d, a : Now(j, s, B, R, g, p, d, a)
  BY DEF Now
<1>2. j \in Jobs /\ JobsTyped /\ Good(s, B, R, g, p, d, a) /\ g \in Targets
  BY <1>1 DEF Now, JobReady, JobGood, Good, TypedJob
<1>3. PICK t \in Tables : target' = [target EXCEPT ![j].differs = @ \cup {t}]
  BY DEF SchemaDiffers
<1>4. PICK h : h = [g EXCEPT !.differs = g.differs \cup {t}]
  OBVIOUS
<1>5. h \in Targets /\ h.held = g.held /\ h.aliased = g.aliased
  BY <1>2, <1>4 DEF Targets
<1>6. Good(s, B, R, h, p, d, a)
  BY <1>2, <1>5, DifferingTargetIsGood
<1>7. target' = [target EXCEPT ![j] = h]
  BY <1>1, <1>2, <1>3, <1>4 DEF Now, JobsTyped, Targets
<1>8. Becomes(j, s, B, R, h, p, d, a)
  <2>1. UNCHANGED <<src, backups, restores, jobVars>>
    BY DEF SchemaDiffers
  <2> QED
    BY <1>1, <1>2, <1>7, <2>1, Stays DEF Becomes, jobVars
<1>9. target[j] = g /\ target'[j] = h
  BY <1>1, <1>2, <1>7 DEF Now, JobsTyped
<1> QED
  BY <1>5, <1>6, <1>8, <1>9 DEF JobMoves
-----------------------------------------------------------------------------
\* A step that leaves one job good leaves all of them good.
LEMMA MovesKeepJobs ==
    ASSUME JobsTyped, \A k \in Jobs : JobGood(k), NEW j \in Jobs, JobMoves(j)
    PROVE  JobsTyped' /\ \A k \in Jobs : JobGood(k)'
<1>1. PICK s, B, R, g, p, d, a :
         Good(s, B, R, g, p, d, a) /\ Becomes(j, s, B, R, g, p, d, a)
  BY DEF JobMoves
<1>2. TypedJob(s, B, R, g, p, d, a)
  BY <1>1 DEF Good
<1>3. JobsTyped'
  BY <1>1, <1>2 DEF Becomes, JobsTyped, TypedJob
<1>4. ASSUME NEW k \in Jobs
      PROVE  JobGood(k)'
  <2>1. CASE k = j
    <3>1. /\ src'[k] = s /\ backups'[k] = B /\ restores'[k] = R /\ target'[k] = g
          /\ prog'[k] = p /\ disk'[k] = d /\ asked'[k] = a
      BY <1>1, <2>1 DEF Becomes, JobsTyped
    <3> QED
      BY <1>1, <3>1 DEF JobGood
  <2>2. CASE k # j
    <3>1. /\ src'[k] = src[k] /\ backups'[k] = backups[k] /\ restores'[k] = restores[k]
          /\ target'[k] = target[k] /\ prog'[k] = prog[k] /\ disk'[k] = disk[k]
          /\ asked'[k] = asked[k]
      BY <1>1, <2>2 DEF Becomes, JobsTyped
    <3> QED
      BY <3>1 DEF JobGood
  <2> QED
    BY <2>1, <2>2
<1> QED
  BY <1>3, <1>4

\* Every step of a job, of its clusters and of its users leaves the job good.
LEMMA StepMoves ==
    ASSUME NEW j, JobReady(j), JobStep(j) \/ ClusterStep(j) \/ Environment(j)
    PROVE  JobMoves(j)
<1>1. CASE \/ WaitForPermit(j) \/ WaitBackup(j) \/ RestoreSnapshotFails(j) \/ WaitRestore(j)
           \/ PausedTick(j) \/ Pause(j) \/ Resume(j)
  BY <1>1, QuietMoves DEF WaitForPermit, WaitBackup, RestoreSnapshotFails, WaitRestore,
                          PausedTick, Pause, Resume
<1>2. CASE \/ ReuseBackup(j) \/ CreateSnapshot(j) \/ CreateSnapshotLosesReply(j)
           \/ CreateSnapshotFails(j) \/ SourceIsEmpty(j) \/ SkipDroppedTable(j)
           \/ BackupDone(j)
  BY <1>2, ReuseBackupMoves, CreateSnapshotMoves, CreateSnapshotFailsMoves,
     SkipDroppedTableMoves, BackupDoneMoves
<1>3. CASE \/ BackupFailed(j) \/ SnapshotNotExist(j) \/ GetSnapshotInfo(j) \/ ReuseRestore(j)
           \/ RestoreSnapshot(j) \/ RestoreSnapshotLosesReply(j) \/ RestoreExpired(j)
           \/ SignatureNotMatched(j) \/ RestoreFailed(j) \/ RestoreDone(j)
  BY <1>3, SubStateMoves, SnapshotNotExistMoves, ReuseRestoreMoves, RestoreSnapshotMoves,
     RestoreExpiredMoves, SignatureNotMatchedMoves, RestoreDoneMoves
<1>4. CASE \/ SwapAlias(j) \/ ForgetAliases(j) \/ FinishSync(j) \/ FinishSyncFails(j)
           \/ Replay(j) \/ AskFullSync(j) \/ AskPartialSync(j)
  BY <1>4, SwapAliasMoves, ForgetAliasesMoves, FinishSyncMoves, AskMoves, ReplayMoves
<1>5. CASE \/ SourceWrites(j) \/ DropTable(j) \/ SourceCollects(j) \/ BackupFinishes(j)
           \/ BackupCancelled(j) \/ BackupExpires(j)
  BY <1>5, SourceMoves, BackupMoves
<1>6. CASE \/ RestoreFinishes(j) \/ RestoreMismatches(j) \/ RestoreCancelled(j)
           \/ SchemaDiffers(j)
  BY <1>6, RestoreFinishesMoves, RestoreStopsMoves, SchemaDiffersMoves
<1> QED
  BY <1>1, <1>2, <1>3, <1>4, <1>5, <1>6 DEF JobStep, SyncStep, ClusterStep, Environment

\* The paused jobs are jobs, and the faults are counted down.
LEMMA StepKeepsBudget ==
    ASSUME NEW j \in Jobs, paused \subseteq Jobs, budget \in 0..MaxFaults,
           JobStep(j) \/ ClusterStep(j) \/ Environment(j)
    PROVE  paused' \subseteq Jobs /\ budget' \in 0..MaxFaults
<1>1. \A k : Fault(k) => budget' \in 0..MaxFaults
  <2>1. MaxFaults \in Nat
    BY SnapshotAssumption
  <2> QED
    BY <2>1 DEF Fault
<1>2. CASE ClusterStep(j)
  BY <1>2 DEF ClusterStep, BackupFinishes, RestoreFinishes, RestoreMismatches
<1>3. CASE Environment(j)
  BY <1>1, <1>3 DEF Environment, AskFullSync, AskPartialSync, Pause, Resume, SourceWrites,
              DropTable, SourceCollects, BackupCancelled, BackupExpires, RestoreCancelled,
              SchemaDiffers
<1>4. CASE PausedTick(j) \/ Replay(j) \/ WaitForPermit(j)
  BY <1>4 DEF PausedTick, Replay, WaitForPermit
<1>5. CASE \/ ReuseBackup(j) \/ CreateSnapshot(j) \/ CreateSnapshotLosesReply(j)
           \/ CreateSnapshotFails(j) \/ SourceIsEmpty(j) \/ SkipDroppedTable(j)
  BY <1>1, <1>5 DEF ReuseBackup, CreateSnapshot, CreateSnapshotLosesReply,
              CreateSnapshotFails, SourceIsEmpty, SkipDroppedTable
<1>6. CASE WaitBackup(j) \/ BackupDone(j) \/ BackupFailed(j) \/ SnapshotNotExist(j)
           \/ GetSnapshotInfo(j)
  BY <1>6 DEF WaitBackup, BackupDone, BackupFailed, SnapshotNotExist, GetSnapshotInfo
<1>7. CASE ReuseRestore(j) \/ RestoreSnapshot(j) \/ RestoreSnapshotLosesReply(j)
           \/ RestoreSnapshotFails(j)
  BY <1>1, <1>7 DEF ReuseRestore, RestoreSnapshot, RestoreSnapshotLosesReply,
              RestoreSnapshotFails
<1>8. CASE RestoreExpired(j) \/ WaitRestore(j) \/ SignatureNotMatched(j) \/ RestoreFailed(j)
           \/ RestoreDone(j)
  BY <1>8 DEF RestoreExpired, WaitRestore, SignatureNotMatched, RestoreFailed, RestoreDone
<1>9. CASE SwapAlias(j) \/ ForgetAliases(j) \/ FinishSync(j) \/ FinishSyncFails(j)
  BY <1>1, <1>9 DEF SwapAlias, ForgetAliases, FinishSync, FinishSyncFails
<1> QED
  BY <1>2, <1>3, <1>4, <1>5, <1>6, <1>7, <1>8, <1>9 DEF JobStep, SyncStep
-----------------------------------------------------------------------------
\* The inductive invariant of the snapshots.
SnapshotInv ==
    /\ JobsTyped /\ \A j \in Jobs : JobGood(j)
    /\ paused \subseteq Jobs /\ budget \in 0..MaxFaults /\ PermitInv

\* A new job is good.
LEMMA InitIsGood == Init => SnapshotInv
<1> SUFFICES ASSUME Init
             PROVE  SnapshotInv
  OBVIOUS
<1>1. 0 \in Seqs /\ 1 \in Seqs /\ MaxSeq \in Seqs /\ 1 \in SyncIds
  BY SnapshotAssumption DEF Seqs, SyncIds
<1>2. PICK s : s = [last |-> 1, tables |-> Tables, locked |-> MaxSeq, gc |-> 0]
  OBVIOUS
<1>3. PICK g : g = [held |-> [t \in Tables |-> 0], differs |-> {}, aliased |-> {}]
  OBVIOUS
<1>4. PICK p : p = [sync |-> "DBFullSync", sub |-> "BeginCreateSnapshot", syncId |-> 1,
                    commitSeq |-> 0, seqs |-> [t \in Tables |-> 0], aliases |-> NoAliases,
                    table |-> Nil, name |-> 0, label |-> 0]
  OBVIOUS
<1>5. /\ src = [j \in Jobs |-> s] /\ target = [j \in Jobs |-> g]
      /\ prog = [j \in Jobs |-> p] /\ disk = prog /\ asked = [j \in Jobs |-> 1]
      /\ backups = [j \in Jobs |-> <<>>] /\ restores = [j \in Jobs |-> <<>>]
  BY <1>2, <1>3, <1>4 DEF Init
<1>6. s \in Sources /\ g \in Targets /\ <<>> \in Seq(Backups) /\ <<>> \in Seq(Restores)
  BY <1>1, <1>2, <1>3 DEF Sources, Targets, Aliases
<1>7. NoAliases \in AliasMaps /\ \A t \in Tables : NoAliases[t] = 0
  BY DEF NoAliases, AliasMaps
<1>8. p \in Progress
  BY <1>1, <1>4, <1>7 DEF Progress
<1>9. JobsTyped
  BY <1>1, <1>5, <1>6, <1>8 DEF JobsTyped
<1>10. Good(s, <<>>, <<>>, g, p, p, 1)
  <2>1. TypedJob(s, <<>>, <<>>, g, p, p, 1)
    BY <1>1, <1>6, <1>8 DEF TypedJob
  <2>2. VolatileOK(<<>>, <<>>, p, p)
    BY <1>4 DEF VolatileOK, HasSnapshot
  <2>3. RowOK(s, p, 1)
    BY <1>2, <1>4, <1>7 DEF RowOK
  <2>4. BackupsOK(s, <<>>, p, 1) /\ RestoresOK(s, <<>>, <<>>, g, p)
    BY <1>4 DEF BackupsOK, RestoresOK, HasSnapshot
  <2>5. TargetOK(s, <<>>, g, p, 1)
    BY <1>2, <1>3 DEF TargetOK
  <2>6. MapOK(s, g, p)
    BY <1>4 DEF MapOK
  <2> QED
    BY <2>1, <2>2, <2>3, <2>4, <2>5, <2>6 DEF Good
<1>11. \A j \in Jobs : JobGood(j)
  BY <1>5, <1>10 DEF JobGood
<1>12. PermitInv
  BY EmptyLimiter DEF Init
<1>13. paused \subseteq Jobs /\ budget \in 0..MaxFaults
  BY SnapshotAssumption DEF Init
<1> QED
  BY <1>9, <1>11, <1>12, <1>13 DEF SnapshotInv

\* Every step, and a crash at any point of it, keeps the invariant.
LEMMA StepKeepsSnapshotInv == SnapshotInv /\ [Next]_vars => SnapshotInv'
<1> SUFFICES ASSUME SnapshotInv, [Next]_vars
             PROVE  SnapshotInv'
  OBVIOUS
<1>1. CASE UNCHANGED vars
  BY <1>1 DEF vars, extVars, jobVars, permitVars, SnapshotInv, JobsTyped, JobGood, PermitInv,
              PermitTypeOK, PermitsMatchHolders
<1>2. CASE Crash
  <2>1. PermitInv'
    <3>1. permits' \in [Keys -> {0}] /\ permitKey' \in [Jobs -> {Nil}]
      BY <1>2 DEF Crash
    <3>2. ASSUME NEW k \in Keys
          PROVE  permits'[k] = Cardinality({j \in Jobs : permitKey'[j] = k})
      <4>1. {j \in Jobs : permitKey'[j] = k} = {}
        BY <3>1, LimiterAssumption
      <4> QED
        BY <3>1, <4>1, FS_EmptySet
    <3> QED
      BY <3>1, <3>2 DEF PermitInv, PermitTypeOK, PermitsMatchHolders
  <2>2. JobsTyped'
    BY <1>2 DEF Crash, extVars, SnapshotInv, JobsTyped
  <2>3. \A j \in Jobs : JobGood(j)'
    BY <1>2, RestartIsGood DEF Crash, extVars, SnapshotInv, JobGood
  <2>4. paused' \subseteq Jobs /\ budget' \in 0..MaxFaults
    BY <1>2, SnapshotAssumption DEF Crash, Fault, SnapshotInv
  <2> QED
    BY <2>1, <2>2, <2>3, <2>4 DEF SnapshotInv
<1>3. ASSUME NEW j \in Jobs, JobStep(j) \/ ClusterStep(j) \/ Environment(j)
      PROVE  SnapshotInv'
  <2>1. JobMoves(j)
    BY <1>3, StepMoves DEF SnapshotInv, JobReady
  <2>2. JobsTyped' /\ \A k \in Jobs : JobGood(k)'
    BY <2>1, MovesKeepJobs DEF SnapshotInv
  <2>3. paused' \subseteq Jobs /\ budget' \in 0..MaxFaults
    BY <1>3, StepKeepsBudget DEF SnapshotInv
  <2>4. PermitInv'
    BY <1>3, StepIsPermitStep, PermitStepKeepsCount DEF SnapshotInv
  <2> QED
    BY <2>2, <2>3, <2>4 DEF SnapshotInv
<1> QED
  BY <1>1, <1>2, <1>3 DEF Next

\* The invariant holds in every reachable state.
LEMMA SnapshotInvHolds == Spec => []SnapshotInv
BY InitIsGood, StepKeepsSnapshotInv, PTL DEF Spec

\* No step gives a variable a value outside of its type.
THEOREM SnapshotTypes == Spec => []TypeOK
<1>1. SnapshotInv => TypeOK
  BY DEF SnapshotInv, JobsTyped, TypeOK, Sources, Targets, Aliases, PermitInv, PermitTypeOK
<1> QED
  BY <1>1, SnapshotInvHolds, PTL

\* When incremental sync goes on, the commit seq that the job believes a table to be at, its own
\* in TableCommitSeqMap or the one of the job, is the one the target holds.
THEOREM MapIsRight == Spec => []MapMatchesTarget
<1>1. ASSUME SnapshotInv, NEW j \in Jobs, disk[j].sync = "DBTablesIncrementalSync",
             NEW t \in src[j].tables
      PROVE  target[j].held[t] = Claimed(disk[j], t)
  BY <1>1 DEF SnapshotInv, JobGood, Good, RowOK, MapOK
<1>2. SnapshotInv => MapMatchesTarget
  BY <1>1 DEF MapMatchesTarget, Claimed
<1> QED
  BY <1>2, SnapshotInvHolds, PTL

\* The binlogs are replayed from a commit seq that no table of the target is behind: nothing a
\* table misses lies before it.
THEOREM ReplayStartsInTime == Spec => []ReplayStartsEarlyEnough
<1>1. ASSUME SnapshotInv, NEW j \in Jobs, disk[j].sync = "DBTablesIncrementalSync",
             NEW t \in src[j].tables
      PROVE  disk[j].commitSeq <= target[j].held[t]
  <2>1. PICK s, B, R, g, p, d, a : Now(j, s, B, R, g, p, d, a)
    BY DEF Now
  <2>2. Good(s, B, R, g, p, d, a) /\ d.sync = "DBTablesIncrementalSync" /\ t \in s.tables
    BY <1>1, <2>1 DEF SnapshotInv, JobGood, Now
  <2>3. d.seqs[t] = 0 \/ d.commitSeq <= d.seqs[t]
    BY <2>2 DEF Good, RowOK
  <2>4. g.held[t] = Claimed(d, t)
    BY <2>2 DEF Good, RowOK, MapOK
  <2>5. d.commitSeq \in Nat
    BY <2>2, JobFacts DEF Good
  <2>6. d.commitSeq <= g.held[t]
    BY <2>3, <2>4, <2>5 DEF Claimed
  <2> QED
    BY <2>1, <2>6 DEF Now
<1>2. SnapshotInv => ReplayStartsEarlyEnough
  BY <1>1 DEF ReplayStartsEarlyEnough
<1> QED
  BY <1>2, SnapshotInvHolds, PTL

\* The binlogs a job still has to replay are not collected by the source: what was locked
\* covers the commit seq the job goes on from.
THEOREM BinlogsAreKept == Spec => []BinlogsKept
<1>1. SnapshotInv => BinlogsKept
  BY DEF SnapshotInv, JobGood, Good, RowOK, BinlogsKept
<1> QED
  BY <1>1, SnapshotInvHolds, PTL
-----------------------------------------------------------------------------
\* Only three actions touch the tables of a target.
LEMMA HeldGrows ==
    ASSUME NEW j, JobReady(j), JobStep(j) \/ ClusterStep(j) \/ Environment(j), NEW t \in Tables
    PROVE  target[j].held[t] <= target'[j].held[t]
<1>1. CASE SwapAlias(j) \/ Replay(j) \/ RestoreFinishes(j)
  BY <1>1, SwapAliasMoves, ReplayMoves, RestoreFinishesMoves
<1>2. target[j].held[t] <= target[j].held[t]
  <2>1. target[j] \in Targets
    BY DEF JobReady, JobsTyped
  <2>2. target[j].held[t] \in Nat
    BY <2>1, SnapshotAssumption DEF Targets, Seqs
  <2> QED
    BY <2>2
<1>3. CASE SchemaDiffers(j)
  BY <1>2, <1>3, SchemaDiffersMoves
<1>4. CASE UNCHANGED target
  BY <1>2, <1>4
<1>5. CASE ~(SwapAlias(j) \/ Replay(j) \/ RestoreFinishes(j) \/ SchemaDiffers(j))
  <2>1. CASE ClusterStep(j)
    BY <1>5, <2>1, <1>4 DEF ClusterStep, BackupFinishes, RestoreMismatches
  <2>2. CASE Environment(j)
    BY <1>5, <2>2, <1>4 DEF Environment, AskFullSync, AskPartialSync, Pause, Resume,
              SourceWrites, DropTable, SourceCollects, BackupCancelled, BackupExpires,
              RestoreCancelled, extVars
  <2>3. CASE PausedTick(j) \/ WaitForPermit(j)
    BY <2>3, <1>4 DEF PausedTick, WaitForPermit, extVars
  <2>4. CASE \/ ReuseBackup(j) \/ CreateSnapshot(j) \/ CreateSnapshotLosesReply(j)
             \/ CreateSnapshotFails(j) \/ SourceIsEmpty(j) \/ SkipDroppedTable(j)
    BY <2>4, <1>4 DEF ReuseBackup, CreateSnapshot, CreateSnapshotLosesReply,
              CreateSnapshotFails, SourceIsEmpty, SkipDroppedTable, extVars
  <2>5. CASE WaitBackup(j) \/ BackupDone(j) \/ BackupFailed(j) \/ SnapshotNotExist(j)
             \/ GetSnapshotInfo(j)
    BY <2>5, <1>4 DEF WaitBackup, BackupDone, BackupFailed, SnapshotNotExist,
              GetSnapshotInfo, extVars
  <2>6. CASE ReuseRestore(j) \/ RestoreSnapshot(j) \/ RestoreSnapshotLosesReply(j)
             \/ RestoreSnapshotFails(j)
    BY <2>6, <1>4 DEF ReuseRestore, RestoreSnapshot, RestoreSnapshotLosesReply,
              RestoreSnapshotFails, extVars
  <2>7. CASE RestoreExpired(j) \/ WaitRestore(j) \/ SignatureNotMatched(j) \/ RestoreFailed(j)
             \/ RestoreDone(j)
    BY <2>7, <1>4 DEF RestoreExpired, WaitRestore, SignatureNotMatched, RestoreFailed,
              RestoreDone, extVars
  <2>8. CASE ForgetAliases(j) \/ FinishSync(j) \/ FinishSyncFails(j)
    BY <2>8, <1>4 DEF ForgetAliases, FinishSync, FinishSyncFails, extVars
  <2> QED
    BY <1>5, <2>1, <2>2, <2>3, <2>4, <2>5, <2>6, <2>7, <2>8 DEF JobStep, SyncStep
<1> QED
  BY <1>1, <1>3, <1>5

\* A restore, a swap of an alias or a replay never takes a table of the target back to an
\* earlier commit seq, not even one of a sync that was given up.
THEOREM TargetOnlyAdvances == Spec => TargetNeverGoesBack
<1>1. ASSUME SnapshotInv, [Next]_vars, NEW k \in Jobs, NEW t \in Tables
      PROVE  target'[k].held[t] >= target[k].held[t]
  <2>1. target[k].held[t] \in Nat
    <3>1. target[k] \in Targets
      BY <1>1 DEF SnapshotInv, JobsTyped
    <3> QED
      BY <3>1, SnapshotAssumption DEF Targets, Seqs
  <2>2. CASE target'[k] = target[k]
    BY <2>1, <2>2
  <2>3. CASE UNCHANGED vars \/ Crash
    BY <2>2, <2>3 DEF vars, extVars, Crash
  <2>4. ASSUME NEW j \in Jobs, JobStep(j) \/ ClusterStep(j) \/ Environment(j)
        PROVE  target'[k].held[t] >= target[k].held[t]
    <3>1. JobReady(j)
      BY <1>1 DEF SnapshotInv, JobReady
    <3>2. CASE k = j
      <4>1. target[j].held[t] <= target'[j].held[t]
        BY <2>4, <3>1, HeldGrows
      <4> QED
        BY <3>2, <4>1
    <3>3. CASE k # j
      <4>1. PICK s, B, R, g, p, d, a : Becomes(j, s, B, R, g, p, d, a)
        BY <2>4, <3>1, StepMoves DEF JobMoves
      <4>2. target'[k] = target[k]
        BY <3>1, <3>3, <4>1 DEF Becomes, JobReady, JobsTyped
      <4> QED
        BY <2>2, <4>2
    <3> QED
      BY <3>2, <3>3
  <2> QED
    BY <1>1, <2>3, <2>4 DEF Next
<1>2. SnapshotInv /\ [Next]_vars =>
         [\A j \in Jobs : \A t \in Tables : target'[j].held[t] >= target[j].held[t]]_vars
  BY <1>1
<1> QED
  BY <1>2, SnapshotInvHolds, PTL DEF Spec, TargetNeverGoesBack

\* A job that leaves its snapshot does it in FinishSync or SkipDroppedTable.
LEMMA SyncStays ==
    ASSUME NEW j, JobReady(j), JobStep(j) \/ ClusterStep(j) \/ Environment(j),
           disk[j].sync # "DBTablesIncrementalSync",
           ~FinishSync(j), ~SkipDroppedTable(j)
    PROVE  prog'[j].sync # "DBTablesIncrementalSync"
<1>1. PICK p : p = prog[j]
  OBVIOUS
<1>2. /\ p \in Progress /\ prog \in [Jobs -> Progress] /\ j \in Jobs
      /\ p.sync # "DBTablesIncrementalSync"
  BY <1>1 DEF JobReady, JobsTyped, JobGood, Good, VolatileOK
<1>3. CASE prog' = prog
  BY <1>1, <1>2, <1>3
<1>4. ASSUME NEW q, prog' = [prog EXCEPT ![j] = q], q.sync # "DBTablesIncrementalSync"
      PROVE  prog'[j].sync # "DBTablesIncrementalSync"
  BY <1>2, <1>4
<1>5. PICK b : b = BeginSync(p)
  OBVIOUS
<1>6. b \in Progress
  <2>1. p \in Progress /\ p.syncId \in Nat /\ p.syncId + 1 \in SyncIds
    BY <1>2 DEF Progress, SyncIds
  <2> QED
    BY <1>5, <2>1 DEF BeginSync, NextSyncId, Progress
<1>7. CASE NewSnapshot(j)
  <2>1. PICK q : q = [b EXCEPT !.sync = "DBFullSync", !.table = Nil, !.aliases = NoAliases]
    OBVIOUS
  <2>2. prog' = [prog EXCEPT ![j] = q]
    BY <1>1, <1>5, <1>7, <2>1 DEF NewSnapshot, Persist
  <2>3. q.sync = "DBFullSync"
    BY <1>6, <2>1 DEF Progress
  <2> QED
    BY <1>4, <2>2, <2>3
<1>8. ASSUME NEW t, NEW replace, NewPartialSnapshot(j, t, replace)
      PROVE  prog'[j].sync # "DBTablesIncrementalSync"
  <2>1. PICK m : m = IF replace THEN [NoAliases EXCEPT ![t] = b.syncId] ELSE NoAliases
    OBVIOUS
  <2>2. PICK q : q = [b EXCEPT !.sync = "DBPartialSync", !.table = t, !.aliases = m]
    OBVIOUS
  <2>3. prog' = [prog EXCEPT ![j] = q]
    BY <1>1, <1>5, <1>8, <2>1, <2>2 DEF NewPartialSnapshot, Persist
  <2>4. q.sync = "DBPartialSync"
    BY <1>6, <2>2 DEF Progress
  <2> QED
    BY <1>4, <2>3, <2>4
<1>9. CASE SyncAgain(j)
  BY <1>7, <1>8, <1>9 DEF SyncAgain
<1>10. CASE ClusterStep(j) \/ Environment(j)
  BY <1>3, <1>7, <1>8, <1>10
     DEF ClusterStep, BackupFinishes, RestoreFinishes, RestoreMismatches, Environment,
         AskFullSync, AskPartialSync, Pause, Resume, SourceWrites, DropTable, SourceCollects,
         BackupCancelled, BackupExpires, RestoreCancelled, SchemaDiffers, jobVars
<1>11. CASE PausedTick(j) \/ Replay(j) \/ WaitForPermit(j)
  <2>1. ~Replay(j)
    BY <1>1, <1>2 DEF Replay, IsIncremental
  <2> QED
    BY <1>3, <1>11, <2>1 DEF PausedTick, WaitForPermit, jobVars
<1>12. CASE ReuseBackup(j) \/ CreateSnapshot(j) \/ CreateSnapshotLosesReply(j)
  <2>1. ASSUME NEW n, prog' = [prog EXCEPT ![j] = [p EXCEPT !.sub = "WaitBackupDone", !.name = n]]
        PROVE  prog'[j].sync # "DBTablesIncrementalSync"
    BY <1>2, <1>4, <2>1 DEF Progress
  <2> QED
    BY <1>1, <1>3, <1>12, <2>1 DEF ReuseBackup, CreateSnapshot, CreateSnapshotLosesReply,
                              Volatile, jobVars
<1>13. CASE CreateSnapshotFails(j) \/ SourceIsEmpty(j)
  BY <1>3, <1>7, <1>13 DEF CreateSnapshotFails, SourceIsEmpty, jobVars
<1>14. ASSUME NEW sub, prog' = [prog EXCEPT ![j] = [p EXCEPT !.sub = sub]]
       PROVE  prog'[j].sync # "DBTablesIncrementalSync"
  BY <1>2, <1>4, <1>14 DEF Progress
<1>15. CASE WaitBackup(j) \/ BackupDone(j) \/ BackupFailed(j) \/ GetSnapshotInfo(j)
            \/ RestoreFailed(j) \/ WaitRestore(j)
  BY <1>1, <1>3, <1>14, <1>15 DEF WaitBackup, BackupDone, BackupFailed, GetSnapshotInfo,
         RestoreFailed, WaitRestore, Volatile, Persist, jobVars
<1>16. CASE SnapshotNotExist(j) \/ RestoreExpired(j)
  BY <1>9, <1>16 DEF SnapshotNotExist, RestoreExpired
<1>17. CASE \/ ReuseRestore(j) \/ RestoreSnapshot(j) \/ RestoreSnapshotLosesReply(j)
            \/ RestoreSnapshotFails(j)
  <2>1. ASSUME NEW n,
               prog' = [prog EXCEPT ![j] = [p EXCEPT !.sub = "WaitRestoreDone", !.label = n]]
        PROVE  prog'[j].sync # "DBTablesIncrementalSync"
    BY <1>2, <1>4, <2>1 DEF Progress
  <2> QED
    BY <1>1, <1>3, <1>17, <2>1 DEF ReuseRestore, RestoreSnapshot, RestoreSnapshotLosesReply,
                              RestoreSnapshotFails, Volatile, jobVars
<1>18. CASE SignatureNotMatched(j)
  <2>1. CASE ~IsFull(j)
    BY <1>8, <1>18, <2>1 DEF SignatureNotMatched
  <2>2. CASE IsFull(j)
    <3>1. PICK f : f = [p EXCEPT !.aliases[Restore(j).table] = p.syncId]
      OBVIOUS
    <3>2. f.sync = p.sync
      BY <1>2, <3>1 DEF Progress
    <3>3. prog' = [prog EXCEPT ![j] = [f EXCEPT !.sub = "RestoreSnapshot"]]
      BY <1>1, <1>18, <2>2, <3>1 DEF SignatureNotMatched
    <3>4. [f EXCEPT !.sub = "RestoreSnapshot"].sync # "DBTablesIncrementalSync"
      BY <1>2, <3>1 DEF Progress
    <3> QED
      BY <1>4, <3>3, <3>4
  <2> QED
    BY <2>1, <2>2
<1>19. CASE RestoreDone(j)
  <2>1. PICK f : f = RestoredProgress(p, Snapshot(j))
    OBVIOUS
  <2>2. PICK q : q = [f EXCEPT !.sub = "PersistRestoreInfo"]
    OBVIOUS
  <2>3. q.sync = p.sync
    BY <1>2, <2>1, <2>2 DEF RestoredProgress, Progress
  <2>4. prog' = [prog EXCEPT ![j] = q]
    BY <1>1, <1>19, <2>1, <2>2 DEF RestoreDone, Persist
  <2> QED
    BY <1>2, <1>4, <2>3, <2>4
<1>20. CASE SwapAlias(j) \/ ForgetAliases(j) \/ FinishSyncFails(j)
  <2>1. CASE ForgetAliases(j)
    <3>1. prog' = [prog EXCEPT ![j] = [p EXCEPT !.aliases = NoAliases]]
      BY <1>1, <2>1 DEF ForgetAliases, Persist
    <3> QED
      BY <1>2, <1>4, <3>1 DEF Progress
  <2> QED
    BY <1>3, <1>7, <1>20, <2>1 DEF SwapAlias, FinishSyncFails, jobVars
<1> QED
  BY <1>10, <1>11, <1>12, <1>13, <1>15, <1>16, <1>17, <1>18, <1>19, <1>20
     DEF JobStep, SyncStep

\* A sync ends only with tables restored from a snapshot that is not older than the moment the
\* sync was asked for: no backup of an earlier sync is taken for it.
THEOREM SnapshotsAreFresh == Spec => SnapshotIsFresh
<1>1. ASSUME SnapshotInv, [Next]_vars, NEW k \in Jobs,
             disk[k].sync # "DBTablesIncrementalSync",
             disk'[k].sync = "DBTablesIncrementalSync", NEW t \in SnapshotTables(k)
      PROVE  target[k].held[t] >= asked[k]
  <2>1. PICK j \in Jobs : JobStep(j) \/ ClusterStep(j) \/ Environment(j)
    BY <1>1 DEF Next, vars, jobVars, Crash
  <2>2. JobReady(j)
    BY <1>1, <2>1 DEF SnapshotInv, JobReady
  <2>3. PICK s, B, R, g, p, d, a :
           Good(s, B, R, g, p, d, a) /\ Becomes(j, s, B, R, g, p, d, a)
    BY <2>1, <2>2, StepMoves DEF JobMoves
  <2>4. k = j
    BY <1>1, <2>2, <2>3 DEF Becomes, JobReady, JobsTyped
  <2>5. prog'[j].sync = disk'[j].sync
    BY <2>2, <2>3 DEF Becomes, JobReady, JobsTyped, Good, VolatileOK
  <2>6. FinishSync(j) \/ SkipDroppedTable(j)
    BY <1>1, <2>1, <2>2, <2>4, <2>5, SyncStays
  <2>7. CASE FinishSync(j)
    <3>1. asked[j] <= target[j].held[t]
      BY <1>1, <2>2, <2>4, <2>7, FinishSyncMoves
    <3> QED
      BY <2>4, <3>1
  <2>8. CASE SkipDroppedTable(j)
    BY <1>1, <2>4, <2>8 DEF SkipDroppedTable
  <2> QED
    BY <2>6, <2>7, <2>8
<1>2. SnapshotInv /\ [Next]_vars =>
         [\A j \in Jobs :
            disk[j].sync # "DBTablesIncrementalSync" /\ disk'[j].sync = "DBTablesIncrementalSync"
            => \A t \in SnapshotTables(j) : target[j].held[t] >= asked[j]]_vars
  BY <1>1
<1> QED
  BY <1>2, SnapshotInvHolds, PTL DEF Spec, SnapshotIsFresh
=============================================================================
