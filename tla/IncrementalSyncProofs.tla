----------------------- MODULE IncrementalSyncProofs -----------------------
(***************************************************************************)
(* The windows of the backends, and two things that the incremental sync   *)
(* implements.                                                             *)
(*                                                                         *)
(* The windows of IngestBinlog, for any replicas and any flag: a window    *)
(* counts the calls to its backend, which are never more than the flag     *)
(* allows, and no waiter is forgotten.                                     *)
(*                                                                         *)
(* The ingest job that the incremental sync is built on: it starts one     *)
(* only when the one before has ended, and leaves the goroutines and the   *)
(* windows alone otherwise.  So what is proved of the windows holds while  *)
(* transactions, rollbacks, snapshots and restarts go on.                  *)
(*                                                                         *)
(* The replay of the log (BinlogReplay), except for the retry of           *)
(* handleUpsertWithRetry.  IncInv says of the progress of the process and  *)
(* of its row what the target has, so that whichever of them a step goes   *)
(* on with, the checkpoint passes only what is there.  Each action has a   *)
(* lemma <action>Keeps.                                                    *)
(***************************************************************************)
EXTENDS IncrementalSync, FiniteSetTheorems, WellFoundedInduction, TLAPS

(* The windows. *)

IngestTypes ==
    /\ handler \in [Tablets -> {"new", "running", "done"}]
    /\ task \in [Replicas -> Tasks]
    /\ inflights \in [Backends -> Nat]
    /\ waiters \in [Backends -> Seq(Replicas)]

\* A handler that has not begun has no goroutine, one that is done has none that still runs.
TasksMatchHandlers ==
    \A r \in Replicas :
        /\ handler[r.tablet] = "new" => task[r] = "none"
        /\ handler[r.tablet] = "done" => task[r] \in {"none", "ok", "failed"}

\* Those in cond.Wait are where they wait, once.
WaitersWait ==
    \A b \in Backends : \A i \in DOMAIN waiters[b] :
        /\ waiters[b][i].backend = b /\ task[waiters[b][i]] = "wait"
        /\ \A k \in DOMAIN waiters[b] : waiters[b][k] = waiters[b][i] => k = i

WindowInv == /\ IngestTypes /\ TasksMatchHandlers /\ WaitersWait
             /\ WindowRespected /\ NoLostWakeup
-----------------------------------------------------------------------------
\* What is counted is finite.
LEMMA CallsFinite ==
    \A b : /\ IsFiniteSet(CallsTo(b)) /\ Cardinality(CallsTo(b)) \in Nat
           /\ IsFiniteSet(Starting(b)) /\ Cardinality(Starting(b)) \in Nat
<1> TAKE b
<1>1. CallsTo(b) \in SUBSET Replicas /\ Starting(b) \in SUBSET Replicas
  BY DEF CallsTo, Starting
<1> QED
  BY <1>1, WindowAssumption, FS_Subset, FS_CardinalityType

\* The windows hold when nothing runs.
LEMMA QuietIsInv ==
    ASSUME IngestTypes,
           \A r \in Replicas : task[r] \in {"none", "ok", "failed"},
           \A r \in Replicas : handler[r.tablet] = "new" => task[r] = "none",
           \A b \in Backends : inflights[b] = 0 /\ waiters[b] = <<>>
    PROVE  WindowInv
<1>1. \A b \in Backends : CallsTo(b) = {}
  BY DEF CallsTo
<1>2. WindowRespected
  BY <1>1, FS_EmptySet, WindowAssumption DEF WindowRespected
<1> QED
  BY <1>2 DEF WindowInv, TasksMatchHandlers, WaitersWait, NoLostWakeup

LEMMA NoIngestIsInv == NoIngest => WindowInv
<1> SUFFICES ASSUME NoIngest PROVE WindowInv
  OBVIOUS
<1>1. IngestTypes
  BY DEF NoIngest, IngestTypes, Tasks
<1>2. \A r \in Replicas : r.tablet \in Tablets
  BY DEF Tablets
<1> QED
  BY <1>1, <1>2, QuietIsInv DEF NoIngest
-----------------------------------------------------------------------------
\* A goroutine that begins its call is counted, and no longer on its way to one.
LEMMA StartToCall ==
    ASSUME WindowInv, NEW r \in Replicas, task[r] = "start",
           task' = [task EXCEPT ![r] = "call"], NEW b \in Backends
    PROVE  /\ b # r.backend => CallsTo(b)' = CallsTo(b) /\ Starting(b)' = Starting(b)
           /\ b = r.backend =>
                 /\ Cardinality(CallsTo(b)') = Cardinality(CallsTo(b)) + 1
                 /\ Cardinality(Starting(b)') = Cardinality(Starting(b)) - 1
<1>1. task \in [Replicas -> Tasks]
  BY DEF WindowInv, IngestTypes
<1>2. CASE b # r.backend
  BY <1>1, <1>2 DEF CallsTo, Starting
<1>3. CASE b = r.backend
  <2>1. CallsTo(b)' = CallsTo(b) \cup {r} /\ r \notin CallsTo(b)
    BY <1>1, <1>3 DEF CallsTo
  <2>2. Starting(b)' = Starting(b) \ {r} /\ r \in Starting(b)
    BY <1>1, <1>3 DEF Starting
  <2>3. Cardinality(CallsTo(b)') = Cardinality(CallsTo(b)) + 1
    BY <2>1, CallsFinite, FS_AddElement
  <2>4. Cardinality(Starting(b)') = Cardinality(Starting(b)) - 1
    BY <2>2, CallsFinite, FS_RemoveElement
  <2> QED
    BY <2>3, <2>4, <1>3
<1> QED
  BY <1>2, <1>3

\* The same for one that ends its call, and for the one it wakes up.
LEMMA CallToEnd ==
    ASSUME WindowInv, NEW r \in Replicas, task[r] = "call", NEW result \in {"ok", "failed"},
           Release(r, result), NEW b \in Backends
    PROVE  /\ task' \in [Replicas -> Tasks]
           /\ b # r.backend => CallsTo(b)' = CallsTo(b) /\ Starting(b)' = Starting(b)
           /\ b = r.backend =>
                 /\ Cardinality(CallsTo(b)') = Cardinality(CallsTo(b)) - 1
                 /\ Cardinality(Starting(b)') =
                        Cardinality(Starting(b)) + (IF waiters[b] = <<>> THEN 0 ELSE 1)
<1>1. task \in [Replicas -> Tasks] /\ waiters \in [Backends -> Seq(Replicas)]
  BY DEF WindowInv, IngestTypes
<1>2. r.backend \in Backends
  BY DEF Backends
<1> DEFINE w == Head(waiters[r.backend])
<1>3. waiters[r.backend] # <<>> =>
          w \in Replicas /\ w.backend = r.backend /\ task[w] = "wait" /\ w # r
  BY <1>1, <1>2 DEF WindowInv, WaitersWait
<1>4. task' \in [Replicas -> Tasks]
  BY <1>1 DEF Release, Tasks
<1>5. \A s \in Replicas : task'[s] = IF s = r THEN result
          ELSE IF waiters[r.backend] # <<>> /\ s = w THEN "start" ELSE task[s]
  BY <1>1 DEF Release
<1> HIDE DEF w
<1>6. CASE b # r.backend
  <2>1. \A s \in Replicas : s.backend = b => task'[s] = task[s]
    BY <1>3, <1>5, <1>6
  <2>2. CallsTo(b)' = CallsTo(b) /\ Starting(b)' = Starting(b)
    BY <2>1 DEF CallsTo, Starting
  <2> QED
    BY <2>2, <1>4, <1>6
<1>7. CASE b = r.backend
  <2>1. CallsTo(b)' = CallsTo(b) \ {r} /\ r \in CallsTo(b)
    BY <1>3, <1>5, <1>7 DEF CallsTo
  <2>2. Cardinality(CallsTo(b)') = Cardinality(CallsTo(b)) - 1
    BY <2>1, CallsFinite, FS_RemoveElement
  <2>3. CASE waiters[b] = <<>>
    <3>1. Starting(b)' = Starting(b)
      BY <1>5, <1>7, <2>3 DEF Starting
    <3> QED
      BY <2>2, <2>3, <3>1, <1>4, <1>7, CallsFinite
  <2>4. CASE waiters[b] # <<>>
    <3>1. Starting(b)' = Starting(b) \cup {w} /\ w \notin Starting(b)
      BY <1>3, <1>5, <1>7, <2>4 DEF Starting
    <3>2. Cardinality(Starting(b)') = Cardinality(Starting(b)) + 1
      BY <3>1, CallsFinite, FS_AddElement
    <3> QED
      BY <2>2, <2>4, <3>2, <1>4, <1>7
  <2> QED
    BY <2>3, <2>4
<1> QED
  BY <1>4, <1>6, <1>7
-----------------------------------------------------------------------------
(* Every step keeps the windows. *)

LEMMA LaunchKeeps ==
    ASSUME WindowInv, NEW b \in Tablets, handler[b] = "new", NEW rs \in SUBSET TasksOf(b),
           Launch(rs), handler' = [handler EXCEPT ![b] = "running"],
           UNCHANGED <<inflights, waiters>>
    PROVE  WindowInv'
<1>1. task \in [Replicas -> Tasks] /\ \A r \in rs : r \in Replicas /\ task[r] = "none"
  BY DEF WindowInv, IngestTypes, TasksMatchHandlers, TasksOf
<1>2. \A r \in Replicas : task'[r] = IF r \in rs THEN "start" ELSE task[r]
  BY DEF Launch
<1>3. IngestTypes'
  BY <1>1 DEF WindowInv, IngestTypes, Launch, Tasks
<1>4. TasksMatchHandlers'
  BY <1>2 DEF WindowInv, IngestTypes, TasksMatchHandlers, TasksOf, Tablets
<1>5. WaitersWait'
  <2>1. ASSUME NEW c \in Backends, NEW i \in DOMAIN waiters[c]
        PROVE  waiters[c][i] \in Replicas /\ task'[waiters[c][i]] = "wait"
    <3>1. waiters[c][i] \in Replicas /\ task[waiters[c][i]] = "wait"
      BY <2>1 DEF WindowInv, IngestTypes, WaitersWait
    <3> QED
      BY <3>1, <1>1, <1>2
  <2> QED
    BY <2>1 DEF WindowInv, WaitersWait
<1>6. \A c : CallsTo(c)' = CallsTo(c) /\ Starting(c) \subseteq Starting(c)'
  BY <1>1, <1>2 DEF CallsTo, Starting
<1>7. WindowRespected'
  BY <1>6 DEF WindowInv, WindowRespected
<1>8. NoLostWakeup'
  <2>1. ASSUME NEW c \in Backends
        PROVE  /\ Cardinality(Starting(c)) <= Cardinality(Starting(c)')
               /\ Cardinality(Starting(c)) \in Nat /\ Cardinality(Starting(c)') \in Nat
               /\ inflights[c] \in Nat
    <3>1. Starting(c)' \in SUBSET Replicas
      BY DEF Starting
    <3>2. IsFiniteSet(Starting(c)')
      BY <3>1, WindowAssumption, FS_Subset
    <3> QED
      BY <3>2, <1>6, CallsFinite, FS_Subset, FS_CardinalityType DEF WindowInv, IngestTypes
  <2> QED
    BY <2>1, WindowAssumption DEF WindowInv, NoLostWakeup
<1> QED
  BY <1>3, <1>4, <1>5, <1>7, <1>8 DEF WindowInv

LEMMA AcquireKeeps ==
    ASSUME WindowInv, NEW r \in Replicas, Acquire(r)
    PROVE  WindowInv'
<1> DEFINE b == r.backend
<1>1. b \in Backends /\ task \in [Replicas -> Tasks] /\ task[r] = "start"
  BY DEF WindowInv, IngestTypes, Acquire, Backends
<1>2. inflights \in [Backends -> Nat] /\ waiters \in [Backends -> Seq(Replicas)]
  BY DEF WindowInv, IngestTypes
<1>3. CASE inflights[b] + 1 > MaxIngestConcurrency
  <2>1. /\ task' = [task EXCEPT ![r] = "wait"] /\ inflights' = inflights
        /\ waiters' = [waiters EXCEPT ![b] = Append(@, r)] /\ handler' = handler
    BY <1>3 DEF Acquire
  <2>2. IngestTypes'
    BY <2>1, <1>1, <1>2 DEF WindowInv, IngestTypes, Tasks
  <2>3. TasksMatchHandlers'
    BY <2>1, <1>1 DEF WindowInv, TasksMatchHandlers
  <2>4. WaitersWait'
    <3>1. ASSUME NEW c \in Backends, NEW i \in DOMAIN waiters[c]
          PROVE  /\ waiters[c][i] \in Replicas /\ waiters[c][i] # r
                 /\ waiters[c][i].backend = c /\ task'[waiters[c][i]] = "wait"
                 /\ \A k \in DOMAIN waiters[c] : waiters[c][k] = waiters[c][i] => k = i
      BY <3>1, <2>1, <1>1, <1>2 DEF WindowInv, WaitersWait
    <3>2. ASSUME NEW c \in Backends, c # b
          PROVE  waiters'[c] = waiters[c]
      BY <3>2, <2>1, <1>2
    <3>3. /\ waiters'[b] = Append(waiters[b], r)
          /\ DOMAIN waiters'[b] = DOMAIN waiters[b] \cup {Len(waiters[b]) + 1}
          /\ Len(waiters[b]) + 1 \notin DOMAIN waiters[b]
          /\ waiters'[b][Len(waiters[b]) + 1] = r
          /\ \A i \in DOMAIN waiters[b] : waiters'[b][i] = waiters[b][i]
      BY <2>1, <1>1, <1>2
    <3>4. task'[r] = "wait"
      BY <2>1, <1>1
    <3>5. \A i \in DOMAIN waiters'[b] :
              /\ waiters'[b][i].backend = b /\ task'[waiters'[b][i]] = "wait"
              /\ \A k \in DOMAIN waiters'[b] : waiters'[b][k] = waiters'[b][i] => k = i
      BY <3>1, <3>3, <3>4, <1>1
    <3>6. \A c \in Backends : c # b => \A i \in DOMAIN waiters'[c] :
              /\ waiters'[c][i].backend = c /\ task'[waiters'[c][i]] = "wait"
              /\ \A k \in DOMAIN waiters'[c] : waiters'[c][k] = waiters'[c][i] => k = i
      BY <3>1, <3>2
    <3> QED
      BY <3>5, <3>6 DEF WaitersWait
  <2>5. \A c : CallsTo(c)' = CallsTo(c) /\ (c # b => Starting(c)' = Starting(c))
    BY <2>1, <1>1 DEF CallsTo, Starting
  <2>6. WindowRespected'
    BY <2>1, <2>5 DEF WindowInv, WindowRespected
  <2>7. NoLostWakeup'
    <3>1. ASSUME NEW c \in Backends, c # b, waiters'[c] # <<>>
          PROVE  inflights'[c] + Cardinality(Starting(c)') >= MaxIngestConcurrency
      <4>1. waiters'[c] = waiters[c]
        BY <3>1, <2>1, <1>2
      <4> QED
        BY <3>1, <4>1, <2>1, <2>5 DEF WindowInv, NoLostWakeup
    <3>2. inflights'[b] + Cardinality(Starting(b)') >= MaxIngestConcurrency
      <4>1. Starting(b)' \in SUBSET Replicas
        BY DEF Starting
      <4>2. Cardinality(Starting(b)') \in Nat
        BY <4>1, WindowAssumption, FS_Subset, FS_CardinalityType
      <4> QED
        BY <4>2, <2>1, <1>1, <1>2, <1>3, WindowAssumption
    <3> QED
      BY <3>1, <3>2 DEF NoLostWakeup
  <2> QED
    BY <2>2, <2>3, <2>4, <2>6, <2>7 DEF WindowInv
<1>4. CASE ~(inflights[b] + 1 > MaxIngestConcurrency)
  <2>1. /\ task' = [task EXCEPT ![r] = "call"] /\ waiters' = waiters /\ handler' = handler
        /\ inflights' = [inflights EXCEPT ![b] = @ + 1]
    BY <1>4 DEF Acquire
  <2>2. IngestTypes'
    BY <2>1, <1>1, <1>2 DEF WindowInv, IngestTypes, Tasks
  <2>3. TasksMatchHandlers'
    BY <2>1, <1>1 DEF WindowInv, TasksMatchHandlers
  <2>4. WaitersWait'
    <3>1. ASSUME NEW c \in Backends, NEW i \in DOMAIN waiters[c]
          PROVE  waiters[c][i] \in Replicas /\ task'[waiters[c][i]] = "wait"
      BY <3>1, <2>1, <1>1, <1>2 DEF WindowInv, WaitersWait
    <3> QED
      BY <3>1, <2>1 DEF WindowInv, WaitersWait
  <2>5. ASSUME NEW c \in Backends
        PROVE  /\ inflights'[c] = Cardinality(CallsTo(c)')
               /\ inflights'[c] <= MaxIngestConcurrency
               /\ inflights'[c] + Cardinality(Starting(c)') =
                      inflights[c] + Cardinality(Starting(c))
    <3>1. inflights[c] = Cardinality(CallsTo(c)) /\ inflights[c] <= MaxIngestConcurrency
      BY DEF WindowInv, WindowRespected
    <3>2. inflights'[c] = IF c = b THEN inflights[c] + 1 ELSE inflights[c]
      BY <2>1, <1>2
    <3>3. /\ c # b => CallsTo(c)' = CallsTo(c) /\ Starting(c)' = Starting(c)
          /\ c = b => /\ Cardinality(CallsTo(c)') = Cardinality(CallsTo(c)) + 1
                      /\ Cardinality(Starting(c)') = Cardinality(Starting(c)) - 1
      BY <2>1, <1>1, StartToCall
    <3>4. Cardinality(Starting(c)) \in Nat /\ inflights[c] \in Nat
      BY <1>2, CallsFinite
    <3>5. CASE c = b
      BY <3>1, <3>2, <3>3, <3>4, <3>5, <1>4, WindowAssumption
    <3>6. CASE c # b
      BY <3>1, <3>2, <3>3, <3>6
    <3> QED
      BY <3>5, <3>6
  <2>6. WindowRespected' /\ NoLostWakeup'
    BY <2>1, <2>5 DEF WindowInv, WindowRespected, NoLostWakeup
  <2> QED
    BY <2>2, <2>3, <2>4, <2>6 DEF WindowInv
<1> QED
  BY <1>3, <1>4

\* The end of a call, however it ended.
LEMMA ReleaseKeeps ==
    ASSUME WindowInv, NEW r \in Replicas, task[r] = "call", NEW result \in {"ok", "failed"},
           Release(r, result), handler' = handler
    PROVE  WindowInv'
<1> DEFINE b == r.backend
           w == Head(waiters[b])
<1>1. /\ b \in Backends /\ task \in [Replicas -> Tasks] /\ inflights \in [Backends -> Nat]
      /\ waiters \in [Backends -> Seq(Replicas)]
  BY DEF WindowInv, IngestTypes, Backends
<1>2. /\ inflights' = [inflights EXCEPT ![b] = @ - 1]
      /\ waiters' = IF waiters[b] # <<>> THEN [waiters EXCEPT ![b] = Tail(@)] ELSE waiters
  BY DEF Release
<1>3. waiters[b] # <<>> =>
          w \in Replicas /\ w.backend = b /\ task[w] = "wait" /\ w # r /\ w = waiters[b][1]
  BY <1>1 DEF WindowInv, WaitersWait
<1>4. \A s \in Replicas : task'[s] = IF s = r THEN result
          ELSE IF waiters[b] # <<>> /\ s = w THEN "start" ELSE task[s]
  BY <1>1 DEF Release
<1>5. ASSUME NEW c \in Backends
      PROVE  /\ task' \in [Replicas -> Tasks]
             /\ c # b => CallsTo(c)' = CallsTo(c) /\ Starting(c)' = Starting(c)
             /\ c = b =>
                   /\ Cardinality(CallsTo(c)') = Cardinality(CallsTo(c)) - 1
                   /\ Cardinality(Starting(c)') =
                          Cardinality(Starting(c)) + (IF waiters[c] = <<>> THEN 0 ELSE 1)
  BY CallToEnd
<1>6. inflights[b] >= 1
  <2>1. r \in CallsTo(b)
    BY DEF CallsTo
  <2>2. Cardinality(CallsTo(b)) # 0
    BY <2>1, CallsFinite, FS_EmptySet
  <2> QED
    BY <2>2, <1>1, CallsFinite DEF WindowInv, WindowRespected
<1> HIDE DEF w
<1>7. IngestTypes'
  <2>1. waiters' \in [Backends -> Seq(Replicas)]
    BY <1>1, <1>2
  <2>2. inflights' \in [Backends -> Nat]
    BY <1>1, <1>2, <1>6
  <2> QED
    BY <2>1, <2>2, <1>1, <1>5 DEF WindowInv, IngestTypes
<1>8. TasksMatchHandlers'
  BY <1>3, <1>4 DEF WindowInv, TasksMatchHandlers
<1>9. WaitersWait'
  <2>1. ASSUME NEW c \in Backends, NEW i \in DOMAIN waiters[c]
        PROVE  /\ waiters[c][i] \in Replicas /\ waiters[c][i].backend = c
               /\ task[waiters[c][i]] = "wait" /\ waiters[c][i] # r
               /\ \A k \in DOMAIN waiters[c] : waiters[c][k] = waiters[c][i] => k = i
    BY <2>1, <1>1 DEF WindowInv, WaitersWait
  <2>2. ASSUME NEW c \in Backends, c # b
        PROVE  /\ waiters'[c] = waiters[c]
               /\ \A i \in DOMAIN waiters[c] : task'[waiters[c][i]] = "wait"
    <3>1. waiters'[c] = waiters[c]
      BY <2>2, <1>1, <1>2
    <3>2. ASSUME NEW i \in DOMAIN waiters[c]
          PROVE  task'[waiters[c][i]] = "wait"
      BY <2>1, <2>2, <1>3, <1>4
    <3> QED
      BY <3>1, <3>2
  <2>3. CASE waiters[b] = <<>>
    <3>1. waiters' = waiters
      BY <2>3, <1>2
    <3>2. ASSUME NEW c \in Backends, NEW i \in DOMAIN waiters[c]
          PROVE  task'[waiters[c][i]] = "wait"
      BY <2>1, <2>3, <1>4
    <3> QED
      BY <3>1, <3>2, <2>1 DEF WaitersWait
  <2>4. CASE waiters[b] # <<>>
    <3>1. /\ waiters'[b] = Tail(waiters[b])
          /\ \A i \in DOMAIN waiters'[b] :
                 i \in Nat /\ i + 1 \in DOMAIN waiters[b] /\ i + 1 # 1
                 /\ waiters'[b][i] = waiters[b][i + 1]
          /\ 1 \in DOMAIN waiters[b]
      BY <2>4, <1>1, <1>2
    <3>2. ASSUME NEW i \in DOMAIN waiters'[b]
          PROVE  /\ waiters'[b][i].backend = b /\ task'[waiters'[b][i]] = "wait"
                 /\ \A k \in DOMAIN waiters'[b] : waiters'[b][k] = waiters'[b][i] => k = i
      <4>1. waiters'[b][i] # w
        BY <3>1, <2>1, <2>4, <1>1, <1>3
      <4>2. waiters'[b][i].backend = b /\ task'[waiters'[b][i]] = "wait"
        BY <4>1, <3>1, <2>1, <1>1, <1>4
      <4>3. ASSUME NEW k \in DOMAIN waiters'[b], waiters'[b][k] = waiters'[b][i]
            PROVE  k = i
        <5>1. k + 1 = i + 1
          BY <4>3, <3>1, <2>1, <1>1
        <5> QED
          BY <5>1, <3>1
      <4> QED
        BY <4>2, <4>3
    <3>3. ASSUME NEW c \in Backends, c # b, NEW i \in DOMAIN waiters'[c]
          PROVE  /\ waiters'[c][i].backend = c /\ task'[waiters'[c][i]] = "wait"
                 /\ \A k \in DOMAIN waiters'[c] : waiters'[c][k] = waiters'[c][i] => k = i
      BY <3>3, <2>1, <2>2
    <3> QED
      BY <3>2, <3>3 DEF WaitersWait
  <2> QED
    BY <2>3, <2>4
<1>10. ASSUME NEW c \in Backends
       PROVE  /\ inflights'[c] = Cardinality(CallsTo(c)')
              /\ inflights'[c] <= MaxIngestConcurrency
              /\ waiters'[c] # <<>> =>
                    inflights'[c] + Cardinality(Starting(c)') >= MaxIngestConcurrency
  <2>1. /\ inflights[c] = Cardinality(CallsTo(c)) /\ inflights[c] <= MaxIngestConcurrency
        /\ waiters[c] # <<>> => inflights[c] + Cardinality(Starting(c)) >= MaxIngestConcurrency
    BY DEF WindowInv, WindowRespected, NoLostWakeup
  <2>2. inflights'[c] = IF c = b THEN inflights[c] - 1 ELSE inflights[c]
    BY <1>1, <1>2
  <2>3. waiters'[c] # <<>> => waiters[c] # <<>>
    BY <1>1, <1>2
  <2>4. Cardinality(Starting(c)) \in Nat /\ inflights[c] \in Nat
    BY <1>1, CallsFinite
  <2>5. CASE c = b
    BY <2>1, <2>2, <2>3, <2>4, <2>5, <1>5, WindowAssumption
  <2>6. CASE c # b
    BY <2>1, <2>2, <2>3, <2>6, <1>5
  <2> QED
    BY <2>5, <2>6
<1>11. WindowRespected' /\ NoLostWakeup'
  BY <1>10 DEF WindowRespected, NoLostWakeup
<1> QED
  BY <1>7, <1>8, <1>9, <1>11 DEF WindowInv

\* A handler ends when its goroutines have: no window is touched.
LEMMA FinishKeeps ==
    ASSUME WindowInv, NEW b \in Tablets, FinishHandler(b)
    PROVE  WindowInv'
<1>1. /\ UNCHANGED <<task, inflights, waiters>> /\ handler' = [handler EXCEPT ![b] = "done"]
      /\ \A r \in TasksOf(b) : task[r] \in {"none", "ok", "failed"}
  BY DEF FinishHandler
<1>2. IngestTypes'
  BY <1>1 DEF WindowInv, IngestTypes
<1>3. TasksMatchHandlers'
  BY <1>1 DEF WindowInv, IngestTypes, TasksMatchHandlers, TasksOf
<1>4. WaitersWait' /\ WindowRespected' /\ NoLostWakeup'
  BY <1>1 DEF WindowInv, WaitersWait, WindowRespected, NoLostWakeup, CallsTo, Starting
<1> QED
  BY <1>2, <1>3, <1>4 DEF WindowInv

\* A job begins when the one before it has ended: its windows are empty.
LEMMA StartKeeps ==
    ASSUME WindowInv, NEW tables, IngestDone, StartIngest(tables)
    PROVE  WindowInv'
<1>1. /\ task' = [r \in Replicas |-> "none"] /\ UNCHANGED <<inflights, waiters>>
      /\ handler' \in [Tablets -> {"new", "running", "done"}]
  BY DEF StartIngest
<1>2. IngestTypes'
  BY <1>1 DEF WindowInv, IngestTypes, Tasks
<1>3. \A r \in Replicas : task[r] \in {"none", "ok", "failed"}
  BY DEF WindowInv, TasksMatchHandlers, IngestDone, Tablets
<1>4. ASSUME NEW b \in Backends
      PROVE  inflights[b] = 0 /\ waiters[b] = <<>>
  <2>1. CallsTo(b) = {}
    BY <1>3 DEF CallsTo
  <2>2. inflights[b] = 0
    BY <2>1, FS_EmptySet DEF WindowInv, WindowRespected
  <2>3. waiters[b] \in Seq(Replicas)
    BY DEF WindowInv, IngestTypes
  <2>4. ASSUME waiters[b] # <<>>
        PROVE  FALSE
    <3>1. 1 \in DOMAIN waiters[b] /\ waiters[b][1] \in Replicas
      BY <2>3, <2>4
    <3>2. task[waiters[b][1]] = "wait"
      BY <3>1 DEF WindowInv, WaitersWait
    <3> QED
      BY <3>1, <3>2, <1>3
  <2>5. waiters[b] = <<>>
    BY <2>4
  <2> QED
    BY <2>2, <2>5
<1>5. \A b \in Backends : CallsTo(b)' = {}
  BY <1>1 DEF CallsTo
<1>6. WindowRespected'
  <2>1. \A b \in Backends : inflights'[b] = 0 /\ Cardinality(CallsTo(b)') = 0
    BY <1>1, <1>4, <1>5, FS_EmptySet
  <2> QED
    BY <2>1, WindowAssumption DEF WindowRespected
<1>7. TasksMatchHandlers' /\ WaitersWait' /\ NoLostWakeup'
  BY <1>1, <1>4 DEF TasksMatchHandlers, WaitersWait, NoLostWakeup
<1> QED
  BY <1>2, <1>6, <1>7 DEF WindowInv

LEMMA StopKeeps == StopIngest => WindowInv'
<1> SUFFICES ASSUME StopIngest PROVE WindowInv'
  OBVIOUS
<1>1. IngestTypes'
  BY DEF StopIngest, IngestTypes, Tasks
<1>2. \A r \in Replicas : task'[r] = "none"
  BY DEF StopIngest
<1>3. \A b \in Backends : inflights'[b] = 0 /\ waiters'[b] = <<>> /\ CallsTo(b)' = {}
  BY <1>2 DEF StopIngest, CallsTo
<1>4. WindowRespected'
  <2>1. \A b \in Backends : inflights'[b] = 0 /\ Cardinality(CallsTo(b)') = 0
    BY <1>3, FS_EmptySet
  <2> QED
    BY <2>1, WindowAssumption DEF WindowRespected
<1>5. TasksMatchHandlers' /\ WaitersWait' /\ NoLostWakeup'
  BY <1>2, <1>3 DEF TasksMatchHandlers, WaitersWait, NoLostWakeup
<1> QED
  BY <1>1, <1>4, <1>5 DEF WindowInv
-----------------------------------------------------------------------------
LEMMA WindowInvStep == WindowInv /\ [IngestNext]_ingestVars => WindowInv'
<1> SUFFICES ASSUME WindowInv, [IngestNext]_ingestVars PROVE WindowInv'
  OBVIOUS
<1>1. CASE UNCHANGED ingestVars
  <2>1. \A b : CallsTo(b)' = CallsTo(b) /\ Starting(b)' = Starting(b)
    BY <1>1 DEF ingestVars, CallsTo, Starting
  <2>2. WindowRespected' /\ NoLostWakeup'
    BY <1>1, <2>1 DEF ingestVars, WindowInv, WindowRespected, NoLostWakeup
  <2>3. IngestTypes' /\ TasksMatchHandlers' /\ WaitersWait'
    BY <1>1 DEF ingestVars, WindowInv, IngestTypes, TasksMatchHandlers, WaitersWait
  <2> QED
    BY <2>2, <2>3 DEF WindowInv
<1>2. ASSUME NEW b \in Tablets, Handle(b)
      PROVE  WindowInv'
  BY <1>2, LaunchKeeps DEF Handle
<1>3. ASSUME NEW b \in Tablets, NEW err \in {"error", "meta"}, HandleFails(b, err)
      PROVE  WindowInv'
  <2>1. PICK rs \in SUBSET TasksOf(b) \ {TasksOf(b)} : Launch(rs)
    BY <1>3 DEF HandleFails
  <2> QED
    BY <2>1, <1>3, LaunchKeeps DEF HandleFails
<1>4. ASSUME NEW b \in Tablets, FinishHandler(b)
      PROVE  WindowInv'
  BY <1>4, FinishKeeps
<1>5. ASSUME NEW r \in Replicas, Acquire(r)
      PROVE  WindowInv'
  BY <1>5, AcquireKeeps
<1>6. ASSUME NEW r \in Replicas, IngestReplica(r) \/ IngestReplicaFails(r)
      PROVE  WindowInv'
  BY <1>6, ReleaseKeeps DEF IngestReplica, IngestReplicaFails
<1>7. CASE StopIngest
  BY <1>7, StopKeeps
<1>8. ASSUME NEW tables \in SUBSET {r.table : r \in Replicas}, IngestDone, StartIngest(tables)
      PROVE  WindowInv'
  BY <1>8, StartKeeps
<1> QED
  BY <1>1, <1>2, <1>3, <1>4, <1>5, <1>6, <1>7, <1>8 DEF IngestNext, IngestStep, IngestFault

\* The windows of an ingest job, for any replicas and any flag: Acquire and Release of
\* pkg/rpc/concurrency.go, called by the goroutines of ingest_binlog_job.go.
THEOREM WindowsHold == IngestSpec => []WindowInv
<1> QED
  BY NoIngestIsInv, WindowInvStep, PTL DEF IngestSpec

\* A backend never has more calls than the flag allows, and the window counts them.
THEOREM BackendsNotOverrun == IngestSpec => []WindowRespected
<1>1. WindowInv => WindowRespected
  BY DEF WindowInv
<1> QED
  BY <1>1, WindowsHold, PTL

\* A goroutine that waits for a window is never left waiting while the window has room.
THEOREM WaitersWoken == IngestSpec => []NoLostWakeup
<1>1. WindowInv => NoLostWakeup
  BY DEF WindowInv
<1> QED
  BY <1>1, WindowsHold, PTL
-----------------------------------------------------------------------------
(* The job that uses them. *)

\* The job waits for the ingest job it has started.
IngestQuiet == pc # "ingest" => IngestDone

\* A call of handleUpsert never returns into the ingest job, unless it was a rollback.
LEMMA ReturnsTo ==
    \A p : Returns(p) => pc' \in {"idle", "handled"} \/ pc' = pc
BY DEF Returns, Goto

\* The same of a call that fails.
LEMMA FailsTo ==
    \A p, err : Fails(p, err) => pc' \in {"idle", "upsert"}
BY DEF Fails, Goto

\* The same of a call that fails and is to be rolled back.
LEMMA RollsBackTo ==
    \A err : FailsAndRollsBack(err) => pc' \in {"idle", "upsert"}
BY FailsTo DEF FailsAndRollsBack

\* Whether the ingest job has ended depends on its own variables only.
LEMMA DoneIsKept == UNCHANGED ingestVars => IngestDone' = IngestDone
BY DEF ingestVars, IngestDone

\* The actions that leave the ingest job alone: none of them leaves the wait for it before its
\* end, and none begins to wait.
LEMMA LeavesIngestAlone ==
    ASSUME \/ RecoverIncrementalSync \/ EnterLoop \/ GetBinlog \/ NoMoreBinlogs
           \/ GetBinlogFails \/ EndOfBatch \/ HandleBinlog
           \/ BuildUpsert \/ SkipUpsert \/ BuildUpsertFails
           \/ BeginTxn \/ BeginTxnFails \/ BeginTxnTableNotFound
           \/ ApplyDropRollup \/ TriggerPartialSnapshot \/ PrepareFails \/ IngestEnds
           \/ CommitTxn \/ CommitTxnFails \/ CommitDone
           \/ RollbackTxn \/ RollbackTxnFails
           \/ HandleCommittedBinlog \/ ExecuteDropRollup \/ DropRollupNotFound
           \/ HandleBinlogFails \/ HandleAlterJob \/ StartPartialSnapshot \/ FinishBinlog
           \/ FinishFullSync \/ FinishPartialSync
           \/ SourceWrites \/ TargetAborts \/ TargetReplacesTable,
           IngestQuiet
    PROVE  UNCHANGED ingestVars /\ IngestQuiet'
<1>1. ASSUME UNCHANGED ingestVars, pc = "ingest" => pc' = "ingest" \/ IngestDone
      PROVE  UNCHANGED ingestVars /\ IngestQuiet'
  BY <1>1, DoneIsKept DEF IngestQuiet
<1> USE DEF Goto, AtUpsert, Unchanged
<1>2. CASE RecoverIncrementalSync \/ EnterLoop \/ GetBinlog \/ NoMoreBinlogs
           \/ GetBinlogFails \/ EndOfBatch \/ HandleBinlog
  BY <1>1, <1>2
     DEF RecoverIncrementalSync, EnterLoop, GetBinlog, NoMoreBinlogs, GetBinlogFails,
         EndOfBatch, HandleBinlog
<1>3. CASE BuildUpsert \/ SkipUpsert \/ BuildUpsertFails \/ BeginTxn \/ BeginTxnFails
           \/ BeginTxnTableNotFound \/ ApplyDropRollup \/ TriggerPartialSnapshot \/ PrepareFails
  BY <1>1, <1>3
     DEF BuildUpsert, SkipUpsert, BuildUpsertFails, BeginTxn, BeginTxnFails,
         BeginTxnTableNotFound, ApplyDropRollup, TriggerPartialSnapshot, PrepareFails
<1>4. CASE IngestEnds
  BY <1>1, <1>4 DEF IngestEnds
<1>5. CASE CommitTxn \/ CommitTxnFails \/ CommitDone \/ RollbackTxn \/ RollbackTxnFails
  BY <1>1, <1>5 DEF CommitTxn, CommitTxnFails, CommitDone, RollbackTxn, RollbackTxnFails
<1>6. CASE HandleCommittedBinlog \/ ExecuteDropRollup \/ DropRollupNotFound
           \/ HandleBinlogFails \/ HandleAlterJob
  BY <1>1, <1>6
     DEF HandleCommittedBinlog, ExecuteDropRollup, DropRollupNotFound, HandleBinlogFails,
         HandleAlterJob, DropsRollup, Handling
<1>7. CASE StartPartialSnapshot \/ FinishBinlog \/ FinishFullSync \/ FinishPartialSync
  BY <1>1, <1>7 DEF StartPartialSnapshot, FinishBinlog, FinishFullSync, FinishPartialSync
<1>8. CASE SourceWrites \/ TargetAborts \/ TargetReplacesTable
  BY <1>1, <1>8 DEF SourceWrites, TargetAborts, TargetReplacesTable
<1> QED
  BY <1>2, <1>3, <1>4, <1>5, <1>6, <1>7, <1>8
-----------------------------------------------------------------------------
\* A job for some tables is one for those of them that have a replica at the target.
LEMMA StartsForKnownTables ==
    ASSUME NEW tables, StartIngest(tables)
    PROVE  \E ts \in SUBSET {r.table : r \in Replicas} : StartIngest(ts)
<1> DEFINE ts == tables \cap {r.table : r \in Replicas}
<1>1. ReplicasOf(ts) = ReplicasOf(tables)
  BY DEF ReplicasOf
<1>2. StartIngest(ts)
  BY <1>1 DEF StartIngest
<1> QED
  BY <1>2

\* The job starts an ingest job, when none runs, and waits for it.
LEMMA IngestBegins == Ingest /\ IngestQuiet => IngestNext /\ IngestQuiet'
<1> SUFFICES ASSUME Ingest, IngestQuiet PROVE IngestNext /\ IngestQuiet'
  OBVIOUS
<1>1. /\ pc = "upsert" /\ pc' = "ingest"
      /\ StartIngest(Data.tables)
  BY DEF Ingest, AtUpsert, Goto
<1>2. IngestDone /\ IngestQuiet'
  BY <1>1 DEF IngestQuiet
<1> QED
  BY <1>1, <1>2, StartsForKnownTables DEF IngestNext

\* The goroutines of the ingest job go on.
LEMMA IngestGoesOn == IngestRuns => IngestNext /\ IngestQuiet'
<1> SUFFICES ASSUME IngestRuns PROVE IngestNext /\ IngestQuiet'
  OBVIOUS
<1>1. IngestQuiet'
  BY DEF IngestRuns, IngestQuiet
<1>2. IngestStep \/ IngestFault
  BY DEF IngestRuns, IngestFault
<1> QED
  BY <1>1, <1>2 DEF IngestNext

\* A crash stops the goroutines of the ingest job.
LEMMA CrashStopsIngest == Crash => IngestNext /\ IngestQuiet'
<1> SUFFICES ASSUME Crash PROVE IngestNext /\ IngestQuiet'
  OBVIOUS
<1>1. StopIngest
  BY DEF Crash
<1>2. IngestDone'
  BY <1>1 DEF StopIngest, IngestDone
<1> QED
  BY <1>1, <1>2 DEF IngestNext, IngestQuiet

\* Every step of the incremental sync is one of the ingest jobs, or leaves them alone.
LEMMA StepIsIngestStep ==
    IngestQuiet /\ [IncNext]_incVars => [IngestNext]_ingestVars /\ IngestQuiet'
<1> SUFFICES ASSUME IngestQuiet, [IncNext]_incVars
             PROVE  [IngestNext]_ingestVars /\ IngestQuiet'
  OBVIOUS
<1>1. CASE Ingest
  BY <1>1, IngestBegins
<1>2. CASE JobStep /\ ~Ingest
  BY <1>2, LeavesIngestAlone DEF JobStep, UpsertStep
<1>3. CASE IngestRuns
  BY <1>3, IngestGoesOn
<1>4. CASE SourceWrites \/ TargetAborts \/ TargetReplacesTable
  BY <1>4, LeavesIngestAlone
<1>5. CASE Crash
  BY <1>5, CrashStopsIngest
<1>6. CASE UNCHANGED incVars
  <2>1. UNCHANGED ingestVars /\ pc' = pc
    BY <1>6 DEF incVars, ingestVars
  <2> QED
    BY <2>1, DoneIsKept DEF IngestQuiet
<1> QED
  BY <1>1, <1>2, <1>3, <1>4, <1>5, <1>6 DEF IncNext, JobAction, IngestAction, Environment

\* No ingest job runs at the start.
LEMMA InitIsIngestInit == IncInit => NoIngest /\ IngestQuiet
BY DEF IncInit, NoIngest, IngestQuiet, IngestDone

\* Incremental sync implements the ingest jobs: handleUpsert, its retry and its rollback, the
\* snapshots and the restarts only start a job of prepareTable and wait for its end.
THEOREM ImplementsIngest == IncSpec => IngestSpec
<1>1. IncInit => NoIngest /\ IngestQuiet
  BY InitIsIngestInit
<1>2. IngestQuiet /\ [IncNext]_incVars => [IngestNext]_ingestVars /\ IngestQuiet'
  BY StepIsIngestStep
<1> QED
  BY <1>1, <1>2, PTL DEF IncSpec, IngestSpec

\* The invariants of the ingest windows, in every run of the incremental sync.
THEOREM WindowsHoldInSync == IncSpec => [](WindowRespected /\ NoLostWakeup)
BY ImplementsIngest, BackendsNotOverrun, WaitersWoken, PTL
-----------------------------------------------------------------------------
(* The inductive invariant. *)

\* What binlog r does to table t has taken effect at the target.
HandledFor(t, r) == /\ t \in log[r].tables => Covered(t, r)
                    /\ log[r].rollup = t => t \notin rollups

\* The target has every binlog up to c.
Passed(c) == \A r \in 1..c : \A t \in Tables : HandledFor(t, r)

\* Progress x waits for a snapshot.
Snapshotting(x) == x.subSyncState = "BeginCreateSnapshot"

\* The binlogs that a snapshot which is asked for has, or that there are.
Seen == IF Snapshotting(disk) THEN asked ELSE Len(log)

\* The sub sync states of a txn that the target knows.
BegunStates == UpsertStates \ {"BeginTransaction"}

\* The data of the txn of progress x, as Loaded finds it.
Current(x) == IF x.inMemoryData = Nil THEN x.persistData ELSE x.inMemoryData

\* The indexes d leaves out are gone from the target, and no snapshot brings them back.
SkippedGone(d) == \A t \in d.skipped : t \notin rollups /\ \E r \in 1..Seen : log[r].rollup = t

\* The types of what is not the progress.
PlainTypes ==
    /\ log \in Seq(Binlogs) /\ Len(log) \in Seqs
    /\ dest \in [Tables -> [base : Seqs, applied : Seq(Seqs)]]
    /\ rollups \subseteq Tables
    /\ txns \in Seq(Txns) /\ Len(txns) <= MaxTxn
    /\ locked \in Seqs /\ asked \in Seqs
    /\ pc \in {"idle", "loop", "batch", "upsert", "ingest", "committed", "ddl", "handled"}
    /\ batch \in [pos : Seqs, next : Seqs]
    /\ attempt \in {"recover", "first", "rollback", "second"}
    /\ extra \in [applied : SUBSET Seqs, partialTable : Tables \cup {Nil}]
    /\ retried \in BOOLEAN /\ budget \in 0..MaxFaults
    /\ infos \subseteq Replicas /\ jobErr \in {"ok", "error", "meta"}

\* The types, and what the row and the progress of the process share.
Typed ==
    /\ PlainTypes
    /\ prog \in IncProgress /\ disk \in IncProgress
    /\ ckpt = disk.prevCommitSeq /\ prog.prevCommitSeq = ckpt /\ disk.inMemoryData = Nil

\* The target has no binlog that was not seen at the source, and has every one that the
\* checkpoint has passed.
TargetInv ==
    /\ \A t \in Tables : /\ dest[t].base <= Seen
                         /\ \A i \in DOMAIN dest[t].applied : dest[t].applied[i] \in 1..Seen
    /\ ckpt <= Seen /\ Passed(ckpt) /\ locked <= ckpt /\ asked <= Len(log)

\* A txn x that is committed has been applied, as a whole.
CommittedOK(x) ==
    x.status = "COMMITTED" =>
        /\ x.data.seq \in 1..Seen
        /\ \A t \in x.data.tables : Covered(t, x.data.seq)
        /\ x.data.infos = ReplicasOf(x.data.tables)
        /\ SkippedGone(x.data)

\* Every committed txn of the target is so.
CommittedInv == \A i \in DOMAIN txns : CommittedOK(txns[i])

\* The drops that were applied before their turn have taken effect.
ExtraInv ==
    \A s \in extra.applied :
        s \in 1..Seen /\ log[s].kind = "DROP_ROLLUP" /\ log[s].rollup \notin rollups

\* The txn of progress x, with the data d.
TxnOK(x, d) ==
    /\ d \in TxnData /\ d.seq \in 1..Seen /\ x.commitSeq <= d.seq /\ log[d.seq].kind = "UPSERT"
    /\ d.tables \subseteq log[d.seq].tables
    /\ Passed(d.seq - 1) /\ \A t \in Tables \ d.tables : HandledFor(t, d.seq)
    /\ ~retried => x.commitSeq = d.seq /\ x.prevCommitSeq < d.seq
    /\ x.subSyncState # "BeginTransaction" =>
          /\ d.txnId \in DOMAIN txns
          /\ txns[d.txnId].data.seq = d.seq /\ txns[d.txnId].data.tables = d.tables
    /\ x.subSyncState = "CommitTransaction" => d.infos = ReplicasOf(d.tables) /\ SkippedGone(d)

\* A partial sync is of one table, and the others have what progress x has passed.
SnapshotOK(x) ==
    /\ x.syncState \in {"DBFullSync", "DBPartialSync"} <=> Snapshotting(x)
    /\ x.syncState = "DBPartialSync" =>
          /\ x.partialTable \in Tables
          /\ \A t \in Tables \ {x.partialTable} : \A r \in 1..x.commitSeq : HandledFor(t, r)

\* What TableCommitSeqMap says a table has is at the target.
MapOK(x) ==
    \A t \in Tables : /\ x.tableCommitSeqMap[t] <= Seen
                      /\ \A r \in 1..x.tableCommitSeqMap[t] : HandledFor(t, r)

\* Without a retry nothing is applied above the checkpoint but by the txn of x.
OnceOK(x) ==
    ~retried /\ x.syncState # "DBFullSync" =>
        \A t \in Tables : \A i \in DOMAIN dest[t].applied :
            dest[t].applied[i] > x.prevCommitSeq =>
               /\ x.subSyncState \in BegunStates /\ dest[t].applied[i] = Current(x).seq
               /\ txns[Current(x).txnId].status = "COMMITTED"

\* What progress x says is so at the target.
Fit(x) ==
    /\ x.prevCommitSeq <= x.commitSeq /\ x.commitSeq <= Seen
    /\ SnapshotOK(x) /\ MapOK(x)
    /\ x.subSyncState \in UpsertStates => TxnOK(x, Current(x))

\* Progress x, the one of the process or the one of the row, is right of the target.
ProgressOK(x) == Fit(x) /\ OnceOK(x)

\* The row d of progress p is that of the same txn, if p has begun one.
RowFollows(p, d) ==
    /\ Snapshotting(p) <=> Snapshotting(d)
    /\ p.subSyncState \in BegunStates => /\ d.subSyncState = p.subSyncState
                                   /\ d.persistData.seq = Current(p).seq
                                   /\ d.persistData.txnId = Current(p).txnId

\* The job is in handleUpsert.
InUpsert(c) == c \in {"upsert", "ingest", "committed"}

\* A handler of the binlog Binlog runs, or has ended.
Handler == pc \in {"ddl", "handled"} \/ (InUpsert(pc) /\ attempt # "recover")

\* What is so where the job is: which binlog it handles, what it has passed, which call of
\* handleUpsert runs, and which states of the progress can be met there.
PlaceOK ==
    /\ Snapshotting(prog) => pc = "idle"
    /\ pc \in {"loop", "batch"} => Method!IsDone(prog)
    /\ pc = "batch" => /\ ckpt <= batch.pos /\ batch.pos <= batch.next /\ batch.next <= Len(log)
                       /\ Passed(batch.pos)
    /\ InUpsert(pc) => (attempt = "recover" => InTxn) /\ (InTxn => prog.inMemoryData # Nil)
    /\ InUpsert(pc) /\ attempt = "rollback" => prog.subSyncState = "RollbackTransaction"
    /\ Handler => /\ Passed(batch.pos) /\ batch.pos < batch.next /\ batch.next <= Len(log)
                  /\ prog.commitSeq <= Binlog /\ (InTxn => Current(prog).seq = Binlog)
    /\ pc = "upsert" /\ prog.subSyncState = "Done" =>
          /\ log[Binlog].kind = "UPSERT"
          /\ ~retried => prog.commitSeq = Binlog /\ ckpt < Binlog
    /\ pc = "upsert" /\ prog.subSyncState = "RollbackTransaction" /\ attempt \in {"first", "second"}
          => extra.partialTable # Nil
    /\ pc = "ingest" => prog.subSyncState = "IngestBinlog" /\ SkippedGone(prog.inMemoryData)
    /\ pc = "committed" => /\ prog.subSyncState = "CommitTransaction"
                           /\ txns[prog.inMemoryData.txnId].status = "COMMITTED"
    /\ pc = "ddl" => /\ prog.subSyncState = "Done" /\ log[Binlog].kind # "UPSERT"
                     /\ prog.commitSeq = Binlog
    /\ pc = "handled" => /\ prog.subSyncState = "Done" /\ Passed(prog.commitSeq)
                         /\ extra.partialTable = Nil => Passed(Binlog)

\* Without a retry no binlog is applied twice.
OnceInv == ~retried => \A t \in Tables : IsInjective(dest[t].applied)

\* While no goroutine has failed, the job has the infos of the tablets that are done, and the
\* goroutines of the others, which are all of the tables of the txn, have not failed.
IngestTracks(tables) ==
    jobErr = "ok" =>
       /\ infos = {r \in ReplicasOf(tables) : handler[r.tablet] = "done"}
       /\ \A r \in Replicas : handler[r.tablet] = "running" =>
                                 task[r] \in {"start", "wait", "call", "ok"}
       /\ \A r \in Replicas : handler[r.tablet] # "done" => r \in ReplicasOf(tables)

\* While the job waits, the ingest job tracks the tables of the txn.
IngestInv == pc = "ingest" => IngestTracks(prog.inMemoryData.tables)

\* What does not depend on where the job is.
Core ==
    /\ Typed /\ TargetInv /\ CommittedInv /\ ExtraInv /\ OnceInv
    /\ ProgressOK(prog) /\ ProgressOK(disk) /\ RowFollows(prog, disk)

\* The inductive invariant.
IncInv == Core /\ PlaceOK /\ IngestInv
-----------------------------------------------------------------------------
(* What the target has, it keeps. *)

\* What a step does to the snapshot that is asked for.
AskedRule == asked' = IF Asks THEN Len(log) ELSE asked

\* What has been seen at the source stays, and what of it is at the target.
Grows ==
    /\ Seen <= Seen'
    /\ \A r \in 1..Seen : log'[r] = log[r]
    /\ \A t \in Tables : \A r \in 1..Seen :
          /\ Covered(t, r) => Covered(t, r)'
          /\ log[r].rollup = t /\ t \notin rollups => t \notin rollups'

\* Txns are added or resolved.
TxnsKeep ==
    \A i \in DOMAIN txns :
        /\ i \in DOMAIN txns'
        /\ txns'[i].data.seq = txns[i].data.seq /\ txns'[i].data.tables = txns[i].data.tables
        /\ txns[i].status = "COMMITTED" => txns'[i] = txns[i]

\* The numbers of the types.
LEMMA Numbers ==
    ASSUME Typed
    PROVE  /\ Seen \in Nat /\ Len(log) \in Nat /\ asked \in Nat /\ ckpt \in Nat /\ locked \in Nat
           /\ batch.pos \in Nat /\ batch.next \in Nat
           /\ DOMAIN log = 1..Len(log) /\ DOMAIN txns = 1..Len(txns)
           /\ \A r \in 1..Len(log) : log[r] \in Binlogs
           /\ \A i \in DOMAIN txns : txns[i] \in Txns
<1>1. \A s \in Seqs : s \in Nat
  BY DEF Seqs
<1>2. ckpt \in Seqs
  BY DEF Typed, PlainTypes, IncProgress
<1>3. batch.pos \in Seqs /\ batch.next \in Seqs
  BY DEF Typed, PlainTypes
<1> QED
  BY <1>1, <1>2, <1>3 DEF Typed, PlainTypes, Seen

\* The numbers of a progress.
LEMMA ProgressNumbers ==
    ASSUME NEW x \in IncProgress
    PROVE  /\ x.commitSeq \in Nat /\ x.prevCommitSeq \in Nat
           /\ x.commitSeq \in Seqs /\ x.prevCommitSeq \in Seqs
           /\ \A t \in Tables : x.tableCommitSeqMap[t] \in Nat
<1>1. \A s \in Seqs : s \in Nat
  BY DEF Seqs
<1>2. x.commitSeq \in Seqs /\ x.prevCommitSeq \in Seqs /\ x.tableCommitSeqMap \in [Tables -> Seqs]
  BY DEF IncProgress
<1> QED
  BY <1>1, <1>2

\* The kinds of binlogs.
LEMMA BinlogFacts ==
    ASSUME NEW b \in Binlogs
    PROVE  /\ b.tables \subseteq Tables
           /\ b.kind \in Kinds /\ b.rollup \in Tables \cup {Nil}
           /\ b.kind = "DROP_ROLLUP" => b.tables = {} /\ b.rollup \in Tables
           /\ b.kind # "DROP_ROLLUP" => b.rollup = Nil /\ b.rollup \notin Tables
           /\ b.kind = "ALTER_JOB" => \E t \in Tables : b.tables = {t}
BY BinlogAssumption

\* What the target has, it keeps.
LEMMA HandledStays ==
    ASSUME Grows, NEW t \in Tables, NEW r \in 1..Seen, HandledFor(t, r)
    PROVE  HandledFor(t, r)'
BY DEF Grows, HandledFor

\* What is passed stays passed.
LEMMA PassedStays ==
    ASSUME Typed, Grows, NEW c \in Int, c <= Seen, Passed(c)
    PROVE  Passed(c)'
<1>1. ASSUME NEW r \in 1..c, NEW t \in Tables PROVE HandledFor(t, r)'
  <2>1. r \in 1..Seen
    BY Numbers
  <2> QED
    BY <2>1, HandledStays DEF Passed
<1> QED
  BY <1>1 DEF Passed

\* An index that is gone stays gone.
LEMMA GoneStays ==
    ASSUME Typed, Grows, Seen' \in Nat, NEW d, d.skipped \subseteq Tables, SkippedGone(d)
    PROVE  SkippedGone(d)'
<1>1. ASSUME NEW t \in d.skipped
      PROVE  t \notin rollups' /\ \E r \in 1..Seen' : log'[r].rollup = t
  <2>1. PICK r \in 1..Seen : log[r].rollup = t
    BY DEF SkippedGone
  <2>2. t \notin rollups'
    BY <2>1 DEF SkippedGone, Grows
  <2>3. r \in 1..Seen' /\ log'[r].rollup = t
    BY <2>1, Numbers DEF Grows
  <2> QED
    BY <2>2, <2>3
<1> QED
  BY <1>1 DEF SkippedGone

\* A txn stays right while the target only grows.
LEMMA TxnStays ==
    ASSUME Typed, Grows, TxnsKeep, Seen' \in Nat, retried => retried',
           NEW x \in IncProgress, NEW d, TxnOK(x, d)
    PROVE  TxnOK(x, d)'
<1>1. /\ d \in TxnData /\ d.seq \in 1..Seen /\ d.seq \in Nat /\ d.tables \subseteq Tables
      /\ d.skipped \subseteq Tables
  BY DEF TxnOK, TxnData
<1>2. d.seq \in 1..Seen' /\ log'[d.seq] = log[d.seq]
  BY <1>1, Numbers DEF Grows
<1>3. Passed(d.seq - 1)'
  <2>1. Passed(d.seq - 1) /\ d.seq - 1 \in Int /\ d.seq - 1 <= Seen
    BY <1>1, Numbers DEF TxnOK
  <2> QED
    BY <2>1, PassedStays
<1>4. \A t \in Tables \ d.tables : HandledFor(t, d.seq)'
  BY <1>1, HandledStays DEF TxnOK
<1>5. SkippedGone(d) => SkippedGone(d)'
  BY <1>1, GoneStays
<1>6. x.subSyncState # "BeginTransaction" =>
          /\ d.txnId \in DOMAIN txns'
          /\ txns'[d.txnId].data.seq = d.seq /\ txns'[d.txnId].data.tables = d.tables
  BY DEF TxnOK, TxnsKeep
<1>7. x.subSyncState = "CommitTransaction" => d.infos = ReplicasOf(d.tables) /\ SkippedGone(d)'
  BY <1>5 DEF TxnOK
<1>8. ~retried' => x.commitSeq = d.seq /\ x.prevCommitSeq < d.seq
  BY DEF TxnOK
<1>9. /\ x.commitSeq <= d.seq /\ log'[d.seq].kind = "UPSERT"
      /\ d.tables \subseteq log'[d.seq].tables
  BY <1>2 DEF TxnOK
<1> QED
  BY <1>1, <1>2, <1>3, <1>4, <1>6, <1>7, <1>8, <1>9 DEF TxnOK

\* A snapshot that is asked for stays right while the target only grows.
LEMMA SnapshotStays ==
    ASSUME Typed, Grows, NEW x \in IncProgress, x.commitSeq <= Seen, SnapshotOK(x)
    PROVE  SnapshotOK(x)'
<1>1. ASSUME NEW t \in Tables, NEW r \in 1..x.commitSeq, HandledFor(t, r)
      PROVE  HandledFor(t, r)'
  <2>1. r \in 1..Seen
    BY Numbers, ProgressNumbers
  <2> QED
    BY <1>1, <2>1, HandledStays
<1> QED
  BY <1>1 DEF SnapshotOK, Snapshotting

\* TableCommitSeqMap stays right while the target only grows.
LEMMA MapStays ==
    ASSUME Typed, Grows, Seen' \in Nat, NEW x \in IncProgress, MapOK(x)
    PROVE  MapOK(x)'
<1> SUFFICES ASSUME NEW t \in Tables
             PROVE  /\ x.tableCommitSeqMap[t] <= Seen'
                    /\ \A r \in 1..x.tableCommitSeqMap[t] : HandledFor(t, r)'
  BY DEF MapOK
<1>1. PICK m : m = x.tableCommitSeqMap[t]
  OBVIOUS
<1>2. m \in Nat /\ m <= Seen /\ \A r \in 1..m : HandledFor(t, r)
  BY <1>1, ProgressNumbers DEF MapOK
<1>3. m <= Seen'
  BY <1>2, Numbers DEF Grows
<1>4. \A r \in 1..m : r \in 1..Seen
  BY <1>2, Numbers
<1>5. \A r \in 1..m : HandledFor(t, r)'
  BY <1>2, <1>4, HandledStays
<1> QED
  BY <1>1, <1>3, <1>5

\* A progress stays fit for the target.
LEMMA FitStays ==
    ASSUME Typed, Grows, TxnsKeep, Seen' \in Nat, retried => retried',
           NEW x \in IncProgress, Fit(x)
    PROVE  Fit(x)'
<1>1. x.commitSeq <= Seen'
  BY Numbers, ProgressNumbers DEF Fit, Grows
<1>2. SnapshotOK(x)' /\ MapOK(x)'
  BY SnapshotStays, MapStays DEF Fit
<1>3. x.subSyncState \in UpsertStates => TxnOK(x, Current(x))'
  BY TxnStays DEF Fit, Current
<1> QED
  BY <1>1, <1>2, <1>3 DEF Fit, Current

\* And nothing is applied above it when nothing is applied.
LEMMA ProgressStays ==
    ASSUME Typed, Grows, TxnsKeep, Seen' \in Nat, retried => retried', dest' = dest,
           NEW x \in IncProgress, ProgressOK(x)
    PROVE  ProgressOK(x)'
<1>1. Fit(x) /\ Fit(x)'
  BY FitStays DEF ProgressOK
<1>2. OnceOK(x)'
  <2>1. ASSUME x.subSyncState \in BegunStates, txns[Current(x).txnId].status = "COMMITTED"
        PROVE  txns'[Current(x).txnId].status = "COMMITTED"
    BY <1>1, <2>1 DEF Fit, TxnOK, TxnsKeep, BegunStates
  <2> QED
    BY <2>1 DEF ProgressOK, OnceOK, Current
<1> QED
  BY <1>1, <1>2 DEF ProgressOK

\* What is seen only grows: a snapshot that is asked for has all there is when it is asked for.
LEMMA SeenGrows ==
    ASSUME Typed, TargetInv, AskedRule, disk' \in IncProgress,
           log' = log \/ \E b \in Binlogs : log' = Append(log, b)
    PROVE  /\ Seen <= Seen' /\ Seen' \in Nat /\ Seen' <= Len(log')
           /\ \A r \in 1..Seen : log'[r] = log[r]
<1>1. /\ Len(log) \in Nat /\ asked \in Nat /\ asked <= Len(log) /\ log \in Seq(Binlogs)
  BY Numbers DEF TargetInv, Typed, PlainTypes
<1>2. /\ Len(log') \in Nat /\ Len(log) <= Len(log') /\ \A r \in 1..Len(log) : log'[r] = log[r]
  BY <1>1
<1>3. CASE Snapshotting(disk')
  <2>1. asked' = IF Snapshotting(disk) THEN asked ELSE Len(log)
    BY <1>3 DEF AskedRule, Asks, Snapshotting
  <2>2. Seen' = asked'
    BY <1>3 DEF Seen, Snapshotting
  <2> QED
    BY <1>1, <1>2, <2>1, <2>2 DEF Seen
<1>4. CASE ~Snapshotting(disk')
  <2>1. Seen' = Len(log')
    BY <1>4 DEF Seen, Snapshotting
  <2> QED
    BY <1>1, <1>2, <2>1 DEF Seen
<1> QED
  BY <1>3, <1>4

\* The tables of the target are as they were.
LEMMA QuietGrows ==
    ASSUME Typed, TargetInv, AskedRule, disk' \in IncProgress, dest' = dest,
           rollups' \subseteq rollups,
           log' = log \/ \E b \in Binlogs : log' = Append(log, b)
    PROVE  Grows /\ Seen' \in Nat /\ Seen' <= Len(log')
BY SeenGrows DEF Grows, Covered

\* A committed txn stays applied while the target only grows.
LEMMA CommittedStays ==
    ASSUME Typed, Grows, Seen' \in Nat, NEW x \in Txns, CommittedOK(x)
    PROVE  CommittedOK(x)'
<1> SUFFICES ASSUME x.status = "COMMITTED"
             PROVE  /\ x.data.seq \in 1..Seen'
                    /\ \A t \in x.data.tables : Covered(t, x.data.seq)'
                    /\ x.data.infos = ReplicasOf(x.data.tables)
                    /\ SkippedGone(x.data)'
  BY DEF CommittedOK
<1>1. x.data \in TxnData /\ x.data.tables \subseteq Tables /\ x.data.skipped \subseteq Tables
  BY DEF Txns, TxnData
<1>2. SkippedGone(x.data)'
  BY <1>1, GoneStays DEF CommittedOK
<1>3. x.data.seq \in 1..Seen /\ x.data.seq \in 1..Seen'
  BY Numbers DEF CommittedOK, Grows
<1>4. \A t \in x.data.tables : Covered(t, x.data.seq)'
  BY <1>1, <1>3 DEF CommittedOK, Grows
<1> QED
  BY <1>2, <1>3, <1>4 DEF CommittedOK

\* The binlogs that are applied ahead of their turn stay so, or become so.
ExtraFollows ==
    \A s \in extra'.applied :
        \/ s \in extra.applied
        \/ s \in 1..Seen /\ log[s].kind = "DROP_ROLLUP" /\ log[s].rollup \notin rollups'

\* A drop that was applied stays so while the target only grows.
LEMMA ExtraStays ==
    ASSUME Typed, TargetInv, Grows, Seen' \in Nat, ExtraInv, ExtraFollows
    PROVE  ExtraInv'
<1>1. ASSUME NEW s \in extra'.applied
      PROVE  s \in 1..Seen' /\ log'[s].kind = "DROP_ROLLUP" /\ log'[s].rollup \notin rollups'
  <2>1. s \in 1..Seen /\ log[s].kind = "DROP_ROLLUP"
    BY DEF ExtraInv, ExtraFollows
  <2>2. s \in 1..Len(log)
    BY <2>1, Numbers DEF TargetInv, Seen
  <2>3. log[s].rollup \in Tables
    BY <2>1, <2>2, Numbers, BinlogFacts
  <2>4. log[s].rollup \notin rollups'
    <3>1. CASE s \in extra.applied
      BY <2>1, <2>3, <3>1 DEF Grows, ExtraInv
    <3>2. CASE s \notin extra.applied
      BY <3>2 DEF ExtraFollows
    <3> QED
      BY <3>1, <3>2
  <2> QED
    BY <2>1, <2>4, Numbers DEF Grows
<1> QED
  BY <1>1 DEF ExtraInv

\* What is left to show of a step that changes no table, and commits no txn.
LEMMA QuietTarget ==
    ASSUME Core, Typed', AskedRule, dest' = dest, rollups' \subseteq rollups,
           log' = log \/ \E b \in Binlogs : log' = Append(log, b),
           \A i \in DOMAIN txns' : \/ i \in DOMAIN txns /\ txns'[i] = txns[i]
                                   \/ txns'[i].status # "COMMITTED",
           retried => retried', ExtraFollows,
           NEW c, c = ckpt', ckpt <= c, c <= Seen, Passed(c), locked' <= c
    PROVE  TargetInv' /\ CommittedInv' /\ ExtraInv' /\ OnceInv'
<1>1. Typed /\ TargetInv /\ CommittedInv /\ ExtraInv /\ OnceInv /\ disk' \in IncProgress
  BY DEF Core, Typed
<1>2. Grows /\ Seen' \in Nat /\ Seen' <= Len(log') /\ Seen <= Seen'
  BY <1>1, QuietGrows DEF Grows
<1>3. TargetInv'
  <2>1. \A t \in Tables : /\ dest[t].base \in Nat
                          /\ \A i \in DOMAIN dest[t].applied : dest[t].applied[i] \in Nat
    <3>1. \A s \in Seqs : s \in Nat
      BY DEF Seqs
    <3>2. dest \in [Tables -> [base : Seqs, applied : Seq(Seqs)]]
      BY <1>1 DEF Typed, PlainTypes
    <3>3. \A t \in Tables : dest[t].base \in Seqs /\ dest[t].applied \in Seq(Seqs)
      BY <3>2
    <3> QED
      BY <3>1, <3>3
  <2>2. \A t \in Tables :
           /\ dest'[t].base <= Seen'
           /\ \A i \in DOMAIN dest'[t].applied : dest'[t].applied[i] \in 1..Seen'
    BY <1>1, <1>2, <2>1, Numbers DEF TargetInv
  <2>3. ckpt' \in Nat
    <3>1. ckpt' = disk'.prevCommitSeq
      BY DEF Typed, PlainTypes
    <3> QED
      BY <1>1, <3>1, ProgressNumbers
  <2>4. Passed(ckpt)'
    <3>1. Passed(c)'
      BY <1>1, <1>2, <2>3, PassedStays
    <3> QED
      BY <3>1 DEF Passed
  <2>5. asked' <= Len(log')
    <3>1. asked <= Len(log) /\ asked \in Nat /\ Len(log) \in Nat
      BY <1>1, Numbers DEF TargetInv
    <3>2. Len(log') \in Nat /\ Len(log) <= Len(log')
      BY <1>1 DEF Typed, PlainTypes
    <3> QED
      BY <3>1, <3>2 DEF AskedRule
  <2>6. ckpt' <= Seen'
    BY <1>1, <1>2, <2>3, Numbers
  <2> QED
    BY <2>2, <2>4, <2>5, <2>6 DEF TargetInv
<1>4. CommittedInv'
  <2>1. ASSUME NEW i \in DOMAIN txns', NEW x, x = txns'[i] PROVE CommittedOK(x)'
    <3>1. CASE x.status # "COMMITTED"
      BY <3>1 DEF CommittedOK
    <3>2. CASE i \in DOMAIN txns /\ x = txns[i]
      <4>1. x \in Txns /\ CommittedOK(x)
        BY <1>1, <3>2, Numbers DEF CommittedInv
      <4> QED
        BY <1>1, <1>2, <4>1, CommittedStays
    <3> QED
      BY <2>1, <3>1, <3>2
  <2> QED
    BY <2>1 DEF CommittedInv, CommittedOK, SkippedGone, Covered
<1>5. ExtraInv'
  BY <1>1, <1>2, ExtraStays
<1>6. OnceInv'
  BY <1>1 DEF OnceInv
<1> QED
  BY <1>3, <1>4, <1>5, <1>6
-----------------------------------------------------------------------------
(* The progresses that the methods make. *)

\* The methods of the progress, field by field.
LEMMA RolledBackIs ==
    ASSUME NEW p \in IncProgress, NEW q, q = RolledBack(p)
    PROVE  /\ q \in IncProgress /\ q.subSyncState = "Done"
           /\ q.commitSeq = p.prevCommitSeq /\ q.prevCommitSeq = p.prevCommitSeq
           /\ q.syncState = p.syncState /\ q.tableCommitSeqMap = p.tableCommitSeqMap
           /\ q.partialTable = p.partialTable /\ q.inMemoryData = Nil /\ q.persistData = Nil
BY DEF RolledBack, Cleared, Method!Rollback, IncProgress

\* The progress after committed.
LEMMA CommittedIs ==
    ASSUME NEW p \in IncProgress, p.inMemoryData \in TxnData, p.inMemoryData.txnId # 0,
           NEW q, q = Committed(p)
    PROVE  /\ q \in IncProgress /\ q.subSyncState = "Done"
           /\ q.commitSeq = p.commitSeq /\ q.prevCommitSeq = p.commitSeq
           /\ q.syncState = p.syncState /\ q.tableCommitSeqMap = RaiseTableCommitSeq(p)
           /\ q.partialTable = p.partialTable /\ q.inMemoryData = Nil /\ q.persistData = Nil
<1>1. PICK m : m = RaiseTableCommitSeq(p)
  OBVIOUS
<1>2. m \in [Tables -> Seqs]
  <2>1. p.tableCommitSeqMap \in [Tables -> Seqs] /\ p.commitSeq \in Seqs
    BY DEF IncProgress
  <2> QED
    BY <1>1, <2>1 DEF RaiseTableCommitSeq
<1>3. PICK i : i = p.inMemoryData.txnId
  OBVIOUS
<1>4. i \in {-1} \cup 1..MaxTxn
  <2>1. i \in 0..MaxTxn /\ i # 0
    BY <1>3 DEF TxnData
  <2> QED
    BY <2>1, IncrementalAssumption
<1>5. PICK r : r = [p EXCEPT !.prevTxnId = i, !.tableCommitSeqMap = m]
  OBVIOUS
<1>6. /\ r \in IncProgress /\ r.commitSeq = p.commitSeq /\ r.syncState = p.syncState
      /\ r.tableCommitSeqMap = m /\ r.partialTable = p.partialTable
  BY <1>2, <1>4, <1>5 DEF IncProgress
<1>7. q = Cleared(Method!Done(r))
  BY <1>1, <1>3, <1>5 DEF Committed
<1> QED
  BY <1>1, <1>6, <1>7 DEF Cleared, Method!Done, IncProgress

\* The progress after NextSubCheckpoint.
LEMMA CheckpointIs ==
    ASSUME NEW p \in IncProgress, NEW sub \in UpsertStates, NEW q, q = SubCheckpoint(p, sub)
    PROVE  /\ q \in IncProgress /\ q.subSyncState = sub /\ q.persistData = p.inMemoryData
           /\ q.commitSeq = p.commitSeq /\ q.prevCommitSeq = p.prevCommitSeq
           /\ q.syncState = p.syncState /\ q.tableCommitSeqMap = p.tableCommitSeqMap
           /\ q.partialTable = p.partialTable /\ q.inMemoryData = p.inMemoryData
BY DEF SubCheckpoint, Method!NextSubCheckpoint, IncProgress

\* The row of a progress.
LEMMA PersistedIs ==
    ASSUME NEW p \in IncProgress, NEW q, q = Method!Persisted(p)
    PROVE  /\ q \in IncProgress /\ q.subSyncState = p.subSyncState
           /\ q.commitSeq = p.commitSeq /\ q.prevCommitSeq = p.prevCommitSeq
           /\ q.syncState = p.syncState /\ q.tableCommitSeqMap = p.tableCommitSeqMap
           /\ q.partialTable = p.partialTable
           /\ q.inMemoryData = Nil /\ q.persistData = p.persistData
<1>1. 0 \in Seqs
  BY IncrementalAssumption DEF Seqs
<1> QED
  BY <1>1 DEF Method!Persisted, IncProgress

\* The progress that asks for a full sync.
LEMMA NewSnapshotIs ==
    ASSUME NEW p \in IncProgress, NEW q, q = NewSnapshot(p)
    PROVE  /\ q \in IncProgress /\ q.subSyncState = "BeginCreateSnapshot"
           /\ q.commitSeq = p.commitSeq /\ q.prevCommitSeq = p.prevCommitSeq
           /\ q.syncState = "DBFullSync" /\ q.tableCommitSeqMap = p.tableCommitSeqMap
           /\ q.inMemoryData = Nil /\ q.persistData = Nil
BY DEF NewSnapshot, StartSnapshot, Method!NextWithPersist, IncProgress, Method!SyncStates

\* The progress that asks for a partial sync.
LEMMA NewPartialIs ==
    ASSUME NEW p \in IncProgress, NEW t \in Tables, NEW q, q = NewPartialSnapshot(p, t)
    PROVE  /\ q \in IncProgress /\ q.subSyncState = "BeginCreateSnapshot"
           /\ q.commitSeq = p.commitSeq /\ q.prevCommitSeq = p.prevCommitSeq
           /\ q.syncState = "DBPartialSync" /\ q.tableCommitSeqMap = p.tableCommitSeqMap
           /\ q.partialTable = t /\ q.inMemoryData = Nil /\ q.persistData = Nil
BY DEF NewPartialSnapshot, StartSnapshot, Method!NextWithPersist, IncProgress, Method!SyncStates

\* The progress after StartHandle.
LEMMA StartedIs ==
    ASSUME NEW p \in IncProgress, NEW s \in Seqs, NEW q, q = Method!StartHandle(p, s)
    PROVE  /\ q \in IncProgress /\ q.subSyncState = p.subSyncState
           /\ q.commitSeq = s /\ q.prevCommitSeq = p.prevCommitSeq
           /\ q.syncState = p.syncState /\ q.tableCommitSeqMap = p.tableCommitSeqMap
           /\ q.partialTable = p.partialTable
           /\ q.inMemoryData = p.inMemoryData /\ q.persistData = p.persistData
BY DEF Method!StartHandle, IncProgress

\* The progress after Done.
LEMMA DoneIs ==
    ASSUME NEW p \in IncProgress, NEW q, q = Method!Done(p)
    PROVE  /\ q \in IncProgress /\ q.subSyncState = "Done"
           /\ q.commitSeq = p.commitSeq /\ q.prevCommitSeq = p.commitSeq
           /\ q.syncState = p.syncState /\ q.tableCommitSeqMap = p.tableCommitSeqMap
           /\ q.partialTable = p.partialTable
           /\ q.inMemoryData = p.inMemoryData /\ q.persistData = p.persistData
BY DEF Method!Done, IncProgress

\* The progress after updateInMemory.
LEMMA LoadedIs ==
    ASSUME NEW p \in IncProgress, NEW d, d = Current(p), NEW q, q = [p EXCEPT !.inMemoryData = d]
    PROVE  /\ q \in IncProgress /\ q.subSyncState = p.subSyncState
           /\ q.commitSeq = p.commitSeq /\ q.prevCommitSeq = p.prevCommitSeq
           /\ q.syncState = p.syncState /\ q.tableCommitSeqMap = p.tableCommitSeqMap
           /\ q.partialTable = p.partialTable /\ q.persistData = p.persistData
           /\ q.inMemoryData = Current(p) /\ Current(q) = Current(p)
BY DEF IncProgress, Current
-----------------------------------------------------------------------------
(* A progress that is right stays so when a method changes it. *)

\* Nothing is applied above the checkpoint of a progress that is in no txn, or in one that has
\* not been committed.
LEMMA NoneAbove ==
    ASSUME NEW p \in IncProgress, Fit(p), OnceOK(p), ~Snapshotting(p), ~retried,
           p.subSyncState \in BegunStates => txns[Current(p).txnId].status # "COMMITTED"
    PROVE  \A t \in Tables : \A i \in DOMAIN dest[t].applied :
              ~(dest[t].applied[i] > p.prevCommitSeq)
<1>1. p.syncState # "DBFullSync"
  BY DEF Fit, SnapshotOK
<1> QED
  BY <1>1 DEF OnceOK

\* A rollback goes back to the checkpoint.
LEMMA RolledBackFits ==
    ASSUME Typed, NEW p \in IncProgress, Fit(p), ~Snapshotting(p), NEW q, q = RolledBack(p)
    PROVE  /\ Fit(q)
           /\ OnceOK(p) /\ (p.subSyncState \in BegunStates =>
                               txns[Current(p).txnId].status # "COMMITTED") => OnceOK(q)
<1>1. q.subSyncState \notin UpsertStates /\ ~Snapshotting(q)
  BY RolledBackIs DEF UpsertStates, Snapshotting
<1>2. q.prevCommitSeq <= q.commitSeq /\ q.commitSeq <= Seen
  BY RolledBackIs, ProgressNumbers, Numbers DEF Fit
<1>3. SnapshotOK(q)
  BY <1>1, RolledBackIs DEF Fit, SnapshotOK
<1>4. MapOK(q)
  BY RolledBackIs DEF Fit, MapOK
<1>5. ASSUME OnceOK(p), p.subSyncState \in BegunStates =>
                           txns[Current(p).txnId].status # "COMMITTED"
      PROVE  OnceOK(q)
  BY <1>5, NoneAbove, RolledBackIs DEF OnceOK
<1> QED
  BY <1>1, <1>2, <1>3, <1>4, <1>5 DEF Fit

\* What a committed txn has applied completes its binlog.
LEMMA TxnPassed ==
    ASSUME Typed, TargetInv, CommittedInv, NEW x \in IncProgress, NEW d, TxnOK(x, d),
           x.subSyncState # "BeginTransaction", txns[d.txnId].status = "COMMITTED"
    PROVE  Passed(d.seq)
<1>1. /\ d.seq \in 1..Seen /\ d.seq \in Nat /\ d.txnId \in DOMAIN txns
      /\ txns[d.txnId].data.seq = d.seq /\ txns[d.txnId].data.tables = d.tables
  BY Numbers DEF TxnOK
<1>2. CommittedOK(txns[d.txnId])
  BY <1>1 DEF CommittedInv
<1>3. \A t \in d.tables : Covered(t, d.seq)
  BY <1>1, <1>2 DEF CommittedOK
<1>4. d.seq \in 1..Len(log)
  BY <1>1, Numbers DEF TargetInv, Seen
<1>5. log[d.seq].rollup \notin Tables
  BY <1>4, Numbers, BinlogFacts DEF TxnOK
<1>6. \A t \in d.tables : t \in Tables
  BY DEF TxnOK, TxnData
<1>7. \A t \in Tables : HandledFor(t, d.seq)
  BY <1>3, <1>5, <1>6 DEF TxnOK, HandledFor
<1>8. ASSUME NEW r \in 1..d.seq, NEW t \in Tables PROVE HandledFor(t, r)
  <2>1. r = d.seq \/ r \in 1..(d.seq - 1)
    BY <1>1
  <2> QED
    BY <1>7, <2>1 DEF TxnOK, Passed
<1> QED
  BY <1>8 DEF Passed

\* What is passed up to a seq is passed up to an earlier one.
LEMMA PassedBefore ==
    ASSUME NEW c \in Int, NEW e \in Int, c <= e, Passed(e)
    PROVE  Passed(c)
BY DEF Passed

\* The end of a txn: the checkpoint is the commit seq that was handled.
LEMMA CommittedFits ==
    ASSUME Typed, TargetInv, CommittedInv,
           NEW p \in IncProgress, Fit(p), p.subSyncState \in BegunStates, p.inMemoryData # Nil,
           txns[p.inMemoryData.txnId].status = "COMMITTED", NEW q, q = Committed(p)
    PROVE  /\ q \in IncProgress /\ q.subSyncState = "Done" /\ q.inMemoryData = Nil
           /\ q.commitSeq = p.commitSeq /\ q.prevCommitSeq = p.commitSeq
           /\ Fit(q) /\ Passed(q.commitSeq)
           /\ Passed(p.inMemoryData.seq)
           /\ OnceOK(p) => OnceOK(q)
<1>1. PICK d : d = p.inMemoryData
  OBVIOUS
<1>2. TxnOK(p, d) /\ d = Current(p) /\ p.subSyncState # "BeginTransaction"
  BY <1>1 DEF Fit, BegunStates, Current
<1>3. /\ d \in TxnData /\ d.txnId \in DOMAIN txns /\ d.seq \in Nat /\ p.commitSeq <= d.seq
      /\ p.commitSeq \in Nat
  BY <1>2, Numbers, ProgressNumbers DEF TxnOK
<1>4. d.txnId # 0
  BY <1>3, Numbers
<1>5. Passed(d.seq) /\ Passed(p.commitSeq)
  BY <1>1, <1>2, <1>3, TxnPassed, PassedBefore
<1>6. /\ q \in IncProgress /\ q.subSyncState = "Done"
      /\ q.commitSeq = p.commitSeq /\ q.prevCommitSeq = p.commitSeq
      /\ q.syncState = p.syncState /\ q.tableCommitSeqMap = RaiseTableCommitSeq(p)
      /\ q.partialTable = p.partialTable /\ q.inMemoryData = Nil
  BY <1>1, <1>3, <1>4, CommittedIs
<1>7. q.subSyncState \notin UpsertStates /\ ~Snapshotting(q) /\ ~Snapshotting(p)
  BY <1>6 DEF UpsertStates, Snapshotting, BegunStates
<1>8. SnapshotOK(q)
  BY <1>6, <1>7 DEF SnapshotOK, Fit
<1>9. MapOK(q)
  <2>1. ASSUME NEW t \in Tables
        PROVE  RaiseTableCommitSeq(p)[t] \in {p.tableCommitSeqMap[t], p.commitSeq}
    BY DEF RaiseTableCommitSeq
  <2>2. ASSUME NEW t \in Tables, NEW m, m = q.tableCommitSeqMap[t]
        PROVE  m <= Seen /\ \A r \in 1..m : HandledFor(t, r)
    <3>1. m = p.tableCommitSeqMap[t] \/ m = p.commitSeq
      BY <1>6, <2>1, <2>2
    <3>2. CASE m = p.tableCommitSeqMap[t]
      BY <3>2 DEF Fit, MapOK
    <3>3. CASE m = p.commitSeq
      BY <1>5, <3>3 DEF Fit, Passed
    <3> QED
      BY <3>1, <3>2, <3>3
  <2> QED
    BY <2>2 DEF MapOK
<1>10. Fit(q)
  BY <1>3, <1>6, <1>7, <1>8, <1>9 DEF Fit
<1>11. ASSUME OnceOK(p) PROVE OnceOK(q)
  <2> SUFFICES ASSUME ~retried, NEW t \in Tables, NEW i \in DOMAIN dest[t].applied
               PROVE  ~(dest[t].applied[i] > q.prevCommitSeq)
    BY DEF OnceOK
  <2>1. p.syncState # "DBFullSync"
    BY <1>7 DEF Fit, SnapshotOK
  <2>2. p.commitSeq = d.seq /\ p.prevCommitSeq < d.seq
    BY <1>2 DEF TxnOK
  <2>3. dest[t].applied[i] > p.prevCommitSeq => dest[t].applied[i] = d.seq
    BY <1>2, <1>11, <2>1 DEF OnceOK
  <2>4. dest[t].applied[i] \in Nat
    <3>1. \A s \in Seqs : s \in Nat
      BY DEF Seqs
    <3>2. dest[t].applied \in Seq(Seqs)
      BY DEF Typed, PlainTypes
    <3> QED
      BY <3>1, <3>2
  <2> QED
    BY <1>3, <1>6, <2>2, <2>3, <2>4, ProgressNumbers
<1> QED
  BY <1>1, <1>5, <1>6, <1>10, <1>11

\* The txn is to be rolled back.
LEMMA RollbackFits ==
    ASSUME Typed, NEW p \in IncProgress, Fit(p), p.subSyncState \in BegunStates,
           p.inMemoryData # Nil, NEW q, q = SubCheckpoint(p, "RollbackTransaction")
    PROVE  /\ q \in IncProgress /\ q.subSyncState = "RollbackTransaction"
           /\ q.prevCommitSeq = p.prevCommitSeq /\ q.commitSeq = p.commitSeq
           /\ q.inMemoryData = p.inMemoryData /\ q.persistData = p.inMemoryData
           /\ Fit(q) /\ (OnceOK(p) => OnceOK(q))
<1>1. /\ q \in IncProgress /\ q.subSyncState = "RollbackTransaction"
      /\ q.persistData = p.inMemoryData
      /\ q.commitSeq = p.commitSeq /\ q.prevCommitSeq = p.prevCommitSeq
      /\ q.syncState = p.syncState /\ q.tableCommitSeqMap = p.tableCommitSeqMap
      /\ q.partialTable = p.partialTable /\ q.inMemoryData = p.inMemoryData
  BY CheckpointIs DEF UpsertStates
<1>2. Current(q) = Current(p) /\ q.subSyncState \in BegunStates /\ p.subSyncState \in UpsertStates
      /\ ~Snapshotting(p) /\ ~Snapshotting(q) /\ p.subSyncState # "BeginTransaction"
  BY <1>1 DEF Current, BegunStates, UpsertStates, Snapshotting
<1>3. TxnOK(q, Current(q))
  BY <1>1, <1>2 DEF Fit, TxnOK
<1>4. Fit(q)
  BY <1>1, <1>2, <1>3 DEF Fit, SnapshotOK, MapOK
<1>5. OnceOK(p) => OnceOK(q)
  BY <1>1, <1>2 DEF OnceOK
<1> QED
  BY <1>1, <1>4, <1>5

\* A full sync starts again from where it is.
LEMMA NewSnapshotFits ==
    ASSUME NEW p \in IncProgress, Fit(p), NEW q, q = NewSnapshot(p)
    PROVE  Fit(q) /\ OnceOK(q)
<1>1. q.subSyncState \notin UpsertStates /\ Snapshotting(q) /\ q.syncState = "DBFullSync"
  BY NewSnapshotIs DEF UpsertStates, Snapshotting
<1> QED
  BY <1>1, NewSnapshotIs DEF Fit, SnapshotOK, MapOK, OnceOK

\* A partial sync goes on from the commit seq that every other table is at.
LEMMA NewPartialFits ==
    ASSUME NEW p \in IncProgress, Fit(p), p.subSyncState = "Done", OnceOK(p), NEW t \in Tables,
           \A u \in Tables \ {t} : \A r \in 1..p.commitSeq : HandledFor(u, r),
           NEW q, q = NewPartialSnapshot(p, t)
    PROVE  Fit(q) /\ OnceOK(q)
<1>1. /\ q.subSyncState \notin UpsertStates /\ Snapshotting(q) /\ q.syncState = "DBPartialSync"
      /\ q.partialTable = t /\ q.commitSeq = p.commitSeq /\ q.prevCommitSeq = p.prevCommitSeq
      /\ q.tableCommitSeqMap = p.tableCommitSeqMap
  BY NewPartialIs DEF UpsertStates, Snapshotting
<1>2. SnapshotOK(q)
  BY <1>1 DEF SnapshotOK
<1>3. p.subSyncState \notin BegunStates /\ ~Snapshotting(p)
  BY DEF BegunStates, UpsertStates, Snapshotting
<1>4. OnceOK(q)
  BY <1>1, <1>3, NoneAbove DEF OnceOK
<1> QED
  BY <1>1, <1>2, <1>4 DEF Fit, MapOK

\* What a restart reads is the progress, if its txn was stored.
LEMMA PersistedFits ==
    ASSUME NEW p \in IncProgress, Fit(p),
           p.subSyncState \in UpsertStates => /\ p.inMemoryData # Nil
                                              /\ p.persistData = p.inMemoryData,
           NEW q, q = Method!Persisted(p)
    PROVE  /\ Fit(q) /\ (OnceOK(p) => OnceOK(q)) /\ RowFollows(p, q)
<1>1. /\ q \in IncProgress /\ q.subSyncState = p.subSyncState
      /\ q.commitSeq = p.commitSeq /\ q.prevCommitSeq = p.prevCommitSeq
      /\ q.syncState = p.syncState /\ q.tableCommitSeqMap = p.tableCommitSeqMap
      /\ q.partialTable = p.partialTable
      /\ q.inMemoryData = Nil /\ q.persistData = p.persistData
  BY PersistedIs
<1>2. p.subSyncState \in UpsertStates => Current(q) = Current(p) /\ q.persistData = Current(p)
  BY <1>1 DEF Current
<1>3. p.subSyncState \in UpsertStates => TxnOK(q, Current(q))
  BY <1>1, <1>2 DEF Fit, TxnOK
<1>4. Fit(q)
  BY <1>1, <1>3 DEF Fit, SnapshotOK, Snapshotting, MapOK
<1>5. OnceOK(p) => OnceOK(q)
  BY <1>1, <1>2 DEF OnceOK, BegunStates
<1>6. RowFollows(p, q)
  BY <1>1, <1>2 DEF RowFollows, Snapshotting, BegunStates
<1> QED
  BY <1>4, <1>5, <1>6
\* The same afterwards.
LEMMA PersistedFitsLater ==
    ASSUME NEW p \in IncProgress, Fit(p)', OnceOK(p)',
           p.subSyncState \in UpsertStates => /\ p.inMemoryData # Nil
                                              /\ p.persistData = p.inMemoryData,
           NEW q, q = Method!Persisted(p)
    PROVE  Fit(q)' /\ OnceOK(q)' /\ RowFollows(p, q)
<1>1. /\ q \in IncProgress /\ q.subSyncState = p.subSyncState
      /\ q.commitSeq = p.commitSeq /\ q.prevCommitSeq = p.prevCommitSeq
      /\ q.syncState = p.syncState /\ q.tableCommitSeqMap = p.tableCommitSeqMap
      /\ q.partialTable = p.partialTable
      /\ q.inMemoryData = Nil /\ q.persistData = p.persistData
  BY PersistedIs
<1>2. p.subSyncState \in UpsertStates => Current(q) = Current(p) /\ q.persistData = Current(p)
  BY <1>1 DEF Current
<1>3. p.subSyncState \in UpsertStates => TxnOK(q, Current(q))'
  BY <1>1, <1>2 DEF Fit, TxnOK, Current
<1>4. Fit(q)'
  BY <1>1, <1>3 DEF Fit, SnapshotOK, Snapshotting, MapOK, Current
<1>5. OnceOK(q)'
  BY <1>1, <1>2 DEF OnceOK, BegunStates, Current
<1>6. RowFollows(p, q)
  BY <1>1, <1>2 DEF RowFollows, Snapshotting, BegunStates
<1> QED
  BY <1>4, <1>5, <1>6
-----------------------------------------------------------------------------
(* Steps that apply nothing to the target. *)

\* What is true of a progress is true of the progress that is it.
LEMMA ProgressIs ==
    ASSUME NEW x, ProgressOK(x)'
    PROVE  /\ x = prog' => ProgressOK(prog)'
           /\ x = disk' => ProgressOK(disk)'
BY DEF ProgressOK, Fit, SnapshotOK, MapOK, TxnOK, OnceOK, Current, Snapshotting

\* The same of the progress of the process and the row.
LEMMA RowIs ==
    ASSUME NEW x, NEW y, x = prog', y = disk', RowFollows(x, y)
    PROVE  RowFollows(prog, disk)'
BY DEF RowFollows, Current, Snapshotting

\* A step that changes no table and commits no txn.
Quiet ==
    /\ PlainTypes' /\ AskedRule /\ dest' = dest /\ rollups' \subseteq rollups
    /\ log' = log \/ \E b \in Binlogs : log' = Append(log, b)
    /\ TxnsKeep
    /\ \A i \in DOMAIN txns' : \/ i \in DOMAIN txns /\ txns'[i] = txns[i]
                               \/ txns'[i].status # "COMMITTED"
    /\ retried => retried'
    /\ ExtraFollows

\* What a quiet step keeps.
LEMMA QuietMeans ==
    ASSUME Core, Quiet, disk' \in IncProgress
    PROVE  Grows /\ TxnsKeep /\ Seen' \in Nat /\ (retried => retried')
<1>1. /\ Typed /\ TargetInv /\ AskedRule /\ dest' = dest /\ rollups' \subseteq rollups
      /\ TxnsKeep /\ (retried => retried')
      /\ log' = log \/ \E b \in Binlogs : log' = Append(log, b)
  BY DEF Core, Quiet
<1> QED
  BY <1>1, QuietGrows

\* What is to be shown of it is that the progress it leaves is right, afterwards or before.
LEMMA QuietLater ==
    ASSUME Core, Quiet,
           NEW x \in IncProgress, x = prog', NEW y \in IncProgress, y = disk',
           ProgressOK(x)', ProgressOK(y)', RowFollows(x, y), y.inMemoryData = Nil,
           NEW c, c = ckpt', x.prevCommitSeq = c, y.prevCommitSeq = c,
           ckpt <= c, c <= Seen, Passed(c), locked' <= c
    PROVE  Core' /\ Grows /\ Seen' \in Nat
<1>1. Typed'
  BY DEF Quiet, Typed
<1>2. /\ Typed /\ TargetInv /\ AskedRule /\ dest' = dest /\ rollups' \subseteq rollups
      /\ disk' \in IncProgress /\ TxnsKeep /\ (retried => retried')
      /\ log' = log \/ \E b \in Binlogs : log' = Append(log, b)
  BY DEF Core, Quiet
<1>3. Grows /\ Seen' \in Nat
  BY <1>2, QuietGrows
<1>4. TargetInv' /\ CommittedInv' /\ ExtraInv' /\ OnceInv'
  <2>1. ExtraFollows /\ \A i \in DOMAIN txns' : \/ i \in DOMAIN txns /\ txns'[i] = txns[i]
                                                \/ txns'[i].status # "COMMITTED"
    BY DEF Quiet
  <2> QED
    BY <1>1, <1>2, <2>1, QuietTarget
<1>5. ProgressOK(prog)' /\ ProgressOK(disk)'
  BY ProgressIs
<1>6. RowFollows(prog, disk)'
  BY RowIs
<1> QED
  BY <1>1, <1>3, <1>4, <1>5, <1>6 DEF Core

\* A quiet step that leaves a right progress and a right row keeps the core of the invariant.
LEMMA QuietStep ==
    ASSUME Core, Quiet,
           NEW x \in IncProgress, x = prog', NEW y \in IncProgress, y = disk',
           ProgressOK(x), ProgressOK(y), RowFollows(x, y), y.inMemoryData = Nil,
           NEW c, c = ckpt', x.prevCommitSeq = c, y.prevCommitSeq = c,
           ckpt <= c, c <= Seen, Passed(c), locked' <= c
    PROVE  Core' /\ Grows /\ Seen' \in Nat
<1>1. /\ Typed /\ TargetInv /\ AskedRule /\ dest' = dest /\ rollups' \subseteq rollups
      /\ disk' \in IncProgress /\ TxnsKeep /\ (retried => retried')
      /\ log' = log \/ \E b \in Binlogs : log' = Append(log, b)
  BY DEF Core, Quiet
<1>2. Grows /\ Seen' \in Nat
  BY <1>1, QuietGrows
<1>3. ProgressOK(x)' /\ ProgressOK(y)'
  BY <1>1, <1>2, ProgressStays
<1> QED
  BY <1>3, QuietLater

\* It stores the progress p.
LEMMA PersistQuiet ==
    ASSUME Core, Quiet, NEW p \in IncProgress, Persist(p), ProgressOK(p),
           p.subSyncState \in UpsertStates => /\ p.inMemoryData # Nil
                                              /\ p.persistData = p.inMemoryData,
           ckpt <= p.prevCommitSeq, Passed(p.prevCommitSeq), locked' <= p.prevCommitSeq
    PROVE  /\ Core' /\ Grows /\ Seen' \in Nat
           /\ prog' = p /\ ckpt' = p.prevCommitSeq
<1>1. PICK y : y = Method!Persisted(p)
  OBVIOUS
<1>2. prog' = p /\ disk' = y /\ ckpt' = p.prevCommitSeq
  BY <1>1 DEF Persist, Stored
<1>3. y \in IncProgress /\ y.prevCommitSeq = p.prevCommitSeq /\ y.inMemoryData = Nil
  BY <1>1, PersistedIs
<1>4. ProgressOK(y) /\ RowFollows(p, y)
  BY <1>1, PersistedFits DEF ProgressOK
<1>5. p.prevCommitSeq <= Seen
  BY ProgressNumbers, Numbers DEF ProgressOK, Fit, Core
<1> QED
  BY <1>2, <1>3, <1>4, <1>5, QuietStep

\* A quiet step that stores a progress, which the target fits once the step is done.
LEMMA PersistLater ==
    ASSUME Core, Quiet, NEW p \in IncProgress, Persist(p), ProgressOK(p)',
           p.subSyncState \in UpsertStates => /\ p.inMemoryData # Nil
                                              /\ p.persistData = p.inMemoryData,
           p.prevCommitSeq = ckpt, locked' = locked
    PROVE  /\ Core' /\ Grows /\ Seen' \in Nat
           /\ prog' = p /\ ckpt' = ckpt
<1>1. PICK y : y = Method!Persisted(p)
  OBVIOUS
<1>2. prog' = p /\ disk' = y /\ ckpt' = p.prevCommitSeq
  BY <1>1 DEF Persist, Stored
<1>3. y \in IncProgress /\ y.prevCommitSeq = p.prevCommitSeq /\ y.inMemoryData = Nil
  BY <1>1, PersistedIs
<1>4. Fit(p)' /\ OnceOK(p)'
  BY DEF ProgressOK
<1>5. Fit(y)' /\ OnceOK(y)' /\ RowFollows(p, y)
  BY <1>1, <1>4, PersistedFitsLater
<1>6. ProgressOK(y)'
  BY <1>5 DEF ProgressOK
<1>7. ckpt <= ckpt /\ ckpt <= Seen /\ Passed(ckpt) /\ locked <= ckpt
  BY Numbers DEF Core, TargetInv
<1>8. PICK c : c = ckpt
  OBVIOUS
<1> QED
  BY <1>2, <1>3, <1>5, <1>6, <1>7, <1>8, QuietLater

\* It changes the progress in memory.
LEMMA VolatileQuiet ==
    ASSUME Core, Quiet, NEW p \in IncProgress, Volatile(p), ProgressOK(p),
           p.prevCommitSeq = prog.prevCommitSeq, RowFollows(p, disk), locked' = locked
    PROVE  Core' /\ Grows /\ Seen' \in Nat /\ prog' = p /\ ckpt' = ckpt
<1>1. PICK y : y = disk
  OBVIOUS
<1>2. prog' = p /\ disk' = y /\ ckpt' = ckpt
  BY <1>1 DEF Volatile
<1>3. /\ y \in IncProgress /\ y.prevCommitSeq = ckpt /\ y.inMemoryData = Nil
      /\ p.prevCommitSeq = ckpt /\ ProgressOK(y) /\ RowFollows(p, y)
  BY <1>1 DEF Core, Typed
<1>4. ckpt <= ckpt /\ ckpt <= Seen /\ Passed(ckpt) /\ locked <= ckpt
  BY Numbers DEF Core, TargetInv
<1>5. PICK c : c = ckpt
  OBVIOUS
<1> QED
  BY <1>2, <1>3, <1>4, <1>5, QuietStep

\* It leaves the progress alone.
LEMMA SameQuiet ==
    ASSUME Core, Quiet, UNCHANGED progVars, locked' = locked
    PROVE  Core' /\ Grows /\ Seen' \in Nat
<1>1. PICK p : p = prog
  OBVIOUS
<1>2. /\ p \in IncProgress /\ ProgressOK(p) /\ p.prevCommitSeq = prog.prevCommitSeq
      /\ RowFollows(p, disk) /\ Volatile(p)
  BY <1>1 DEF Core, Typed, Volatile, progVars
<1> QED
  BY <1>2, VolatileQuiet

\* Two progresses that differ in nothing the target knows of.
LEMMA AlikeFits ==
    ASSUME NEW p \in IncProgress, NEW q \in IncProgress, ProgressOK(p),
           q.subSyncState = p.subSyncState,
           q.commitSeq = p.commitSeq, q.prevCommitSeq = p.prevCommitSeq,
           q.syncState = p.syncState, q.tableCommitSeqMap = p.tableCommitSeqMap,
           q.partialTable = p.partialTable, Current(q) = Current(p)
    PROVE  ProgressOK(q)
<1>1. p.subSyncState \in UpsertStates => TxnOK(q, Current(q))
  BY DEF ProgressOK, Fit, TxnOK
<1> QED
  BY <1>1 DEF ProgressOK, Fit, SnapshotOK, Snapshotting, MapOK, OnceOK

\* The previous txn is forgotten.
LEMMA NoPrevIs ==
    ASSUME NEW p \in IncProgress, NEW q, q = [p EXCEPT !.prevTxnId = -1]
    PROVE  /\ q \in IncProgress /\ q.subSyncState = p.subSyncState
           /\ q.commitSeq = p.commitSeq /\ q.prevCommitSeq = p.prevCommitSeq
           /\ q.syncState = p.syncState /\ q.tableCommitSeqMap = p.tableCommitSeqMap
           /\ q.partialTable = p.partialTable
           /\ q.inMemoryData = p.inMemoryData /\ q.persistData = p.persistData
           /\ Current(q) = Current(p) /\ (ProgressOK(p) => ProgressOK(q))
           /\ \A d : RowFollows(p, d) => RowFollows(q, d)
<1>1. /\ q \in IncProgress /\ q.subSyncState = p.subSyncState
      /\ q.commitSeq = p.commitSeq /\ q.prevCommitSeq = p.prevCommitSeq
      /\ q.syncState = p.syncState /\ q.tableCommitSeqMap = p.tableCommitSeqMap
      /\ q.partialTable = p.partialTable
      /\ q.inMemoryData = p.inMemoryData /\ q.persistData = p.persistData
  BY DEF IncProgress
<1>2. Current(q) = Current(p)
  BY <1>1 DEF Current
<1>3. ProgressOK(p) => ProgressOK(q)
  BY <1>1, <1>2, AlikeFits
<1>4. \A d : RowFollows(p, d) => RowFollows(q, d)
  BY <1>1, <1>2 DEF RowFollows, Snapshotting
<1> QED
  BY <1>1, <1>2, <1>3, <1>4
-----------------------------------------------------------------------------
(* The ticks of the run loop, and the loop of incrementalSyncInternal. *)

\* Between two ticks there is nothing to show of the place.
LEMMA PlaceIdle ==
    ASSUME pc' = "idle"
    PROVE  PlaceOK' /\ IngestInv'
BY DEF PlaceOK, IngestInv, Handler, InUpsert

\* A fault is taken from the budget.
LEMMA FaultTypes ==
    ASSUME Core, NEW k, Fault(k)
    PROVE  budget' \in 0..MaxFaults
<1>1. budget \in 0..MaxFaults
  BY DEF Core, Typed, PlainTypes
<1> QED
  BY <1>1, IncrementalAssumption DEF Fault

\* The target, the log and the txns are as they were.
LEMMA SameTarget ==
    ASSUME Core, AskedRule, UNCHANGED <<log, targetVars>>, locked' \in Seqs,
           pc' \in {"idle", "loop", "batch", "upsert", "ingest", "committed", "ddl", "handled"},
           batch' \in [pos : Seqs, next : Seqs],
           attempt' \in {"recover", "first", "rollback", "second"},
           extra' \in [applied : SUBSET Seqs, partialTable : Tables \cup {Nil}],
           extra'.applied \subseteq extra.applied,
           retried' \in BOOLEAN, retried => retried', budget' \in 0..MaxFaults,
           infos' \subseteq Replicas, jobErr' \in {"ok", "error", "meta"}
    PROVE  Quiet
<1>1. PlainTypes
  BY DEF Core, Typed
<1>2. /\ log' = log /\ dest' = dest /\ rollups' = rollups /\ txns' = txns
  BY DEF targetVars
<1>3. asked' \in Seqs
  BY <1>1 DEF AskedRule, PlainTypes
<1>4. PlainTypes'
  BY <1>1, <1>2, <1>3 DEF PlainTypes
<1>5. TxnsKeep
  BY <1>2 DEF TxnsKeep
<1>6. ExtraFollows
  BY DEF ExtraFollows
<1> QED
  BY <1>2, <1>4, <1>5, <1>6 DEF Quiet

\* The types of a step that leaves most of it alone.
LEMMA PlainFacts ==
    ASSUME Core
    PROVE  /\ locked \in Seqs /\ batch \in [pos : Seqs, next : Seqs]
           /\ attempt \in {"recover", "first", "rollback", "second"}
           /\ extra \in [applied : SUBSET Seqs, partialTable : Tables \cup {Nil}]
           /\ extra.applied \subseteq extra.applied
           /\ retried \in BOOLEAN /\ (retried => retried) /\ budget \in 0..MaxFaults
           /\ infos \subseteq Replicas /\ jobErr \in {"ok", "error", "meta"}
           /\ pc \in {"idle", "loop", "batch", "upsert", "ingest", "committed", "ddl", "handled"}
BY DEF Core, Typed, PlainTypes

\* A step that leaves the target and the handler alone is quiet.
LEMMA UnchangedQuiet ==
    ASSUME Core, AskedRule, log' = log, Unchanged,
           pc' \in {"idle", "loop", "batch", "upsert", "ingest", "committed", "ddl", "handled"}
    PROVE  Quiet /\ locked' = locked /\ batch' = batch /\ attempt' = attempt /\ extra' = extra
           /\ retried' = retried /\ budget' = budget /\ jobErr' = jobErr /\ infos' = infos
<1>1. /\ UNCHANGED <<targetVars, locked, batch, attempt, extra, retried, budget>>
      /\ infos' = infos /\ jobErr' = jobErr
  BY DEF Unchanged, ingestVars
<1>2. Quiet
  BY <1>1, PlainFacts, SameTarget
<1> QED
  BY <1>1, <1>2

\* The row of the progress in a place of the loop.
LEMMA DoneFacts ==
    ASSUME Core, Method!IsDone(prog)
    PROVE  /\ prog.commitSeq = ckpt /\ ckpt \in Nat /\ ~Snapshotting(prog)
           /\ ~Snapshotting(disk) /\ Seen = Len(log)
           /\ locked <= ckpt /\ Passed(ckpt) /\ ckpt <= Len(log)
<1>1. prog.subSyncState = "Done" /\ prog.prevCommitSeq = prog.commitSeq /\ prog.prevCommitSeq = ckpt
  BY DEF Core, Typed, Method!IsDone
<1>2. ~Snapshotting(prog) /\ ~Snapshotting(disk)
  BY <1>1 DEF Core, RowFollows, Snapshotting
<1>3. ckpt \in Nat
  BY Numbers DEF Core
<1> QED
  BY <1>1, <1>2, <1>3 DEF Seen, Core, TargetInv

\* A tick enters the loop of incrementalSyncInternal.
LEMMA EnterLoopKeeps ==
    ASSUME IncInv, AskedRule, EnterLoop
    PROVE  IncInv'
<1>1. /\ pc' = "loop" /\ log' = log /\ UNCHANGED progVars /\ Unchanged
      /\ Method!IsDone(prog) /\ Core
  BY DEF EnterLoop, Goto, IncInv
<1>2. Quiet /\ locked' = locked
  BY <1>1, UnchangedQuiet
<1>3. Core'
  BY <1>1, <1>2, SameQuiet
<1>4. prog' = prog /\ ~Snapshotting(prog)
  BY <1>1, DoneFacts DEF progVars
<1>5. PlaceOK' /\ IngestInv'
  BY <1>1, <1>4 DEF PlaceOK, IngestInv, Handler, InUpsert, Snapshotting, Method!IsDone
<1> QED
  BY <1>3, <1>5 DEF IncInv

\* handleBinlogs has handled the batch, and the loop goes on.
LEMMA EndOfBatchKeeps ==
    ASSUME IncInv, AskedRule, EndOfBatch
    PROVE  IncInv'
<1>1. /\ pc' = "loop" /\ log' = log /\ UNCHANGED progVars /\ Unchanged /\ pc = "batch" /\ Core
  BY DEF EndOfBatch, Goto, IncInv
<1>2. Quiet /\ locked' = locked
  BY <1>1, UnchangedQuiet
<1>3. Core'
  BY <1>1, <1>2, SameQuiet
<1>4. prog' = prog /\ Method!IsDone(prog)
  BY <1>1 DEF progVars, IncInv, PlaceOK
<1>5. ~Snapshotting(prog)
  BY <1>1, <1>4, DoneFacts
<1>6. PlaceOK' /\ IngestInv'
  BY <1>1, <1>4, <1>5 DEF PlaceOK, IngestInv, Handler, InUpsert, Snapshotting, Method!IsDone
<1> QED
  BY <1>3, <1>6 DEF IncInv

\* The smaller and the larger of two numbers.
LEMMA MaxOfTwo ==
    ASSUME NEW a \in Nat, NEW b \in Nat, b <= a
    PROVE  Max({a, b}) = a
<1>1. \A x, y \in {a, b} : (\A z \in {a, b} : x >= z) /\ (\A z \in {a, b} : y >= z) => x = y
  OBVIOUS
<1>2. a \in {a, b} /\ \A z \in {a, b} : a >= z
  OBVIOUS
<1>3. Max({a, b}) \in {a, b} /\ \A z \in {a, b} : Max({a, b}) >= z
  BY <1>2 DEF Max
<1> QED
  BY <1>2, <1>3

\* Min of two naturals.
LEMMA MinOfTwo ==
    ASSUME NEW a \in Nat, NEW b \in Nat
    PROVE  /\ Min({a, b}) \in {a, b}
           /\ Min({a, b}) <= a /\ Min({a, b}) <= b
<1>1. \E x \in {a, b} : \A z \in {a, b} : x <= z
  <2>1. CASE a <= b
    BY <2>1
  <2>2. CASE ~(a <= b)
    BY <2>2
  <2> QED
    BY <2>1, <2>2
<1>2. Min({a, b}) \in {a, b} /\ \A z \in {a, b} : Min({a, b}) <= z
  BY <1>1 DEF Min
<1> QED
  BY <1>2

\* The batch that the source answers with begins where everything is passed: at the commit
\* seq of a progress that is done, or at what the job has locked.
LEMMA GetBinlogKeeps ==
    ASSUME IncInv, AskedRule, GetBinlog
    PROVE  IncInv'
<1>1. /\ pc = "loop" /\ pc' = "batch" /\ log' = log /\ UNCHANGED progVars /\ Core
      /\ UNCHANGED <<log, targetVars, locked, attempt, extra, retried, budget, ingestVars>>
      /\ prog.commitSeq < Len(log)
  BY DEF GetBinlog, Goto, IncInv
<1>2. PICK from : from = Max({prog.commitSeq, locked})
  OBVIOUS
<1>3. PICK n : n = Min({from + BatchSize, Len(log)})
  OBVIOUS
<1>4. batch' = [pos |-> from, next |-> n]
  BY <1>2, <1>3 DEF GetBinlog
<1>5. Method!IsDone(prog)
  BY <1>1 DEF IncInv, PlaceOK
<1>6. /\ prog.commitSeq = ckpt /\ ckpt \in Nat /\ ~Snapshotting(prog) /\ locked <= ckpt
      /\ Passed(ckpt) /\ locked \in Nat /\ Len(log) \in Nat /\ Len(log) \in Seqs /\ ckpt \in Seqs
  BY <1>1, <1>5, DoneFacts, Numbers, ProgressNumbers DEF Core, Typed, PlainTypes
<1>7. from = ckpt
  BY <1>2, <1>6, MaxOfTwo
<1>8. n \in Nat /\ ckpt <= n /\ n <= Len(log)
  <2>1. BatchSize \in Nat /\ from + BatchSize \in Nat /\ ckpt <= from + BatchSize
    BY <1>6, <1>7, IncrementalAssumption
  <2> QED
    BY <1>1, <1>3, <1>6, <2>1, MinOfTwo
<1>9. n \in Seqs
  BY <1>6, <1>8, IncrementalAssumption DEF Seqs
<1>10. batch' \in [pos : Seqs, next : Seqs]
  BY <1>4, <1>6, <1>7, <1>9
<1>11. Quiet
  <2>1. infos' = infos /\ jobErr' = jobErr
    BY <1>1 DEF ingestVars
  <2> QED
    BY <1>1, <1>10, <2>1, PlainFacts, SameTarget
<1>12. Core' /\ Grows
  BY <1>1, <1>11, SameQuiet
<1>13. prog' = prog /\ ckpt' = ckpt /\ batch'.pos = ckpt /\ batch'.next = n
  BY <1>1, <1>4, <1>7 DEF progVars
<1>14. Passed(ckpt)'
  BY <1>12 DEF Core, TargetInv
<1>15. Passed(batch.pos)'
  BY <1>13, <1>14 DEF Passed
<1>16. PlaceOK' /\ IngestInv'
  BY <1>1, <1>5, <1>6, <1>8, <1>13, <1>15
     DEF PlaceOK, IngestInv, Handler, InUpsert, Snapshotting, Method!IsDone
<1> QED
  BY <1>12, <1>16 DEF IncInv

\* BINLOG_TOO_NEW: the loop is left, and the previous txn forgotten.
LEMMA NoMoreBinlogsKeeps ==
    ASSUME IncInv, AskedRule, NoMoreBinlogs
    PROVE  IncInv'
<1>1. /\ pc = "loop" /\ pc' = "idle" /\ log' = log /\ Core /\ Unchanged
      /\ IF prog.prevTxnId # -1 THEN Persist(NoPrevTxn) ELSE UNCHANGED progVars
  BY DEF NoMoreBinlogs, Goto, IncInv
<1>2. Quiet /\ locked' = locked
  BY <1>1, UnchangedQuiet
<1>3. Method!IsDone(prog)
  BY <1>1 DEF IncInv, PlaceOK
<1>4. CASE Persist(NoPrevTxn)
  <2>1. PICK q : q = NoPrevTxn
    OBVIOUS
  <2>2. prog \in IncProgress /\ ProgressOK(prog) /\ prog.prevCommitSeq = ckpt
    BY <1>1 DEF Core, Typed
  <2>3. /\ q \in IncProgress /\ ProgressOK(q) /\ q.subSyncState = prog.subSyncState
        /\ q.prevCommitSeq = ckpt
    BY <2>1, <2>2, NoPrevIs DEF NoPrevTxn
  <2>4. q.subSyncState \notin UpsertStates
    BY <1>3, <2>3 DEF Method!IsDone, UpsertStates
  <2>5. Passed(ckpt) /\ locked <= ckpt /\ ckpt <= ckpt
    BY <1>1, <1>3, DoneFacts
  <2>6. Core'
    BY <1>1, <1>2, <1>4, <2>1, <2>3, <2>4, <2>5, PersistQuiet
  <2> QED
    BY <1>1, <2>6, PlaceIdle DEF IncInv
<1>5. CASE UNCHANGED progVars
  BY <1>1, <1>2, <1>5, SameQuiet, PlaceIdle DEF IncInv
<1> QED
  BY <1>1, <1>4, <1>5

\* A step that only leaves the tick.
LEMMA ToIdleKeeps ==
    ASSUME IncInv, AskedRule, UNCHANGED <<log, targetVars, progVars, locked, batch, attempt,
                                          extra, retried, ingestVars>>,
           pc' = "idle", NEW k, Fault(k)
    PROVE  IncInv'
<1>1. Core /\ budget' \in 0..MaxFaults
  BY FaultTypes DEF IncInv
<1>2. infos' = infos /\ jobErr' = jobErr
  BY DEF ingestVars
<1>3. Quiet
  BY <1>1, <1>2, PlainFacts, SameTarget
<1>4. Core'
  BY <1>1, <1>3, SameQuiet
<1> QED
  BY <1>4, PlaceIdle DEF IncInv

\* The source cannot be asked.
LEMMA GetBinlogFailsKeeps ==
    ASSUME IncInv, AskedRule, GetBinlogFails \/ HandleBinlogFails
    PROVE  IncInv'
BY ToIdleKeeps DEF GetBinlogFails, HandleBinlogFails, Goto

\* A binlog is begun: the progress names it.
LEMMA StartedFits ==
    ASSUME Core, NEW p \in IncProgress, ProgressOK(p), p.subSyncState = "Done",
           NEW s \in Nat, s <= Len(log), s <= Seen, p.prevCommitSeq <= s,
           NEW q, q = Method!StartHandle(p, s)
    PROVE  /\ q \in IncProgress /\ q.subSyncState = "Done" /\ q.commitSeq = s
           /\ q.prevCommitSeq = p.prevCommitSeq /\ ProgressOK(q)
<1>1. s \in Seqs
  BY IncrementalAssumption DEF Core, Typed, PlainTypes, Seqs
<1>2. /\ q \in IncProgress /\ q.subSyncState = "Done" /\ q.commitSeq = s
      /\ q.prevCommitSeq = p.prevCommitSeq
      /\ q.syncState = p.syncState /\ q.tableCommitSeqMap = p.tableCommitSeqMap
      /\ q.partialTable = p.partialTable
  BY <1>1, StartedIs
<1>3. "Done" \notin UpsertStates /\ ~Snapshotting(p) /\ ~Snapshotting(q)
  BY <1>2 DEF UpsertStates, Snapshotting
<1>4. Fit(q)
  BY <1>2, <1>3 DEF ProgressOK, Fit, SnapshotOK, MapOK
<1>5. OnceOK(q)
  BY <1>2, <1>3 DEF ProgressOK, OnceOK, BegunStates
<1> QED
  BY <1>2, <1>4, <1>5 DEF ProgressOK

\* handleBinlogInternal begins with the next binlog of the batch.
LEMMA HandleBinlogKeeps ==
    ASSUME IncInv, AskedRule, HandleBinlog
    PROVE  IncInv'
<1>1. PICK s : s = batch.pos + 1
  OBVIOUS
<1>2. PICK p : p = Method!StartHandle(prog, s)
  OBVIOUS
<1>3. /\ pc = "batch" /\ batch.pos < batch.next /\ Persist(p) /\ Core /\ attempt' = "first"
      /\ pc' = IF log[s].kind = "UPSERT" THEN "upsert" ELSE "ddl"
      /\ UNCHANGED <<log, targetVars, locked, batch, extra, retried, budget, ingestVars>>
  BY <1>1, <1>2 DEF HandleBinlog, Goto, IncInv
<1>4. Method!IsDone(prog)
  BY <1>3 DEF IncInv, PlaceOK
<1>5. /\ ckpt <= batch.pos /\ batch.next <= Len(log) /\ Passed(batch.pos)
      /\ batch.pos \in Nat /\ batch.next \in Nat /\ Len(log) \in Nat
  BY <1>3, Numbers DEF IncInv, PlaceOK, Core
<1>6. /\ prog.commitSeq = ckpt /\ ckpt \in Nat /\ Seen = Len(log) /\ Passed(ckpt) /\ locked <= ckpt
      /\ prog \in IncProgress /\ ProgressOK(prog) /\ prog.prevCommitSeq = ckpt
      /\ prog.subSyncState = "Done"
  BY <1>3, <1>4, DoneFacts DEF Core, Typed, Method!IsDone
<1>7. s \in Nat /\ s <= Len(log) /\ s <= Seen /\ prog.prevCommitSeq <= s /\ ckpt < s
  BY <1>1, <1>3, <1>5, <1>6
<1>8. /\ p \in IncProgress /\ p.subSyncState = "Done" /\ p.commitSeq = s
      /\ p.prevCommitSeq = ckpt /\ ProgressOK(p)
  BY <1>2, <1>3, <1>6, <1>7, StartedFits
<1>9. Quiet
  <2>1. infos' = infos /\ jobErr' = jobErr
    BY <1>3 DEF ingestVars
  <2> QED
    BY <1>3, <2>1, PlainFacts, SameTarget
<1>10. "Done" \notin UpsertStates
  BY DEF UpsertStates
<1>11. Core' /\ Grows /\ prog' = p /\ ckpt' = ckpt
  BY <1>3, <1>6, <1>8, <1>9, <1>10, PersistQuiet
<1>12. Passed(batch.pos)'
  <2>1. PICK c : c = batch.pos
    OBVIOUS
  <2>2. Passed(c)'
    BY <1>3, <1>5, <1>6, <1>7, <1>11, <2>1, PassedStays DEF Core
  <2> QED
    BY <1>3, <2>1, <2>2 DEF Passed
<1>13. ~Snapshotting(prog)' /\ ~InTxn'
  BY <1>8, <1>10, <1>11 DEF Snapshotting, InTxn
<1>14. PlaceOK'
  BY <1>1, <1>3, <1>5, <1>7, <1>8, <1>11, <1>12, <1>13 DEF PlaceOK, Handler, InUpsert, Binlog
<1>15. IngestInv'
  BY <1>3 DEF IngestInv
<1> QED
  BY <1>11, <1>14, <1>15 DEF IncInv

\* recoverIncrementalSync goes on with the txn of the row, or starts over.
LEMMA RecoverKeeps ==
    ASSUME IncInv, AskedRule, RecoverIncrementalSync
    PROVE  IncInv'
<1>1. /\ pc = "idle" /\ Method!IsIncrementalSync(prog) /\ Core
      /\ UNCHANGED <<log, targetVars, locked, batch, extra, retried, budget, ingestVars>>
      /\ IF InTxn THEN Volatile(Loaded) /\ attempt' = "recover" /\ pc' = "upsert"
                  ELSE Persist(RolledBack(prog)) /\ pc' = pc /\ attempt' = attempt
  BY DEF RecoverIncrementalSync, Goto, IncInv
<1>2. prog \in IncProgress /\ ProgressOK(prog) /\ prog.prevCommitSeq = ckpt /\ Fit(prog)
      /\ RowFollows(prog, disk)
  BY <1>1 DEF Core, Typed, ProgressOK
<1>3. ~Snapshotting(prog)
  BY <1>1, <1>2 DEF Fit, SnapshotOK, Method!IsIncrementalSync
<1>4. Quiet
  <2>1. infos' = infos /\ jobErr' = jobErr
    BY <1>1 DEF ingestVars
  <2> QED
    BY <1>1, <2>1, PlainFacts, SameTarget
<1>5. CASE InTxn
  <2>1. PICK q : q = Loaded
    OBVIOUS
  <2>2. /\ q \in IncProgress /\ q.subSyncState = prog.subSyncState
        /\ q.commitSeq = prog.commitSeq /\ q.prevCommitSeq = prog.prevCommitSeq
        /\ q.syncState = prog.syncState /\ q.tableCommitSeqMap = prog.tableCommitSeqMap
        /\ q.partialTable = prog.partialTable
        /\ q.inMemoryData = Current(prog) /\ Current(q) = Current(prog)
    <3>1. PICK d : d = Current(prog)
      OBVIOUS
    <3>2. q = [prog EXCEPT !.inMemoryData = d]
      BY <2>1, <3>1 DEF Loaded, Current
    <3> QED
      BY <1>2, <3>1, <3>2, LoadedIs
  <2>3. ProgressOK(q)
    BY <1>2, <2>2, AlikeFits
  <2>4. RowFollows(q, disk)
    BY <1>2, <2>2 DEF RowFollows, Snapshotting
  <2>5. Core' /\ prog' = q
    BY <1>1, <1>2, <1>4, <1>5, <2>1, <2>2, <2>3, <2>4, VolatileQuiet
  <2>6. q.inMemoryData # Nil
    <3>1. Current(prog) \in TxnData
      BY <1>2, <1>5 DEF InTxn, Fit, TxnOK
    <3> QED
      BY <2>2, <3>1, TxnAssumption
  <2>7. PlaceOK'
    <3>1. pc' = "upsert" /\ attempt' = "recover"
      BY <1>1, <1>5
    <3>2. InTxn' /\ ~Snapshotting(prog)' /\ prog'.subSyncState # "Done"
      BY <1>3, <1>5, <2>2, <2>5 DEF InTxn, Snapshotting, UpsertStates
    <3> QED
      BY <2>5, <2>6, <3>1, <3>2 DEF PlaceOK, Handler, InUpsert
  <2>8. IngestInv'
    BY <1>1, <1>5 DEF IngestInv
  <2> QED
    BY <2>5, <2>7, <2>8 DEF IncInv
<1>6. CASE ~InTxn
  <2>1. PICK q : q = RolledBack(prog)
    OBVIOUS
  <2>2. q \in IncProgress /\ q.subSyncState = "Done" /\ q.prevCommitSeq = ckpt
    BY <1>2, <2>1, RolledBackIs
  <2>3. prog.subSyncState \notin BegunStates
    BY <1>6 DEF InTxn, BegunStates
  <2>4. ProgressOK(q)
    BY <1>1, <1>2, <1>3, <2>1, <2>3, RolledBackFits DEF ProgressOK, Core
  <2>5. "Done" \notin UpsertStates /\ Passed(ckpt) /\ locked <= ckpt /\ ckpt <= ckpt
    BY <1>1, Numbers DEF UpsertStates, Core, TargetInv
  <2>6. Core'
    BY <1>1, <1>4, <1>6, <2>1, <2>2, <2>4, <2>5, PersistQuiet
  <2> QED
    BY <1>1, <1>6, <2>6, PlaceIdle DEF IncInv
<1> QED
  BY <1>5, <1>6
-----------------------------------------------------------------------------
(* Where the job is in handleUpsert. *)

\* While the job is at work no snapshot is asked for.
LEMMA AwakeFacts ==
    ASSUME IncInv, pc # "idle"
    PROVE  /\ Core /\ ~Snapshotting(prog) /\ ~Snapshotting(disk) /\ Seen = Len(log)
           /\ prog \in IncProgress /\ ProgressOK(prog) /\ Fit(prog) /\ OnceOK(prog)
           /\ prog.prevCommitSeq = ckpt /\ RowFollows(prog, disk)
           /\ Passed(ckpt) /\ locked <= ckpt /\ ckpt <= ckpt /\ ckpt \in Nat
BY Numbers DEF IncInv, PlaceOK, Core, Typed, RowFollows, Seen, ProgressOK, TargetInv

\* A handler stays where it is among the binlogs.
LEMMA HandlerFacts ==
    ASSUME IncInv, Handler
    PROVE  /\ pc # "idle" /\ Passed(batch.pos) /\ batch.pos \in Nat /\ Binlog \in 1..Seen
           /\ Binlog = batch.pos + 1 /\ Binlog \in 1..Len(log) /\ log[Binlog] \in Binlogs
           /\ batch.pos < batch.next /\ batch.next <= Len(log) /\ prog.commitSeq <= Binlog
           /\ (InTxn => Current(prog).seq = Binlog)
<1>1. pc # "idle"
  BY DEF Handler, InUpsert
<1>2. Seen = Len(log) /\ Core
  BY <1>1, AwakeFacts
<1>3. /\ batch.pos \in Nat /\ batch.next \in Nat /\ Len(log) \in Nat
      /\ \A r \in 1..Len(log) : log[r] \in Binlogs
  BY <1>2, Numbers DEF Core
<1> QED
  BY <1>1, <1>2, <1>3 DEF IncInv, PlaceOK, Binlog

\* While the handler runs, its binlog and what is passed before it stay.
LEMMA HandlerStays ==
    ASSUME IncInv, Grows, Handler, batch' = batch, log' = log
    PROVE  Passed(batch.pos)' /\ batch'.pos < batch'.next /\ batch'.next <= Len(log')
<1>1. PICK c : c = batch.pos
  OBVIOUS
<1>2. Passed(c) /\ c \in Int /\ c <= Seen
  BY <1>1, HandlerFacts, Numbers DEF IncInv, Core
<1>3. Passed(c)'
  BY <1>2, PassedStays DEF IncInv, Core
<1>4. Passed(batch.pos)'
  BY <1>1, <1>3 DEF Passed
<1> QED
  BY <1>4, HandlerFacts

\* The next place in handleUpsert.
LEMMA TryPlace ==
    ASSUME IncInv, Grows, InUpsert(pc), InUpsert(pc)', batch' = batch, log' = log,
           NEW x \in IncProgress, x = prog', ~Snapshotting(x),
           attempt' = "recover" <=> attempt = "recover",
           x.subSyncState \in UpsertStates => x.inMemoryData # Nil,
           attempt = "recover" => x.subSyncState \in UpsertStates,
           attempt' = "rollback" => \/ x.subSyncState = "RollbackTransaction"
                                    \/ attempt = "rollback"
                                       /\ prog.subSyncState # "RollbackTransaction",
           x.commitSeq <= prog.commitSeq,
           x.subSyncState \in UpsertStates /\ attempt # "recover" => Current(x).seq = Binlog,
           pc' = "upsert" /\ x.subSyncState = "Done" =>
              log[Binlog].kind = "UPSERT" /\ (~retried' => x.commitSeq = Binlog /\ ckpt' < Binlog),
           pc' = "upsert" /\ x.subSyncState = "RollbackTransaction"
              /\ attempt' \in {"first", "second"} => extra'.partialTable # Nil,
           pc' = "ingest" => x.subSyncState = "IngestBinlog" /\ SkippedGone(x.inMemoryData)',
           pc' = "committed" => /\ x.subSyncState = "CommitTransaction"
                                /\ txns'[x.inMemoryData.txnId].status = "COMMITTED"
    PROVE  PlaceOK'
<1>1. Binlog' = Binlog
  BY DEF Binlog
<1>2. attempt # "recover" => /\ Passed(batch.pos)' /\ batch'.pos < batch'.next
                             /\ batch'.next <= Len(log') /\ x.commitSeq <= Binlog
  <2>1. SUFFICES ASSUME attempt # "recover"
                 PROVE  /\ Passed(batch.pos)' /\ batch'.pos < batch'.next
                        /\ batch'.next <= Len(log') /\ x.commitSeq <= Binlog
    OBVIOUS
  <2>2. Handler
    BY <2>1 DEF Handler
  <2>3. prog.commitSeq <= Binlog /\ Binlog \in Nat /\ x.commitSeq \in Nat /\ prog.commitSeq \in Nat
    BY <2>2, HandlerFacts, ProgressNumbers DEF IncInv, Core, Typed
  <2> QED
    BY <2>2, <2>3, HandlerStays
<1>3. InTxn' <=> x.subSyncState \in UpsertStates
  BY DEF InTxn
<1>4. ~Snapshotting(prog)'
  BY DEF Snapshotting
<1>5. InTxn' /\ attempt # "recover" => Current(prog)'.seq = Binlog
  BY <1>3 DEF Current
<1>6. Handler' <=> attempt # "recover"
  BY DEF Handler, InUpsert
<1>7. pc' = "ingest" => SkippedGone(prog.inMemoryData)'
  BY DEF SkippedGone
<1>8. pc' \notin {"loop", "batch", "ddl", "handled"}
  BY DEF InUpsert
<1>9. attempt' = "rollback" => prog'.subSyncState = "RollbackTransaction"
  BY DEF IncInv, PlaceOK
<1> QED
  BY <1>1, <1>2, <1>3, <1>4, <1>5, <1>6, <1>7, <1>8, <1>9 DEF PlaceOK

\* The next call of handleUpsert, or the next state of this one.
LEMMA UpsertPlace ==
    ASSUME IncInv, Grows, InUpsert(pc), pc' = "upsert", batch' = batch, log' = log,
           NEW x \in IncProgress, x = prog', ~Snapshotting(x),
           attempt' = "recover" <=> attempt = "recover",
           x.subSyncState \in UpsertStates => x.inMemoryData # Nil,
           attempt = "recover" => x.subSyncState \in UpsertStates,
           attempt' = "rollback" => \/ x.subSyncState = "RollbackTransaction"
                                    \/ attempt = "rollback"
                                       /\ prog.subSyncState # "RollbackTransaction",
           x.commitSeq <= prog.commitSeq,
           x.subSyncState \in UpsertStates /\ attempt # "recover" => Current(x).seq = Binlog,
           x.subSyncState = "Done" =>
              log[Binlog].kind = "UPSERT" /\ (~retried' => x.commitSeq = Binlog /\ ckpt' < Binlog),
           x.subSyncState = "RollbackTransaction" /\ attempt' \in {"first", "second"}
              => extra'.partialTable # Nil
    PROVE  PlaceOK' /\ IngestInv'
<1>1. InUpsert(pc)'
  BY DEF InUpsert
<1>2. PlaceOK'
  BY <1>1, TryPlace
<1> QED
  BY <1>2 DEF IngestInv

\* The end of the handler.
LEMMA HandledLater ==
    ASSUME IncInv, Grows, Handler, pc' = "handled", batch' = batch, log' = log,
           NEW x \in IncProgress, x = prog', x.subSyncState = "Done",
           NEW c, c = x.commitSeq, c <= prog.commitSeq, Passed(c)',
           NEW s, s = Binlog, extra'.partialTable = Nil => Passed(s)'
    PROVE  PlaceOK' /\ IngestInv'
<1>1. Binlog' = s
  BY DEF Binlog
<1>2. Passed(batch.pos)' /\ batch'.pos < batch'.next /\ batch'.next <= Len(log')
  BY HandlerStays
<1>3. s \in Nat /\ prog.commitSeq \in Nat /\ prog.commitSeq <= s /\ c \in Nat
  BY HandlerFacts, ProgressNumbers DEF IncInv, Core, Typed
<1>4. c <= s
  BY <1>3
<1>5. Passed(prog.commitSeq)' /\ (extra'.partialTable = Nil => Passed(Binlog)')
  BY <1>1 DEF Passed
<1>6. ~InTxn' /\ ~Snapshotting(prog)'
  BY DEF InTxn, UpsertStates, Snapshotting
<1>7. PlaceOK'
  BY <1>1, <1>2, <1>4, <1>5, <1>6 DEF PlaceOK, InUpsert
<1>8. IngestInv'
  BY DEF IngestInv
<1> QED
  BY <1>7, <1>8

\* The handler ends with its binlog passed.
LEMMA HandledPlace ==
    ASSUME IncInv, Grows, Handler, pc' = "handled", batch' = batch, log' = log,
           NEW x \in IncProgress, x = prog', x.subSyncState = "Done",
           NEW c, c = x.commitSeq, c <= prog.commitSeq, Passed(c),
           NEW s, s = Binlog, extra'.partialTable = Nil => Passed(s)
    PROVE  PlaceOK' /\ IngestInv'
<1>1. s \in Nat /\ s <= Seen /\ prog.commitSeq <= s
  BY HandlerFacts, Numbers DEF IncInv, Core
<1>2. c \in Nat /\ c <= s /\ c <= Seen
  BY <1>1, ProgressNumbers, Numbers DEF IncInv, Core, Typed
<1>3. Passed(c)' /\ (extra'.partialTable = Nil => Passed(s)')
  BY <1>1, <1>2, PassedStays DEF IncInv, Core
<1> QED
  BY <1>3, HandledLater
-----------------------------------------------------------------------------
(* handleUpsert: case Done, and how a call of it fails. *)

\* The txn of a binlog is built when the ones before are at the target, and so is the binlog for
\* the tables that are left out.
LEMMA BuildFacts ==
    ASSUME IncInv, AtUpsert("Done")
    PROVE  /\ Handler /\ attempt # "recover" /\ log[Binlog].kind = "UPSERT"
           /\ prog.subSyncState = "Done" /\ ~InTxn
           /\ (~retried => prog.commitSeq = Binlog /\ ckpt < Binlog)
           /\ \A t \in Tables : t \notin RelatedTables(Binlog) => HandledFor(t, Binlog)
<1>1. pc = "upsert" /\ prog.subSyncState = "Done" /\ ~InTxn
  BY DEF AtUpsert, InTxn, UpsertStates
<1>2. Handler /\ attempt # "recover"
  BY <1>1 DEF IncInv, PlaceOK, InUpsert, Handler
<1>3. log[Binlog].kind = "UPSERT" /\ (~retried => prog.commitSeq = Binlog /\ ckpt < Binlog)
  BY <1>1 DEF IncInv, PlaceOK
<1>4. Core /\ Binlog \in 1..Len(log) /\ log[Binlog] \in Binlogs
  BY <1>2, HandlerFacts DEF IncInv
<1>5. log[Binlog].rollup \notin Tables
  BY <1>3, <1>4, BinlogFacts
<1>6. ASSUME NEW t \in Tables, t \notin RelatedTables(Binlog)
      PROVE  HandledFor(t, Binlog)
  <2>1. CASE t \notin log[Binlog].tables
    BY <1>5, <2>1 DEF HandledFor
  <2>2. CASE t \in log[Binlog].tables
    <3>1. ~(Binlog > prog.tableCommitSeqMap[t])
      BY <1>6, <2>2 DEF RelatedTables
    <3>2. MapOK(prog) /\ prog.tableCommitSeqMap[t] \in Nat /\ Binlog \in Nat
      BY <1>4, ProgressNumbers DEF Core, ProgressOK, Fit, Typed
    <3>3. Binlog \in 1..prog.tableCommitSeqMap[t]
      BY <1>4, <3>1, <3>2
    <3> QED
      BY <3>2, <3>3 DEF MapOK
  <2> QED
    BY <2>1, <2>2
<1> QED
  BY <1>1, <1>2, <1>3, <1>6

\* The txn of the binlog is built, of the tables that do not have the binlog yet.
LEMMA BuildUpsertKeeps ==
    ASSUME IncInv, AskedRule, BuildUpsert
    PROVE  IncInv'
<1>1. PICK s : s = Binlog
  OBVIOUS
<1>2. PICK d : d = [seq |-> s, tables |-> RelatedTables(s), txnId |-> 0,
                    infos |-> {}, skipped |-> {}]
  OBVIOUS
<1>3. PICK p : p = Method!NextSubVolatile(prog, "BeginTransaction", d)
  OBVIOUS
<1>4. /\ AtUpsert("Done") /\ Volatile(p) /\ log' = log /\ pc' = pc /\ Unchanged /\ Core
      /\ pc = "upsert"
  BY <1>1, <1>2, <1>3 DEF BuildUpsert, IncInv, AtUpsert
<1>5. /\ Handler /\ attempt # "recover" /\ log[s].kind = "UPSERT"
      /\ prog.subSyncState = "Done"
      /\ (~retried => prog.commitSeq = s /\ ckpt < s)
      /\ \A t \in Tables : t \notin d.tables => HandledFor(t, s)
  BY <1>1, <1>2, <1>4, BuildFacts
<1>6. /\ Passed(batch.pos) /\ s \in 1..Seen /\ s = batch.pos + 1 /\ batch.pos \in Nat
      /\ s \in 1..Len(log) /\ log[s] \in Binlogs /\ prog.commitSeq <= s
  BY <1>1, <1>5, HandlerFacts
<1>7. /\ prog \in IncProgress /\ ~Snapshotting(prog) /\ Fit(prog) /\ OnceOK(prog)
      /\ prog.prevCommitSeq = ckpt /\ RowFollows(prog, disk)
  BY <1>4, AwakeFacts
<1>8. d \in TxnData
  <2>1. s \in Seqs
    BY <1>4, <1>6, IncrementalAssumption DEF Core, Typed, PlainTypes, Seqs
  <2>2. 0 \in 0..MaxTxn
    BY IncrementalAssumption
  <2>3. d.tables \subseteq Tables
    BY <1>2, <1>6, BinlogFacts DEF RelatedTables
  <2> QED
    BY <1>2, <2>1, <2>2, <2>3 DEF TxnData
<1>9. d # Nil
  BY <1>8, TxnAssumption
<1>10. /\ p \in IncProgress /\ p.subSyncState = "BeginTransaction" /\ p.inMemoryData = d
       /\ p.commitSeq = prog.commitSeq /\ p.prevCommitSeq = prog.prevCommitSeq
       /\ p.syncState = prog.syncState /\ p.tableCommitSeqMap = prog.tableCommitSeqMap
       /\ p.partialTable = prog.partialTable
  BY <1>3, <1>7, <1>8 DEF Method!NextSubVolatile, IncProgress, UpsertStates
<1>11. Current(p) = d /\ p.subSyncState \notin BegunStates /\ ~Snapshotting(p)
       /\ prog.subSyncState \notin BegunStates
  BY <1>5, <1>9, <1>10 DEF Current, BegunStates, UpsertStates, Snapshotting
<1>12. TxnOK(p, d)
  <2>1. Passed(s - 1)
    BY <1>6
  <2>2. d.seq = s /\ d.tables \subseteq log[s].tables
    BY <1>2 DEF RelatedTables
  <2> QED
    BY <1>5, <1>6, <1>7, <1>8, <1>10, <2>1, <2>2 DEF TxnOK
<1>13. Fit(p)
  BY <1>7, <1>10, <1>11, <1>12 DEF Fit, SnapshotOK, MapOK
<1>14. OnceOK(p)
  BY <1>7, <1>10, <1>11 DEF OnceOK
<1>15. RowFollows(p, disk)
  BY <1>7, <1>11 DEF RowFollows
<1>16. Quiet /\ UNCHANGED <<batch, attempt, retried>> /\ locked' = locked
  BY <1>4, UnchangedQuiet
<1>17. Core' /\ Grows /\ prog' = p
  BY <1>4, <1>7, <1>10, <1>13, <1>14, <1>15, <1>16, VolatileQuiet DEF ProgressOK
<1>18. PlaceOK' /\ IngestInv'
  <2>1. p.commitSeq <= prog.commitSeq
    BY <1>7, <1>10, ProgressNumbers
  <2>2. Current(p).seq = s
    BY <1>2, <1>11
  <2> QED
    BY <1>1, <1>4, <1>5, <1>9, <1>10, <1>11, <1>16, <1>17, <2>1, <2>2, UpsertPlace DEF InUpsert
<1> QED
  BY <1>17, <1>18 DEF IncInv

\* Every table has the binlog already: it is passed.
LEMMA SkipUpsertKeeps ==
    ASSUME IncInv, AskedRule, SkipUpsert
    PROVE  IncInv'
<1>1. PICK s : s = Binlog
  OBVIOUS
<1>2. PICK x : x = prog
  OBVIOUS
<1>3. /\ AtUpsert("Done") /\ RelatedTables(Binlog) = {} /\ pc' = "handled" /\ log' = log
      /\ UNCHANGED progVars /\ Unchanged /\ Core /\ pc = "upsert"
  BY DEF SkipUpsert, IncInv, Goto, AtUpsert
<1>4. /\ Handler /\ x.subSyncState = "Done" /\ \A t \in Tables : HandledFor(t, s)
  BY <1>1, <1>2, <1>3, BuildFacts
<1>5. /\ Passed(batch.pos) /\ s = batch.pos + 1 /\ batch.pos \in Nat /\ x.commitSeq <= s
  BY <1>1, <1>2, <1>4, HandlerFacts
<1>6. Passed(s)
  <2>1. ASSUME NEW r \in 1..s, NEW t \in Tables PROVE HandledFor(t, r)
    <3>1. r = s \/ r \in 1..batch.pos
      BY <1>5
    <3> QED
      BY <1>4, <1>5, <3>1 DEF Passed
  <2> QED
    BY <2>1 DEF Passed
<1>7. PICK c : c = x.commitSeq
  OBVIOUS
<1>8. x \in IncProgress /\ c \in Nat /\ c <= x.commitSeq /\ Passed(c)
  BY <1>2, <1>3, <1>5, <1>6, <1>7, PassedBefore, ProgressNumbers DEF Core, Typed
<1>9. Quiet /\ batch' = batch /\ locked' = locked
  BY <1>3, UnchangedQuiet
<1>10. Core' /\ Grows
  BY <1>3, <1>9, SameQuiet
<1>11. prog' = x
  BY <1>2, <1>3 DEF progVars
<1>12. PlaceOK' /\ IngestInv'
  BY <1>1, <1>2, <1>3, <1>4, <1>6, <1>7, <1>8, <1>9, <1>10, <1>11, HandledPlace
<1> QED
  BY <1>10, <1>12 DEF IncInv

\* The progress q is stored if it is another one.
LEMMA KeepIs ==
    ASSUME Core, NEW q \in IncProgress, Keep(q), Fit(q), q.prevCommitSeq = ckpt,
           q # prog => (q.subSyncState \in UpsertStates => /\ q.inMemoryData # Nil
                                                           /\ q.persistData = q.inMemoryData),
           NEW x, x = prog', NEW y, y = disk'
    PROVE  /\ x = q /\ ckpt' = ckpt
           /\ y \in IncProgress /\ Fit(y) /\ RowFollows(x, y) /\ y.inMemoryData = Nil
           /\ y.prevCommitSeq = ckpt /\ (q # prog => y.syncState = q.syncState)
           /\ OnceOK(q) => OnceOK(y)
<1>1. CASE q = prog
  <2>1. x = prog /\ y = disk /\ ckpt' = ckpt
    BY <1>1 DEF Keep, progVars
  <2> QED
    BY <1>1, <2>1 DEF Core, Typed, ProgressOK
<1>2. CASE q # prog
  <2>1. Persist(q)
    BY <1>2 DEF Keep
  <2>2. x = q /\ y = Method!Persisted(q) /\ ckpt' = ckpt
    BY <2>1 DEF Persist, Stored
  <2>3. /\ y \in IncProgress /\ y.syncState = q.syncState /\ y.inMemoryData = Nil
        /\ y.prevCommitSeq = ckpt
    BY <2>2, PersistedIs
  <2>4. Fit(y) /\ RowFollows(q, y) /\ (OnceOK(q) => OnceOK(y))
    BY <1>2, <2>2, PersistedFits
  <2> QED
    BY <2>2, <2>3, <2>4
<1> QED
  BY <1>1, <1>2

\* A call of handleUpsert fails with the progress p: the first call may be repeated, or else a
\* full sync is asked for, or the next tick goes on with p.
LEMMA FailsIs ==
    ASSUME Core, ~Snapshotting(prog), NEW p \in IncProgress, NEW err, Fails(p, err),
           Fit(p), ~Snapshotting(p), p.prevCommitSeq = ckpt,
           p # prog => (p.subSyncState \in UpsertStates => /\ p.inMemoryData # Nil
                                                           /\ p.persistData = p.inMemoryData),
           NEW x, x = prog', NEW y, y = disk'
    PROVE  /\ x \in IncProgress /\ Fit(x) /\ x.prevCommitSeq = ckpt /\ ckpt' = ckpt
           /\ y \in IncProgress /\ Fit(y) /\ RowFollows(x, y) /\ y.inMemoryData = Nil
           /\ y.prevCommitSeq = ckpt
           /\ x = p \/ (x.syncState = "DBFullSync" /\ y.syncState = "DBFullSync")
           /\ OnceOK(p) => OnceOK(x) /\ OnceOK(y)
           /\ retried' = retried
           /\ \/ pc' = "idle" /\ attempt' = attempt
              \/ /\ x = p /\ pc' = "upsert" /\ attempt = "first"
                 /\ attempt' = IF p.subSyncState = "RollbackTransaction" THEN "rollback"
                               ELSE "second"
<1>1. retried' = retried
  BY DEF Fails
<1>2. CASE attempt = "first" /\ err = "meta"
  <2>1. Keep(p) /\ pc' = "upsert"
        /\ attempt' = IF p.subSyncState = "RollbackTransaction" THEN "rollback" ELSE "second"
    BY <1>2 DEF Fails, Goto
  <2> QED
    BY <1>1, <1>2, <2>1, KeepIs
<1>3. CASE ~(attempt = "first" /\ err = "meta")
  <2>1. Keep(IF err = "meta" THEN NewSnapshot(p) ELSE p) /\ pc' = "idle" /\ attempt' = attempt
    BY <1>3 DEF Fails, Goto
  <2>2. CASE err # "meta"
    BY <1>1, <2>1, <2>2, KeepIs
  <2>3. CASE err = "meta"
    <3>1. PICK q : q = NewSnapshot(p)
      OBVIOUS
    <3>2. /\ q \in IncProgress /\ q.subSyncState = "BeginCreateSnapshot"
          /\ q.prevCommitSeq = ckpt /\ q.syncState = "DBFullSync"
      BY <3>1, NewSnapshotIs
    <3>3. Fit(q) /\ OnceOK(q)
      BY <3>1, NewSnapshotFits
    <3>4. q # prog /\ q.subSyncState \notin UpsertStates
      BY <3>2 DEF Snapshotting, UpsertStates
    <3>5. Keep(q)
      BY <2>1, <2>3, <3>1
    <3> QED
      BY <1>1, <2>1, <3>2, <3>3, <3>4, <3>5, KeepIs
  <2> QED
    BY <2>2, <2>3
<1> QED
  BY <1>2, <1>3

\* It fails, and at the target nothing has changed.
LEMMA FailsKeeps ==
    ASSUME IncInv, Quiet, pc \in {"upsert", "ingest"}, batch' = batch, log' = log, locked' = locked,
           extra' = extra,
           NEW p \in IncProgress, NEW err, Fails(p, err), ProgressOK(p), ~Snapshotting(p),
           p.prevCommitSeq = ckpt, p.commitSeq = prog.commitSeq,
           p = prog \/ (/\ p.subSyncState = "RollbackTransaction" /\ InTxn
                        /\ p.inMemoryData # Nil /\ p.persistData = p.inMemoryData
                        /\ p.inMemoryData = prog.inMemoryData)
    PROVE  IncInv'
<1>1. PICK x : x = prog'
  OBVIOUS
<1>2. PICK y : y = disk'
  OBVIOUS
<1>3. /\ Core /\ ~Snapshotting(prog) /\ Passed(ckpt) /\ locked <= ckpt /\ ckpt <= Seen
      /\ ckpt <= ckpt
  BY AwakeFacts DEF Core, TargetInv
<1>4. /\ x \in IncProgress /\ Fit(x) /\ x.prevCommitSeq = ckpt /\ ckpt' = ckpt
      /\ y \in IncProgress /\ Fit(y) /\ RowFollows(x, y) /\ y.inMemoryData = Nil
      /\ y.prevCommitSeq = ckpt /\ OnceOK(x) /\ OnceOK(y) /\ retried' = retried
      /\ \/ pc' = "idle" /\ attempt' = attempt
         \/ /\ x = p /\ pc' = "upsert" /\ attempt = "first"
            /\ attempt' = IF p.subSyncState = "RollbackTransaction" THEN "rollback"
                          ELSE "second"
  BY <1>1, <1>2, <1>3, FailsIs DEF ProgressOK
<1>5. Core' /\ Grows
  <2>1. PICK c : c = ckpt
    OBVIOUS
  <2> QED
    BY <1>1, <1>2, <1>3, <1>4, <2>1, QuietStep DEF ProgressOK
<1>6. CASE pc' = "idle"
  BY <1>5, <1>6, PlaceIdle DEF IncInv
<1>7. CASE pc' = "upsert" /\ x = p /\ attempt = "first"
           /\ attempt' = IF p.subSyncState = "RollbackTransaction" THEN "rollback" ELSE "second"
  <2>1. Handler /\ InUpsert(pc)
    BY <1>7 DEF Handler, InUpsert
  <2>2. x.subSyncState \in UpsertStates => InTxn /\ x.inMemoryData # Nil
                                           /\ x.inMemoryData = prog.inMemoryData
    BY <1>7, <2>1 DEF IncInv, PlaceOK, InTxn
  <2>3. x.subSyncState \in UpsertStates => Current(x).seq = Binlog
    BY <2>1, <2>2, HandlerFacts DEF Current
  <2>4. x.commitSeq <= prog.commitSeq
    BY <1>7, ProgressNumbers
  <2>5. ASSUME x.subSyncState = "Done"
        PROVE  /\ log[Binlog].kind = "UPSERT"
               /\ ~retried' => x.commitSeq = Binlog /\ ckpt' < Binlog
    <3>1. x = prog /\ prog.subSyncState = "Done"
      BY <1>7, <2>5
    <3>2. pc = "upsert"
      BY <3>1 DEF IncInv, PlaceOK
    <3> QED
      BY <1>4, <3>1, <3>2 DEF IncInv, PlaceOK
  <2>6. ~Snapshotting(x)
    BY <1>7
  <2>7. PlaceOK' /\ IngestInv'
    BY <1>1, <1>4, <1>5, <1>7, <2>1, <2>2, <2>3, <2>4, <2>5, <2>6, UpsertPlace
  <2> QED
    BY <1>5, <2>7 DEF IncInv
<1> QED
  BY <1>4, <1>6, <1>7

\* It rolls its txn back.
LEMMA RollsBackKeeps ==
    ASSUME IncInv, Quiet, pc \in {"upsert", "ingest"}, batch' = batch, log' = log, locked' = locked,
           extra' = extra, prog.subSyncState \in BegunStates, NEW err, FailsAndRollsBack(err)
    PROVE  IncInv'
<1>1. PICK p : p = SubCheckpoint(prog, "RollbackTransaction")
  OBVIOUS
<1>2. /\ Core /\ prog \in IncProgress /\ Fit(prog) /\ OnceOK(prog) /\ prog.prevCommitSeq = ckpt
  BY AwakeFacts
<1>3. InTxn /\ prog.inMemoryData # Nil
  BY DEF InTxn, BegunStates, IncInv, PlaceOK, InUpsert
<1>4. /\ p \in IncProgress /\ p.subSyncState = "RollbackTransaction"
      /\ p.prevCommitSeq = prog.prevCommitSeq /\ p.commitSeq = prog.commitSeq
      /\ p.inMemoryData = prog.inMemoryData /\ p.persistData = prog.inMemoryData
      /\ Fit(p) /\ (OnceOK(prog) => OnceOK(p))
  BY <1>1, <1>2, <1>3, RollbackFits DEF Core
<1>5. ~Snapshotting(p) /\ Fails(p, err)
  BY <1>1, <1>4 DEF Snapshotting, FailsAndRollsBack
<1> QED
  BY <1>2, <1>3, <1>4, <1>5, FailsKeeps DEF ProgressOK
-----------------------------------------------------------------------------
(* handleUpsert: case BeginTransaction, and what becomes of the txns. *)

\* What the txns of a quiet step may be.
TxnsQuiet ==
    /\ txns' \in Seq(Txns) /\ Len(txns') <= MaxTxn /\ TxnsKeep
    /\ \A i \in DOMAIN txns' : \/ i \in DOMAIN txns /\ txns'[i] = txns[i]
                               \/ txns'[i].status # "COMMITTED"

\* Txns that do not change are quiet.
LEMMA SameTxns ==
    ASSUME Core, txns' = txns
    PROVE  TxnsQuiet
BY DEF TxnsQuiet, TxnsKeep, Core, Typed, PlainTypes

\* A new txn is quiet: it is not committed.
LEMMA NewTxnIs ==
    ASSUME Core, NEW d \in TxnData, NewTxn(d), Len(txns) < MaxTxn
    PROVE  /\ TxnsQuiet
           /\ Len(txns) + 1 \in DOMAIN txns' /\ txns'[Len(txns) + 1].data = d
<1>1. txns \in Seq(Txns) /\ Len(txns) \in Nat /\ DOMAIN txns = 1..Len(txns) /\ MaxTxn \in Nat
  BY IncrementalAssumption DEF Core, Typed, PlainTypes
<1>2. PICK r : r = [status |-> "PREPARE", data |-> d]
  OBVIOUS
<1>3. r \in Txns /\ r.status # "COMMITTED" /\ r.data = d
  BY <1>2 DEF Txns
<1>4. txns' = Append(txns, r)
  BY <1>2 DEF NewTxn
<1>5. /\ txns' \in Seq(Txns) /\ Len(txns') = Len(txns) + 1 /\ DOMAIN txns' = 1..(Len(txns) + 1)
      /\ txns'[Len(txns) + 1] = r /\ \A i \in 1..Len(txns) : txns'[i] = txns[i]
  BY <1>1, <1>3, <1>4
<1>6. TxnsKeep
  BY <1>1, <1>5 DEF TxnsKeep
<1>7. \A i \in DOMAIN txns' : (i \in DOMAIN txns /\ txns'[i] = txns[i]) \/ txns'[i] = r
  BY <1>1, <1>5
<1> QED
  BY <1>1, <1>3, <1>5, <1>6, <1>7 DEF TxnsQuiet

\* An abort is quiet.
LEMMA ResolveIs ==
    ASSUME Core, NEW i \in DOMAIN txns, NEW r \in Txns, r.status # "COMMITTED",
           txns[i].status # "COMMITTED", txns' = [txns EXCEPT ![i] = r],
           r.data.seq = txns[i].data.seq, r.data.tables = txns[i].data.tables
    PROVE  TxnsQuiet
<1>1. txns \in Seq(Txns) /\ Len(txns) <= MaxTxn
  BY DEF Core, Typed, PlainTypes
<1>2. /\ txns' \in Seq(Txns) /\ Len(txns') = Len(txns) /\ DOMAIN txns' = DOMAIN txns
      /\ txns'[i] = r /\ \A k \in DOMAIN txns : k # i => txns'[k] = txns[k]
  BY <1>1
<1>3. TxnsKeep
  BY <1>2 DEF TxnsKeep
<1> QED
  BY <1>1, <1>2, <1>3 DEF TxnsQuiet

\* The tables of the target and the log are as they were.
LEMMA SameTables ==
    ASSUME Core, AskedRule, UNCHANGED <<log, dest, rollups>>, TxnsQuiet, locked' \in Seqs,
           pc' \in {"idle", "loop", "batch", "upsert", "ingest", "committed", "ddl", "handled"},
           batch' \in [pos : Seqs, next : Seqs],
           attempt' \in {"recover", "first", "rollback", "second"},
           extra' \in [applied : SUBSET Seqs, partialTable : Tables \cup {Nil}],
           extra'.applied \subseteq extra.applied,
           retried' \in BOOLEAN, retried => retried', budget' \in 0..MaxFaults,
           infos' \subseteq Replicas, jobErr' \in {"ok", "error", "meta"}
    PROVE  Quiet
<1>1. PlainTypes
  BY DEF Core, Typed
<1>2. asked' \in Seqs
  BY <1>1 DEF AskedRule, PlainTypes
<1>3. PlainTypes'
  BY <1>1, <1>2 DEF PlainTypes, TxnsQuiet
<1>4. ExtraFollows
  BY DEF ExtraFollows
<1> QED
  BY <1>3, <1>4 DEF Quiet, TxnsQuiet

\* Where a call of handleUpsert leads to.
LEMMA FailsTypes ==
    ASSUME Core, NEW p, NEW err, Fails(p, err)
    PROVE  /\ pc' \in {"idle", "loop", "batch", "upsert", "ingest", "committed", "ddl", "handled"}
           /\ attempt' \in {"recover", "first", "rollback", "second"}
           /\ retried' = retried
<1>1. attempt \in {"recover", "first", "rollback", "second"}
  BY PlainFacts
<1> QED
  BY <1>1 DEF Fails, Goto

\* The txn cannot be built.
LEMMA BuildUpsertFailsKeeps ==
    ASSUME IncInv, AskedRule, BuildUpsertFails
    PROVE  IncInv'
<1>1. /\ pc = "upsert" /\ UNCHANGED <<log, targetVars, locked, batch, extra, ingestVars>> /\ Core
      /\ \E k : Fault(k) /\ \E err : Fails(prog, err)
  BY DEF BuildUpsertFails, AtUpsert, IncInv
<1>2. PICK k, err : Fault(k) /\ Fails(prog, err)
  BY <1>1
<1>3. budget' \in 0..MaxFaults /\ infos' = infos /\ jobErr' = jobErr
  BY <1>1, <1>2, FaultTypes DEF ingestVars
<1>4. Quiet
  BY <1>1, <1>2, <1>3, PlainFacts, FailsTypes, SameTarget
<1>5. /\ prog \in IncProgress /\ ProgressOK(prog) /\ ~Snapshotting(prog)
      /\ prog.prevCommitSeq = ckpt
  BY <1>1, AwakeFacts
<1> QED
  BY <1>1, <1>2, <1>4, <1>5, FailsKeeps

\* The ingest job cannot be prepared: the txn is rolled back.
LEMMA PrepareFailsKeeps ==
    ASSUME IncInv, AskedRule, PrepareFails
    PROVE  IncInv'
<1>1. /\ pc = "upsert" /\ UNCHANGED <<log, targetVars, locked, batch, extra, ingestVars>> /\ Core
      /\ prog.subSyncState = "IngestBinlog"
      /\ \E k : Fault(k) /\ \E err : FailsAndRollsBack(err)
  BY DEF PrepareFails, AtUpsert, IncInv
<1>2. PICK k, err : Fault(k) /\ FailsAndRollsBack(err)
  BY <1>1
<1>3. budget' \in 0..MaxFaults /\ infos' = infos /\ jobErr' = jobErr
  BY <1>1, <1>2, FaultTypes DEF ingestVars
<1>4. Quiet
  BY <1>1, <1>2, <1>3, PlainFacts, FailsTypes, SameTarget DEF FailsAndRollsBack
<1>5. prog.subSyncState \in BegunStates
  BY <1>1 DEF BegunStates, UpsertStates
<1> QED
  BY <1>1, <1>2, <1>4, <1>5, RollsBackKeeps

\* The txn of a state of handleUpsert.
LEMMA TxnFacts ==
    ASSUME IncInv, pc \in {"upsert", "ingest", "committed"}, InTxn
    PROVE  /\ Core /\ TxnOK(prog, Data) /\ Data \in TxnData /\ Data = Current(prog) /\ Data # Nil
           /\ Data.seq \in 1..Seen /\ Data.seq \in Nat
           /\ prog.subSyncState # "BeginTransaction" =>
                 /\ prog.subSyncState \in BegunStates
                 /\ Data.txnId \in DOMAIN txns /\ txns[Data.txnId] \in Txns
                 /\ txns[Data.txnId].data.seq = Data.seq
                 /\ txns[Data.txnId].data.tables = Data.tables
<1>1. Core /\ Fit(prog) /\ prog.inMemoryData # Nil
  BY AwakeFacts DEF IncInv, PlaceOK, InUpsert
<1>2. Data = Current(prog) /\ Data # Nil
  BY <1>1 DEF Data, Current
<1>3. TxnOK(prog, Data)
  BY <1>1, <1>2 DEF Fit, InTxn
<1>4. prog.subSyncState # "BeginTransaction" => prog.subSyncState \in BegunStates
  BY DEF InTxn, BegunStates
<1> QED
  BY <1>1, <1>2, <1>3, <1>4, Numbers DEF TxnOK, Core

\* The begin is refused, or in effect without the job learning of it.
LEMMA BeginTxnFailsKeeps ==
    ASSUME IncInv, AskedRule, BeginTxnFails
    PROVE  IncInv'
<1>1. /\ pc = "upsert" /\ Fails(prog, "error") /\ Core /\ prog.subSyncState = "BeginTransaction"
      /\ UNCHANGED <<log, dest, rollups, locked, batch, extra, ingestVars>>
      /\ \E k : Fault(k)
      /\ txns' = txns \/ (Len(txns) < MaxTxn /\ NewTxn(Data))
  BY DEF BeginTxnFails, AtUpsert, IncInv
<1>2. budget' \in 0..MaxFaults /\ infos' = infos /\ jobErr' = jobErr
  BY <1>1, FaultTypes DEF ingestVars
<1>3. InTxn
  BY <1>1 DEF InTxn, UpsertStates
<1>4. TxnsQuiet
  BY <1>1, <1>3, TxnFacts, SameTxns, NewTxnIs
<1>5. Quiet
  BY <1>1, <1>2, <1>4, PlainFacts, FailsTypes, SameTables
<1>6. /\ prog \in IncProgress /\ ProgressOK(prog) /\ ~Snapshotting(prog)
      /\ prog.prevCommitSeq = ckpt
  BY <1>1, AwakeFacts
<1> QED
  BY <1>1, <1>5, <1>6, FailsKeeps

\* The rollback fails, or is in effect without the job learning of it.
LEMMA RollbackTxnFailsKeeps ==
    ASSUME IncInv, AskedRule, RollbackTxnFails
    PROVE  IncInv'
<1>1. /\ pc = "upsert" /\ Fails(prog, "error") /\ Core
      /\ prog.subSyncState = "RollbackTransaction"
      /\ UNCHANGED <<log, dest, rollups, locked, batch, extra, ingestVars>>
      /\ \E k : Fault(k)
      /\ txns' = txns \/ (Txn.status = "PREPARE" /\ Resolve("ABORTED"))
  BY DEF RollbackTxnFails, AtUpsert, IncInv
<1>2. budget' \in 0..MaxFaults /\ infos' = infos /\ jobErr' = jobErr
  BY <1>1, FaultTypes DEF ingestVars
<1>3. InTxn
  BY <1>1 DEF InTxn, UpsertStates
<1>4. TxnsQuiet
  <2>1. CASE txns' = txns
    BY <1>1, <2>1, SameTxns
  <2>2. CASE Txn.status = "PREPARE" /\ Resolve("ABORTED")
    <3>1. PICK r : r = [status |-> "ABORTED", data |-> Data]
      OBVIOUS
    <3>2. PICK i : i = Data.txnId
      OBVIOUS
    <3>3. /\ i \in DOMAIN txns /\ Data \in TxnData
          /\ txns[i].data.seq = Data.seq /\ txns[i].data.tables = Data.tables
      BY <1>1, <1>3, <3>2, TxnFacts
    <3>4. r \in Txns /\ r.status # "COMMITTED" /\ r.data = Data
      BY <3>1, <3>3 DEF Txns
    <3>5. txns[i].status # "COMMITTED" /\ txns' = [txns EXCEPT ![i] = r]
      BY <2>2, <3>1, <3>2 DEF Txn, Resolve
    <3> QED
      BY <1>1, <3>3, <3>4, <3>5, ResolveIs
  <2> QED
    BY <1>1, <2>1, <2>2
<1>5. Quiet
  BY <1>1, <1>2, <1>4, PlainFacts, FailsTypes, SameTables
<1>6. /\ prog \in IncProgress /\ ProgressOK(prog) /\ ~Snapshotting(prog)
      /\ prog.prevCommitSeq = ckpt
  BY <1>1, AwakeFacts
<1> QED
  BY <1>1, <1>5, <1>6, FailsKeeps

\* The txn begins, and the row has its id.
LEMMA BeginTxnKeeps ==
    ASSUME IncInv, AskedRule, BeginTxn
    PROVE  IncInv'
<1>1. PICK n : n = Len(txns) + 1
  OBVIOUS
<1>2. PICK d : d = [Data EXCEPT !.txnId = n]
  OBVIOUS
<1>3. PICK p : p = [prog EXCEPT !.inMemoryData = d]
  OBVIOUS
<1>4. PICK q : q = SubCheckpoint(p, "IngestBinlog")
  OBVIOUS
<1>5. /\ pc = "upsert" /\ prog.subSyncState = "BeginTransaction" /\ Len(txns) < MaxTxn /\ Core
      /\ UNCHANGED <<log, dest, rollups, locked, pc, batch, attempt, extra, retried, budget,
                     ingestVars>>
  BY DEF BeginTxn, AtUpsert, IncInv
<1>6. InTxn /\ Data \in TxnData /\ TxnOK(prog, Data) /\ Data = Current(prog)
  BY <1>5, TxnFacts DEF InTxn, UpsertStates
<1>7. /\ prog \in IncProgress /\ ~Snapshotting(prog) /\ Fit(prog) /\ OnceOK(prog)
      /\ prog.prevCommitSeq = ckpt
  BY <1>5, AwakeFacts
<1>8. /\ d \in TxnData /\ d.seq = Data.seq /\ d.tables = Data.tables /\ d.txnId = n /\ d # Nil
  <2>1. n \in 0..MaxTxn
    BY <1>1, <1>5, IncrementalAssumption DEF Core, Typed, PlainTypes
  <2> QED
    BY <1>2, <1>6, <2>1, TxnAssumption DEF TxnData
<1>9. /\ p \in IncProgress /\ p.inMemoryData = d /\ p.commitSeq = prog.commitSeq
      /\ p.prevCommitSeq = prog.prevCommitSeq /\ p.syncState = prog.syncState
      /\ p.tableCommitSeqMap = prog.tableCommitSeqMap /\ p.partialTable = prog.partialTable
  BY <1>3, <1>7, <1>8 DEF IncProgress
<1>10. p = Begun(prog, n)
  BY <1>2, <1>3 DEF Begun, Data
<1>11. NewTxn(d) /\ Persist(q)
  <2>1. NewTxn(p.inMemoryData) /\ Persist(SubCheckpoint(p, "IngestBinlog"))
    BY <1>1, <1>10 DEF BeginTxn
  <2> QED
    BY <1>4, <1>9, <2>1
<1>12. /\ q \in IncProgress /\ q.subSyncState = "IngestBinlog" /\ q.persistData = d
       /\ q.commitSeq = prog.commitSeq /\ q.prevCommitSeq = ckpt
       /\ q.syncState = prog.syncState /\ q.tableCommitSeqMap = prog.tableCommitSeqMap
       /\ q.partialTable = prog.partialTable /\ q.inMemoryData = d
  BY <1>4, <1>7, <1>9, CheckpointIs DEF UpsertStates
<1>13. Current(q) = d /\ ~Snapshotting(q) /\ q.subSyncState \in UpsertStates
  BY <1>8, <1>12 DEF Current, Snapshotting, UpsertStates
<1>14. TxnsQuiet /\ n \in DOMAIN txns' /\ txns'[n].data = d
  BY <1>1, <1>5, <1>8, <1>11, NewTxnIs
<1>15. Quiet
  BY <1>5, <1>14, PlainFacts, SameTables DEF ingestVars
<1>16. Grows /\ TxnsKeep /\ Seen' \in Nat
  <2>1. disk' \in IncProgress
    BY <1>11, <1>12, PersistedIs DEF Persist, Stored
  <2> QED
    BY <1>5, <1>15, <2>1, QuietMeans
<1>17. PICK z : z = prog
  OBVIOUS
<1>18. PICK e : e = Data
  OBVIOUS
<1>19. Fit(z)' /\ TxnOK(z, e)'
  BY <1>5, <1>6, <1>7, <1>16, <1>17, <1>18, FitStays, TxnStays DEF Core
<1>20. TxnOK(q, d)'
  <2>1. /\ d.seq = e.seq /\ d.tables = e.tables /\ q.commitSeq = z.commitSeq
        /\ q.prevCommitSeq = z.prevCommitSeq
    BY <1>7, <1>8, <1>12, <1>17, <1>18
  <2> QED
    BY <1>8, <1>12, <1>14, <1>19, <2>1 DEF TxnOK
<1>21. Fit(q)'
  <2>1. /\ q.commitSeq = z.commitSeq /\ q.prevCommitSeq = z.prevCommitSeq
        /\ q.syncState = z.syncState /\ q.tableCommitSeqMap = z.tableCommitSeqMap
        /\ q.partialTable = z.partialTable /\ ~Snapshotting(z)
    BY <1>7, <1>12, <1>17
  <2>2. TxnOK(q, Current(q))'
    BY <1>13, <1>20 DEF TxnOK, Current
  <2> QED
    BY <1>13, <1>19, <2>1, <2>2 DEF Fit, SnapshotOK, MapOK, Snapshotting
<1>22. OnceOK(q)'
  <2>1. ~retried => \A t \in Tables : \A i \in DOMAIN dest[t].applied :
                       ~(dest[t].applied[i] > prog.prevCommitSeq)
    <3>1. prog.subSyncState \notin BegunStates
      BY <1>5 DEF BegunStates
    <3> QED
      BY <1>7, <3>1, NoneAbove
  <2> QED
    BY <1>5, <1>7, <1>12, <2>1 DEF OnceOK
<1>23. Core' /\ prog' = q /\ ckpt' = ckpt
  BY <1>5, <1>8, <1>11, <1>12, <1>15, <1>21, <1>22, PersistLater DEF ProgressOK
<1>24. PlaceOK' /\ IngestInv'
  <2>1. q.commitSeq <= prog.commitSeq
    BY <1>7, <1>12, ProgressNumbers
  <2>2. attempt # "recover" => Current(q).seq = Binlog
    <3>1. attempt # "recover" => Handler
      BY <1>5 DEF Handler, InUpsert
    <3> QED
      BY <1>6, <1>8, <1>13, <3>1, HandlerFacts
  <2>3. InUpsert(pc) /\ q.subSyncState \notin {"Done", "RollbackTransaction"}
    BY <1>5, <1>12 DEF InUpsert
  <2> QED
    BY <1>5, <1>8, <1>12, <1>13, <1>16, <1>23, <2>1, <2>2, <2>3, UpsertPlace
<1> QED
  BY <1>23, <1>24 DEF IncInv

\* The target does not know a table: the progress goes back to before the binlog.
LEMMA TableNotFoundKeeps ==
    ASSUME IncInv, AskedRule, BeginTxnTableNotFound
    PROVE  IncInv'
<1>1. PICK y : y = RolledBack(prog)
  OBVIOUS
<1>2. PICK x : x = [y EXCEPT !.stale = @ \ Data.tables]
  OBVIOUS
<1>3. PICK z : z = Method!Persisted(y)
  OBVIOUS
<1>4. /\ pc = "upsert" /\ pc' = "idle" /\ Core /\ prog.subSyncState = "BeginTransaction"
      /\ log' = log
      /\ UNCHANGED <<targetVars, locked, batch, attempt, extra, retried, budget, ingestVars>>
      /\ prog' = x /\ disk' = z /\ ckpt' = y.prevCommitSeq
  BY <1>1, <1>2, <1>3 DEF BeginTxnTableNotFound, AtUpsert, IncInv, Goto, Stored
<1>5. /\ prog \in IncProgress /\ ~Snapshotting(prog) /\ Fit(prog) /\ OnceOK(prog)
      /\ prog.prevCommitSeq = ckpt
  BY <1>4, AwakeFacts
<1>6. /\ y \in IncProgress /\ y.subSyncState = "Done" /\ y.prevCommitSeq = ckpt
      /\ y.inMemoryData = Nil /\ y.persistData = Nil
  BY <1>1, <1>5, RolledBackIs
<1>7. Fit(y) /\ OnceOK(y)
  <2>1. prog.subSyncState \notin BegunStates
    BY <1>4 DEF BegunStates
  <2> QED
    BY <1>1, <1>4, <1>5, <2>1, RolledBackFits DEF Core
<1>8. /\ x \in IncProgress /\ x.subSyncState = y.subSyncState
      /\ x.commitSeq = y.commitSeq /\ x.prevCommitSeq = y.prevCommitSeq
      /\ x.syncState = y.syncState /\ x.tableCommitSeqMap = y.tableCommitSeqMap
      /\ x.partialTable = y.partialTable
      /\ x.inMemoryData = y.inMemoryData /\ x.persistData = y.persistData
  BY <1>2, <1>6 DEF IncProgress
<1>9. ProgressOK(x)
  <2>1. Current(x) = Current(y)
    BY <1>8 DEF Current
  <2> QED
    BY <1>6, <1>7, <1>8, <2>1, AlikeFits DEF ProgressOK
<1>10. "Done" \notin UpsertStates
  BY DEF UpsertStates
<1>11. /\ z \in IncProgress /\ z.prevCommitSeq = ckpt /\ z.inMemoryData = Nil
       /\ z.subSyncState = "Done"
  BY <1>3, <1>6, PersistedIs
<1>12. ProgressOK(z)
  BY <1>3, <1>6, <1>7, <1>10, PersistedFits DEF ProgressOK
<1>13. RowFollows(x, z)
  BY <1>6, <1>8, <1>10, <1>11 DEF RowFollows, Snapshotting, BegunStates
<1>14. Quiet
  <2>1. infos' = infos /\ jobErr' = jobErr
    BY <1>4 DEF ingestVars
  <2> QED
    BY <1>4, <2>1, PlainFacts, SameTarget
<1>15. Core'
  <2>1. PICK c : c = ckpt
    OBVIOUS
  <2>2. ckpt <= ckpt /\ ckpt <= Seen /\ Passed(ckpt) /\ locked <= ckpt
    BY <1>4, Numbers DEF Core, TargetInv
  <2> QED
    BY <1>4, <1>6, <1>8, <1>9, <1>11, <1>12, <1>13, <1>14, <2>1, <2>2, QuietStep
<1> QED
  BY <1>4, <1>15, PlaceIdle DEF IncInv
-----------------------------------------------------------------------------
(* handleUpsert: case IngestBinlog. *)

\* A binlog that drops an index of a table of the txn is one of the log.
LEMMA DroppingFacts ==
    ASSUME IncInv, AtUpsert("IngestBinlog"), NEW kind, NEW s \in Dropping(kind)
    PROVE  /\ s \in Nat /\ s \in 1..Len(log) /\ s \in 1..Seen /\ s \in Seqs /\ log[s] \in Binlogs
           /\ log[s].kind = kind /\ s \notin extra.applied
<1>1. pc = "upsert" /\ InTxn
  BY DEF AtUpsert, InTxn, UpsertStates
<1>2. Core /\ Data.seq \in 1..Seen /\ Seen = Len(log) /\ Len(log) \in Nat
  BY <1>1, TxnFacts, AwakeFacts, Numbers DEF Core
<1>3. s \in Data.seq..Len(log) /\ log[s].kind = kind /\ s \notin extra.applied
  BY DEF Dropping
<1>4. s \in Nat /\ s \in 1..Len(log) /\ s \in 1..Seen
  BY <1>2, <1>3
<1>5. log[s] \in Binlogs
  BY <1>2, <1>4, Numbers DEF Core
<1>6. s \in Seqs
  BY <1>2, <1>4, IncrementalAssumption DEF Core, Typed, PlainTypes, Seqs
<1> QED
  BY <1>3, <1>4, <1>5, <1>6

\* The progress in a state of handleUpsert.
LEMMA StayFacts ==
    ASSUME IncInv, pc = "upsert", InTxn
    PROVE  /\ InUpsert(pc) /\ prog.inMemoryData # Nil
           /\ attempt # "recover" => Current(prog).seq = Binlog
           /\ prog.commitSeq <= prog.commitSeq
<1>1. attempt # "recover" => Handler
  BY DEF Handler, InUpsert
<1>2. InUpsert(pc) /\ prog.inMemoryData # Nil
  BY DEF IncInv, PlaceOK, InUpsert
<1>3. prog.commitSeq \in Nat
  BY ProgressNumbers DEF IncInv, Core, Typed
<1> QED
  BY <1>1, <1>2, <1>3, HandlerFacts

\* A rollup that a later binlog drops is dropped at once.
LEMMA ApplyDropRollupKeeps ==
    ASSUME IncInv, AskedRule, ApplyDropRollup
    PROVE  IncInv'
<1>1. /\ AtUpsert("IngestBinlog") /\ pc = "upsert" /\ prog.subSyncState = "IngestBinlog" /\ Core
      /\ UNCHANGED <<log, dest, txns, progVars, locked, pc, batch, attempt, retried, budget,
                     ingestVars>>
  BY DEF ApplyDropRollup, AtUpsert, IncInv
<1>2. PICK s \in Dropping("DROP_ROLLUP") :
         /\ rollups' = IF IsBinlogCommitted(s, log[s].rollup) THEN rollups
                       ELSE rollups \ {log[s].rollup}
         /\ extra' = [extra EXCEPT !.applied = @ \cup {s}]
  BY DEF ApplyDropRollup
<1>3. /\ s \in Nat /\ s \in 1..Seen /\ s \in Seqs /\ log[s] \in Binlogs
      /\ log[s].kind = "DROP_ROLLUP" /\ s \notin extra.applied
  BY <1>1, DroppingFacts
<1>4. log[s].rollup \in Tables
  BY <1>3, BinlogFacts
<1>5. log[s].rollup \notin rollups'
  <2>1. CASE IsBinlogCommitted(s, log[s].rollup)
    <3>1. s <= prog.tableCommitSeqMap[log[s].rollup]
      BY <1>3, <2>1 DEF IsBinlogCommitted
    <3>2. MapOK(prog) /\ prog.tableCommitSeqMap[log[s].rollup] \in Nat
      BY <1>1, <1>4, ProgressNumbers DEF Core, ProgressOK, Fit, Typed
    <3>3. s \in 1..prog.tableCommitSeqMap[log[s].rollup]
      BY <1>3, <3>1, <3>2
    <3>4. HandledFor(log[s].rollup, s)
      BY <1>4, <3>2, <3>3 DEF MapOK
    <3> QED
      BY <1>2, <2>1, <3>4 DEF HandledFor
  <2>2. CASE ~IsBinlogCommitted(s, log[s].rollup)
    BY <1>2, <2>2
  <2> QED
    BY <2>1, <2>2
<1>6. rollups' \subseteq rollups
  BY <1>2
<1>7. /\ extra \in [applied : SUBSET Seqs, partialTable : Tables \cup {Nil}]
      /\ extra'.applied = extra.applied \cup {s} /\ extra'.partialTable = extra.partialTable
      /\ extra' \in [applied : SUBSET Seqs, partialTable : Tables \cup {Nil}]
  BY <1>1, <1>2, <1>3 DEF Core, Typed, PlainTypes
<1>8. ExtraFollows
  BY <1>3, <1>5, <1>7 DEF ExtraFollows
<1>9. PlainTypes'
  <2>1. PlainTypes
    BY <1>1 DEF Core, Typed
  <2>2. asked' \in Seqs
    BY <2>1 DEF AskedRule, PlainTypes
  <2>3. infos' = infos /\ jobErr' = jobErr
    BY <1>1 DEF ingestVars
  <2> QED
    BY <1>1, <1>6, <1>7, <2>1, <2>2, <2>3 DEF PlainTypes
<1>10. TxnsKeep
  BY <1>1 DEF TxnsKeep
<1>11. Quiet
  BY <1>1, <1>6, <1>8, <1>9, <1>10 DEF Quiet
<1>12. Core' /\ Grows
  BY <1>1, <1>11, SameQuiet
<1>13. PICK x : x = prog
  OBVIOUS
<1>14. x = prog'
  BY <1>1, <1>13 DEF progVars
<1>15. InTxn /\ x.subSyncState \in UpsertStates /\ ~Snapshotting(x) /\ x \in IncProgress
       /\ x.subSyncState \notin {"Done", "RollbackTransaction"}
  BY <1>1, <1>13 DEF InTxn, UpsertStates, Snapshotting, Core, Typed
<1>16. PlaceOK' /\ IngestInv'
  BY <1>1, <1>12, <1>13, <1>14, <1>15, StayFacts, UpsertPlace
<1> QED
  BY <1>12, <1>16 DEF IncInv

\* A later schema change of a table of the txn: the txn is rolled back.
LEMMA TriggerPartialKeeps ==
    ASSUME IncInv, AskedRule, TriggerPartialSnapshot
    PROVE  IncInv'
<1>1. PICK p : p = SubCheckpoint(prog, "RollbackTransaction")
  OBVIOUS
<1>2. /\ AtUpsert("IngestBinlog") /\ pc = "upsert" /\ prog.subSyncState = "IngestBinlog" /\ Core
      /\ UNCHANGED <<log, targetVars, locked, pc, batch, attempt, retried, budget, ingestVars>>
      /\ Persist(p)
  BY <1>1 DEF TriggerPartialSnapshot, AtUpsert, IncInv
<1>3. PICK s \in Dropping("ALTER_JOB") :
          \E t \in log[s].tables : extra' = [extra EXCEPT !.partialTable = t]
  BY DEF TriggerPartialSnapshot
<1>4. PICK t \in log[s].tables : extra' = [extra EXCEPT !.partialTable = t]
  BY <1>3
<1>5. t \in Tables /\ t # Nil
  BY <1>2, DroppingFacts, BinlogFacts, BinlogAssumption
<1>6. /\ extra \in [applied : SUBSET Seqs, partialTable : Tables \cup {Nil}]
      /\ extra' \in [applied : SUBSET Seqs, partialTable : Tables \cup {Nil}]
      /\ extra'.applied \subseteq extra.applied /\ extra'.partialTable # Nil
  BY <1>2, <1>4, <1>5 DEF Core, Typed, PlainTypes
<1>7. Quiet
  <2>1. infos' = infos /\ jobErr' = jobErr
    BY <1>2 DEF ingestVars
  <2> QED
    BY <1>2, <1>6, <2>1, PlainFacts, SameTarget
<1>8. /\ prog \in IncProgress /\ Fit(prog) /\ OnceOK(prog) /\ prog.prevCommitSeq = ckpt
      /\ ckpt <= ckpt /\ Passed(ckpt) /\ locked <= ckpt
  BY <1>2, AwakeFacts
<1>9. InTxn /\ prog.subSyncState \in BegunStates
  BY <1>2 DEF InTxn, BegunStates, UpsertStates
<1>10. /\ InUpsert(pc) /\ prog.inMemoryData # Nil
       /\ attempt # "recover" => Current(prog).seq = Binlog
       /\ prog.commitSeq <= prog.commitSeq
  BY <1>2, <1>9, StayFacts
<1>11. /\ p \in IncProgress /\ p.subSyncState = "RollbackTransaction"
       /\ p.prevCommitSeq = prog.prevCommitSeq /\ p.commitSeq = prog.commitSeq
       /\ p.inMemoryData = prog.inMemoryData /\ p.persistData = prog.inMemoryData
       /\ Fit(p) /\ (OnceOK(prog) => OnceOK(p))
  BY <1>1, <1>2, <1>8, <1>9, <1>10, RollbackFits DEF Core
<1>12. Core' /\ Grows /\ prog' = p
  BY <1>2, <1>7, <1>8, <1>10, <1>11, PersistQuiet DEF ProgressOK
<1>13. Current(p) = Current(prog) /\ ~Snapshotting(p) /\ p.subSyncState \in UpsertStates
       /\ p.subSyncState # "Done"
  BY <1>10, <1>11 DEF Current, Snapshotting, UpsertStates
<1>14. PlaceOK' /\ IngestInv'
  BY <1>2, <1>6, <1>10, <1>11, <1>12, <1>13, UpsertPlace
<1> QED
  BY <1>12, <1>14 DEF IncInv

\* No index that is left out is still at the target.
LEMMA SkippedAreGone ==
    ASSUME IncInv, AtUpsert("IngestBinlog"), Dropping("DROP_ROLLUP") = {},
           NEW t \in Tables, t \in Data.tables, NEW r \in 1..Len(log), log[r].rollup = t
    PROVE  t \notin rollups
<1>1. pc = "upsert" /\ InTxn
  BY DEF AtUpsert, InTxn, UpsertStates
<1>2. Core /\ TxnOK(prog, Data) /\ Data.seq \in Nat /\ Len(log) \in Nat
  BY <1>1, TxnFacts, Numbers DEF Core
<1>3. log[r] \in Binlogs
  BY <1>2, Numbers DEF Core
<1>4. log[r].kind = "DROP_ROLLUP"
  BY <1>3, BinlogFacts
<1>5. CASE r < Data.seq
  <2>1. Passed(Data.seq - 1) /\ r \in 1..(Data.seq - 1)
    BY <1>2, <1>5 DEF TxnOK
  <2> QED
    BY <2>1 DEF Passed, HandledFor
<1>6. CASE ~(r < Data.seq)
  <2>1. r \in Data.seq..Len(log)
    BY <1>2, <1>6
  <2>2. r \in extra.applied
    BY <1>4, <2>1 DEF Dropping
  <2> QED
    BY <1>2, <2>2 DEF Core, ExtraInv
<1> QED
  BY <1>5, <1>6

\* A job is started with a goroutine for every tablet of the txn.
LEMMA StartTracks ==
    ASSUME NEW tables, StartIngest(tables)
    PROVE  IngestTracks(tables)'
<1>1. infos' = {} /\ jobErr' = "ok"
  BY DEF StartIngest
<1>2. \A r \in Replicas : r.tablet \in Tablets
  BY DEF Tablets
<1>3. \A r \in Replicas :
         \/ handler'[r.tablet] = "new" /\ \E q \in ReplicasOf(tables) : q.tablet = r.tablet
         \/ handler'[r.tablet] = "done" /\ ~\E q \in ReplicasOf(tables) : q.tablet = r.tablet
  BY <1>2 DEF StartIngest
<1>4. ASSUME NEW r \in Replicas, handler'[r.tablet] # "done" PROVE r \in ReplicasOf(tables)
  <2>1. PICK q \in ReplicasOf(tables) : q.tablet = r.tablet
    BY <1>3, <1>4
  <2> QED
    BY <2>1, TabletAssumption DEF ReplicasOf
<1>5. \A r \in ReplicasOf(tables) : r \in Replicas /\ handler'[r.tablet] # "done"
  BY <1>3 DEF ReplicasOf
<1>6. \A r \in Replicas : handler'[r.tablet] # "running"
  BY <1>3
<1> QED
  BY <1>1, <1>4, <1>5, <1>6 DEF IngestTracks

\* The ingest job starts, without the indexes the source has dropped: they are gone from the
\* target, since no drop of one is left to be applied.
LEMMA IngestKeeps ==
    ASSUME IncInv, AskedRule, Ingest
    PROVE  IncInv'
<1>1. PICK d : d = [Data EXCEPT !.skipped = SkippedTables]
  OBVIOUS
<1>2. PICK p : p = [prog EXCEPT !.inMemoryData = d]
  OBVIOUS
<1>3. /\ AtUpsert("IngestBinlog") /\ pc = "upsert" /\ prog.subSyncState = "IngestBinlog" /\ Core
      /\ Dropping("DROP_ROLLUP") = {} /\ StartIngest(Data.tables) /\ pc' = "ingest"
      /\ UNCHANGED <<log, targetVars, locked, batch, attempt, extra, retried, budget>>
  BY DEF Ingest, AtUpsert, Goto, IncInv
<1>4. Volatile(p)
  <2>1. Volatile([prog EXCEPT !.inMemoryData.skipped = SkippedTables])
    BY DEF Ingest
  <2> QED
    BY <1>1, <1>2, <2>1 DEF Data
<1>5. InTxn /\ Data \in TxnData /\ TxnOK(prog, Data) /\ Data = Current(prog)
  BY <1>3, TxnFacts DEF InTxn, UpsertStates
<1>6. /\ prog \in IncProgress /\ ~Snapshotting(prog) /\ Fit(prog) /\ OnceOK(prog)
      /\ prog.prevCommitSeq = ckpt /\ RowFollows(prog, disk) /\ Seen = Len(log)
  BY <1>3, AwakeFacts
<1>7. SkippedTables \subseteq Tables
  BY <1>5 DEF SkippedTables, TxnData
<1>8. /\ d \in TxnData /\ d.seq = Data.seq /\ d.tables = Data.tables /\ d.txnId = Data.txnId
      /\ d.skipped = SkippedTables
  BY <1>1, <1>5, <1>7 DEF TxnData
<1>9. /\ p \in IncProgress /\ p.inMemoryData = d /\ p.commitSeq = prog.commitSeq
      /\ p.prevCommitSeq = prog.prevCommitSeq /\ p.syncState = prog.syncState
      /\ p.subSyncState = "IngestBinlog"
      /\ p.tableCommitSeqMap = prog.tableCommitSeqMap /\ p.partialTable = prog.partialTable
  BY <1>2, <1>3, <1>6, <1>8 DEF IncProgress
<1>10. Current(p) = d /\ d # Nil /\ p.subSyncState \in BegunStates /\ ~Snapshotting(p)
       /\ p.subSyncState \in UpsertStates
  BY <1>8, <1>9, TxnAssumption DEF Current, BegunStates, UpsertStates, Snapshotting
<1>11. TxnOK(p, d)
  BY <1>3, <1>5, <1>8, <1>9 DEF TxnOK
<1>12. Fit(p)
  BY <1>6, <1>9, <1>10, <1>11 DEF Fit, SnapshotOK, MapOK
<1>13. OnceOK(p)
  BY <1>3, <1>5, <1>6, <1>8, <1>9, <1>10 DEF OnceOK
<1>14. RowFollows(p, disk)
  BY <1>3, <1>5, <1>6, <1>8, <1>9, <1>10 DEF RowFollows
<1>15. PICK ts : ts = Data.tables
  OBVIOUS
<1>16. infos' = {} /\ jobErr' = "ok" /\ IngestTracks(ts)'
  <2>1. StartIngest(ts)
    BY <1>3, <1>15
  <2> QED
    BY <2>1, StartTracks DEF StartIngest
<1>17. Quiet
  BY <1>3, <1>16, PlainFacts, SameTarget
<1>18. Core' /\ Grows /\ prog' = p /\ Seen' \in Nat
  BY <1>3, <1>4, <1>6, <1>9, <1>12, <1>13, <1>14, <1>17, VolatileQuiet DEF ProgressOK
<1>19. SkippedGone(d)'
  <2>1. SkippedGone(d)
    <3>1. ASSUME NEW t \in d.skipped PROVE t \notin rollups /\ \E r \in 1..Seen : log[r].rollup = t
      <4>1. t \in Tables /\ t \in Data.tables /\ \E r \in 1..Len(log) : log[r].rollup = t
        BY <1>7, <1>8, <3>1 DEF SkippedTables
      <4>2. PICK r \in 1..Len(log) : log[r].rollup = t
        BY <4>1
      <4> QED
        BY <1>3, <1>6, <4>1, <4>2, SkippedAreGone
    <3> QED
      BY <3>1 DEF SkippedGone
  <2>2. d.skipped \subseteq Tables
    BY <1>7, <1>8
  <2> QED
    BY <1>3, <1>18, <2>1, <2>2, GoneStays DEF Core
<1>20. PlaceOK'
  <2>1. SkippedGone(p.inMemoryData)'
    BY <1>9, <1>19 DEF SkippedGone
  <2>2. InUpsert(pc) /\ InUpsert(pc)' /\ (attempt # "recover" => Current(p).seq = Binlog)
    BY <1>3, <1>5, <1>8, <1>10, StayFacts DEF InUpsert
  <2>3. p.commitSeq <= prog.commitSeq
    BY <1>6, <1>9, ProgressNumbers
  <2>4. p.inMemoryData # Nil
    BY <1>9, <1>10
  <2> QED
    BY <1>3, <1>9, <1>10, <1>18, <2>1, <2>2, <2>3, <2>4, TryPlace
<1>21. IngestInv'
  <2>1. prog'.inMemoryData.tables = ts
    BY <1>8, <1>9, <1>15, <1>18
  <2> QED
    BY <1>16, <2>1 DEF IngestInv, IngestTracks
<1> QED
  BY <1>18, <1>20, <1>21 DEF IncInv

\* The goroutines keep to the tablets of the txn, and to the infos of those that are done.
LEMMA StepTracks ==
    ASSUME IngestTypes, NEW tables, IngestTracks(tables), IngestStep
    PROVE  IngestTracks(tables)'
<1>1. /\ handler \in [Tablets -> {"new", "running", "done"}] /\ task \in [Replicas -> Tasks]
      /\ \A r \in Replicas : r.tablet \in Tablets
  BY DEF IngestTypes, Tablets
<1> USE DEF IngestTracks
<1>2. CASE \E b \in Tablets : Handle(b)
  <2>1. PICK b \in Tablets : Handle(b)
    BY <1>2
  <2>2. /\ handler[b] = "new" /\ handler' = [handler EXCEPT ![b] = "running"]
        /\ infos' = infos /\ jobErr' = jobErr
        /\ \A r \in Replicas : task'[r] = IF r.tablet = b THEN "start" ELSE task[r]
    BY <2>1 DEF Handle, Launch, TasksOf
  <2>3. \A r \in Replicas : /\ handler'[r.tablet] = "done" <=> handler[r.tablet] = "done"
                            /\ r.tablet # b => handler'[r.tablet] = handler[r.tablet]
    BY <1>1, <2>2
  <2>4. \A r \in ReplicasOf(tables) : r \in Replicas
    BY DEF ReplicasOf
  <2> QED
    BY <2>2, <2>3, <2>4
<1>3. CASE \E b \in Tablets : FinishHandler(b)
  <2>1. PICK b \in Tablets : FinishHandler(b)
    BY <1>3
  <2>2. /\ handler[b] = "running" /\ handler' = [handler EXCEPT ![b] = "done"]
        /\ \A r \in Replicas : r.tablet = b => task[r] \in {"none", "ok", "failed"}
        /\ infos' = infos \cup {r \in Replicas : r.tablet = b /\ task[r] = "ok"}
        /\ jobErr' = jobErr /\ task' = task
    BY <2>1 DEF FinishHandler, TasksOf
  <2>3. \A r \in Replicas : handler'[r.tablet] = IF r.tablet = b THEN "done" ELSE handler[r.tablet]
    BY <1>1, <2>2
  <2>4. \A r \in ReplicasOf(tables) : r \in Replicas
    BY DEF ReplicasOf
  <2>5. ASSUME jobErr = "ok", NEW r \in Replicas, r.tablet = b
        PROVE  task[r] = "ok" /\ r \in ReplicasOf(tables)
    BY <2>2, <2>5
  <2>6. jobErr = "ok" => infos' = {r \in ReplicasOf(tables) : handler'[r.tablet] = "done"}
    <3>1. SUFFICES ASSUME jobErr = "ok", NEW r
                   PROVE  r \in infos' <=> r \in ReplicasOf(tables) /\ handler'[r.tablet] = "done"
      BY <2>4
    <3>2. r \in infos <=> r \in ReplicasOf(tables) /\ handler[r.tablet] = "done"
      BY <3>1
    <3>3. r \in infos' <=> r \in infos \/ (r \in Replicas /\ r.tablet = b)
      BY <2>2, <2>5, <3>1
    <3> QED
      BY <2>2, <2>3, <2>4, <2>5, <3>1, <3>2, <3>3
  <2> QED
    BY <2>2, <2>3, <2>6
<1>4. ASSUME handler' = handler, infos' = infos, jobErr' = jobErr,
             \A r \in Replicas : task'[r] = task[r] \/ task'[r] \in {"start", "wait", "call", "ok"}
      PROVE  IngestTracks(tables)'
  BY <1>4
<1>5. CASE \E r \in Replicas : Acquire(r)
  <2>1. PICK r \in Replicas : Acquire(r)
    BY <1>5
  <2>2. /\ handler' = handler /\ infos' = infos /\ jobErr' = jobErr
        /\ task' = [task EXCEPT ![r] = "wait"] \/ task' = [task EXCEPT ![r] = "call"]
    BY <2>1 DEF Acquire
  <2> QED
    BY <1>1, <1>4, <2>2
<1>6. CASE \E r \in Replicas : IngestReplica(r)
  <2>1. PICK r \in Replicas : IngestReplica(r)
    BY <1>6
  <2>2. handler' = handler /\ infos' = infos /\ jobErr' = jobErr /\ Release(r, "ok")
    BY <2>1 DEF IngestReplica
  <2>3. \A q \in Replicas : task'[q] = task[q] \/ task'[q] \in {"start", "wait", "call", "ok"}
    BY <2>2 DEF Release
  <2> QED
    BY <1>4, <2>2, <2>3
<1> QED
  BY <1>2, <1>3, <1>5, <1>6 DEF IngestStep

\* The goroutines of the ingest job go on, or fail.
LEMMA IngestRunsKeeps ==
    ASSUME IncInv, WindowInv, AskedRule, IngestRuns
    PROVE  IncInv'
<1>1. /\ pc = "ingest" /\ pc' = "ingest" /\ Core
      /\ UNCHANGED <<log, targetVars, progVars, locked, batch, attempt, extra, retried>>
  BY DEF IngestRuns, IncInv
<1>2. /\ infos \subseteq Replicas /\ jobErr \in {"ok", "error", "meta"} /\ budget \in 0..MaxFaults
  BY <1>1, PlainFacts
<1>3. PICK ts : ts = prog.inMemoryData.tables
  OBVIOUS
<1>4. IngestTracks(ts)
  BY <1>1, <1>3 DEF IncInv, IngestInv
<1>5. /\ IngestTracks(ts)' /\ infos' \subseteq Replicas /\ jobErr' \in {"ok", "error", "meta"}
      /\ budget' \in 0..MaxFaults
  <2>1. CASE IngestStep /\ UNCHANGED budget
    <3>1. IngestTracks(ts)'
      BY <1>4, <2>1, StepTracks DEF WindowInv
    <3>2. infos' \subseteq Replicas /\ jobErr' = jobErr
      BY <1>2, <2>1 DEF IngestStep, Handle, FinishHandler, Acquire, IngestReplica, TasksOf
    <3> QED
      BY <1>2, <2>1, <3>1, <3>2
  <2>2. ASSUME NEW k, Fault(k), NEW err \in {"meta", "error"}, jobErr' = err, infos' = infos
        PROVE  /\ IngestTracks(ts)' /\ infos' \subseteq Replicas
               /\ jobErr' \in {"ok", "error", "meta"} /\ budget' \in 0..MaxFaults
    BY <1>1, <1>2, <2>2, FaultTypes DEF IngestTracks
  <2>3. CASE \E b \in Tablets : \/ Fault("meta") /\ HandleFails(b, "meta")
                                \/ Fault("rpc") /\ HandleFails(b, "error")
    BY <2>2, <2>3 DEF HandleFails
  <2>4. CASE \E r \in Replicas : Fault("rpc") /\ IngestReplicaFails(r)
    BY <2>2, <2>4 DEF IngestReplicaFails
  <2> QED
    BY <2>1, <2>3, <2>4 DEF IngestRuns
<1>6. Quiet
  BY <1>1, <1>5, PlainFacts, SameTarget
<1>7. Core' /\ Grows /\ Seen' \in Nat
  BY <1>1, <1>6, SameQuiet
<1>8. PICK x : x = prog
  OBVIOUS
<1>9. /\ x = prog' /\ x \in IncProgress /\ x.subSyncState = "IngestBinlog" /\ InTxn
      /\ x.inMemoryData # Nil /\ ~Snapshotting(x) /\ x.subSyncState \in UpsertStates
      /\ SkippedGone(x.inMemoryData)
  BY <1>1, <1>8 DEF progVars, IncInv, PlaceOK, InTxn, UpsertStates, Snapshotting, InUpsert, Core,
                    Typed
<1>10. IngestInv'
  BY <1>3, <1>5, <1>8, <1>9 DEF IngestInv, IngestTracks
<1>11. PlaceOK'
  <2>1. SkippedGone(x.inMemoryData)'
    <3>1. PICK d : d = x.inMemoryData
      OBVIOUS
    <3>2. d.skipped \subseteq Tables
      BY <1>1, <1>8, <1>9, <3>1, TxnFacts DEF Data, TxnData
    <3>3. SkippedGone(d)'
      BY <1>1, <1>7, <1>9, <3>1, <3>2, GoneStays DEF Core
    <3> QED
      BY <3>1, <3>3 DEF SkippedGone
  <2>2. attempt # "recover" => Current(x).seq = Binlog
    <3>1. attempt # "recover" => Handler
      BY <1>1 DEF Handler, InUpsert
    <3> QED
      BY <1>8, <1>9, <3>1, HandlerFacts
  <2>3. InUpsert(pc) /\ InUpsert(pc)' /\ x.commitSeq <= prog.commitSeq
    BY <1>1, <1>8, <1>9, ProgressNumbers DEF InUpsert
  <2>4. attempt' # "rollback"
    BY <1>1, <1>8, <1>9 DEF IncInv, PlaceOK, InUpsert
  <2> QED
    BY <1>1, <1>7, <1>9, <2>1, <2>2, <2>3, <2>4, TryPlace
<1> QED
  BY <1>7, <1>10, <1>11 DEF IncInv

\* Without an error the job has the infos of every replica of the txn, and commits.
LEMMA IngestEndsKeeps ==
    ASSUME IncInv, AskedRule, IngestEnds
    PROVE  IncInv'
<1>1. /\ pc = "ingest" /\ IngestDone /\ Core /\ prog.subSyncState = "IngestBinlog"
      /\ UNCHANGED <<log, targetVars, locked, batch, extra, budget, ingestVars>>
  BY DEF IngestEnds, IncInv, PlaceOK
<1>2. infos' = infos /\ jobErr' = jobErr
  BY <1>1 DEF ingestVars
<1>3. InTxn /\ prog.subSyncState \in BegunStates
  BY <1>1 DEF InTxn, BegunStates, UpsertStates
<1>4. CASE jobErr # "ok"
  <2>1. FailsAndRollsBack(jobErr)
    BY <1>4 DEF IngestEnds
  <2>2. Quiet
    BY <1>1, <1>2, <2>1, PlainFacts, FailsTypes, SameTarget DEF FailsAndRollsBack
  <2> QED
    BY <1>1, <1>3, <2>1, <2>2, RollsBackKeeps
<1>5. CASE jobErr = "ok"
  <2>1. PICK d : d = [Data EXCEPT !.infos = infos]
    OBVIOUS
  <2>2. PICK p : p = [prog EXCEPT !.inMemoryData = d]
    OBVIOUS
  <2>3. PICK q : q = SubCheckpoint(p, "CommitTransaction")
    OBVIOUS
  <2>4. Persist(q) /\ pc' = "upsert" /\ attempt' = attempt /\ retried' = retried
    <3>1. Persist(SubCheckpoint([prog EXCEPT !.inMemoryData.infos = infos], "CommitTransaction"))
          /\ pc' = "upsert" /\ attempt' = attempt /\ retried' = retried
      BY <1>5 DEF IngestEnds, Goto
    <3>2. [prog EXCEPT !.inMemoryData.infos = infos] = p
      BY <2>1, <2>2 DEF Data
    <3> QED
      BY <2>3, <3>1, <3>2
  <2>5. Data \in TxnData /\ TxnOK(prog, Data) /\ Data = Current(prog) /\ SkippedGone(Data)
    BY <1>1, <1>3, TxnFacts DEF IncInv, PlaceOK, Data
  <2>6. /\ prog \in IncProgress /\ ~Snapshotting(prog) /\ Fit(prog) /\ OnceOK(prog)
        /\ prog.prevCommitSeq = ckpt /\ Passed(ckpt) /\ locked <= ckpt /\ ckpt <= ckpt
    BY <1>1, AwakeFacts
  <2>7. infos = ReplicasOf(Data.tables)
    <3>1. infos = {r \in ReplicasOf(Data.tables) : handler[r.tablet] = "done"}
      BY <1>1, <1>5 DEF IncInv, IngestInv, IngestTracks, Data
    <3>2. \A r \in ReplicasOf(Data.tables) : handler[r.tablet] = "done"
      BY <1>1 DEF IngestDone, ReplicasOf, Tablets
    <3> QED
      BY <3>1, <3>2
  <2>8. /\ d \in TxnData /\ d.seq = Data.seq /\ d.tables = Data.tables /\ d.txnId = Data.txnId
        /\ d.skipped = Data.skipped /\ d.infos = ReplicasOf(d.tables) /\ d # Nil
    <3>1. infos \subseteq Replicas
      BY <1>1, PlainFacts
    <3> QED
      BY <2>1, <2>5, <2>7, <3>1, TxnAssumption DEF TxnData
  <2>9. /\ p \in IncProgress /\ p.inMemoryData = d /\ p.commitSeq = prog.commitSeq
        /\ p.prevCommitSeq = prog.prevCommitSeq /\ p.syncState = prog.syncState
        /\ p.tableCommitSeqMap = prog.tableCommitSeqMap /\ p.partialTable = prog.partialTable
    BY <2>2, <2>6, <2>8 DEF IncProgress
  <2>10. /\ q \in IncProgress /\ q.subSyncState = "CommitTransaction" /\ q.persistData = d
         /\ q.commitSeq = prog.commitSeq /\ q.prevCommitSeq = ckpt
         /\ q.syncState = prog.syncState /\ q.tableCommitSeqMap = prog.tableCommitSeqMap
         /\ q.partialTable = prog.partialTable /\ q.inMemoryData = d
    BY <2>3, <2>6, <2>9, CheckpointIs DEF UpsertStates
  <2>11. /\ Current(q) = d /\ ~Snapshotting(q) /\ q.subSyncState \in UpsertStates
         /\ q.subSyncState \in BegunStates
         /\ q.subSyncState \notin {"Done", "RollbackTransaction"}
    BY <2>8, <2>10 DEF Current, Snapshotting, UpsertStates, BegunStates
  <2>12. SkippedGone(d)
    BY <2>5, <2>8 DEF SkippedGone
  <2>13. TxnOK(q, d)
    BY <1>1, <2>5, <2>6, <2>8, <2>10, <2>12 DEF TxnOK
  <2>14. Fit(q)
    BY <2>6, <2>10, <2>11, <2>13 DEF Fit, SnapshotOK, MapOK
  <2>15. OnceOK(q)
    BY <1>3, <2>5, <2>6, <2>8, <2>10, <2>11 DEF OnceOK
  <2>16. Quiet
    BY <1>1, <1>2, <2>4, PlainFacts, SameTarget
  <2>17. Core' /\ Grows /\ prog' = q
    BY <1>1, <2>4, <2>6, <2>8, <2>10, <2>14, <2>15, <2>16, PersistQuiet DEF ProgressOK
  <2>18. PlaceOK' /\ IngestInv'
    <3>1. attempt # "recover" => Current(q).seq = Binlog
      <4>1. attempt # "recover" => Handler
        BY <1>1 DEF Handler, InUpsert
      <4> QED
        BY <1>3, <2>5, <2>8, <2>11, <4>1, HandlerFacts
    <3>2. InUpsert(pc) /\ q.commitSeq <= prog.commitSeq
      BY <1>1, <2>6, <2>10, ProgressNumbers DEF InUpsert
    <3> QED
      BY <1>1, <2>4, <2>8, <2>10, <2>11, <2>17, <3>1, <3>2, UpsertPlace
  <2> QED
    BY <2>17, <2>18 DEF IncInv
<1> QED
  BY <1>4, <1>5
-----------------------------------------------------------------------------
(* handleUpsert: case CommitTransaction. *)

\* A commit takes effect.
Commits ==
    /\ pc = "upsert" /\ prog.subSyncState = "CommitTransaction" /\ Txn.status = "PREPARE"
    /\ Resolve("COMMITTED") /\ Apply(Data.seq, Data.tables)
    /\ UNCHANGED <<log, rollups, locked, batch, extra, retried, ingestVars>>

\* The txn that is committed, and what the commit changes.
LEMMA CommitFacts ==
    ASSUME IncInv, Commits, NEW d, d = Data, NEW i, i = Data.txnId
    PROVE  /\ Core /\ TxnOK(prog, d) /\ d \in TxnData /\ d = Current(prog)
           /\ prog.subSyncState \in BegunStates /\ InTxn /\ d.tables \subseteq Tables
           /\ d.seq \in 1..Seen /\ d.seq \in Nat /\ d.seq \in Seqs
           /\ i \in DOMAIN txns /\ i = d.txnId /\ txns[i].status = "PREPARE"
           /\ txns[i].data.seq = d.seq /\ txns[i].data.tables = d.tables
           /\ txns' = [txns EXCEPT ![i] = [status |-> "COMMITTED", data |-> d]]
           /\ dest' = [t \in Tables |->
                 IF t \in d.tables THEN [dest[t] EXCEPT !.applied = Append(@, d.seq)] ELSE dest[t]]
           /\ d.infos = ReplicasOf(d.tables) /\ SkippedGone(d)
           /\ \A t \in Tables : dest[t] \in [base : Seqs, applied : Seq(Seqs)]
<1>1. InTxn
  BY DEF Commits, InTxn, UpsertStates
<1>2. /\ Core /\ TxnOK(prog, d) /\ d \in TxnData /\ d = Current(prog)
      /\ prog.subSyncState \in BegunStates
      /\ d.seq \in 1..Seen /\ d.seq \in Nat
      /\ i \in DOMAIN txns /\ i = d.txnId
      /\ txns[i].data.seq = d.seq /\ txns[i].data.tables = d.tables
  BY <1>1, TxnFacts DEF Commits
<1>3. d.seq \in Seqs /\ d.tables \subseteq Tables
  BY <1>2 DEF TxnData
<1>4. /\ txns[i].status = "PREPARE"
      /\ txns' = [txns EXCEPT ![i] = [status |-> "COMMITTED", data |-> d]]
      /\ dest' = [t \in Tables |->
            IF t \in d.tables THEN [dest[t] EXCEPT !.applied = Append(@, d.seq)] ELSE dest[t]]
  BY DEF Commits, Txn, Resolve, Apply
<1>5. d.infos = ReplicasOf(d.tables) /\ SkippedGone(d)
  BY <1>2 DEF TxnOK, Commits
<1>6. \A t \in Tables : dest[t] \in [base : Seqs, applied : Seq(Seqs)]
  BY <1>2 DEF Core, Typed, PlainTypes
<1> QED
  BY <1>1, <1>2, <1>3, <1>4, <1>5, <1>6

\* The binlog is added to its tables.
LEMMA AppliedIs ==
    ASSUME NEW r \in [base : Seqs, applied : Seq(Seqs)], NEW s \in Seqs,
           NEW q, q = [r EXCEPT !.applied = Append(@, s)]
    PROVE  /\ q \in [base : Seqs, applied : Seq(Seqs)] /\ q.base = r.base
           /\ Len(r.applied) \in Nat /\ DOMAIN r.applied = 1..Len(r.applied)
           /\ DOMAIN q.applied = 1..(Len(r.applied) + 1)
           /\ q.applied[Len(r.applied) + 1] = s
           /\ \A i \in 1..Len(r.applied) : q.applied[i] = r.applied[i]
<1>1. PICK a : a = r.applied
  OBVIOUS
<1>2. a \in Seq(Seqs) /\ r.base \in Seqs
  BY <1>1
<1>3. PICK b : b = Append(a, s)
  OBVIOUS
<1>4. /\ b \in Seq(Seqs) /\ Len(a) \in Nat /\ DOMAIN a = 1..Len(a) /\ DOMAIN b = 1..(Len(a) + 1)
      /\ b[Len(a) + 1] = s /\ \A i \in 1..Len(a) : b[i] = a[i]
  BY <1>2, <1>3
<1>5. q = [r EXCEPT !.applied = b]
  BY <1>1, <1>3
<1>6. q.applied = b /\ q.base = r.base /\ q \in [base : Seqs, applied : Seq(Seqs)]
  BY <1>2, <1>4, <1>5
<1> QED
  BY <1>1, <1>4, <1>6

\* What the commit adds to a table.
LEMMA CommitApplies ==
    ASSUME IncInv, Commits, NEW t \in Tables
    PROVE  /\ dest'[t] \in [base : Seqs, applied : Seq(Seqs)] /\ dest'[t].base = dest[t].base
           /\ \A k \in DOMAIN dest'[t].applied :
                 \/ dest'[t].applied[k] = Data.seq
                 \/ k \in DOMAIN dest[t].applied /\ dest'[t].applied[k] = dest[t].applied[k]
           /\ \A k \in DOMAIN dest[t].applied :
                 k \in DOMAIN dest'[t].applied /\ dest'[t].applied[k] = dest[t].applied[k]
           /\ t \in Data.tables => \E k \in DOMAIN dest'[t].applied : dest'[t].applied[k] = Data.seq
           /\ IsInjective(dest[t].applied)
              /\ (\A k \in DOMAIN dest[t].applied : dest[t].applied[k] # Data.seq)
                 => IsInjective(dest'[t].applied)
<1>1. PICK d : d = Data
  OBVIOUS
<1>2. PICK r : r = dest[t]
  OBVIOUS
<1>3. PICK q : q = dest'[t]
  OBVIOUS
<1>4. /\ r \in [base : Seqs, applied : Seq(Seqs)] /\ d.seq \in Seqs
      /\ q = IF t \in d.tables THEN [r EXCEPT !.applied = Append(@, d.seq)] ELSE r
  BY <1>1, <1>2, <1>3, CommitFacts
<1>5. CASE t \notin d.tables
  BY <1>1, <1>2, <1>3, <1>4, <1>5
<1>6. CASE t \in d.tables
  <2>1. /\ q \in [base : Seqs, applied : Seq(Seqs)] /\ q.base = r.base
        /\ Len(r.applied) \in Nat /\ DOMAIN r.applied = 1..Len(r.applied)
        /\ DOMAIN q.applied = 1..(Len(r.applied) + 1)
        /\ q.applied[Len(r.applied) + 1] = d.seq
        /\ \A i \in 1..Len(r.applied) : q.applied[i] = r.applied[i]
    BY <1>4, <1>6, AppliedIs
  <2>2. \A k \in DOMAIN q.applied :
           \/ q.applied[k] = d.seq
           \/ k \in DOMAIN r.applied /\ q.applied[k] = r.applied[k]
    BY <2>1
  <2>3. \A k \in DOMAIN r.applied : k \in DOMAIN q.applied /\ q.applied[k] = r.applied[k]
    BY <2>1
  <2>4. \E k \in DOMAIN q.applied : q.applied[k] = d.seq
    BY <2>1
  <2>5. ASSUME IsInjective(r.applied), \A k \in DOMAIN r.applied : r.applied[k] # d.seq
        PROVE  IsInjective(q.applied)
    BY <2>1, <2>5 DEF IsInjective
  <2> QED
    BY <1>1, <1>2, <1>3, <2>1, <2>2, <2>3, <2>4, <2>5
<1> QED
  BY <1>5, <1>6

\* The commit only adds to the target.
LEMMA CommitGrows ==
    ASSUME IncInv, Commits, AskedRule, disk' \in IncProgress, NEW d, d = Data
    PROVE  /\ Grows /\ Seen' \in Nat /\ Seen' <= Len(log') /\ TxnsKeep
           /\ \A t \in d.tables : Covered(t, d.seq)'
<1>1. /\ Typed /\ TargetInv /\ d.tables \subseteq Tables
      /\ log' = log /\ rollups' = rollups
  BY CommitFacts DEF Core, Commits
<1>2. /\ Seen <= Seen' /\ Seen' \in Nat /\ Seen' <= Len(log')
      /\ \A r \in 1..Seen : log'[r] = log[r]
  BY <1>1, SeenGrows
<1>3. ASSUME NEW t \in Tables, NEW r, Covered(t, r) PROVE Covered(t, r)'
  BY <1>3, CommitApplies DEF Covered
<1>4. Grows
  BY <1>1, <1>2, <1>3 DEF Grows
<1>5. \A t \in d.tables : Covered(t, d.seq)'
  BY <1>1, CommitApplies DEF Covered
<1>6. TxnsKeep
  <2>1. PICK i : i = Data.txnId
    OBVIOUS
  <2>2. /\ i \in DOMAIN txns /\ txns[i].status = "PREPARE"
        /\ txns[i].data.seq = d.seq /\ txns[i].data.tables = d.tables
        /\ txns' = [txns EXCEPT ![i] = [status |-> "COMMITTED", data |-> d]]
    BY <2>1, CommitFacts
  <2>3. /\ DOMAIN txns' = DOMAIN txns
        /\ txns'[i] = [status |-> "COMMITTED", data |-> d]
        /\ \A k \in DOMAIN txns : k # i => txns'[k] = txns[k]
    BY <2>2
  <2> QED
    BY <2>2, <2>3 DEF TxnsKeep
<1> QED
  BY <1>2, <1>4, <1>5, <1>6

\* The target after the commit.
LEMMA CommitTarget ==
    ASSUME IncInv, Commits, AskedRule, disk' \in IncProgress, ckpt' = ckpt
    PROVE  TargetInv' /\ CommittedInv' /\ ExtraInv' /\ OnceInv'
<1>1. PICK d : d = Data
  OBVIOUS
<1>2. PICK i : i = Data.txnId
  OBVIOUS
<1>3. /\ Core /\ TxnOK(prog, d) /\ d \in TxnData
      /\ d.tables \subseteq Tables /\ d.seq \in 1..Seen /\ d.seq \in Nat
      /\ i \in DOMAIN txns /\ txns[i].status = "PREPARE" /\ i = d.txnId
      /\ txns' = [txns EXCEPT ![i] = [status |-> "COMMITTED", data |-> d]]
      /\ d.infos = ReplicasOf(d.tables) /\ SkippedGone(d) /\ d = Current(prog)
  BY <1>1, <1>2, CommitFacts
<1>4. /\ Grows /\ Seen' \in Nat /\ Seen' <= Len(log') /\ TxnsKeep
      /\ \A t \in d.tables : Covered(t, d.seq)'
  BY <1>1, CommitGrows
<1>5. /\ Typed /\ TargetInv /\ CommittedInv /\ ExtraInv /\ OnceInv /\ Seen \in Nat
      /\ UNCHANGED <<log, rollups, locked, extra, retried>>
  BY <1>3, Numbers DEF Core, Commits
<1>6. d.seq \in 1..Seen'
  BY <1>3, <1>4, <1>5 DEF Grows
<1>7. TargetInv'
  <2>1. \A t \in Tables : /\ dest[t].base \in Nat
                          /\ \A k \in DOMAIN dest[t].applied : dest[t].applied[k] \in Nat
    <3>1. \A s \in Seqs : s \in Nat
      BY DEF Seqs
    <3>2. dest \in [Tables -> [base : Seqs, applied : Seq(Seqs)]]
      BY <1>5 DEF Typed, PlainTypes
    <3>3. \A t \in Tables : dest[t].base \in Seqs /\ dest[t].applied \in Seq(Seqs)
      BY <3>2
    <3> QED
      BY <3>1, <3>3
  <2>2. ASSUME NEW t \in Tables
        PROVE  /\ dest'[t].base <= Seen'
               /\ \A k \in DOMAIN dest'[t].applied : dest'[t].applied[k] \in 1..Seen'
    <3>1. dest[t].base <= Seen' /\ \A k \in DOMAIN dest[t].applied : dest[t].applied[k] \in 1..Seen'
      BY <1>4, <1>5, <2>1 DEF TargetInv, Grows
    <3> QED
      BY <1>1, <1>6, <3>1, CommitApplies
  <2>3. Passed(ckpt)'
    <3>1. PICK c : c = ckpt
      OBVIOUS
    <3>2. Passed(c)'
      BY <1>4, <1>5, <3>1, PassedStays, Numbers DEF TargetInv
    <3> QED
      BY <3>1, <3>2 DEF Passed
  <2>4. asked' <= Len(log')
    BY <1>5, Numbers DEF AskedRule, TargetInv
  <2>5. ckpt' <= Seen'
    BY <1>4, <1>5, Numbers DEF Grows, TargetInv
  <2> QED
    BY <1>5, <2>2, <2>3, <2>4, <2>5 DEF TargetInv
<1>8. CommittedInv'
  <2>1. PICK z : z = [status |-> "COMMITTED", data |-> d]
    OBVIOUS
  <2>2. CommittedOK(z)'
    <3>1. z.data = d /\ d.skipped \subseteq Tables
      BY <1>3, <2>1 DEF TxnData
    <3>2. SkippedGone(d)'
      BY <1>3, <1>4, <1>5, <3>1, GoneStays
    <3> QED
      BY <1>3, <1>4, <1>6, <3>1, <3>2 DEF CommittedOK
  <2>3. ASSUME NEW k \in DOMAIN txns', NEW x, x = txns'[k] PROVE CommittedOK(x)'
    <3>1. CASE k = i
      BY <1>3, <2>1, <2>2, <2>3, <3>1
    <3>2. CASE k # i
      <4>1. k \in DOMAIN txns /\ x = txns[k]
        BY <1>3, <2>3, <3>2
      <4>2. x \in Txns /\ CommittedOK(x)
        BY <1>5, <4>1, Numbers DEF CommittedInv
      <4> QED
        BY <1>4, <1>5, <4>2, CommittedStays
    <3> QED
      BY <3>1, <3>2
  <2> QED
    BY <2>3 DEF CommittedInv, CommittedOK, SkippedGone, Covered
<1>9. ExtraInv'
  <2>1. ExtraFollows
    BY <1>5 DEF ExtraFollows
  <2> QED
    BY <1>4, <1>5, <2>1, ExtraStays
<1>10. OnceInv'
  <2>1. SUFFICES ASSUME ~retried, NEW t \in Tables PROVE IsInjective(dest'[t].applied)
    BY <1>5 DEF OnceInv
  <2>2. IsInjective(dest[t].applied)
    BY <1>5, <2>1 DEF OnceInv
  <2>3. /\ prog \in IncProgress /\ Fit(prog) /\ OnceOK(prog) /\ ~Snapshotting(prog)
        /\ txns[Current(prog).txnId].status # "COMMITTED"
    <3>1. pc # "idle"
      BY DEF Commits
    <3> QED
      BY <1>3, <3>1, AwakeFacts
  <2>4. \A k \in DOMAIN dest[t].applied : ~(dest[t].applied[k] > prog.prevCommitSeq)
    BY <2>1, <2>3, NoneAbove
  <2>5. prog.prevCommitSeq < d.seq /\ prog.prevCommitSeq \in Nat
    BY <1>3, <2>1, <2>3, ProgressNumbers DEF TxnOK
  <2>6. \A k \in DOMAIN dest[t].applied : dest[t].applied[k] # d.seq
    BY <1>3, <2>4, <2>5
  <2> QED
    BY <1>1, <2>2, <2>6, CommitApplies
<1> QED
  BY <1>7, <1>8, <1>9, <1>10

\* A progress in the txn that is committed.
LEMMA CommitProgress ==
    ASSUME IncInv, Commits, AskedRule, disk' \in IncProgress,
           NEW x \in IncProgress, Fit(x), OnceOK(x), x.prevCommitSeq = ckpt,
           \/ x.syncState = "DBFullSync"
           \/ /\ x.subSyncState \in BegunStates /\ Current(x).seq = Data.seq
              /\ Current(x).txnId = Data.txnId
    PROVE  ProgressOK(x)'
<1>1. PICK d : d = Data
  OBVIOUS
<1>2. /\ Core /\ d \in TxnData /\ d.txnId \in DOMAIN txns
      /\ txns' = [txns EXCEPT ![d.txnId] = [status |-> "COMMITTED", data |-> d]]
      /\ d = Current(prog) /\ txns[d.txnId].status = "PREPARE"
  BY <1>1, CommitFacts
<1>3. Grows /\ Seen' \in Nat /\ TxnsKeep /\ retried' = retried
  BY <1>1, CommitGrows DEF Commits
<1>4. Fit(x)'
  BY <1>2, <1>3, FitStays DEF Core
<1>5. OnceOK(x)'
  <2>1. CASE x.syncState = "DBFullSync"
    BY <2>1 DEF OnceOK
  <2>2. CASE /\ x.subSyncState \in BegunStates /\ Current(x).seq = Data.seq
             /\ Current(x).txnId = Data.txnId
    <3>1. PICK e : e = Current(x)
      OBVIOUS
    <3>2. txns'[e.txnId].status = "COMMITTED" /\ e.seq = d.seq
      BY <1>1, <1>2, <2>2, <3>1
    <3>3. /\ prog \in IncProgress /\ Fit(prog) /\ OnceOK(prog) /\ ~Snapshotting(prog)
          /\ txns[Current(prog).txnId].status # "COMMITTED" /\ prog.prevCommitSeq = ckpt
      <4>1. pc # "idle"
        BY DEF Commits
      <4> QED
        BY <1>2, <4>1, AwakeFacts
    <3>4. ASSUME ~retried, NEW t \in Tables, NEW k \in DOMAIN dest'[t].applied,
                 dest'[t].applied[k] > x.prevCommitSeq
          PROVE  dest'[t].applied[k] = e.seq
      <4>1. \A j \in DOMAIN dest[t].applied : ~(dest[t].applied[j] > x.prevCommitSeq)
        BY <3>3, <3>4, NoneAbove
      <4> QED
        BY <1>1, <3>2, <3>4, <4>1, CommitApplies
    <3> QED
      BY <1>3, <2>2, <3>1, <3>2, <3>4 DEF OnceOK, Current
  <2> QED
    BY <2>1, <2>2
<1> QED
  BY <1>4, <1>5 DEF ProgressOK

\* What is left to show of a commit is that the progress stays with the txn.
LEMMA CommitStep ==
    ASSUME IncInv, Commits, AskedRule, budget' \in 0..MaxFaults,
           pc' \in {"idle", "loop", "batch", "upsert", "ingest", "committed", "ddl", "handled"},
           attempt' \in {"recover", "first", "rollback", "second"},
           NEW x \in IncProgress, x = prog', NEW y \in IncProgress, y = disk',
           Fit(x), Fit(y), OnceOK(x), OnceOK(y), RowFollows(x, y), y.inMemoryData = Nil,
           x.prevCommitSeq = ckpt, y.prevCommitSeq = ckpt, ckpt' = ckpt,
           \/ x.syncState = "DBFullSync" /\ y.syncState = "DBFullSync"
           \/ /\ x.subSyncState \in BegunStates /\ Current(x).seq = Data.seq
              /\ Current(x).txnId = Data.txnId
    PROVE  Core' /\ Grows /\ Seen' \in Nat
<1>1. PICK d : d = Data
  OBVIOUS
<1>2. PICK i : i = Data.txnId
  OBVIOUS
<1>3. /\ Core /\ d \in TxnData /\ i \in DOMAIN txns
      /\ txns' = [txns EXCEPT ![i] = [status |-> "COMMITTED", data |-> d]]
  BY <1>1, <1>2, CommitFacts
<1>4. Typed'
  <2>1. PlainTypes
    BY <1>3 DEF Core, Typed
  <2>2. asked' \in Seqs
    BY <2>1 DEF AskedRule, PlainTypes, Commits
  <2>3. /\ UNCHANGED <<log, rollups, locked, batch, extra, retried>>
        /\ infos' = infos /\ jobErr' = jobErr
    BY DEF Commits, ingestVars
  <2>4. dest' \in [Tables -> [base : Seqs, applied : Seq(Seqs)]]
    <3>1. \A t \in Tables : dest'[t] \in [base : Seqs, applied : Seq(Seqs)]
      BY CommitApplies
    <3>2. dest' = [t \in Tables |-> dest'[t]]
      BY DEF Commits, Apply
    <3> QED
      BY <3>1, <3>2
  <2>5. txns' \in Seq(Txns) /\ Len(txns') <= MaxTxn
    <3>1. [status |-> "COMMITTED", data |-> d] \in Txns
      BY <1>3 DEF Txns
    <3> QED
      BY <1>3, <2>1, <3>1 DEF PlainTypes
  <2>6. PlainTypes'
    BY <2>1, <2>2, <2>3, <2>4, <2>5 DEF PlainTypes
  <2> QED
    BY <2>6 DEF Typed
<1>5. TargetInv' /\ CommittedInv' /\ ExtraInv' /\ OnceInv'
  BY CommitTarget
<1>6. ProgressOK(x)'
  BY CommitProgress
<1>7. ProgressOK(y)'
  <2>1. x.subSyncState \in BegunStates => /\ y.subSyncState \in BegunStates
                                          /\ Current(y).seq = Current(x).seq
                                          /\ Current(y).txnId = Current(x).txnId
    BY DEF RowFollows, Current
  <2> QED
    BY <2>1, CommitProgress
<1>8. ProgressOK(prog)' /\ ProgressOK(disk)' /\ RowFollows(prog, disk)'
  BY <1>6, <1>7, ProgressIs, RowIs
<1>9. Grows /\ Seen' \in Nat
  BY <1>1, CommitGrows
<1> QED
  BY <1>4, <1>5, <1>8, <1>9 DEF Core

\* The commit is answered with OK.
LEMMA CommitTxnKeeps ==
    ASSUME IncInv, AskedRule, CommitTxn
    PROVE  IncInv'
<1>1. PICK x : x = prog
  OBVIOUS
<1>2. PICK y : y = disk
  OBVIOUS
<1>3. /\ pc = "upsert" /\ prog.subSyncState = "CommitTransaction" /\ pc' = "committed" /\ Core
      /\ UNCHANGED <<log, rollups, progVars, locked, batch, attempt, extra, retried, budget,
                     ingestVars>>
  BY DEF CommitTxn, AtUpsert, Goto, IncInv
<1>4. InTxn
  BY <1>3 DEF InTxn, UpsertStates
<1>5. /\ x \in IncProgress /\ Fit(x) /\ OnceOK(x) /\ x.prevCommitSeq = ckpt /\ ~Snapshotting(x)
      /\ y \in IncProgress /\ Fit(y) /\ OnceOK(y) /\ y.prevCommitSeq = ckpt
      /\ RowFollows(x, y) /\ y.inMemoryData = Nil
  BY <1>1, <1>2, <1>3, AwakeFacts DEF Core, Typed, ProgressOK
<1>6. x = prog' /\ y = disk' /\ ckpt' = ckpt
  BY <1>1, <1>2, <1>3 DEF progVars
<1>7. Core' /\ Grows /\ txns'[x.inMemoryData.txnId].status = "COMMITTED"
  <2>1. CASE Txn.status = "PREPARE" /\ Resolve("COMMITTED") /\ Apply(Data.seq, Data.tables)
    <3>1. Commits
      BY <1>3, <2>1 DEF Commits
    <3>2. /\ x.subSyncState \in BegunStates /\ Current(x).seq = Data.seq
          /\ Current(x).txnId = Data.txnId
      BY <1>1, <1>3, <1>4, TxnFacts
    <3>3. budget' \in 0..MaxFaults /\ attempt' \in {"recover", "first", "rollback", "second"}
      BY <1>3, PlainFacts
    <3>4. Core' /\ Grows
      BY <1>3, <1>5, <1>6, <3>1, <3>2, <3>3, CommitStep
    <3>5. txns'[x.inMemoryData.txnId].status = "COMMITTED"
      <4>1. PICK i : i = Data.txnId
        OBVIOUS
      <4>2. /\ i \in DOMAIN txns
            /\ txns' = [txns EXCEPT ![i] = [status |-> "COMMITTED", data |-> Data]]
        BY <3>1, <4>1, CommitFacts
      <4> QED
        BY <1>1, <4>1, <4>2 DEF Data
    <3> QED
      BY <3>4, <3>5
  <2>2. CASE Txn.status = "COMMITTED" /\ UNCHANGED <<txns, dest>>
    <3>1. Quiet
      <4>1. infos' = infos /\ jobErr' = jobErr
        BY <1>3 DEF ingestVars
      <4>2. TxnsQuiet
        BY <1>3, <2>2, SameTxns
      <4> QED
        BY <1>3, <2>2, <4>1, <4>2, PlainFacts, SameTables
    <3>2. txns'[x.inMemoryData.txnId].status = "COMMITTED"
      BY <1>1, <2>2 DEF Txn, Data
    <3> QED
      BY <1>3, <3>1, <3>2, SameQuiet
  <2> QED
    BY <2>1, <2>2 DEF CommitTxn
<1>8. PlaceOK'
  <2>1. /\ InUpsert(pc) /\ InUpsert(pc)' /\ x.inMemoryData # Nil
        /\ (attempt # "recover" => Current(x).seq = Binlog)
        /\ x.commitSeq <= prog.commitSeq
    BY <1>1, <1>3, <1>4, StayFacts DEF InUpsert
  <2>2. x.subSyncState \in UpsertStates /\ x.subSyncState = "CommitTransaction"
    BY <1>1, <1>3 DEF UpsertStates
  <2> QED
    BY <1>3, <1>5, <1>6, <1>7, <2>1, <2>2, TryPlace
<1>9. IngestInv'
  BY <1>3 DEF IngestInv
<1> QED
  BY <1>7, <1>8, <1>9 DEF IncInv

\* The commit fails, with or without having taken effect: the txn is to be rolled back.
LEMMA CommitTxnFailsKeeps ==
    ASSUME IncInv, AskedRule, CommitTxnFails
    PROVE  IncInv'
<1>1. /\ pc = "upsert" /\ prog.subSyncState = "CommitTransaction" /\ Core
      /\ UNCHANGED <<log, rollups, locked, batch, extra, ingestVars>>
  BY DEF CommitTxnFails, AtUpsert, IncInv
<1>2. InTxn /\ prog.subSyncState \in BegunStates
  BY <1>1 DEF InTxn, UpsertStates, BegunStates
<1>3. infos' = infos /\ jobErr' = jobErr
  BY <1>1 DEF ingestVars
<1>4. budget \in 0..MaxFaults
  BY <1>1, PlainFacts
<1>5. ASSUME NEW err, FailsAndRollsBack(err), txns' = txns, dest' = dest, budget' \in 0..MaxFaults
      PROVE  IncInv'
  <2>1. Quiet
    <3>1. TxnsQuiet
      BY <1>1, <1>5, SameTxns
    <3> QED
      BY <1>1, <1>3, <1>5, <3>1, PlainFacts, FailsTypes, SameTables DEF FailsAndRollsBack
  <2> QED
    BY <1>1, <1>2, <1>5, <2>1, RollsBackKeeps
<1>6. ASSUME NEW err, FailsAndRollsBack(err), Txn.status = "PREPARE", Resolve("COMMITTED"),
             Apply(Data.seq, Data.tables), budget' \in 0..MaxFaults
      PROVE  IncInv'
  <2>1. PICK p : p = SubCheckpoint(prog, "RollbackTransaction")
    OBVIOUS
  <2>2. PICK x : x = prog'
    OBVIOUS
  <2>3. PICK y : y = disk'
    OBVIOUS
  <2>4. /\ Fit(prog) /\ OnceOK(prog) /\ prog \in IncProgress /\ prog.prevCommitSeq = ckpt
        /\ ~Snapshotting(prog) /\ OnceOK(disk)
    BY <1>1, AwakeFacts DEF Core, ProgressOK
  <2>5. /\ InUpsert(pc) /\ prog.inMemoryData # Nil
        /\ (attempt # "recover" => Current(prog).seq = Binlog)
        /\ prog.commitSeq <= prog.commitSeq
        /\ Current(prog) = Data
    BY <1>1, <1>2, StayFacts, TxnFacts
  <2>6. /\ p \in IncProgress /\ p.subSyncState = "RollbackTransaction"
        /\ p.prevCommitSeq = prog.prevCommitSeq /\ p.commitSeq = prog.commitSeq
        /\ p.inMemoryData = prog.inMemoryData /\ p.persistData = prog.inMemoryData
        /\ Fit(p) /\ (OnceOK(prog) => OnceOK(p))
    BY <1>1, <1>2, <2>1, <2>4, <2>5, RollbackFits DEF Core
  <2>7. /\ Current(p) = Data /\ p.subSyncState \in BegunStates /\ ~Snapshotting(p)
        /\ p.subSyncState \in UpsertStates
    BY <2>5, <2>6 DEF Current, BegunStates, UpsertStates, Snapshotting
  <2>8. Fails(p, err)
    BY <1>6, <2>1 DEF FailsAndRollsBack
  <2>9. /\ x \in IncProgress /\ Fit(x) /\ x.prevCommitSeq = ckpt /\ ckpt' = ckpt
        /\ y \in IncProgress /\ Fit(y) /\ RowFollows(x, y) /\ y.inMemoryData = Nil
        /\ y.prevCommitSeq = ckpt
        /\ x = p \/ (x.syncState = "DBFullSync" /\ y.syncState = "DBFullSync")
        /\ OnceOK(p) => OnceOK(x) /\ OnceOK(y)
        /\ retried' = retried
        /\ \/ pc' = "idle" /\ attempt' = attempt
           \/ /\ x = p /\ pc' = "upsert" /\ attempt = "first"
              /\ attempt' = IF p.subSyncState = "RollbackTransaction" THEN "rollback"
                            ELSE "second"
    BY <1>1, <2>2, <2>3, <2>4, <2>5, <2>6, <2>7, <2>8, FailsIs
  <2>10. Commits
    BY <1>1, <1>6, <2>9 DEF Commits
  <2>11. attempt' \in {"recover", "first", "rollback", "second"}
    BY <1>1, <2>8, FailsTypes
  <2>12. Core' /\ Grows
    BY <1>6, <2>2, <2>3, <2>4, <2>6, <2>7, <2>9, <2>10, <2>11, CommitStep
  <2>13. CASE pc' = "idle"
    BY <2>12, <2>13, PlaceIdle DEF IncInv
  <2>14. CASE x = p /\ pc' = "upsert" /\ attempt = "first" /\ attempt' = "rollback"
    <3>1. x.commitSeq <= prog.commitSeq
      BY <2>5, <2>6, <2>14
    <3>2. Current(x).seq = Binlog /\ x.inMemoryData # Nil
      BY <2>5, <2>6, <2>7, <2>14
    <3>3. PlaceOK' /\ IngestInv'
      BY <1>1, <2>2, <2>5, <2>6, <2>7, <2>12, <2>14, <3>1, <3>2, UpsertPlace
    <3> QED
      BY <2>12, <3>3 DEF IncInv
  <2> QED
    BY <2>6, <2>9, <2>13, <2>14
<1>7. CASE Txn.status \in {"ABORTED", "COMMITTED"} /\ FailsAndRollsBack("error")
           /\ UNCHANGED <<txns, dest, budget>>
  BY <1>4, <1>5, <1>7
<1>8. CASE Txn.status = "PREPARE" /\ Fault("rpc") /\ FailsAndRollsBack("error")
           /\ UNCHANGED <<txns, dest>>
  BY <1>1, <1>5, <1>8, FaultTypes
<1>9. CASE /\ Txn.status = "PREPARE" /\ Resolve("COMMITTED") /\ Apply(Data.seq, Data.tables)
           /\ \/ Fault("lostReply") /\ FailsAndRollsBack("error")
              \/ Fault("publishTimeout") /\ FailsAndRollsBack("meta")
  BY <1>1, <1>6, <1>9, FaultTypes
<1> QED
  BY <1>7, <1>8, <1>9 DEF CommitTxnFails
-----------------------------------------------------------------------------
(* The end of a txn, and case RollbackTransaction. *)

\* A call of handleUpsert returns with the progress p, and its txn is done with.
LEMMA ReturnsPlace ==
    ASSUME IncInv, Core', Grows, NEW p \in IncProgress, Returns(p), prog' = p,
           pc \in {"upsert", "committed"}, InTxn, attempt = "rollback" => pc = "upsert",
           UNCHANGED <<log, batch, extra>>,
           p.subSyncState = "Done", p.commitSeq <= prog.commitSeq, Passed(p.commitSeq),
           NEW s, s = Data.seq, Passed(s) \/ extra.partialTable # Nil \/ attempt = "rollback"
    PROVE  IncInv'
<1>1. /\ InUpsert(pc) /\ TxnOK(prog, Data)
  BY TxnFacts DEF InUpsert
<1>2. attempt # "recover" => Handler /\ s = Binlog
  <2>1. attempt # "recover" => Handler
    BY <1>1 DEF Handler
  <2> QED
    BY <2>1, HandlerFacts, TxnFacts
<1>3. "Done" \notin UpsertStates /\ ~Snapshotting(p)
  BY DEF UpsertStates, Snapshotting
<1>4. CASE attempt = "recover"
  BY <1>4, PlaceIdle DEF Returns, Goto, IncInv
<1>5. CASE attempt = "rollback"
  <2>1. attempt' = "second" /\ retried' = TRUE /\ pc' = pc /\ pc = "upsert"
    BY <1>5 DEF Returns
  <2>2. log[Binlog].kind = "UPSERT"
    BY <1>1, <1>2, <1>5 DEF TxnOK
  <2>3. PICK x : x = p
    OBVIOUS
  <2>4. PlaceOK' /\ IngestInv'
    BY <1>1, <1>3, <1>5, <2>1, <2>2, UpsertPlace
  <2> QED
    BY <2>4 DEF IncInv
<1>6. CASE attempt \notin {"recover", "rollback"}
  <2>1. pc' = "handled"
    BY <1>6 DEF Returns, Goto
  <2>2. PICK c : c = p.commitSeq
    OBVIOUS
  <2>3. PlaceOK' /\ IngestInv'
    BY <1>2, <1>6, <2>1, <2>2, HandledPlace
  <2> QED
    BY <2>3 DEF IncInv
<1> QED
  BY <1>4, <1>5, <1>6

\* A call that returns leaves values of their types.
LEMMA ReturnsTypes ==
    ASSUME Core, pc \in {"upsert", "committed"}, NEW p, Returns(p)
    PROVE  /\ pc' \in {"idle", "loop", "batch", "upsert", "ingest", "committed", "ddl", "handled"}
           /\ attempt' \in {"recover", "first", "rollback", "second"}
           /\ retried' \in BOOLEAN /\ (retried => retried')
           /\ attempt = "rollback" => retried'
<1>1. attempt \in {"recover", "first", "rollback", "second"} /\ retried \in BOOLEAN
  BY PlainFacts
<1> QED
  BY <1>1 DEF Returns, Goto

\* The txn is committed.
LEMMA CommittedKeeps ==
    ASSUME IncInv, Quiet, pc \in {"upsert", "committed"}, prog.subSyncState \in BegunStates,
           attempt = "rollback" => pc = "upsert", Txn.status = "COMMITTED",
           UNCHANGED <<log, batch, extra, locked>>, Returns(Committed(prog))
    PROVE  IncInv'
<1>1. PICK p : p = Committed(prog)
  OBVIOUS
<1>2. PICK s : s = Data.seq
  OBVIOUS
<1>3. InTxn
  BY DEF InTxn, BegunStates
<1>4. /\ Core /\ prog \in IncProgress /\ Fit(prog) /\ OnceOK(prog) /\ ~Snapshotting(prog)
      /\ prog.prevCommitSeq = ckpt /\ locked <= ckpt /\ ckpt \in Nat
  BY AwakeFacts
<1>5. /\ prog.inMemoryData # Nil /\ prog.inMemoryData = Data
      /\ txns[prog.inMemoryData.txnId].status = "COMMITTED"
  BY <1>3, TxnFacts DEF Data, Txn
<1>6. /\ p \in IncProgress /\ p.subSyncState = "Done" /\ p.commitSeq = prog.commitSeq
      /\ p.prevCommitSeq = prog.commitSeq /\ Fit(p) /\ Passed(p.commitSeq) /\ Passed(s)
      /\ OnceOK(p)
  BY <1>1, <1>2, <1>4, <1>5, CommittedFits DEF Core
<1>7. ckpt <= p.prevCommitSeq /\ locked <= p.prevCommitSeq /\ p.commitSeq <= prog.commitSeq
  <2>1. prog.commitSeq \in Nat /\ ckpt <= prog.commitSeq /\ locked \in Nat
    BY <1>4, ProgressNumbers, Numbers DEF Fit, Core
  <2> QED
    BY <1>4, <1>6, <2>1
<1>8. Returns(p) /\ Persist(p) /\ "Done" \notin UpsertStates
  BY <1>1 DEF Returns, UpsertStates
<1>9. Core' /\ Grows /\ prog' = p
  BY <1>4, <1>6, <1>7, <1>8, PersistQuiet DEF ProgressOK
<1> QED
  BY <1>2, <1>3, <1>6, <1>7, <1>8, <1>9, ReturnsPlace

\* The progress learns of the commit.
LEMMA CommitDoneKeeps ==
    ASSUME IncInv, AskedRule, CommitDone
    PROVE  IncInv'
<1>1. /\ pc = "committed" /\ Returns(Committed(prog)) /\ Core
      /\ prog.subSyncState = "CommitTransaction" /\ Txn.status = "COMMITTED"
      /\ UNCHANGED <<log, targetVars, locked, batch, extra, budget, ingestVars>>
  BY DEF CommitDone, IncInv, PlaceOK, Txn, Data
<1>2. attempt # "rollback" /\ prog.subSyncState \in BegunStates
  BY <1>1 DEF IncInv, PlaceOK, InUpsert, BegunStates, UpsertStates
<1>3. infos' = infos /\ jobErr' = jobErr
  BY <1>1 DEF ingestVars
<1>4. Quiet
  BY <1>1, <1>3, PlainFacts, ReturnsTypes, SameTarget
<1> QED
  BY <1>1, <1>2, <1>4, CommittedKeeps

\* The rollback aborts the txn, finds it aborted, or finds it committed.  In the retry of
\* handleUpsertWithRetry it may take a committed txn for an aborted one.
LEMMA RollbackTxnKeeps ==
    ASSUME IncInv, AskedRule, RollbackTxn
    PROVE  IncInv'
<1>1. /\ pc = "upsert" /\ prog.subSyncState = "RollbackTransaction" /\ Core
      /\ UNCHANGED <<log, dest, rollups, locked, batch, extra, budget, ingestVars>>
  BY DEF RollbackTxn, AtUpsert, IncInv
<1>2. InTxn /\ prog.subSyncState \in BegunStates
  BY <1>1 DEF InTxn, UpsertStates, BegunStates
<1>3. infos' = infos /\ jobErr' = jobErr
  BY <1>1 DEF ingestVars
<1>4. /\ prog \in IncProgress /\ Fit(prog) /\ OnceOK(prog) /\ ~Snapshotting(prog)
      /\ prog.prevCommitSeq = ckpt /\ locked <= ckpt /\ ckpt \in Nat /\ Passed(ckpt) /\ ckpt <= ckpt
  BY <1>1, AwakeFacts
<1>5. PICK p : p = RolledBack(prog)
  OBVIOUS
<1>6. PICK s : s = Data.seq
  OBVIOUS
<1>7. /\ p \in IncProgress /\ p.subSyncState = "Done" /\ p.commitSeq = ckpt
      /\ p.prevCommitSeq = ckpt
  BY <1>4, <1>5, RolledBackIs
<1>8. /\ p.commitSeq <= prog.commitSeq /\ Passed(p.commitSeq) /\ "Done" \notin UpsertStates
      /\ attempt # "rollback" => extra.partialTable # Nil \/ attempt = "recover"
  BY <1>1, <1>4, <1>7, PlainFacts DEF Fit, UpsertStates, IncInv, PlaceOK
<1>9. CASE Txn.status \in {"PREPARE", "ABORTED"} /\ Resolve("ABORTED") /\ Returns(p)
  <2>1. PICK i : i = Data.txnId
    OBVIOUS
  <2>2. PICK r : r = [status |-> "ABORTED", data |-> Data]
    OBVIOUS
  <2>3. /\ i \in DOMAIN txns /\ Data \in TxnData /\ Current(prog) = Data
        /\ txns[i].data.seq = Data.seq /\ txns[i].data.tables = Data.tables
    BY <1>1, <1>2, <2>1, TxnFacts
  <2>4. r \in Txns /\ r.status # "COMMITTED" /\ r.data = Data
    BY <2>2, <2>3 DEF Txns
  <2>5. txns[i].status # "COMMITTED" /\ txns' = [txns EXCEPT ![i] = r]
    BY <1>9, <2>1, <2>2 DEF Txn, Resolve
  <2>6. TxnsQuiet
    BY <1>1, <2>3, <2>4, <2>5, ResolveIs
  <2>7. Quiet
    BY <1>1, <1>3, <1>9, <2>6, PlainFacts, ReturnsTypes, SameTables
  <2>8. ProgressOK(p)
    BY <1>1, <1>4, <1>5, <2>1, <2>3, <2>5, RolledBackFits DEF Core, ProgressOK
  <2>9. Core' /\ Grows /\ prog' = p
    BY <1>1, <1>4, <1>7, <1>8, <1>9, <2>7, <2>8, PersistQuiet DEF Returns
  <2>10. CASE attempt = "recover"
    BY <1>9, <2>9, <2>10, PlaceIdle DEF Returns, Goto, IncInv
  <2>11. CASE attempt # "recover"
    BY <1>1, <1>2, <1>6, <1>7, <1>8, <1>9, <2>9, <2>11, ReturnsPlace
  <2> QED
    BY <2>10, <2>11
<1>10. CASE Txn.status = "COMMITTED" /\ UNCHANGED txns /\ Returns(Committed(prog))
  <2>1. Quiet
    BY <1>1, <1>3, <1>10, PlainFacts, ReturnsTypes, SameTxns, SameTables
  <2> QED
    BY <1>1, <1>2, <1>10, <2>1, CommittedKeeps
<1>11. CASE attempt = "rollback" /\ UNCHANGED txns /\ Returns(p)
  <2>1. Quiet
    BY <1>1, <1>3, <1>11, PlainFacts, ReturnsTypes, SameTxns, SameTables
  <2>2. retried' /\ Persist(p)
    BY <1>1, <1>11, ReturnsTypes DEF Returns
  <2>3. Fit(p)
    BY <1>1, <1>4, <1>5, RolledBackFits DEF Core
  <2>4. disk' \in IncProgress
    BY <1>7, <2>2, PersistedIs DEF Persist, Stored
  <2>5. Fit(p)'
    BY <1>1, <1>7, <2>1, <2>3, <2>4, QuietMeans, FitStays DEF Core
  <2>6. ProgressOK(p)'
    BY <2>2, <2>5 DEF ProgressOK, OnceOK
  <2>7. Core' /\ Grows /\ prog' = p
    BY <1>1, <1>7, <1>8, <2>1, <2>2, <2>6, PersistLater
  <2> QED
    BY <1>1, <1>2, <1>6, <1>7, <1>8, <1>11, <2>7, ReturnsPlace
<1> QED
  BY <1>5, <1>9, <1>10, <1>11 DEF RollbackTxn
-----------------------------------------------------------------------------
(* The DDL handlers. *)

\* A DDL handler runs: the binlogs before its own are at the target.
LEMMA DdlFacts ==
    ASSUME IncInv, pc = "ddl"
    PROVE  /\ Core /\ Handler /\ prog.subSyncState = "Done" /\ prog.commitSeq = Binlog
           /\ Binlog \in 1..Seen /\ Binlog \in Nat /\ log[Binlog] \in Binlogs
           /\ \A r \in 1..Binlog : r # Binlog => r \in 1..batch.pos
           /\ Passed(batch.pos)
<1>1. Core /\ Handler /\ prog.subSyncState = "Done" /\ prog.commitSeq = Binlog
  BY DEF IncInv, PlaceOK, Handler
<1>2. /\ Binlog \in 1..Seen /\ log[Binlog] \in Binlogs /\ Binlog = batch.pos + 1
      /\ batch.pos \in Nat /\ Passed(batch.pos)
  BY <1>1, HandlerFacts
<1> QED
  BY <1>1, <1>2

\* IsBinlogCommitted is right: the rollup is gone.
LEMMA CommittedIsGone ==
    ASSUME Core, NEW s \in 1..Seen, s \in Nat, log[s] \in Binlogs, log[s].kind = "DROP_ROLLUP",
           IsBinlogCommitted(s, log[s].rollup)
    PROVE  log[s].rollup \notin rollups
<1>1. CASE s \in extra.applied
  BY <1>1 DEF Core, ExtraInv
<1>2. CASE s <= prog.tableCommitSeqMap[log[s].rollup]
  <2>1. log[s].rollup \in Tables
    BY BinlogFacts
  <2>2. MapOK(prog) /\ prog.tableCommitSeqMap[log[s].rollup] \in Nat
    BY <2>1, ProgressNumbers DEF Core, ProgressOK, Fit, Typed
  <2>3. s \in 1..prog.tableCommitSeqMap[log[s].rollup]
    BY <1>2, <2>2
  <2>4. HandledFor(log[s].rollup, s)
    BY <2>1, <2>2, <2>3 DEF MapOK
  <2> QED
    BY <2>4 DEF HandledFor
<1> QED
  BY <1>1, <1>2 DEF IsBinlogCommitted

\* The job forgets its previous txn and the target stays: the handler ends, or the tick.
LEMMA NoPrevKeeps ==
    ASSUME IncInv, AskedRule, pc = "ddl", log' = log, Unchanged, Volatile(NoPrevTxn),
           pc' = "idle" \/ (pc' = "handled" /\ Passed(Binlog))
    PROVE  IncInv'
<1>1. PICK x : x = NoPrevTxn
  OBVIOUS
<1>2. Core /\ Handler /\ prog.subSyncState = "Done" /\ prog.commitSeq = Binlog /\ Binlog \in Nat
  BY DdlFacts
<1>3. prog \in IncProgress /\ ProgressOK(prog) /\ RowFollows(prog, disk)
  BY <1>2 DEF Core, Typed
<1>4. /\ x \in IncProgress /\ x.subSyncState = prog.subSyncState
      /\ x.commitSeq = prog.commitSeq /\ x.prevCommitSeq = prog.prevCommitSeq
      /\ ProgressOK(x) /\ RowFollows(x, disk)
  BY <1>1, <1>3, NoPrevIs DEF NoPrevTxn
<1>5. Quiet /\ batch' = batch /\ locked' = locked
  BY <1>2, UnchangedQuiet
<1>6. Core' /\ Grows /\ prog' = x
  BY <1>1, <1>2, <1>4, <1>5, VolatileQuiet
<1>7. CASE pc' = "idle"
  BY <1>6, <1>7, PlaceIdle DEF IncInv
<1>8. CASE pc' = "handled" /\ Passed(Binlog)
  <2>1. PICK s : s = Binlog
    OBVIOUS
  <2>2. Passed(s) /\ s = x.commitSeq /\ s <= prog.commitSeq /\ x.subSyncState = "Done"
    BY <1>2, <1>4, <1>8, <2>1
  <2>3. PlaceOK' /\ IngestInv'
    BY <1>2, <1>4, <1>5, <1>6, <1>8, <2>1, <2>2, HandledPlace
  <2> QED
    BY <1>6, <2>3 DEF IncInv
<1> QED
  BY <1>7, <1>8

\* A DDL that the target has is skipped.
LEMMA HandleCommittedKeeps ==
    ASSUME IncInv, AskedRule, HandleCommittedBinlog
    PROVE  IncInv'
<1>1. /\ pc = "ddl" /\ log[Binlog].kind = "DROP_ROLLUP" /\ IsAlreadyDropped
      /\ Volatile(NoPrevTxn) /\ pc' = "handled" /\ log' = log /\ Unchanged
  BY DEF HandleCommittedBinlog, DropsRollup, Handling, Goto
<1>2. /\ Core /\ Binlog \in 1..Seen /\ Binlog \in Nat /\ log[Binlog] \in Binlogs
      /\ \A r \in 1..Binlog : r # Binlog => r \in 1..batch.pos
      /\ Passed(batch.pos)
  BY <1>1, DdlFacts
<1>3. log[Binlog].rollup \notin rollups
  BY <1>1, <1>2, CommittedIsGone DEF IsAlreadyDropped, Rollup
<1>4. \A t \in Tables : HandledFor(t, Binlog)
  BY <1>1, <1>2, <1>3, BinlogFacts DEF HandledFor
<1>5. Passed(Binlog)
  BY <1>2, <1>4 DEF Passed
<1> QED
  BY <1>1, <1>5, NoPrevKeeps

\* The rollup is not at the target, and the job does not know that it was dropped.
LEMMA DropRollupNotFoundKeeps ==
    ASSUME IncInv, AskedRule, DropRollupNotFound
    PROVE  IncInv'
BY NoPrevKeeps DEF DropRollupNotFound, DropsRollup, Handling, Goto

\* The rollup is dropped, with or without the job learning of it.
LEMMA ExecuteDropRollupKeeps ==
    ASSUME IncInv, AskedRule, ExecuteDropRollup
    PROVE  IncInv'
<1>1. /\ pc = "ddl" /\ log[Binlog].kind = "DROP_ROLLUP" /\ Volatile(NoPrevTxn)
      /\ rollups' = rollups \ {log[Binlog].rollup}
      /\ UNCHANGED <<log, dest, txns, locked, batch, attempt, extra, retried, ingestVars>>
      /\ \/ pc' = "handled" /\ budget' = budget
         \/ Fault("lostReply") /\ pc' = "idle"
  BY DEF ExecuteDropRollup, DropsRollup, Handling, Goto, Rollup
<1>2. /\ Core /\ Handler /\ Binlog \in 1..Seen /\ Binlog \in Nat /\ log[Binlog] \in Binlogs
      /\ \A r \in 1..Binlog : r # Binlog => r \in 1..batch.pos
      /\ Passed(batch.pos) /\ prog.subSyncState = "Done" /\ prog.commitSeq = Binlog
  BY <1>1, DdlFacts
<1>3. PICK x : x = NoPrevTxn
  OBVIOUS
<1>4. prog \in IncProgress /\ ProgressOK(prog) /\ RowFollows(prog, disk)
  BY <1>2 DEF Core, Typed
<1>5. /\ x \in IncProgress /\ x.subSyncState = prog.subSyncState
      /\ x.commitSeq = prog.commitSeq /\ x.prevCommitSeq = prog.prevCommitSeq
      /\ ProgressOK(x) /\ RowFollows(x, disk)
  BY <1>3, <1>4, NoPrevIs DEF NoPrevTxn
<1>6. PlainTypes'
  <2>1. PlainTypes
    BY <1>2 DEF Core, Typed
  <2>2. asked' \in Seqs
    BY <2>1 DEF AskedRule, PlainTypes
  <2>3. infos' = infos /\ jobErr' = jobErr
    BY <1>1 DEF ingestVars
  <2>4. budget' \in 0..MaxFaults
    BY <1>1, <1>2, <2>1, FaultTypes DEF PlainTypes
  <2> QED
    BY <1>1, <2>1, <2>2, <2>3, <2>4 DEF PlainTypes
<1>7. Quiet
  BY <1>1, <1>6 DEF Quiet, TxnsKeep, ExtraFollows
<1>8. Core' /\ Grows /\ prog' = x
  BY <1>1, <1>2, <1>3, <1>5, <1>7, VolatileQuiet
<1>9. PICK s : s = Binlog
  OBVIOUS
<1>10. Passed(s)'
  <2>1. PICK c : c = batch.pos
    OBVIOUS
  <2>2. c \in Int /\ c <= Seen /\ Passed(c)
    BY <1>2, <2>1, HandlerFacts, Numbers DEF Core
  <2>3. Passed(c)'
    BY <1>2, <1>8, <2>2, PassedStays DEF Core
  <2>4. \A t \in Tables : HandledFor(t, s)'
    BY <1>1, <1>2, <1>9, BinlogFacts DEF HandledFor
  <2> QED
    BY <1>2, <1>9, <2>1, <2>3, <2>4 DEF Passed
<1>11. CASE pc' = "idle"
  BY <1>8, <1>11, PlaceIdle DEF IncInv
<1>12. CASE pc' = "handled"
  <2>1. s = x.commitSeq /\ s <= prog.commitSeq /\ x.subSyncState = "Done"
    BY <1>2, <1>5, <1>9
  <2>2. PlaceOK' /\ IngestInv'
    BY <1>1, <1>2, <1>5, <1>8, <1>9, <1>10, <1>12, <2>1, HandledLater
  <2> QED
    BY <1>8, <2>2 DEF IncInv
<1> QED
  BY <1>1, <1>11, <1>12

\* A partial snapshot is asked for by a job that is done with the binlogs for the other tables.
LEMMA PartialStarts ==
    ASSUME Core, Quiet, locked' = locked, pc' = "idle",
           NEW p \in IncProgress, ProgressOK(p), p.subSyncState = "Done", p.prevCommitSeq = ckpt,
           NEW t \in Tables, \A u \in Tables \ {t} : \A r \in 1..p.commitSeq : HandledFor(u, r),
           Persist(NewPartialSnapshot(p, t))
    PROVE  IncInv'
<1>1. PICK q : q = NewPartialSnapshot(p, t)
  OBVIOUS
<1>2. /\ q \in IncProgress /\ q.subSyncState = "BeginCreateSnapshot"
      /\ q.prevCommitSeq = p.prevCommitSeq
  BY <1>1, NewPartialIs
<1>3. ProgressOK(q)
  BY <1>1, NewPartialFits DEF ProgressOK
<1>4. q.subSyncState \notin UpsertStates
  BY <1>2 DEF UpsertStates
<1>5. /\ ckpt \in Nat /\ ckpt <= q.prevCommitSeq /\ Passed(q.prevCommitSeq)
      /\ locked' <= q.prevCommitSeq
  BY <1>2, Numbers DEF Core, TargetInv, Passed
<1>6. Core'
  BY <1>1, <1>2, <1>3, <1>4, <1>5, PersistQuiet
<1> QED
  BY <1>6, PlaceIdle DEF IncInv

\* A schema change is skipped if a snapshot has it, and asks for a partial sync if not.
LEMMA HandleAlterJobKeeps ==
    ASSUME IncInv, AskedRule, HandleAlterJob
    PROVE  IncInv'
<1>1. PICK t : t = AlteredTable
  OBVIOUS
<1>2. /\ pc = "ddl" /\ log[Binlog].kind = "ALTER_JOB"
      /\ IF IsBinlogCommitted(Binlog, t)
         THEN Volatile(NoPrevTxn) /\ pc' = "handled" /\ extra' = extra
         ELSE /\ Persist(NewPartialSnapshot(NoPrevTxn, t)) /\ pc' = "idle"
              /\ extra' = [extra EXCEPT !.partialTable = Nil]
      /\ UNCHANGED <<log, targetVars, locked, batch, attempt, retried, budget, ingestVars>>
  BY <1>1 DEF HandleAlterJob, Handling, Goto
<1>3. /\ Core /\ Binlog \in 1..Seen /\ Binlog \in Nat /\ log[Binlog] \in Binlogs
      /\ \A r \in 1..Binlog : r # Binlog => r \in 1..batch.pos
      /\ Passed(batch.pos) /\ prog.subSyncState = "Done" /\ prog.commitSeq = Binlog
  BY <1>2, DdlFacts
<1>4. t \in Tables /\ log[Binlog].tables = {t} /\ log[Binlog].rollup \notin Tables
  <2>1. PICK u \in Tables : log[Binlog].tables = {u}
    BY <1>2, <1>3, BinlogFacts
  <2>2. t = u
    BY <1>1, <2>1 DEF AlteredTable
  <2> QED
    BY <1>2, <1>3, <2>1, <2>2, BinlogFacts
<1>5. \A u \in Tables \ {t} : \A r \in 1..Binlog : HandledFor(u, r)
  <2>1. ASSUME NEW u \in Tables, u # t, NEW r \in 1..Binlog PROVE HandledFor(u, r)
    <3>1. CASE r = Binlog
      BY <1>4, <2>1, <3>1 DEF HandledFor
    <3>2. CASE r \in 1..batch.pos
      BY <1>3, <3>2 DEF Passed
    <3> QED
      BY <1>3, <3>1, <3>2
  <2> QED
    BY <2>1
<1>6. CASE IsBinlogCommitted(Binlog, t)
  <2>1. HandledFor(t, Binlog)
    <3>1. Binlog \notin extra.applied
      BY <1>2, <1>3 DEF Core, ExtraInv
    <3>2. Binlog <= prog.tableCommitSeqMap[t]
      BY <1>6, <3>1 DEF IsBinlogCommitted
    <3>3. MapOK(prog) /\ prog.tableCommitSeqMap[t] \in Nat
      BY <1>3, <1>4, ProgressNumbers DEF Core, ProgressOK, Fit, Typed
    <3>4. Binlog \in 1..prog.tableCommitSeqMap[t]
      BY <1>3, <3>2, <3>3
    <3> QED
      BY <1>4, <3>3, <3>4 DEF MapOK
  <2>2. Passed(Binlog)
    BY <1>3, <1>5, <2>1 DEF Passed
  <2> QED
    BY <1>2, <1>6, <2>2, NoPrevKeeps DEF Unchanged
<1>7. CASE ~IsBinlogCommitted(Binlog, t)
  <2>1. PICK p : p = NoPrevTxn
    OBVIOUS
  <2>2. prog \in IncProgress /\ ProgressOK(prog) /\ prog.prevCommitSeq = ckpt
    BY <1>3 DEF Core, Typed
  <2>3. /\ p \in IncProgress /\ p.subSyncState = "Done" /\ p.commitSeq = Binlog
        /\ p.prevCommitSeq = ckpt /\ ProgressOK(p)
    BY <1>3, <2>1, <2>2, NoPrevIs DEF NoPrevTxn
  <2>4. /\ extra' \in [applied : SUBSET Seqs, partialTable : Tables \cup {Nil}]
        /\ extra'.applied \subseteq extra.applied
    BY <1>2, <1>3, <1>7 DEF Core, Typed, PlainTypes
  <2>5. infos' = infos /\ jobErr' = jobErr
    BY <1>2 DEF ingestVars
  <2>6. Quiet
    BY <1>2, <1>3, <1>7, <2>4, <2>5, PlainFacts, SameTarget
  <2>7. \A u \in Tables \ {t} : \A r \in 1..p.commitSeq : HandledFor(u, r)
    BY <1>5, <2>3
  <2> QED
    BY <1>2, <1>3, <1>4, <1>7, <2>1, <2>3, <2>6, <2>7, PartialStarts
<1> QED
  BY <1>6, <1>7

\* The partial sync that the upsert has asked for.
LEMMA StartPartialKeeps ==
    ASSUME IncInv, AskedRule, StartPartialSnapshot
    PROVE  IncInv'
<1>1. PICK t : t = extra.partialTable
  OBVIOUS
<1>2. /\ pc = "handled" /\ t # Nil /\ Persist(NewPartialSnapshot(prog, t)) /\ pc' = "idle"
      /\ extra' = [extra EXCEPT !.partialTable = Nil] /\ Core
      /\ UNCHANGED <<log, targetVars, locked, batch, attempt, retried, budget, ingestVars>>
  BY <1>1 DEF StartPartialSnapshot, Goto, IncInv
<1>3. prog.subSyncState = "Done" /\ Passed(prog.commitSeq)
  BY <1>2 DEF IncInv, PlaceOK
<1>4. prog \in IncProgress /\ ProgressOK(prog) /\ prog.prevCommitSeq = ckpt
  BY <1>2 DEF Core, Typed
<1>5. /\ extra' \in [applied : SUBSET Seqs, partialTable : Tables \cup {Nil}]
      /\ extra'.applied \subseteq extra.applied /\ t \in Tables
  BY <1>1, <1>2 DEF Core, Typed, PlainTypes
<1>6. infos' = infos /\ jobErr' = jobErr
  BY <1>2 DEF ingestVars
<1>7. Quiet
  BY <1>2, <1>5, <1>6, PlainFacts, SameTarget
<1>8. \A u \in Tables \ {t} : \A r \in 1..prog.commitSeq : HandledFor(u, r)
  BY <1>3 DEF Passed
<1> QED
  BY <1>2, <1>3, <1>4, <1>5, <1>7, <1>8, PartialStarts
-----------------------------------------------------------------------------
(* The end of handleBinlog. *)

\* The map is given up when every table is past it.
LEMMA AfterIs ==
    ASSUME NEW p \in IncProgress, NEW s, NEW q, q = AfterHandleBinlog(p, s)
    PROVE  /\ q \in IncProgress /\ q.subSyncState = p.subSyncState
           /\ q.commitSeq = p.commitSeq /\ q.prevCommitSeq = p.prevCommitSeq
           /\ q.partialTable = p.partialTable
           /\ q.inMemoryData = p.inMemoryData /\ q.persistData = p.persistData
           /\ \/ q.syncState = p.syncState /\ q.tableCommitSeqMap = p.tableCommitSeqMap
              \/ q.syncState = "DBIncrementalSync" /\ q.tableCommitSeqMap = NoMap
<1>1. 0 \in Seqs
  BY IncrementalAssumption DEF Seqs
<1>2. NoMap \in [Tables -> Seqs]
  BY <1>1 DEF NoMap, Method!NoMap
<1> QED
  BY <1>2 DEF AfterHandleBinlog, IncProgress, Method!SyncStates

\* The progress with what it has locked.
LEMMA LockedIs ==
    ASSUME NEW p \in IncProgress, NEW q, q = Locked(p)
    PROVE  /\ q \in IncProgress /\ q.subSyncState = p.subSyncState
           /\ q.commitSeq = p.commitSeq /\ q.prevCommitSeq = p.prevCommitSeq
           /\ q.syncState = p.syncState /\ q.tableCommitSeqMap = p.tableCommitSeqMap
           /\ q.partialTable = p.partialTable
           /\ q.inMemoryData = p.inMemoryData /\ q.persistData = p.persistData
           /\ Current(q) = Current(p)
BY DEF Locked, IncProgress, Current

\* The end of a binlog that has been handled.
LEMMA FinishedFits ==
    ASSUME Core, NEW p \in IncProgress, ProgressOK(p), p.subSyncState = "Done", NEW s,
           NEW a, a = AfterHandleBinlog(p, s),
           NEW q, q = IF Method!IsDone(a) THEN a ELSE Method!Done(a)
    PROVE  /\ q \in IncProgress /\ q.subSyncState = "Done" /\ ProgressOK(q)
           /\ q.commitSeq = p.commitSeq /\ q.prevCommitSeq = p.commitSeq
           /\ p.prevCommitSeq <= p.commitSeq /\ p.commitSeq <= Seen
           /\ Method!IsDone(a) => q.prevCommitSeq = p.prevCommitSeq
<1>1. /\ a \in IncProgress /\ a.subSyncState = "Done"
      /\ a.commitSeq = p.commitSeq /\ a.prevCommitSeq = p.prevCommitSeq
      /\ a.partialTable = p.partialTable
      /\ \/ a.syncState = p.syncState /\ a.tableCommitSeqMap = p.tableCommitSeqMap
         \/ a.syncState = "DBIncrementalSync" /\ a.tableCommitSeqMap = NoMap
  BY AfterIs
<1>2. /\ q \in IncProgress /\ q.subSyncState = "Done"
      /\ q.commitSeq = p.commitSeq /\ q.prevCommitSeq = p.commitSeq
      /\ q.syncState = a.syncState /\ q.tableCommitSeqMap = a.tableCommitSeqMap
      /\ Method!IsDone(a) => q.prevCommitSeq = p.prevCommitSeq
  BY <1>1, DoneIs DEF Method!IsDone
<1>3. Fit(p) /\ OnceOK(p) /\ p.prevCommitSeq <= p.commitSeq /\ p.commitSeq <= Seen
  BY DEF ProgressOK, Fit
<1>4. /\ "Done" \notin UpsertStates /\ "Done" \notin BegunStates
      /\ ~Snapshotting(p) /\ ~Snapshotting(q)
  BY <1>2 DEF UpsertStates, BegunStates, Snapshotting
<1>5. p.syncState \notin {"DBFullSync", "DBPartialSync"}
  BY <1>3, <1>4 DEF Fit, SnapshotOK
<1>6. SnapshotOK(q)
  BY <1>1, <1>2, <1>4, <1>5 DEF SnapshotOK
<1>7. MapOK(q)
  <2>1. CASE q.tableCommitSeqMap = p.tableCommitSeqMap
    BY <1>3, <2>1 DEF Fit, MapOK
  <2>2. CASE q.tableCommitSeqMap = NoMap
    <3>1. \A t \in Tables : q.tableCommitSeqMap[t] = 0
      BY <2>2 DEF NoMap, Method!NoMap
    <3>2. Seen \in Nat /\ 0 <= Seen
      BY Numbers DEF Core
    <3>3. \A r \in 1..0 : FALSE
      OBVIOUS
    <3>4. ASSUME NEW t \in Tables, NEW m, m = q.tableCommitSeqMap[t]
          PROVE  m <= Seen /\ \A r \in 1..m : HandledFor(t, r)
      <4>1. m = 0
        BY <3>1, <3>4
      <4> QED
        BY <3>2, <3>3, <4>1
    <3> QED
      BY <3>4 DEF MapOK
  <2> QED
    BY <1>1, <1>2, <2>1, <2>2
<1>8. p.commitSeq \in Nat
  BY ProgressNumbers
<1>9. Fit(q)
  BY <1>2, <1>3, <1>4, <1>6, <1>7, <1>8 DEF Fit
<1>10. OnceOK(q)
  <2> SUFFICES ASSUME ~retried, NEW t \in Tables, NEW i \in DOMAIN dest[t].applied
               PROVE  ~(dest[t].applied[i] > q.prevCommitSeq)
    BY DEF OnceOK
  <2>1. ~(dest[t].applied[i] > p.prevCommitSeq)
    BY <1>3, <1>4, NoneAbove
  <2>2. dest[t].applied[i] \in Nat
    <3>1. \A u \in Seqs : u \in Nat
      BY DEF Seqs
    <3>2. dest[t].applied \in Seq(Seqs)
      BY DEF Core, Typed, PlainTypes
    <3> QED
      BY <3>1, <3>2
  <2> QED
    BY <1>2, <1>3, <2>1, <2>2, ProgressNumbers
<1> QED
  BY <1>2, <1>3, <1>9, <1>10 DEF ProgressOK

\* The end of handleBinlog: the checkpoint moves over the binlog that was handled.
LEMMA FinishBinlogKeeps ==
    ASSUME IncInv, AskedRule, FinishBinlog
    PROVE  IncInv'
<1>1. PICK a : a = AfterHandleBinlog(prog, Binlog)
  OBVIOUS
<1>2. PICK p : p = IF Method!IsDone(a) THEN a ELSE Method!Done(a)
  OBVIOUS
<1>3. PICK x : x = prog'
  OBVIOUS
<1>4. /\ pc = "handled" /\ extra.partialTable = Nil /\ Core
      /\ IF Method!IsDone(a) THEN UNCHANGED <<disk, ckpt>> ELSE Stored(p)
      /\ x \in {p, Locked(p)} /\ locked' \in {locked, p.prevCommitSeq}
      /\ \/ /\ batch' = [batch EXCEPT !.pos = @ + 1] /\ pc' = "batch" /\ budget' = budget
         \/ /\ Fault("rpc") /\ pc' = "idle" /\ batch' = batch
      /\ UNCHANGED <<log, targetVars, attempt, extra, retried, ingestVars>>
  BY <1>1, <1>2, <1>3 DEF FinishBinlog, Goto, IncInv
<1>5. Handler /\ prog.subSyncState = "Done" /\ Passed(prog.commitSeq) /\ Passed(Binlog)
  BY <1>4 DEF IncInv, PlaceOK, Handler
<1>6. /\ Passed(batch.pos) /\ batch.pos \in Nat /\ Binlog \in 1..Seen
      /\ Binlog = batch.pos + 1 /\ Binlog \in 1..Len(log)
      /\ batch.pos < batch.next /\ batch.next <= Len(log) /\ prog.commitSeq <= Binlog
  BY <1>5, HandlerFacts
<1>7. /\ prog \in IncProgress /\ ProgressOK(prog) /\ prog.prevCommitSeq = ckpt
      /\ disk \in IncProgress /\ ProgressOK(disk) /\ disk.inMemoryData = Nil
      /\ disk.prevCommitSeq = ckpt /\ RowFollows(prog, disk) /\ locked <= ckpt
      /\ locked \in Nat /\ ckpt \in Nat /\ Len(log) \in Nat /\ batch.next \in Nat
      /\ batch \in [pos : Seqs, next : Seqs] /\ Seen \in Nat
  BY <1>4, Numbers DEF Core, Typed, TargetInv, PlainTypes
<1>8. /\ p \in IncProgress /\ p.subSyncState = "Done" /\ ProgressOK(p)
      /\ p.commitSeq = prog.commitSeq /\ p.prevCommitSeq = prog.commitSeq
      /\ ckpt <= prog.commitSeq /\ prog.commitSeq <= Seen
      /\ Method!IsDone(a) => p.prevCommitSeq = ckpt
  BY <1>1, <1>2, <1>4, <1>5, <1>7, FinishedFits
<1>9. PICK c : c = prog.commitSeq
  OBVIOUS
<1>10. /\ p.prevCommitSeq = c /\ c \in Nat /\ c \in Seqs /\ ckpt <= c /\ c <= Seen /\ Passed(c)
       /\ c <= Binlog
  BY <1>5, <1>6, <1>7, <1>8, <1>9, ProgressNumbers
<1>11. /\ x \in IncProgress /\ x.subSyncState = "Done" /\ ProgressOK(x)
       /\ x.commitSeq = c /\ x.prevCommitSeq = c
  <2>1. CASE x = p
    BY <1>8, <1>9, <2>1
  <2>2. CASE x = Locked(p)
    BY <1>8, <1>9, <2>2, LockedIs, AlikeFits
  <2> QED
    BY <1>4, <2>1, <2>2
<1>12. locked' <= c /\ locked' \in Seqs
  BY <1>4, <1>7, <1>10, PlainFacts
<1>13. /\ pc' \in {"batch", "idle"} /\ budget' \in 0..MaxFaults
       /\ batch' \in [pos : Seqs, next : Seqs]
       /\ pc' = "batch" => batch'.pos = Binlog /\ batch'.next = batch.next
  <2>1. Binlog \in Seqs
    BY <1>4, <1>6, <1>7, IncrementalAssumption DEF Core, Typed, PlainTypes, Seqs
  <2>2. CASE batch' = [batch EXCEPT !.pos = @ + 1] /\ pc' = "batch" /\ budget' = budget
    BY <1>4, <1>6, <1>7, <2>1, <2>2, PlainFacts
  <2>3. CASE Fault("rpc") /\ pc' = "idle" /\ batch' = batch
    BY <1>4, <1>7, <2>3, FaultTypes
  <2> QED
    BY <1>4, <2>2, <2>3
<1>14. Quiet
  <2>1. infos' = infos /\ jobErr' = jobErr
    BY <1>4 DEF ingestVars
  <2>2. pc' \in {"idle", "loop", "batch", "upsert", "ingest", "committed", "ddl", "handled"}
    BY <1>13
  <2> QED
    BY <1>4, <1>12, <1>13, <2>1, <2>2, PlainFacts, SameTarget
<1>15. PICK y : y = disk'
  OBVIOUS
<1>16. "Done" \notin UpsertStates /\ "Done" \notin BegunStates
  BY DEF UpsertStates, BegunStates
<1>17. /\ y \in IncProgress /\ ProgressOK(y) /\ y.inMemoryData = Nil /\ y.prevCommitSeq = c
       /\ ckpt' = c /\ RowFollows(x, y)
  <2>1. CASE Method!IsDone(a)
    <3>1. y = disk /\ ckpt' = ckpt /\ c = ckpt
      BY <1>4, <1>8, <1>10, <1>15, <2>1
    <3> QED
      BY <1>5, <1>7, <1>11, <1>16, <3>1 DEF RowFollows, Snapshotting
  <2>2. CASE ~Method!IsDone(a)
    <3>1. y = Method!Persisted(p) /\ ckpt' = p.prevCommitSeq
      BY <1>4, <1>15, <2>2 DEF Stored
    <3>2. /\ y \in IncProgress /\ y.prevCommitSeq = p.prevCommitSeq /\ y.inMemoryData = Nil
          /\ y.subSyncState = p.subSyncState
      BY <1>8, <3>1, PersistedIs
    <3>3. ProgressOK(y) /\ RowFollows(p, y)
      BY <1>8, <1>16, <3>1, PersistedFits DEF ProgressOK
    <3> QED
      BY <1>8, <1>10, <1>11, <1>16, <3>1, <3>2, <3>3 DEF RowFollows, Snapshotting
  <2> QED
    BY <2>1, <2>2
<1>18. Core' /\ Grows
  BY <1>3, <1>4, <1>10, <1>11, <1>12, <1>14, <1>15, <1>17, QuietStep
<1>19. CASE pc' = "idle"
  BY <1>18, <1>19, PlaceIdle DEF IncInv
<1>20. CASE pc' = "batch"
  <2>1. PICK s : s = Binlog
    OBVIOUS
  <2>2. Passed(s)'
    BY <1>4, <1>5, <1>6, <1>7, <1>18, <2>1, PassedStays DEF Core
  <2>3. Passed(batch.pos)'
    BY <1>13, <1>20, <2>1, <2>2 DEF Passed
  <2>4. Method!IsDone(prog)' /\ ~Snapshotting(prog)'
    BY <1>3, <1>11 DEF Method!IsDone, Snapshotting
  <2>5. /\ ckpt' <= batch'.pos /\ batch'.pos <= batch'.next /\ batch'.next <= Len(log')
    BY <1>4, <1>6, <1>7, <1>10, <1>13, <1>17, <1>20
  <2>6. PlaceOK' /\ IngestInv'
    BY <1>20, <2>3, <2>4, <2>5 DEF PlaceOK, IngestInv, Handler, InUpsert
  <2> QED
    BY <1>18, <2>6 DEF IncInv
<1> QED
  BY <1>13, <1>19, <1>20
-----------------------------------------------------------------------------
(* The snapshots. *)

\* The progress after a snapshot.
LEMMA SyncedIs ==
    ASSUME NEW p \in IncProgress, NEW seqs \in [Tables -> Seqs], NEW c \in Seqs,
           NEW q, q = Cleared(Method!NextWithPersist([p EXCEPT !.tableCommitSeqMap = seqs], c,
                                                     "DBTablesIncrementalSync", "Done"))
    PROVE  /\ q \in IncProgress /\ q.subSyncState = "Done"
           /\ q.commitSeq = c /\ q.prevCommitSeq = c
           /\ q.syncState = "DBTablesIncrementalSync" /\ q.tableCommitSeqMap = seqs
           /\ q.inMemoryData = Nil /\ q.persistData = Nil
BY DEF Cleared, Method!NextWithPersist, IncProgress, Method!SyncStates

\* A snapshot that was asked for restores the tables ts, and the job starts again at c.
Restores(seqs, ts, c) ==
    /\ Snapshotting(disk) /\ pc' = "idle"
    /\ \A t \in ts : seqs[t] \in Nat /\ asked <= seqs[t] /\ seqs[t] <= Len(log) /\ c <= seqs[t]
    /\ \A t \in Tables \ ts : /\ seqs[t] = prog.tableCommitSeqMap[t] /\ c <= Seen
                              /\ \A r \in 1..c : HandledFor(t, r)
                              /\ ~retried => \A i \in DOMAIN dest[t].applied :
                                                ~(dest[t].applied[i] > c)
    /\ Restored(seqs, ts)
    /\ UNCHANGED <<log, txns, locked, batch, attempt, extra, retried, budget, ingestVars>>

\* What the tables are after a restore.
LEMMA RestoredIs ==
    ASSUME Core, NEW seqs, NEW ts \in SUBSET Tables, NEW c, Restores(seqs, ts, c), NEW t \in Tables
    PROVE  /\ t \in ts => /\ dest'[t].base = seqs[t] /\ DOMAIN dest'[t].applied = {}
                          /\ \A r \in 1..seqs[t] : HandledFor(t, r)'
           /\ t \notin ts => dest'[t] = dest[t] /\ (t \in rollups' <=> t \in rollups)
           /\ dest'[t] \in [base : Seqs, applied : Seq(Seqs)]
<1>1. /\ dest' = [u \in Tables |->
                     IF u \in ts THEN [base |-> seqs[u], applied |-> <<>>] ELSE dest[u]]
      /\ rollups' = {u \in Tables : IF u \in ts THEN \A s \in 1..seqs[u] : log[s].rollup # u
                                    ELSE u \in rollups}
      /\ log' = log
  BY DEF Restores, Restored
<1>2. CASE t \in ts
  <2>1. dest'[t].base = seqs[t] /\ dest'[t].applied = <<>>
    BY <1>1, <1>2
  <2>2. seqs[t] \in Nat /\ seqs[t] <= Len(log) /\ Len(log) \in Nat /\ Len(log) \in Seqs
    BY <1>2, Numbers DEF Restores, Core, Typed, PlainTypes
  <2>3. seqs[t] \in Seqs
    BY <2>2, IncrementalAssumption DEF Seqs
  <2>4. ASSUME NEW r \in 1..seqs[t] PROVE HandledFor(t, r)'
    <3>1. r <= seqs[t]
      BY <2>2
    <3>2. log'[r].rollup = t => t \notin rollups'
      BY <1>1, <1>2
    <3> QED
      BY <2>1, <3>1, <3>2 DEF HandledFor, Covered
  <2>5. dest'[t] = [base |-> seqs[t], applied |-> <<>>]
    BY <1>1, <1>2
  <2>6. DOMAIN dest'[t].applied = {}
    BY <2>1
  <2> QED
    BY <1>2, <2>1, <2>3, <2>4, <2>5, <2>6
<1>3. CASE t \notin ts
  BY <1>1, <1>3 DEF Core, Typed, PlainTypes
<1> QED
  BY <1>2, <1>3

\* A restore only adds to what the target had.
LEMMA RestoreGrows ==
    ASSUME Core, NEW seqs, NEW ts \in SUBSET Tables, NEW c, Restores(seqs, ts, c),
           ~Snapshotting(disk)'
    PROVE  Grows /\ Seen' = Len(log) /\ Seen = asked /\ Seen' \in Nat /\ Seen <= Seen'
<1>1. Seen = asked /\ Seen' = Len(log) /\ log' = log
  BY DEF Restores, Seen
<1>2. asked <= Len(log) /\ asked \in Nat /\ Len(log) \in Nat
  BY Numbers DEF Core, TargetInv
<1>3. ASSUME NEW t \in Tables, NEW r \in 1..Seen
      PROVE  /\ Covered(t, r) => Covered(t, r)'
             /\ log[r].rollup = t /\ t \notin rollups => t \notin rollups'
  <2>1. CASE t \in ts
    <3>1. seqs[t] \in Nat /\ asked <= seqs[t]
      BY <2>1 DEF Restores
    <3>2. r \in 1..seqs[t] /\ r <= seqs[t]
      BY <1>1, <1>2, <3>1
    <3>3. dest'[t].base = seqs[t] /\ HandledFor(t, r)'
      BY <2>1, <3>2, RestoredIs
    <3>4. Covered(t, r)' /\ (log'[r].rollup = t => t \notin rollups')
      BY <3>2, <3>3 DEF HandledFor, Covered
    <3> QED
      BY <1>1, <3>4
  <2>2. CASE t \notin ts
    <3>1. dest'[t] = dest[t] /\ (t \in rollups' <=> t \in rollups)
      BY <2>2, RestoredIs
    <3> QED
      BY <3>1 DEF Covered
  <2> QED
    BY <2>1, <2>2
<1> QED
  BY <1>1, <1>2, <1>3 DEF Grows

\* The restored tables, and the others, have what is behind c.
LEMMA RestorePassed ==
    ASSUME Core, NEW seqs, NEW ts \in SUBSET Tables, NEW c \in Nat, Restores(seqs, ts, c),
           ~Snapshotting(disk)'
    PROVE  Passed(c)'
<1>1. ASSUME NEW r \in 1..c, NEW t \in Tables PROVE HandledFor(t, r)'
  <2>1. CASE t \in ts
    <3>1. seqs[t] \in Nat /\ c <= seqs[t]
      BY <2>1 DEF Restores
    <3>2. r \in 1..seqs[t]
      BY <3>1
    <3> QED
      BY <2>1, <3>2, RestoredIs
  <2>2. CASE t \notin ts
    <3>1. HandledFor(t, r) /\ c <= Seen
      BY <2>2 DEF Restores
    <3>2. r \in 1..Seen
      BY <3>1, Numbers DEF Core
    <3> QED
      BY <3>1, <3>2, RestoreGrows, HandledStays
  <2> QED
    BY <2>1, <2>2
<1> QED
  BY <1>1 DEF Passed

\* The progress that a snapshot leaves is right of the target.
LEMMA RestoredFits ==
    ASSUME Core, NEW seqs, NEW ts \in SUBSET Tables, NEW c \in Nat, Restores(seqs, ts, c),
           ~Snapshotting(disk)', c <= Len(log),
           NEW q \in IncProgress, q.subSyncState = "Done", q.commitSeq = c, q.prevCommitSeq = c,
           q.syncState = "DBTablesIncrementalSync", q.tableCommitSeqMap = seqs
    PROVE  ProgressOK(q)'
<1>1. Grows /\ Seen' = Len(log) /\ Seen' \in Nat /\ Seen <= Seen' /\ Seen \in Nat
  BY RestoreGrows, Numbers DEF Core
<1>2. SnapshotOK(q)' /\ q.subSyncState \notin UpsertStates
  BY DEF SnapshotOK, Snapshotting, UpsertStates
<1>3. MapOK(q)'
  <2>1. ASSUME NEW t \in Tables, NEW m, m = q.tableCommitSeqMap[t]
        PROVE  m <= Seen' /\ \A r \in 1..m : HandledFor(t, r)'
    <3>1. m = seqs[t] /\ m \in Nat
      BY <2>1, ProgressNumbers
    <3>2. CASE t \in ts
      <4>1. m <= Len(log)
        BY <3>1, <3>2 DEF Restores
      <4> QED
        BY <1>1, <3>1, <3>2, <4>1, RestoredIs
    <3>3. CASE t \notin ts
      <4>1. MapOK(prog) /\ m = prog.tableCommitSeqMap[t]
        BY <3>1, <3>3 DEF Restores, Core, ProgressOK, Fit
      <4>2. m <= Seen /\ \A r \in 1..m : HandledFor(t, r)
        BY <4>1 DEF MapOK
      <4>3. ASSUME NEW r \in 1..m PROVE HandledFor(t, r)'
        <5>1. r \in 1..Seen
          BY <1>1, <3>1, <4>2
        <5> QED
          BY <1>1, <4>2, <5>1, HandledStays
      <4> QED
        BY <1>1, <3>1, <4>2, <4>3
    <3> QED
      BY <3>2, <3>3
  <2> QED
    BY <2>1 DEF MapOK
<1>4. Fit(q)'
  BY <1>1, <1>2, <1>3 DEF Fit
<1>5. ASSUME NEW t \in Tables PROVE t \in ts => DOMAIN dest'[t].applied = {}
  BY RestoredIs
<1>6. OnceOK(q)'
  <2> SUFFICES ASSUME ~retried', NEW t \in Tables, NEW i \in DOMAIN dest'[t].applied
               PROVE  ~(dest'[t].applied[i] > q.prevCommitSeq)
    BY DEF OnceOK
  <2>1. t \in ts => DOMAIN dest'[t].applied = {}
    BY <1>5
  <2>2. CASE t \notin ts
    <3>1. dest'[t] = dest[t] /\ ~retried
      BY <2>2, RestoredIs DEF Restores
    <3>2. ~(dest[t].applied[i] > c)
      BY <2>2, <3>1 DEF Restores
    <3> QED
      BY <3>1, <3>2
  <2>3. t \notin ts
    BY <2>1
  <2> QED
    BY <2>2, <2>3
<1> QED
  BY <1>4, <1>6 DEF ProgressOK

\* A table that is restored.
LEMMA RestoredBase ==
    ASSUME Core, NEW seqs, NEW ts \in SUBSET Tables, NEW c, Restores(seqs, ts, c), NEW t \in ts
    PROVE  dest'[t].base = seqs[t] /\ DOMAIN dest'[t].applied = {}
<1>1. dest'[t] = [base |-> seqs[t], applied |-> <<>>]
  BY DEF Restores, Restored
<1> QED
  BY <1>1

\* A table that is not restored.
LEMMA NotRestored ==
    ASSUME Core, NEW seqs, NEW ts \in SUBSET Tables, NEW c, Restores(seqs, ts, c),
           NEW t \in Tables \ ts
    PROVE  dest'[t] = dest[t]
BY DEF Restores, Restored, Core, Typed, PlainTypes

\* A step that restores tables and stores the progress it leaves.
LEMMA RestoreKeeps ==
    ASSUME Core, AskedRule, NEW seqs \in [Tables -> Seqs], NEW ts \in SUBSET Tables, NEW c \in Nat,
           Restores(seqs, ts, c), ckpt <= c, c <= Len(log),
           NEW p \in IncProgress, Persist(p), p.subSyncState = "Done", p.commitSeq = c,
           p.prevCommitSeq = c, p.syncState = "DBTablesIncrementalSync",
           p.tableCommitSeqMap = seqs
    PROVE  IncInv'
<1>1. PICK y : y = Method!Persisted(p)
  OBVIOUS
<1>2. prog' = p /\ disk' = y /\ ckpt' = c
  BY <1>1 DEF Persist, Stored
<1>3. /\ y \in IncProgress /\ y.subSyncState = "Done" /\ y.commitSeq = c /\ y.prevCommitSeq = c
      /\ y.syncState = "DBTablesIncrementalSync" /\ y.tableCommitSeqMap = seqs
      /\ y.inMemoryData = Nil
  BY <1>1, PersistedIs
<1>4. ~Snapshotting(disk)' /\ ~Asks /\ asked' = asked
  BY <1>2, <1>3 DEF Snapshotting, Asks, AskedRule
<1>5. /\ Grows /\ Seen' = Len(log) /\ Seen = asked /\ Seen' \in Nat /\ Seen <= Seen' /\ Seen \in Nat
  BY <1>4, RestoreGrows, Numbers DEF Core
<1>6. /\ UNCHANGED <<log, txns, locked, batch, attempt, extra, retried, budget, ingestVars>>
      /\ pc' = "idle"
  BY DEF Restores
<1>7. dest' \in [Tables -> [base : Seqs, applied : Seq(Seqs)]]
  <2>1. \A t \in Tables : dest'[t] \in [base : Seqs, applied : Seq(Seqs)]
    BY RestoredIs
  <2>2. dest' = [t \in Tables |-> dest'[t]]
    BY DEF Restores, Restored
  <2> QED
    BY <2>1, <2>2
<1>8. Typed'
  <2>1. PlainTypes
    BY DEF Core, Typed
  <2>2. infos' = infos /\ jobErr' = jobErr
    BY <1>6 DEF ingestVars
  <2>3. rollups' \subseteq Tables
    BY DEF Restores, Restored
  <2>4. PlainTypes'
    BY <1>4, <1>6, <1>7, <2>1, <2>2, <2>3 DEF PlainTypes
  <2> QED
    BY <1>2, <1>3, <2>4 DEF Typed
<1>9. Passed(c)'
  BY <1>4, RestorePassed
<1>10. /\ Typed /\ TargetInv /\ CommittedInv /\ ExtraInv /\ OnceInv
       /\ locked \in Nat /\ asked \in Nat /\ Len(log) \in Nat /\ ckpt \in Nat
  BY Numbers DEF Core
<1>11. TargetInv'
  <2>1. ASSUME NEW t \in Tables
        PROVE  /\ dest'[t].base <= Seen'
               /\ \A i \in DOMAIN dest'[t].applied : dest'[t].applied[i] \in 1..Seen'
    <3>1. CASE t \in ts
      <4>1. dest'[t].base = seqs[t] /\ DOMAIN dest'[t].applied = {}
        BY <3>1, RestoredBase
      <4>2. seqs[t] <= Len(log)
        BY <3>1 DEF Restores
      <4> QED
        BY <1>5, <4>1, <4>2
    <3>2. CASE t \notin ts
      <4>1. dest'[t] = dest[t]
        BY <3>2, NotRestored
      <4>2. /\ dest[t].base <= Seen
            /\ \A i \in DOMAIN dest[t].applied : dest[t].applied[i] \in 1..Seen
        BY <1>10 DEF TargetInv
      <4>3. dest[t].base \in Seqs
        BY <1>10 DEF Typed, PlainTypes
      <4>4. dest[t].base \in Nat
        BY <4>3 DEF Seqs
      <4> QED
        BY <1>5, <4>1, <4>2, <4>4
    <3> QED
      BY <3>1, <3>2
  <2>2. Passed(ckpt)'
    BY <1>2, <1>9 DEF Passed
  <2>3. locked' <= ckpt' /\ asked' <= Len(log') /\ ckpt' <= Seen'
    BY <1>2, <1>4, <1>5, <1>6, <1>10 DEF TargetInv
  <2> QED
    BY <2>1, <2>2, <2>3 DEF TargetInv
<1>12. CommittedInv'
  <2>1. \A i \in DOMAIN txns : txns[i] \in Txns
    BY <1>10, Numbers
  <2>2. ASSUME NEW i \in DOMAIN txns PROVE CommittedOK(txns[i])'
    <3>1. PICK x : x = txns[i]
      OBVIOUS
    <3>2. x \in Txns /\ CommittedOK(x)
      BY <1>10, <2>1, <3>1 DEF CommittedInv
    <3>3. CommittedOK(x)'
      BY <1>5, <1>10, <3>2, CommittedStays
    <3> QED
      BY <1>6, <3>1, <3>3 DEF CommittedOK, SkippedGone
  <2> QED
    BY <1>6, <2>2 DEF CommittedInv
<1>13. ExtraInv'
  BY <1>5, <1>6, <1>10, ExtraStays DEF ExtraFollows
<1>14. OnceInv'
  <2>1. ASSUME ~retried, NEW t \in Tables PROVE IsInjective(dest'[t].applied)
    <3>1. CASE t \in ts
      BY <3>1, RestoredBase DEF IsInjective
    <3>2. CASE t \notin ts
      <4>1. dest'[t] = dest[t]
        BY <3>2, NotRestored
      <4> QED
        BY <1>10, <2>1, <4>1 DEF OnceInv
    <3> QED
      BY <3>1, <3>2
  <2> QED
    BY <1>6, <2>1 DEF OnceInv
<1>15. ProgressOK(p)' /\ ProgressOK(y)'
  BY <1>3, <1>4, RestoredFits
<1>16. ProgressOK(prog)' /\ ProgressOK(disk)'
  BY <1>2, <1>15, ProgressIs
<1>17. RowFollows(prog, disk)'
  BY <1>2, <1>3 DEF RowFollows, Snapshotting, BegunStates, UpsertStates
<1>18. Core'
  BY <1>8, <1>11, <1>12, <1>13, <1>14, <1>16, <1>17 DEF Core
<1> QED
  BY <1>6, <1>18, PlaceIdle DEF IncInv

\* Min picks the least member of a set of naturals.
LEMMA LeastOfNats ==
    ASSUME NEW S, S \subseteq Nat, S # {}
    PROVE  Min(S) \in S /\ \A x \in S : Min(S) <= x
<1>1. PICK m \in S : \A k \in S : <<k, m>> \notin OpToRel(<, Nat)
  BY NatLessThanWellFounded, WFMin
<1>2. \A k \in S : ~ k < m
  BY <1>1 DEF OpToRel
<1>3. \A k \in S : m <= k
  BY <1>2
<1> QED
  BY <1>3 DEF Min

\* A snapshot is asked for as long as the sync state says so.
LEMMA AskedFacts ==
    ASSUME Core, prog.syncState \in {"DBFullSync", "DBPartialSync"}
    PROVE  /\ Snapshotting(prog) /\ Snapshotting(disk) /\ Seen = asked /\ asked \in Nat
           /\ Len(log) \in Nat /\ Len(log) <= MaxSeq /\ ckpt \in Nat /\ ckpt <= asked
           /\ prog \in IncProgress /\ ProgressOK(prog) /\ Fit(prog) /\ prog.prevCommitSeq = ckpt
           /\ \A s \in asked..Len(log) : s \in Seqs /\ s \in Nat
<1>1. prog \in IncProgress /\ ProgressOK(prog) /\ Fit(prog) /\ prog.prevCommitSeq = ckpt
  BY DEF Core, Typed, ProgressOK
<1>2. Snapshotting(prog) /\ Snapshotting(disk)
  BY <1>1 DEF Fit, SnapshotOK, Core, RowFollows
<1>3. /\ Seen = asked /\ asked \in Nat /\ Len(log) \in Nat /\ ckpt \in Nat /\ ckpt <= asked
      /\ Len(log) \in Seqs
  BY <1>2, Numbers DEF Seen, Core, TargetInv, Typed, PlainTypes
<1>4. MaxSeq \in Nat
  BY IncrementalAssumption
<1> QED
  BY <1>1, <1>2, <1>3, <1>4 DEF Seqs

\* The end of a snapshot: it restores the tables ts, and the job starts again at c.
SnapshotEnds ==
    \E seqs \in [Tables -> Seqs] : \E ts \in SUBSET Tables : \E c \in Nat : \E p \in IncProgress :
        /\ Restores(seqs, ts, c) /\ ckpt <= c /\ c <= Len(log)
        /\ Persist(p) /\ p.subSyncState = "Done" /\ p.commitSeq = c /\ p.prevCommitSeq = c
        /\ p.syncState = "DBTablesIncrementalSync" /\ p.tableCommitSeqMap = seqs

\* The end of a snapshot keeps the invariant.
LEMMA SnapshotEndsKeeps ==
    ASSUME IncInv, AskedRule, SnapshotEnds
    PROVE  IncInv'
<1>1. PICK seqs \in [Tables -> Seqs] : \E ts \in SUBSET Tables : \E c \in Nat :
          \E p \in IncProgress :
              /\ Restores(seqs, ts, c) /\ ckpt <= c /\ c <= Len(log)
              /\ Persist(p) /\ p.subSyncState = "Done" /\ p.commitSeq = c /\ p.prevCommitSeq = c
              /\ p.syncState = "DBTablesIncrementalSync" /\ p.tableCommitSeqMap = seqs
  BY DEF SnapshotEnds
<1>2. PICK ts \in SUBSET Tables : \E c \in Nat : \E p \in IncProgress :
          /\ Restores(seqs, ts, c) /\ ckpt <= c /\ c <= Len(log)
          /\ Persist(p) /\ p.subSyncState = "Done" /\ p.commitSeq = c /\ p.prevCommitSeq = c
          /\ p.syncState = "DBTablesIncrementalSync" /\ p.tableCommitSeqMap = seqs
  BY <1>1
<1>3. Core
  BY DEF IncInv
<1> QED
  BY <1>2, <1>3, RestoreKeeps

\* A full sync restores every table, and starts again at the least of their seqs.
LEMMA FullSyncEnds ==
    ASSUME IncInv, FinishFullSync
    PROVE  SnapshotEnds
<1>1. PICK seqs \in [Tables -> SnapshotSeqs] : \E seq \in SnapshotSeqs :
          /\ Restored(seqs, Tables)
          /\ Persist(Cleared(Method!NextWithPersist([prog EXCEPT !.tableCommitSeqMap = seqs],
                         Min(Range(seqs) \cup {seq}), "DBTablesIncrementalSync", "Done")))
  BY DEF FinishFullSync
<1>2. PICK seq \in SnapshotSeqs :
          /\ Restored(seqs, Tables)
          /\ Persist(Cleared(Method!NextWithPersist([prog EXCEPT !.tableCommitSeqMap = seqs],
                         Min(Range(seqs) \cup {seq}), "DBTablesIncrementalSync", "Done")))
  BY <1>1
<1>3. /\ pc = "idle" /\ prog.syncState = "DBFullSync" /\ Core
      /\ UNCHANGED <<log, txns, locked, pc, batch, attempt, extra, retried, budget, ingestVars>>
  BY DEF FinishFullSync, IncInv
<1>4. PICK S : S = Range(seqs) \cup {seq}
  OBVIOUS
<1>5. PICK c : c = Min(S)
  OBVIOUS
<1>6. PICK p : p = Cleared(Method!NextWithPersist([prog EXCEPT !.tableCommitSeqMap = seqs], c,
                                                  "DBTablesIncrementalSync", "Done"))
  OBVIOUS
<1>7. Persist(p)
  BY <1>2, <1>4, <1>5, <1>6
<1>8. /\ Snapshotting(disk) /\ asked \in Nat /\ Len(log) \in Nat /\ ckpt \in Nat /\ ckpt <= asked
      /\ \A s \in asked..Len(log) : s \in Seqs /\ s \in Nat
      /\ prog \in IncProgress
  BY <1>3, AskedFacts
<1>9. \A t \in Tables : seqs[t] \in asked..Len(log) /\ seqs[t] \in S
  <2>1. DOMAIN seqs = Tables /\ \A t \in Tables : seqs[t] \in SnapshotSeqs
    OBVIOUS
  <2> QED
    BY <1>4, <2>1 DEF SnapshotSeqs, Range
<1>10. /\ \A s \in S : s \in asked..Len(log)
       /\ S # {}
  BY <1>4, <1>9 DEF SnapshotSeqs, Range
<1>11. S \subseteq Nat
  BY <1>8, <1>10
<1>12. c \in S /\ \A s \in S : c <= s
  BY <1>5, <1>10, <1>11, LeastOfNats
<1>13. c \in Nat /\ c \in Seqs /\ asked <= c /\ c <= Len(log) /\ ckpt <= c
  <2>1. c \in asked..Len(log)
    BY <1>10, <1>12
  <2> QED
    BY <1>8, <2>1
<1>14. \A t \in Tables : /\ seqs[t] \in Nat /\ asked <= seqs[t] /\ seqs[t] <= Len(log)
                         /\ c <= seqs[t]
  <2>1. ASSUME NEW t \in Tables
        PROVE  /\ seqs[t] \in Nat /\ asked <= seqs[t] /\ seqs[t] <= Len(log)
               /\ c <= seqs[t]
    <3>1. seqs[t] \in asked..Len(log) /\ seqs[t] \in S
      BY <1>9
    <3> QED
      BY <1>8, <1>12, <3>1
  <2> QED
    BY <2>1
<1>15. seqs \in [Tables -> Seqs]
  BY <1>8, <1>9
<1>16. Restores(seqs, Tables, c)
  BY <1>2, <1>3, <1>8, <1>14 DEF Restores
<1>17. /\ p \in IncProgress /\ p.subSyncState = "Done"
       /\ p.commitSeq = c /\ p.prevCommitSeq = c
       /\ p.syncState = "DBTablesIncrementalSync" /\ p.tableCommitSeqMap = seqs
  BY <1>6, <1>8, <1>13, <1>15, SyncedIs
<1>18. Tables \in SUBSET Tables
  OBVIOUS
<1> QED
  BY <1>3, <1>7, <1>13, <1>15, <1>16, <1>17, <1>18 DEF SnapshotEnds

\* A partial sync restores one table, and starts again where it was asked for.
LEMMA PartialSyncEnds ==
    ASSUME IncInv, FinishPartialSync
    PROVE  SnapshotEnds
<1>1. PICK seq \in SnapshotSeqs :
          LET seqs == [prog.tableCommitSeqMap EXCEPT ![prog.partialTable] = seq]
          IN /\ Restored(seqs, {prog.partialTable})
             /\ Persist(Cleared(Method!NextWithPersist([prog EXCEPT !.tableCommitSeqMap = seqs],
                            prog.commitSeq, "DBTablesIncrementalSync", "Done")))
  BY DEF FinishPartialSync
<1>2. PICK t : t = prog.partialTable
  OBVIOUS
<1>3. PICK m : m = prog.tableCommitSeqMap
  OBVIOUS
<1>4. PICK seqs : seqs = [m EXCEPT ![t] = seq]
  OBVIOUS
<1>5. PICK c : c = prog.commitSeq
  OBVIOUS
<1>6. PICK p : p = Cleared(Method!NextWithPersist([prog EXCEPT !.tableCommitSeqMap = seqs], c,
                                                  "DBTablesIncrementalSync", "Done"))
  OBVIOUS
<1>7. Restored(seqs, {t}) /\ Persist(p)
  BY <1>1, <1>2, <1>3, <1>4, <1>5, <1>6
<1>8. /\ pc = "idle" /\ prog.syncState = "DBPartialSync" /\ Core
      /\ UNCHANGED <<log, txns, locked, pc, batch, attempt, extra, retried, budget, ingestVars>>
  BY DEF FinishPartialSync, IncInv
<1>9. /\ Snapshotting(prog) /\ Snapshotting(disk) /\ Seen = asked /\ asked \in Nat
      /\ Len(log) \in Nat /\ ckpt \in Nat /\ ckpt <= asked
      /\ prog \in IncProgress /\ ProgressOK(prog) /\ Fit(prog) /\ prog.prevCommitSeq = ckpt
      /\ \A s \in asked..Len(log) : s \in Seqs /\ s \in Nat
  BY <1>8, AskedFacts
<1>10. /\ t \in Tables /\ \A u \in Tables \ {t} : \A r \in 1..c : HandledFor(u, r)
       /\ ckpt <= c /\ c <= Seen
  BY <1>2, <1>5, <1>8, <1>9 DEF Fit, SnapshotOK
<1>11. c \in Nat /\ c \in Seqs /\ m \in [Tables -> Seqs]
  BY <1>3, <1>5, <1>9 DEF IncProgress, Seqs
<1>12. /\ seq \in Nat /\ seq \in Seqs /\ asked <= seq /\ seq <= Len(log)
       /\ c <= seq /\ c <= Len(log)
  <2>1. seq \in asked..Len(log)
    BY DEF SnapshotSeqs
  <2> QED
    BY <1>9, <1>10, <1>11, <2>1
<1>13. /\ seqs \in [Tables -> Seqs] /\ seqs[t] = seq
       /\ \A u \in Tables \ {t} : seqs[u] = prog.tableCommitSeqMap[u]
  BY <1>3, <1>4, <1>10, <1>11, <1>12
<1>14. ASSUME ~retried, NEW u \in Tables, NEW i \in DOMAIN dest[u].applied
       PROVE  ~(dest[u].applied[i] > c)
  <2>1. "BeginCreateSnapshot" \notin BegunStates /\ prog.subSyncState = "BeginCreateSnapshot"
    BY <1>9 DEF BegunStates, UpsertStates, Snapshotting
  <2>2. ~(dest[u].applied[i] > ckpt)
    BY <1>8, <1>9, <1>14, <2>1 DEF ProgressOK, OnceOK
  <2>3. dest[u].applied[i] \in Nat
    <3>1. \A s \in Seqs : s \in Nat
      BY DEF Seqs
    <3>2. dest[u].applied \in Seq(Seqs)
      BY <1>8 DEF Core, Typed, PlainTypes
    <3> QED
      BY <3>1, <3>2
  <2> QED
    BY <1>9, <1>10, <1>11, <2>2, <2>3
<1>15. Restores(seqs, {t}, c)
  BY <1>7, <1>8, <1>9, <1>10, <1>12, <1>13, <1>14 DEF Restores
<1>16. /\ p \in IncProgress /\ p.subSyncState = "Done"
       /\ p.commitSeq = c /\ p.prevCommitSeq = c
       /\ p.syncState = "DBTablesIncrementalSync" /\ p.tableCommitSeqMap = seqs
  BY <1>6, <1>9, <1>11, <1>13, SyncedIs
<1>17. {t} \in SUBSET Tables
  BY <1>10
<1> QED
  BY <1>7, <1>8, <1>10, <1>11, <1>12, <1>13, <1>15, <1>16, <1>17 DEF SnapshotEnds
-----------------------------------------------------------------------------
(* The environment. *)

\* The job stays in its place while the environment moves.
LEMMA SamePlace ==
    ASSUME IncInv, Grows, TxnsKeep, Seen' \in Nat, Len(log') \in Nat, Len(log) <= Len(log'),
           UNCHANGED <<progVars, pc, batch, attempt, extra, retried, ingestVars>>
    PROVE  PlaceOK' /\ IngestInv'
<1>1. CASE pc = "idle"
  BY <1>1, PlaceIdle
<1>2. CASE pc # "idle"
  <2>1. /\ Core /\ ~Snapshotting(prog) /\ Seen = Len(log) /\ prog \in IncProgress
        /\ Len(log) \in Nat /\ Typed
    BY <1>2, AwakeFacts, Numbers DEF Core
  <2>2. /\ prog' = prog /\ ckpt' = ckpt /\ pc' = pc /\ batch' = batch /\ attempt' = attempt
        /\ extra' = extra /\ retried' = retried /\ Binlog' = Binlog
    BY DEF progVars, Binlog
  <2>3. ASSUME NEW c \in Nat, c <= Len(log), Passed(c) PROVE Passed(c)'
    BY <2>1, <2>3, PassedStays
  <2>4. pc = "batch" => /\ ckpt' <= batch'.pos /\ batch'.pos <= batch'.next
                        /\ batch'.next <= Len(log') /\ Passed(batch.pos)'
    <3> SUFFICES ASSUME pc = "batch"
                 PROVE  /\ ckpt' <= batch'.pos /\ batch'.pos <= batch'.next
                        /\ batch'.next <= Len(log') /\ Passed(batch.pos)'
      OBVIOUS
    <3>1. /\ ckpt <= batch.pos /\ batch.pos <= batch.next /\ batch.next <= Len(log)
          /\ Passed(batch.pos) /\ batch.pos \in Nat /\ batch.next \in Nat
      BY <2>1, Numbers DEF IncInv, PlaceOK
    <3>2. PICK c : c = batch.pos
      OBVIOUS
    <3>3. Passed(c)'
      BY <2>1, <2>3, <3>1, <3>2
    <3> QED
      BY <2>1, <2>2, <3>1, <3>2, <3>3 DEF Passed
  <2>5. Handler' <=> Handler
    BY <2>2 DEF Handler, InUpsert
  <2>6. Handler => /\ Passed(batch.pos)' /\ batch'.pos < batch'.next /\ batch'.next <= Len(log')
                   /\ prog'.commitSeq <= Binlog' /\ log'[Binlog] = log[Binlog]
                   /\ Binlog \in Nat /\ Binlog <= Len(log)
    <3> SUFFICES ASSUME Handler
                 PROVE  /\ Passed(batch.pos)' /\ batch'.pos < batch'.next
                        /\ batch'.next <= Len(log')
                        /\ prog'.commitSeq <= Binlog' /\ log'[Binlog] = log[Binlog]
                        /\ Binlog \in Nat /\ Binlog <= Len(log)
      OBVIOUS
    <3>1. /\ Passed(batch.pos) /\ batch.pos \in Nat /\ Binlog \in 1..Seen
          /\ batch.pos < batch.next /\ batch.next <= Len(log) /\ prog.commitSeq <= Binlog
          /\ Binlog = batch.pos + 1
      BY HandlerFacts
    <3>2. batch.next \in Nat
      BY <2>1, Numbers
    <3>3. PICK c : c = batch.pos
      OBVIOUS
    <3>4. Passed(c)'
      BY <2>1, <2>3, <3>1, <3>2, <3>3
    <3>5. Passed(batch.pos)'
      BY <2>2, <3>3, <3>4 DEF Passed
    <3> QED
      BY <2>1, <2>2, <3>1, <3>2, <3>5 DEF Grows
  <2>7. (InTxn' <=> InTxn) /\ ~Snapshotting(prog)' /\ Current(prog)' = Current(prog)
    BY <2>1, <2>2 DEF InTxn, Snapshotting, Current
  <2>8. pc = "ingest" => SkippedGone(prog.inMemoryData)'
    <3> SUFFICES ASSUME pc = "ingest" PROVE SkippedGone(prog.inMemoryData)'
      OBVIOUS
    <3>1. PICK d : d = prog.inMemoryData
      OBVIOUS
    <3>2. InTxn /\ SkippedGone(d)
      BY <3>1 DEF IncInv, PlaceOK, InTxn, UpsertStates
    <3>3. d.skipped \subseteq Tables
      BY <3>1, <3>2, TxnFacts DEF Data, TxnData
    <3>4. SkippedGone(d)'
      BY <2>1, <3>2, <3>3, GoneStays
    <3> QED
      BY <2>2, <3>1, <3>4 DEF SkippedGone
  <2>9. pc = "committed" => txns'[prog'.inMemoryData.txnId].status = "COMMITTED"
    <3> SUFFICES ASSUME pc = "committed"
                 PROVE  txns'[prog'.inMemoryData.txnId].status = "COMMITTED"
      OBVIOUS
    <3>1. /\ InTxn /\ prog.subSyncState # "BeginTransaction"
          /\ txns[prog.inMemoryData.txnId].status = "COMMITTED"
      BY DEF IncInv, PlaceOK, InTxn, UpsertStates
    <3>2. prog.inMemoryData.txnId \in DOMAIN txns
      BY <3>1, TxnFacts DEF Data
    <3> QED
      BY <2>2, <3>1, <3>2 DEF TxnsKeep
  <2>10. pc = "handled" => Passed(prog.commitSeq)' /\ (extra.partialTable = Nil => Passed(Binlog)')
    <3> SUFFICES ASSUME pc = "handled"
                 PROVE  Passed(prog.commitSeq)' /\ (extra.partialTable = Nil => Passed(Binlog)')
      OBVIOUS
    <3>1. Handler /\ Passed(prog.commitSeq) /\ (extra.partialTable = Nil => Passed(Binlog))
      BY DEF IncInv, PlaceOK, Handler
    <3>2. PICK c : c = prog.commitSeq
      OBVIOUS
    <3>3. PICK s : s = Binlog
      OBVIOUS
    <3>4. c \in Nat /\ c <= Len(log) /\ s \in Nat /\ s <= Len(log)
      BY <2>1, <2>6, <3>1, <3>2, <3>3, ProgressNumbers DEF Core, ProgressOK, Fit
    <3>5. Passed(c)' /\ (extra.partialTable = Nil => Passed(s)')
      BY <2>3, <3>1, <3>2, <3>3, <3>4
    <3> QED
      BY <2>2, <3>2, <3>3, <3>5 DEF Passed
  <2>11. IngestInv'
    <3>1. PICK ts : ts = prog.inMemoryData.tables
      OBVIOUS
    <3>2. pc = "ingest" => IngestTracks(ts)
      BY <3>1 DEF IncInv, IngestInv
    <3>3. pc = "ingest" => IngestTracks(ts)'
      BY <3>2 DEF IngestTracks, ingestVars
    <3> QED
      BY <2>2, <3>1, <3>3 DEF IngestInv, IngestTracks
  <2>12. pc' = "upsert" /\ prog'.subSyncState = "Done" =>
            /\ log'[Binlog'].kind = "UPSERT"
            /\ ~retried' => prog'.commitSeq = Binlog' /\ ckpt' < Binlog'
    <3> SUFFICES ASSUME pc = "upsert", prog.subSyncState = "Done"
                 PROVE  /\ log'[Binlog].kind = "UPSERT"
                        /\ ~retried => prog.commitSeq = Binlog /\ ckpt < Binlog
      BY <2>2
    <3>1. Handler
      BY DEF IncInv, PlaceOK, Handler, InUpsert, InTxn, UpsertStates
    <3> QED
      BY <2>6, <3>1 DEF IncInv, PlaceOK
  <2>13. pc' = "ddl" => /\ prog'.subSyncState = "Done" /\ log'[Binlog'].kind # "UPSERT"
                        /\ prog'.commitSeq = Binlog'
    <3>1. pc = "ddl" => Handler
      BY DEF Handler
    <3> QED
      BY <2>2, <2>6, <3>1 DEF IncInv, PlaceOK
  <2>14. PlaceOK
    BY DEF IncInv
  <2>15. /\ pc \in {"loop", "batch"} => Method!IsDone(prog)'
         /\ Method!IsDone(prog) <=> Method!IsDone(prog)'
    BY <2>2, <2>14 DEF PlaceOK, Method!IsDone
  <2>16. Handler' => (InTxn' => Current(prog)'.seq = Binlog')
    BY <2>2, <2>5, <2>7, <2>14 DEF PlaceOK
  <2>17. InUpsert(pc)' => /\ attempt' = "recover" => InTxn'
                          /\ InTxn' => prog'.inMemoryData # Nil
                          /\ attempt' = "rollback" => prog'.subSyncState = "RollbackTransaction"
    BY <2>2, <2>7, <2>14 DEF PlaceOK, InUpsert
  <2>18. /\ pc' = "upsert" /\ prog'.subSyncState = "RollbackTransaction"
              /\ attempt' \in {"first", "second"} => extra'.partialTable # Nil
         /\ pc' = "ingest" => prog'.subSyncState = "IngestBinlog"
         /\ pc' = "committed" => prog'.subSyncState = "CommitTransaction"
         /\ pc' = "handled" => prog'.subSyncState = "Done"
    BY <2>2, <2>14 DEF PlaceOK
  <2> QED
    BY <2>2, <2>4, <2>5, <2>6, <2>7, <2>8, <2>9, <2>10, <2>11, <2>12, <2>13, <2>15, <2>16, <2>17,
       <2>18 DEF PlaceOK
<1> QED
  BY <1>1, <1>2

\* The source writes a binlog.
LEMMA SourceWritesKeeps ==
    ASSUME IncInv, AskedRule, SourceWrites
    PROVE  IncInv'
<1>1. PICK b \in Binlogs : log' = Append(log, b)
  BY DEF SourceWrites
<1>2. /\ Len(log) < MaxSeq /\ UNCHANGED <<progVars, pc>> /\ Unchanged /\ Core
      /\ UNCHANGED <<dest, rollups, txns, locked, batch, attempt, extra, retried, budget,
                     ingestVars>>
  BY DEF SourceWrites, Unchanged, targetVars, IncInv
<1>3. log \in Seq(Binlogs) /\ Len(log) \in Nat
  BY <1>2, Numbers DEF Core, Typed, PlainTypes
<1>4. log' \in Seq(Binlogs) /\ Len(log') = Len(log) + 1
  BY <1>1, <1>3
<1>5. PlainTypes'
  <2>1. PlainTypes
    BY <1>2 DEF Core, Typed
  <2>2. asked' \in Seqs
    BY <2>1 DEF AskedRule, PlainTypes
  <2>3. infos' = infos /\ jobErr' = jobErr
    BY <1>2 DEF ingestVars
  <2>4. Len(log') \in Seqs
    BY <1>2, <1>3, <1>4, IncrementalAssumption DEF Seqs
  <2> QED
    BY <1>2, <1>4, <2>1, <2>2, <2>3, <2>4 DEF PlainTypes
<1>6. TxnsKeep /\ ExtraFollows
  BY <1>2 DEF TxnsKeep, ExtraFollows
<1>7. Quiet
  BY <1>1, <1>2, <1>5, <1>6 DEF Quiet
<1>8. Core' /\ Grows /\ Seen' \in Nat
  BY <1>2, <1>7, SameQuiet
<1>9. PlaceOK' /\ IngestInv'
  BY <1>2, <1>3, <1>4, <1>6, <1>8, SamePlace
<1> QED
  BY <1>8, <1>9 DEF IncInv

\* The target gives a txn up.
LEMMA TargetAbortsKeeps ==
    ASSUME IncInv, AskedRule, TargetAborts
    PROVE  IncInv'
<1>1. PICK i \in DOMAIN txns : /\ txns[i].status = "PREPARE" /\ Fault("abort")
                               /\ txns' = [txns EXCEPT ![i].status = "ABORTED"]
  BY DEF TargetAborts
<1>2. /\ UNCHANGED <<log, dest, rollups, progVars, locked, pc, batch, attempt, extra, retried,
                     ingestVars>>
      /\ Core
  BY DEF TargetAborts, IncInv
<1>3. PICK r : r = [txns[i] EXCEPT !.status = "ABORTED"]
  OBVIOUS
<1>4. txns[i] \in Txns
  BY <1>2, Numbers DEF Core
<1>5. r \in Txns /\ r.status = "ABORTED" /\ r.data = txns[i].data
  BY <1>3, <1>4 DEF Txns
<1>6. txns' = [txns EXCEPT ![i] = r]
  BY <1>1, <1>3
<1>7. TxnsQuiet
  BY <1>1, <1>2, <1>5, <1>6, ResolveIs
<1>8. budget' \in 0..MaxFaults
  BY <1>1, <1>2, FaultTypes
<1>9. infos' = infos /\ jobErr' = jobErr
  BY <1>2 DEF ingestVars
<1>10. Quiet
  BY <1>2, <1>7, <1>8, <1>9, PlainFacts, SameTables
<1>11. Core' /\ Grows /\ Seen' \in Nat
  BY <1>2, <1>10, SameQuiet
<1>12. Len(log) \in Nat /\ Len(log') \in Nat /\ Len(log) <= Len(log') /\ TxnsKeep
  BY <1>2, <1>7, Numbers DEF Core, TxnsQuiet
<1>13. PlaceOK' /\ IngestInv'
  BY <1>2, <1>11, <1>12, SamePlace
<1> QED
  BY <1>11, <1>13 DEF IncInv

\* The progress with an id of a table that is gone.
LEMMA StaleIs ==
    ASSUME NEW p \in IncProgress, NEW t \in Tables, NEW q, q = [p EXCEPT !.stale = @ \cup {t}]
    PROVE  /\ q \in IncProgress /\ q.subSyncState = p.subSyncState
           /\ q.commitSeq = p.commitSeq /\ q.prevCommitSeq = p.prevCommitSeq
           /\ q.syncState = p.syncState /\ q.tableCommitSeqMap = p.tableCommitSeqMap
           /\ q.partialTable = p.partialTable
           /\ q.inMemoryData = p.inMemoryData /\ q.persistData = p.persistData
           /\ Current(q) = Current(p)
BY DEF IncProgress, Current

\* A table of the target is replaced by one with another id.
LEMMA TargetReplacesTableKeeps ==
    ASSUME IncInv, AskedRule, TargetReplacesTable
    PROVE  IncInv'
<1>1. PICK t \in Tables : /\ prog' = [prog EXCEPT !.stale = @ \cup {t}]
                          /\ disk' = [disk EXCEPT !.stale = @ \cup {t}]
  BY DEF TargetReplacesTable
<1>2. /\ pc = "idle" /\ pc' = "idle" /\ Fault("tableGone") /\ Core
      /\ UNCHANGED <<log, targetVars, ckpt, locked, batch, attempt, extra, retried, ingestVars>>
  BY DEF TargetReplacesTable, IncInv
<1>3. PICK x : x = [prog EXCEPT !.stale = @ \cup {t}]
  OBVIOUS
<1>4. PICK y : y = [disk EXCEPT !.stale = @ \cup {t}]
  OBVIOUS
<1>5. /\ prog \in IncProgress /\ disk \in IncProgress /\ ProgressOK(prog) /\ ProgressOK(disk)
      /\ RowFollows(prog, disk) /\ disk.inMemoryData = Nil
      /\ prog.prevCommitSeq = ckpt /\ disk.prevCommitSeq = ckpt
      /\ ckpt \in Nat /\ ckpt <= Seen /\ Passed(ckpt) /\ locked <= ckpt
  BY <1>2, Numbers DEF Core, Typed, TargetInv
<1>6. x \in IncProgress /\ ProgressOK(x) /\ x.prevCommitSeq = ckpt
  BY <1>3, <1>5, StaleIs, AlikeFits
<1>7. y \in IncProgress /\ ProgressOK(y) /\ y.prevCommitSeq = ckpt /\ y.inMemoryData = Nil
  BY <1>4, <1>5, StaleIs, AlikeFits
<1>8. RowFollows(x, y)
  <2>1. x.subSyncState = prog.subSyncState /\ Current(x) = Current(prog)
    BY <1>3, <1>5, StaleIs
  <2>2. y.subSyncState = disk.subSyncState /\ y.persistData = disk.persistData
    BY <1>4, <1>5, StaleIs
  <2> QED
    BY <1>5, <2>1, <2>2 DEF RowFollows, Snapshotting
<1>9. infos' = infos /\ jobErr' = jobErr /\ budget' \in 0..MaxFaults
  BY <1>2, FaultTypes DEF ingestVars
<1>10. Quiet
  BY <1>2, <1>9, PlainFacts, SameTarget
<1>11. PICK c : c = ckpt
  OBVIOUS
<1>12. /\ x = prog' /\ y = disk' /\ c = ckpt' /\ locked' <= c /\ ckpt <= c /\ c <= Seen
       /\ Passed(c) /\ x.prevCommitSeq = c /\ y.prevCommitSeq = c
  BY <1>1, <1>2, <1>3, <1>4, <1>5, <1>6, <1>7, <1>11
<1>13. Core'
  BY <1>2, <1>6, <1>7, <1>8, <1>10, <1>12, QuietStep
<1> QED
  BY <1>2, <1>13, PlaceIdle DEF IncInv

\* The process crashes at any point: it goes on with its row, and what it had not stored is
\* lost.
LEMMA CrashKeeps ==
    ASSUME IncInv, AskedRule, Crash
    PROVE  IncInv'
<1>1. /\ Fault("crash") /\ prog' = disk /\ pc' = "idle" /\ batch' = NoBatch /\ extra' = NoExtra
      /\ attempt' = "first" /\ StopIngest /\ Core
      /\ UNCHANGED <<log, targetVars, disk, ckpt, locked, retried>>
  BY DEF Crash, Goto, IncInv
<1>2. PICK x : x = disk
  OBVIOUS
<1>3. /\ x \in IncProgress /\ ProgressOK(x) /\ x.inMemoryData = Nil /\ x.prevCommitSeq = ckpt
      /\ ckpt \in Nat /\ ckpt <= Seen /\ Passed(ckpt) /\ locked <= ckpt
  BY <1>1, <1>2, Numbers DEF Core, Typed, TargetInv
<1>4. RowFollows(x, x)
  BY <1>3 DEF RowFollows, Current
<1>5. 0 \in Seqs
  BY IncrementalAssumption DEF Seqs
<1>6. /\ batch' \in [pos : Seqs, next : Seqs]
      /\ extra' \in [applied : SUBSET Seqs, partialTable : Tables \cup {Nil}]
      /\ extra'.applied \subseteq extra.applied
      /\ infos' = {} /\ jobErr' = "ok" /\ budget' \in 0..MaxFaults
  BY <1>1, <1>5, FaultTypes DEF NoBatch, NoExtra, StopIngest
<1>7. Quiet
  BY <1>1, <1>6, PlainFacts, SameTarget
<1>8. PICK c : c = ckpt
  OBVIOUS
<1>9. x = prog' /\ x = disk' /\ c = ckpt' /\ locked' <= c /\ ckpt <= c
  BY <1>1, <1>2, <1>3, <1>8
<1>10. Core'
  BY <1>1, <1>3, <1>4, <1>7, <1>8, <1>9, QuietStep
<1> QED
  BY <1>1, <1>10, PlaceIdle DEF IncInv

\* Nothing moves.
LEMMA StutterKeeps ==
    ASSUME IncInv, UNCHANGED incVars
    PROVE  IncInv'
<1>1. /\ log' = log /\ dest' = dest /\ ckpt' = ckpt /\ rollups' = rollups /\ txns' = txns
      /\ locked' = locked /\ asked' = asked /\ prog' = prog /\ disk' = disk /\ pc' = pc
      /\ batch' = batch /\ attempt' = attempt /\ extra' = extra /\ retried' = retried
      /\ budget' = budget /\ handler' = handler /\ task' = task /\ infos' = infos
      /\ jobErr' = jobErr /\ UNCHANGED ingestVars /\ UNCHANGED targetVars /\ UNCHANGED progVars
  BY DEF incVars, ingestVars, targetVars, progVars
<1>2. AskedRule
  BY <1>1 DEF AskedRule, Asks
<1>3. Core
  BY DEF IncInv
<1>4. Quiet
  BY <1>1, <1>2, <1>3, PlainFacts, SameTarget
<1>5. Core' /\ Grows /\ Seen' \in Nat
  BY <1>1, <1>3, <1>4, SameQuiet
<1>6. TxnsKeep /\ Len(log) \in Nat
  BY <1>1, <1>3, Numbers DEF TxnsKeep, Core
<1>7. PlaceOK' /\ IngestInv'
  BY <1>1, <1>5, <1>6, SamePlace
<1> QED
  BY <1>5, <1>7 DEF IncInv

\* The steps of the job.
LEMMA JobStepKeeps ==
    ASSUME IncInv, AskedRule, JobStep
    PROVE  IncInv'
<1>1. CASE RecoverIncrementalSync \/ EnterLoop \/ GetBinlog \/ NoMoreBinlogs \/ GetBinlogFails
           \/ EndOfBatch \/ HandleBinlog \/ HandleBinlogFails
  BY <1>1, RecoverKeeps, EnterLoopKeeps, GetBinlogKeeps, NoMoreBinlogsKeeps, GetBinlogFailsKeeps,
     EndOfBatchKeeps, HandleBinlogKeeps
<1>2. CASE BuildUpsert \/ SkipUpsert \/ BuildUpsertFails
           \/ BeginTxn \/ BeginTxnFails \/ BeginTxnTableNotFound
           \/ ApplyDropRollup \/ TriggerPartialSnapshot \/ Ingest \/ PrepareFails \/ IngestEnds
  BY <1>2, BuildUpsertKeeps, SkipUpsertKeeps, BuildUpsertFailsKeeps, BeginTxnKeeps,
     BeginTxnFailsKeeps, TableNotFoundKeeps, ApplyDropRollupKeeps, TriggerPartialKeeps,
     IngestKeeps, PrepareFailsKeeps, IngestEndsKeeps
<1>3. CASE CommitTxn \/ CommitTxnFails \/ CommitDone \/ RollbackTxn \/ RollbackTxnFails
  BY <1>3, CommitTxnKeeps, CommitTxnFailsKeeps, CommitDoneKeeps, RollbackTxnKeeps,
     RollbackTxnFailsKeeps
<1>4. CASE HandleCommittedBinlog \/ ExecuteDropRollup \/ DropRollupNotFound
           \/ HandleAlterJob \/ StartPartialSnapshot \/ FinishBinlog
           \/ FinishFullSync \/ FinishPartialSync
  BY <1>4, HandleCommittedKeeps, ExecuteDropRollupKeeps, DropRollupNotFoundKeeps,
     HandleAlterJobKeeps, StartPartialKeeps, FinishBinlogKeeps, FullSyncEnds,
     PartialSyncEnds, SnapshotEndsKeeps
<1> QED
  BY <1>1, <1>2, <1>3, <1>4 DEF JobStep, UpsertStep

\* Every step keeps the invariant.
LEMMA IncInvStep ==
    ASSUME IncInv, WindowInv, [IncNext]_incVars
    PROVE  IncInv'
<1>1. CASE JobAction
  BY <1>1, JobStepKeeps DEF JobAction, AskedRule
<1>2. CASE IngestAction
  <2>1. IngestRuns /\ disk' = disk /\ asked' = asked
    BY <1>2 DEF IngestAction, IngestRuns, progVars
  <2>2. AskedRule
    BY <2>1 DEF AskedRule, Asks
  <2> QED
    BY <2>1, <2>2, IngestRunsKeeps
<1>3. CASE Environment
  <2>1. asked' = asked /\ disk'.subSyncState = disk.subSyncState
    <3>1. CASE SourceWrites \/ TargetAborts \/ Crash
      BY <1>3, <3>1 DEF Environment, SourceWrites, TargetAborts, Crash, progVars
    <3>2. CASE TargetReplacesTable
      <4>1. disk \in IncProgress
        BY DEF IncInv, Core, Typed
      <4> QED
        BY <1>3, <3>2, <4>1 DEF Environment, TargetReplacesTable, IncProgress
    <3> QED
      BY <1>3, <3>1, <3>2 DEF Environment
  <2>2. AskedRule
    BY <2>1 DEF AskedRule, Asks
  <2> QED
    BY <1>3, <2>2, SourceWritesKeeps, TargetAbortsKeeps, TargetReplacesTableKeeps, CrashKeeps
       DEF Environment
<1>4. CASE UNCHANGED incVars
  BY <1>4, StutterKeeps
<1> QED
  BY <1>1, <1>2, <1>3, <1>4 DEF IncNext
-----------------------------------------------------------------------------
(* The invariant holds, and what follows from it. *)

\* The first progress, after the full sync.
LEMMA InitialIs ==
    ASSUME NEW n \in Nat, n <= MaxSeq, NEW seqs \in [Tables -> 1..n],
           NEW p, p = InitialProgress(seqs)
    PROVE  /\ p \in IncProgress /\ p.subSyncState = "Done" /\ p.inMemoryData = Nil
           /\ p.syncState = "DBTablesIncrementalSync" /\ p.tableCommitSeqMap = seqs
           /\ p.prevCommitSeq = p.commitSeq /\ p.commitSeq \in Nat /\ p.commitSeq <= n
           /\ \A t \in Tables : /\ seqs[t] \in Nat /\ p.commitSeq <= seqs[t] /\ seqs[t] <= n
                                /\ seqs[t] \in Seqs
<1>1. PICK S : S = Range(seqs)
  OBVIOUS
<1>2. PICK c : c = Min(S)
  OBVIOUS
<1>3. DOMAIN seqs = Tables /\ \A t \in Tables : seqs[t] \in 1..n
  OBVIOUS
<1>4. /\ \A t \in Tables : seqs[t] \in S
      /\ \A s \in S : s \in 1..n
      /\ S # {}
  BY <1>1, <1>3, BinlogAssumption DEF Range
<1>5. S \subseteq Nat
  BY <1>4
<1>6. c \in S /\ \A s \in S : c <= s
  BY <1>2, <1>4, <1>5, LeastOfNats
<1>7. c \in Nat /\ c <= n
  BY <1>4, <1>6
<1>8. MaxSeq \in Nat
  BY IncrementalAssumption
<1>9. ASSUME NEW t \in Tables
      PROVE  seqs[t] \in Nat /\ c <= seqs[t] /\ seqs[t] <= n /\ seqs[t] \in Seqs
  <2>1. seqs[t] \in 1..n /\ seqs[t] \in S
    BY <1>3, <1>4
  <2> QED
    BY <1>6, <1>8, <2>1 DEF Seqs
<1>10. seqs \in [Tables -> Seqs]
  BY <1>9
<1>11. c \in Seqs /\ 0 \in Seqs
  BY <1>7, <1>8 DEF Seqs
<1>12. p = [syncState |-> "DBTablesIncrementalSync", subSyncState |-> "Done",
            commitSeq |-> c, prevCommitSeq |-> c, unknownCommitSeq |-> 0,
            lockedCommitSeq |-> 0, tableCommitSeqMap |-> seqs, prevTxnId |-> -1,
            partialTable |-> Nil, stale |-> {}, persistData |-> Nil, inMemoryData |-> Nil]
  BY <1>1, <1>2 DEF InitialProgress
<1>13. p \in IncProgress
  BY <1>10, <1>11, <1>12 DEF IncProgress, Method!SyncStates
<1> QED
  BY <1>7, <1>9, <1>12, <1>13

\* The invariant holds after the full sync.
LEMMA InitIsInv == IncInit => IncInv
<1> SUFFICES ASSUME IncInit PROVE IncInv
  OBVIOUS
<1>1. PICK n : n = Len(log)
  OBVIOUS
<1>2. PICK seqs \in [Tables -> 1..n] :
         /\ dest = [t \in Tables |-> [base |-> seqs[t], applied |-> <<>>]]
         /\ rollups = {t \in Tables : \A s \in 1..seqs[t] : log[s].rollup # t}
         /\ prog = InitialProgress(seqs) /\ disk = prog /\ ckpt = prog.prevCommitSeq
  BY <1>1 DEF IncInit
<1>3. /\ log \in Seq(Binlogs) /\ log # <<>> /\ n <= MaxSeq /\ txns = <<>> /\ locked = 0 /\ asked = 1
      /\ pc = "idle" /\ batch = NoBatch /\ attempt = "first" /\ extra = NoExtra
      /\ retried = FALSE /\ budget = MaxFaults /\ infos = {} /\ jobErr = "ok"
  BY <1>1, BinlogAssumption DEF IncInit, NoIngest
<1>4. n \in Nat /\ 1 <= n
  BY <1>1, <1>3
<1>5. PICK p : p = prog
  OBVIOUS
<1>6. /\ p \in IncProgress /\ p.subSyncState = "Done" /\ p.inMemoryData = Nil
      /\ p.syncState = "DBTablesIncrementalSync" /\ p.tableCommitSeqMap = seqs
      /\ p.prevCommitSeq = p.commitSeq /\ p.commitSeq \in Nat /\ p.commitSeq <= n
      /\ \A t \in Tables : /\ seqs[t] \in Nat /\ p.commitSeq <= seqs[t] /\ seqs[t] <= n
                           /\ seqs[t] \in Seqs
  BY <1>2, <1>3, <1>4, <1>5, InitialIs
<1>7. prog = p /\ disk = p /\ ckpt = p.commitSeq
  BY <1>2, <1>5, <1>6
<1>8. Seen = n
  BY <1>1, <1>6, <1>7 DEF Seen, Snapshotting
<1>9. MaxSeq \in Nat /\ MaxTxn \in Nat /\ MaxFaults \in Nat
  BY IncrementalAssumption
<1>10. 0 \in Seqs /\ 1 \in Seqs /\ n \in Seqs
  BY <1>3, <1>4, <1>9 DEF Seqs
<1>11. \A t \in Tables : /\ dest[t] \in [base : Seqs, applied : Seq(Seqs)]
                         /\ dest[t].base = seqs[t] /\ DOMAIN dest[t].applied = {}
  <2>1. ASSUME NEW t \in Tables
        PROVE  /\ dest[t] \in [base : Seqs, applied : Seq(Seqs)]
               /\ dest[t].base = seqs[t] /\ DOMAIN dest[t].applied = {}
    <3>1. dest[t] = [base |-> seqs[t], applied |-> <<>>] /\ seqs[t] \in Seqs
      BY <1>2, <1>6
    <3>2. DOMAIN dest[t].applied = {}
      BY <3>1
    <3> QED
      BY <3>1, <3>2
  <2> QED
    BY <2>1
<1>12. Typed
  <2>1. /\ dest \in [Tables -> [base : Seqs, applied : Seq(Seqs)]]
        /\ rollups \subseteq Tables
    BY <1>2, <1>11
  <2>2. txns \in Seq(Txns) /\ Len(txns) <= MaxTxn /\ DOMAIN txns = {}
    BY <1>3, <1>9
  <2>3. /\ batch \in [pos : Seqs, next : Seqs]
        /\ extra \in [applied : SUBSET Seqs, partialTable : Tables \cup {Nil}]
        /\ budget \in 0..MaxFaults
    BY <1>3, <1>9, <1>10 DEF NoBatch, NoExtra
  <2>4. PlainTypes
    BY <1>1, <1>3, <1>10, <2>1, <2>2, <2>3 DEF PlainTypes
  <2> QED
    BY <1>6, <1>7, <2>4 DEF Typed
<1>13. \A t \in Tables : \A r \in 1..seqs[t] : HandledFor(t, r)
  <2>1. ASSUME NEW t \in Tables, NEW r \in 1..seqs[t] PROVE HandledFor(t, r)
    <3>1. r <= dest[t].base
      BY <1>6, <1>11
    <3>2. log[r].rollup = t => t \notin rollups
      BY <1>2
    <3> QED
      BY <3>1, <3>2 DEF HandledFor, Covered
  <2> QED
    BY <2>1
<1>14. Passed(p.commitSeq)
  <2>1. ASSUME NEW r \in 1..p.commitSeq, NEW t \in Tables PROVE HandledFor(t, r)
    <3>1. r \in 1..seqs[t]
      BY <1>6
    <3> QED
      BY <1>13, <3>1
  <2> QED
    BY <2>1 DEF Passed
<1>15. TargetInv
  <2>1. Passed(ckpt)
    BY <1>7, <1>14
  <2>2. \A t \in Tables : /\ dest[t].base <= Seen
                          /\ \A i \in DOMAIN dest[t].applied : dest[t].applied[i] \in 1..Seen
    BY <1>6, <1>8, <1>11
  <2> QED
    BY <1>1, <1>3, <1>4, <1>6, <1>7, <1>8, <2>1, <2>2 DEF TargetInv
<1>16. DOMAIN txns = {}
  BY <1>3
<1>17. CommittedInv /\ ExtraInv
  BY <1>3, <1>16 DEF CommittedInv, ExtraInv, NoExtra
<1>18. OnceInv
  BY <1>11 DEF OnceInv, IsInjective
<1>19. ProgressOK(p)
  <2>1. SnapshotOK(p) /\ p.subSyncState \notin UpsertStates
    BY <1>6 DEF SnapshotOK, Snapshotting, UpsertStates
  <2>2. MapOK(p)
    BY <1>6, <1>8, <1>13 DEF MapOK
  <2>3. OnceOK(p)
    BY <1>11 DEF OnceOK
  <2> QED
    BY <1>6, <1>8, <2>1, <2>2, <2>3 DEF ProgressOK, Fit
<1>20. RowFollows(p, p)
  BY <1>6 DEF RowFollows, BegunStates, UpsertStates
<1>21. Core
  BY <1>7, <1>12, <1>15, <1>17, <1>18, <1>19, <1>20 DEF Core
<1>22. PlaceOK /\ IngestInv
  BY <1>3 DEF PlaceOK, IngestInv, Handler, InUpsert
<1> QED
  BY <1>21, <1>22 DEF IncInv

\* The invariant holds in every reachable state.
THEOREM IncInvHolds == IncSpec => []IncInv
<1>1. IncInit => IncInv
  BY InitIsInv
<1>2. IncInv /\ WindowInv /\ [IncNext]_incVars => IncInv'
  BY IncInvStep
<1>3. IncSpec => []WindowInv
  BY ImplementsIngest, WindowsHold, PTL
<1> QED
  BY <1>1, <1>2, <1>3, PTL DEF IncSpec

\* The types of the incremental sync.  The progress of the process never names another
\* checkpoint than the row that a restart loads.
THEOREM IncTypes == IncSpec => []IncTypeOK
<1>1. IncInv /\ WindowInv => IncTypeOK
  BY DEF IncInv, Core, Typed, PlainTypes, IncTypeOK, WindowInv, IngestTypes, IngestTypeOK, Seqs
<1>2. IncSpec => []WindowInv
  BY ImplementsIngest, WindowsHold, PTL
<1> QED
  BY <1>1, <1>2, IncInvHolds, PTL

\* A committed txn is not committed again under a new label, whatever answer is lost, txn
\* aborted or process restarted, unless handleUpsertWithRetry has rolled a txn back.
THEOREM NotAppliedAgain == IncSpec => []AppliedOnceUnlessRetried
<1>1. IncInv => AppliedOnceUnlessRetried
  BY DEF IncInv, Core, OnceInv, AppliedOnceUnlessRetried
<1> QED
  BY <1>1, IncInvHolds, PTL

\* A txn that the target has committed was given the commit infos of all replicas of its
\* tables: no goroutine of the ingest job that failed, or was left running, is missed.
THEOREM CommittedIsComplete == IncSpec => []IngestComplete
<1>1. IncInv => IngestComplete
  BY DEF IncInv, Core, CommittedInv, CommittedOK, IngestComplete
<1> QED
  BY <1>1, IncInvHolds, PTL

\* The rollups of the target follow the source: a txn that was ingested without an index
\* finds no such index at the target, and a drop that the checkpoint has passed was executed.
THEOREM RollupsAreGone == IncSpec => []RollupsFollow
<1>1. IncInv => RollupsFollow
  <2> SUFFICES ASSUME IncInv PROVE RollupsFollow
    OBVIOUS
  <2>1. ASSUME NEW i \in DOMAIN txns, txns[i].status = "COMMITTED"
        PROVE  txns[i].data.skipped \cap rollups = {}
    <3>1. SkippedGone(txns[i].data)
      BY <2>1 DEF IncInv, Core, CommittedInv, CommittedOK
    <3> QED
      BY <3>1 DEF SkippedGone
  <2>2. ASSUME NEW s \in 1..ckpt, log[s].kind = "DROP_ROLLUP"
        PROVE  log[s].rollup \notin rollups
    <3>1. Typed /\ Passed(ckpt) /\ ckpt <= Seen /\ ckpt \in Nat /\ Seen \in Nat /\ Len(log) \in Nat
      BY Numbers DEF IncInv, Core, TargetInv
    <3>2. Seen <= Len(log)
      BY <3>1 DEF Seen, IncInv, Core, TargetInv
    <3>3. log[s] \in Binlogs
      BY <3>1, <3>2, Numbers
    <3>4. HandledFor(log[s].rollup, s)
      BY <2>2, <3>1, <3>3, BinlogFacts DEF Passed
    <3> QED
      BY <3>4 DEF HandledFor
  <2> QED
    BY <2>1, <2>2 DEF RollupsFollow
<1> QED
  BY <1>1, IncInvHolds, PTL

\* Every binlog that the checkpoint has passed is at the target, in each of its tables:
\* whatever call of handleUpsert, rollback, retry, snapshot or restart moved the checkpoint.
THEOREM SyncLosesNothing == IncSpec => []NoLoss
<1>1. IncInv => NoLoss
  BY DEF IncInv, Core, TargetInv, Passed, HandledFor, NoLoss
<1> QED
  BY <1>1, IncInvHolds, PTL
-----------------------------------------------------------------------------
(* The replay of the log. *)

\* The checkpoint that each progress names.
LEMMA CheckpointOf ==
    ASSUME NEW p \in IncProgress
    PROVE  /\ RolledBack(p).prevCommitSeq = p.prevCommitSeq
           /\ Committed(p).prevCommitSeq = p.commitSeq
           /\ \A sub : SubCheckpoint(p, sub).prevCommitSeq = p.prevCommitSeq
           /\ \A id, sub : SubCheckpoint(Begun(p, id), sub).prevCommitSeq = p.prevCommitSeq
           /\ \A i, sub : SubCheckpoint([p EXCEPT !.inMemoryData.infos = i], sub).prevCommitSeq
                             = p.prevCommitSeq
           /\ NewSnapshot(p).prevCommitSeq = p.prevCommitSeq
           /\ \A t : NewPartialSnapshot(p, t).prevCommitSeq = p.prevCommitSeq
           /\ \A s : Method!StartHandle(p, s).prevCommitSeq = p.prevCommitSeq
           /\ Method!Done(p).prevCommitSeq = p.commitSeq
<1>1. DOMAIN p = {"syncState", "subSyncState", "commitSeq", "prevCommitSeq", "unknownCommitSeq",
                  "lockedCommitSeq", "tableCommitSeqMap", "prevTxnId", "partialTable", "stale",
                  "persistData", "inMemoryData"}
  BY DEF IncProgress
<1>2. RolledBack(p).prevCommitSeq = p.prevCommitSeq
  BY <1>1 DEF RolledBack, Cleared, Method!Rollback
<1>3. Committed(p).prevCommitSeq = p.commitSeq
  <2>1. PICK m : m = RaiseTableCommitSeq(p)
    OBVIOUS
  <2>2. Committed(p) = Cleared(Method!Done([p EXCEPT !.prevTxnId = p.inMemoryData.txnId,
                                                     !.tableCommitSeqMap = m]))
    BY <2>1 DEF Committed
  <2> QED
    BY <1>1, <2>2 DEF Cleared, Method!Done
<1>4. /\ \A sub : SubCheckpoint(p, sub).prevCommitSeq = p.prevCommitSeq
      /\ \A s : Method!StartHandle(p, s).prevCommitSeq = p.prevCommitSeq
      /\ Method!Done(p).prevCommitSeq = p.commitSeq
  BY <1>1 DEF SubCheckpoint, Method!NextSubCheckpoint, Method!StartHandle, Method!Done
<1>5. ASSUME NEW d, NEW sub
      PROVE  SubCheckpoint([p EXCEPT !.inMemoryData = d], sub).prevCommitSeq = p.prevCommitSeq
  BY <1>1 DEF SubCheckpoint, Method!NextSubCheckpoint
<1>6. ASSUME NEW id, NEW sub
      PROVE  SubCheckpoint(Begun(p, id), sub).prevCommitSeq = p.prevCommitSeq
  BY <1>5 DEF Begun
<1>7. ASSUME NEW i, NEW sub
      PROVE  SubCheckpoint([p EXCEPT !.inMemoryData.infos = i], sub).prevCommitSeq
                = p.prevCommitSeq
  BY <1>5
<1>8. /\ NewSnapshot(p).prevCommitSeq = p.prevCommitSeq
      /\ \A t : NewPartialSnapshot(p, t).prevCommitSeq = p.prevCommitSeq
  BY <1>1 DEF NewSnapshot, NewPartialSnapshot, StartSnapshot, Method!NextWithPersist
<1> QED
  BY <1>2, <1>3, <1>4, <1>6, <1>7, <1>8

\* Neither an error nor a rollback moves the checkpoint.
LEMMA FailsMoves ==
    ASSUME prog \in IncProgress, prog.prevCommitSeq = ckpt, NEW err,
           Fails(prog, err) \/ FailsAndRollsBack(err)
    PROVE  ckpt' = ckpt
<1>1. PICK p \in {prog, SubCheckpoint(prog, "RollbackTransaction")} : Fails(p, err)
  BY DEF FailsAndRollsBack
<1>2. p \in IncProgress /\ p.prevCommitSeq = ckpt
  <2>1. "RollbackTransaction" \in UpsertStates
    BY DEF UpsertStates
  <2> QED
    BY <1>1, <2>1, CheckpointIs
<1>3. ASSUME NEW q, q.prevCommitSeq = ckpt, Keep(q) PROVE ckpt' = ckpt
  BY <1>3 DEF Keep, progVars, Persist, Stored
<1>4. NewSnapshot(p).prevCommitSeq = ckpt
  BY <1>2, CheckpointOf
<1> QED
  BY <1>1, <1>2, <1>3, <1>4 DEF Fails

\* What moves the checkpoint, if a step does, is the end of a binlog.
LEMMA CheckpointMoves ==
    ASSUME Core,
           \/ RecoverIncrementalSync \/ EnterLoop \/ GetBinlog \/ NoMoreBinlogs \/ GetBinlogFails
           \/ EndOfBatch \/ HandleBinlog
           \/ BuildUpsert \/ SkipUpsert \/ BuildUpsertFails
           \/ BeginTxn \/ BeginTxnFails \/ BeginTxnTableNotFound
           \/ ApplyDropRollup \/ TriggerPartialSnapshot \/ Ingest \/ PrepareFails \/ IngestRuns
           \/ IngestEnds \/ CommitDone \/ RollbackTxn \/ RollbackTxnFails
           \/ HandleCommittedBinlog \/ ExecuteDropRollup \/ DropRollupNotFound
           \/ HandleBinlogFails \/ HandleAlterJob \/ StartPartialSnapshot \/ FinishBinlog
           \/ TargetAborts \/ TargetReplacesTable \/ Crash
    PROVE  log' = log /\ dest' = dest /\ ckpt' \in {ckpt, prog.commitSeq}
<1>1. prog \in IncProgress /\ prog.prevCommitSeq = ckpt
  BY DEF Core, Typed
<1> USE DEF targetVars, Unchanged
<1>2. CASE EnterLoop \/ GetBinlog \/ GetBinlogFails \/ EndOfBatch \/ SkipUpsert \/ ApplyDropRollup
           \/ IngestRuns \/ HandleBinlogFails
  BY <1>2 DEF EnterLoop, GetBinlog, GetBinlogFails, EndOfBatch, SkipUpsert, ApplyDropRollup,
              IngestRuns, HandleBinlogFails, progVars
<1>3. CASE BuildUpsert \/ Ingest \/ HandleCommittedBinlog \/ ExecuteDropRollup
           \/ DropRollupNotFound
  BY <1>3 DEF BuildUpsert, Ingest, HandleCommittedBinlog, ExecuteDropRollup,
              DropRollupNotFound, Volatile
<1>4. CASE TargetAborts \/ TargetReplacesTable \/ Crash
  BY <1>4 DEF TargetAborts, TargetReplacesTable, Crash, progVars
<1>5. CASE BuildUpsertFails \/ BeginTxnFails \/ RollbackTxnFails \/ PrepareFails
  BY <1>1, <1>5, FailsMoves DEF BuildUpsertFails, BeginTxnFails, RollbackTxnFails, PrepareFails
<1>6. CASE RecoverIncrementalSync \/ BeginTxnTableNotFound
  BY <1>1, <1>6, CheckpointOf
     DEF RecoverIncrementalSync, BeginTxnTableNotFound, Volatile, Persist, Stored
<1>7. CASE NoMoreBinlogs
  <2>1. NoPrevTxn.prevCommitSeq = ckpt
    BY <1>1, NoPrevIs DEF NoPrevTxn
  <2> QED
    BY <1>7, <2>1 DEF NoMoreBinlogs, Persist, Stored, progVars
<1>8. CASE HandleBinlog
  <2>1. PICK s : s = batch.pos + 1
    OBVIOUS
  <2>2. Persist(Method!StartHandle(prog, s)) /\ log' = log /\ dest' = dest
    BY <1>8, <2>1 DEF HandleBinlog
  <2> QED
    BY <1>1, <2>2, CheckpointOf DEF Persist, Stored
<1>9. CASE BeginTxn
  <2>1. /\ Persist(SubCheckpoint(Begun(prog, Len(txns) + 1), "IngestBinlog"))
        /\ log' = log /\ dest' = dest
    BY <1>9 DEF BeginTxn
  <2> QED
    BY <1>1, <2>1, CheckpointOf DEF Persist, Stored
<1>10. CASE TriggerPartialSnapshot
  BY <1>1, <1>10, CheckpointOf DEF TriggerPartialSnapshot, Persist, Stored
<1>11. CASE IngestEnds
  <2>1. log' = log /\ dest' = dest
    BY <1>11 DEF IngestEnds
  <2>2. CASE FailsAndRollsBack(jobErr)
    BY <1>1, <2>1, <2>2, FailsMoves
  <2>3. CASE Persist(SubCheckpoint([prog EXCEPT !.inMemoryData.infos = infos], "CommitTransaction"))
    BY <1>1, <2>1, <2>3, CheckpointOf DEF Persist, Stored
  <2> QED
    BY <1>11, <2>2, <2>3 DEF IngestEnds
<1>12. CASE CommitDone \/ RollbackTxn
  <2>1. /\ Returns(Committed(prog)) \/ Returns(RolledBack(prog))
        /\ log' = log /\ dest' = dest
    BY <1>12 DEF CommitDone, RollbackTxn
  <2> QED
    BY <1>1, <2>1, CheckpointOf DEF Returns, Persist, Stored
<1>13. CASE HandleAlterJob
  <2>1. PICK p : p = NoPrevTxn
    OBVIOUS
  <2>2. p \in IncProgress /\ p.prevCommitSeq = ckpt
    BY <1>1, <2>1, NoPrevIs DEF NoPrevTxn
  <2>3. /\ log' = log /\ dest' = dest
        /\ Volatile(p) \/ Persist(NewPartialSnapshot(p, AlteredTable))
    BY <1>13, <2>1 DEF HandleAlterJob
  <2> QED
    BY <2>2, <2>3, CheckpointOf DEF Volatile, Persist, Stored
<1>14. CASE StartPartialSnapshot
  BY <1>1, <1>14, CheckpointOf DEF StartPartialSnapshot, Persist, Stored
<1>15. CASE FinishBinlog
  <2>1. PICK a : a = AfterHandleBinlog(prog, Binlog)
    OBVIOUS
  <2>2. /\ log' = log /\ dest' = dest
        /\ IF Method!IsDone(a) THEN UNCHANGED <<disk, ckpt>> ELSE Stored(Method!Done(a))
    BY <1>15, <2>1 DEF FinishBinlog
  <2>3. a \in IncProgress /\ a.commitSeq = prog.commitSeq
    BY <1>1, <2>1, AfterIs
  <2> QED
    BY <2>2, <2>3, CheckpointOf DEF Stored
<1> QED
  BY <1>2, <1>3, <1>4, <1>5, <1>6, <1>7, <1>8, <1>9, <1>10, <1>11, <1>12, <1>13, <1>14, <1>15

\* Such a step stores a checkpoint or none.
LEMMA QuietReplay ==
    ASSUME IncInv, IncInv', log' = log, dest' = dest, ckpt' \in {ckpt, prog.commitSeq}
    PROVE  [Next]_vars
<1>1. CASE ckpt' = ckpt
  BY <1>1 DEF vars
<1>2. CASE ckpt' # ckpt
  <2>1. /\ prog \in IncProgress /\ Fit(prog) /\ prog.prevCommitSeq = ckpt /\ Typed /\ TargetInv
    BY DEF IncInv, Core, Typed, ProgressOK
  <2>2. PICK c : c = ckpt'
    OBVIOUS
  <2>3. c \in Nat /\ ckpt \in Nat /\ ckpt < c
    BY <1>2, <2>1, <2>2, ProgressNumbers, Numbers DEF Fit
  <2>4. c <= Seen /\ Seen <= Len(log) /\ Len(log) \in Nat /\ Seen \in Nat
    BY <1>2, <2>1, <2>2, Numbers DEF Fit, Seen, TargetInv
  <2>5. \A t \in Tables : \A s \in 1..c : t \in log[s].tables => Covered(t, s)
    <3>1. Passed(c)'
      BY <2>2 DEF IncInv, Core, TargetInv, Passed
    <3> QED
      BY <3>1 DEF Passed, HandledFor, Covered
  <2>6. Checkpoint
    BY <2>2, <2>3, <2>4, <2>5 DEF Checkpoint
  <2> QED
    BY <2>6 DEF Next
<1> QED
  BY <1>1, <1>2

\* A commit replays the binlog of the txn.
LEMMA CommitReplays ==
    ASSUME IncInv, Commits, ckpt' = ckpt
    PROVE  Replay \/ (retried /\ ReplayBehind)
<1>1. PICK d : d = Data
  OBVIOUS
<1>2. /\ Core /\ TxnOK(prog, d) /\ d.tables \subseteq Tables /\ d.seq \in 1..Seen /\ d.seq \in Nat
      /\ d = Current(prog)
  BY <1>1, CommitFacts
<1>3. /\ d.tables \subseteq log[d.seq].tables
      /\ Passed(d.seq - 1) /\ (~retried => prog.prevCommitSeq < d.seq)
  BY <1>2 DEF TxnOK
<1>4. /\ Seen <= Len(log) /\ Len(log) \in Nat /\ ckpt \in Nat /\ Seen \in Nat
      /\ prog.prevCommitSeq = ckpt
  BY <1>2, Numbers DEF Core, Typed, Seen, TargetInv
<1>5. /\ dest' = [t \in Tables |->
            IF t \in d.tables THEN [dest[t] EXCEPT !.applied = Append(@, d.seq)] ELSE dest[t]]
      /\ UNCHANGED <<log, ckpt>>
  BY <1>1, CommitFacts DEF Commits
<1>6. CASE ckpt < d.seq
  <2>1. d.seq \in ckpt + 1..Len(log)
    BY <1>2, <1>4, <1>6
  <2>2. ASSUME NEW t \in d.tables, NEW r \in SeqsOf(t), r < d.seq PROVE Covered(t, r)
    <3>1. r \in 1..(d.seq - 1) /\ t \in log[r].tables /\ t \in Tables
      BY <1>2, <1>4, <2>2 DEF SeqsOf
    <3> QED
      BY <1>3, <3>1 DEF Passed, HandledFor
  <2>3. Replay
    BY <1>3, <1>5, <2>1, <2>2 DEF Replay
  <2> QED
    BY <2>3
<1>7. CASE ~(ckpt < d.seq)
  <2>1. d.seq \in 1..ckpt /\ retried
    BY <1>2, <1>3, <1>4, <1>7
  <2>2. ReplayBehind
    BY <1>3, <1>5, <2>1 DEF ReplayBehind, Apply
  <2> QED
    BY <2>1, <2>2
<1> QED
  BY <1>6, <1>7

\* A commit that is answered.
LEMMA CommitTxnReplays ==
    ASSUME IncInv, CommitTxn
    PROVE  [Next \/ (retried /\ ReplayBehind)]_vars
<1>1. /\ pc = "upsert" /\ prog.subSyncState = "CommitTransaction"
      /\ UNCHANGED <<log, rollups, progVars, locked, batch, extra, retried, ingestVars>>
  BY DEF CommitTxn, AtUpsert
<1>2. ckpt' = ckpt
  BY <1>1 DEF progVars
<1>3. CASE Txn.status = "PREPARE" /\ Resolve("COMMITTED") /\ Apply(Data.seq, Data.tables)
  BY <1>1, <1>2, <1>3, CommitReplays DEF Commits, Next
<1>4. CASE Txn.status = "COMMITTED" /\ UNCHANGED <<txns, dest>>
  BY <1>1, <1>2, <1>4 DEF vars
<1> QED
  BY <1>3, <1>4 DEF CommitTxn

\* A commit that fails, having taken effect or not.
LEMMA CommitTxnFailsReplays ==
    ASSUME IncInv, CommitTxnFails
    PROVE  [Next \/ (retried /\ ReplayBehind)]_vars
<1>1. /\ pc = "upsert" /\ prog.subSyncState = "CommitTransaction"
      /\ UNCHANGED <<log, rollups, locked, batch, extra, ingestVars>>
      /\ prog \in IncProgress /\ prog.prevCommitSeq = ckpt
  BY DEF CommitTxnFails, AtUpsert, IncInv, Core, Typed
<1>2. PICK err : FailsAndRollsBack(err)
  BY DEF CommitTxnFails
<1>3. ckpt' = ckpt
  BY <1>1, <1>2, FailsMoves
<1>4. retried' = retried
  BY <1>2 DEF FailsAndRollsBack, Fails
<1>5. CASE Txn.status = "PREPARE" /\ Resolve("COMMITTED") /\ Apply(Data.seq, Data.tables)
  BY <1>1, <1>3, <1>4, <1>5, CommitReplays DEF Commits, Next
<1>6. CASE dest' = dest
  BY <1>1, <1>3, <1>6 DEF vars
<1> QED
  BY <1>5, <1>6 DEF CommitTxnFails

\* A snapshot restores its tables.
LEMMA SnapshotEndsRestores ==
    ASSUME IncInv, SnapshotEnds
    PROVE  Restore
<1>1. PICK seqs \in [Tables -> Seqs] : \E ts \in SUBSET Tables : \E c \in Nat :
          \E p \in IncProgress :
              /\ Restores(seqs, ts, c) /\ ckpt <= c /\ c <= Len(log)
              /\ Persist(p) /\ p.prevCommitSeq = c
  BY DEF SnapshotEnds
<1>2. PICK ts \in SUBSET Tables : \E c \in Nat : \E p \in IncProgress :
          /\ Restores(seqs, ts, c) /\ ckpt <= c /\ c <= Len(log)
          /\ Persist(p) /\ p.prevCommitSeq = c
  BY <1>1
<1>3. PICK c \in Nat : Restores(seqs, ts, c) /\ ckpt <= c /\ c <= Len(log) /\ ckpt' = c
  BY <1>2 DEF Persist, Stored
<1>4. /\ Core /\ TargetInv /\ Seen = asked /\ asked \in Nat /\ Len(log) \in Nat /\ ckpt \in Nat
      /\ \A t \in Tables : dest[t] \in [base : Seqs, applied : Seq(Seqs)]
  BY <1>3, Numbers DEF IncInv, Core, Restores, Seen, Typed, PlainTypes
<1>5. c \in ckpt..Len(log)
  BY <1>3, <1>4
<1>6. PICK base : base = [t \in ts |-> seqs[t]]
  OBVIOUS
<1>7. \A t \in ts : /\ base[t] = seqs[t] /\ seqs[t] \in Nat /\ asked <= seqs[t]
                    /\ seqs[t] <= Len(log) /\ c <= seqs[t]
  BY <1>3, <1>6 DEF Restores
<1>8. base \in [ts -> 0..Len(log)]
  BY <1>4, <1>6, <1>7
<1>9. ASSUME NEW t \in ts
      PROVE  /\ dest[t].base <= base[t]
             /\ \A i \in DOMAIN dest[t].applied : dest[t].applied[i] <= base[t]
  <2>1. t \in Tables /\ base[t] \in Nat /\ Seen <= base[t]
    BY <1>4, <1>7
  <2>2. dest[t].base \in Nat
    BY <1>4, <2>1 DEF Seqs
  <2>3. dest[t].base <= Seen /\ \A i \in DOMAIN dest[t].applied : dest[t].applied[i] \in 1..Seen
    BY <1>4, <2>1 DEF TargetInv
  <2> QED
    BY <1>4, <2>1, <2>2, <2>3
<1>10. dest' = [t \in Tables |->
                   IF t \in ts THEN [base |-> base[t], applied |-> <<>>] ELSE dest[t]]
  <2>1. dest' = [t \in Tables |->
                    IF t \in ts THEN [base |-> seqs[t], applied |-> <<>>] ELSE dest[t]]
    BY <1>3 DEF Restores, Restored
  <2> QED
    BY <1>7, <2>1
<1>11. ASSUME NEW t \in ts PROVE c <= dest'[t].base
  <2>1. dest'[t].base = seqs[t]
    BY <1>3, <1>4, RestoredBase
  <2> QED
    BY <1>7, <2>1
<1>12. \A t \in Tables \ ts : \A s \in 1..c : t \in log[s].tables => Covered(t, s)
  BY <1>3 DEF Restores, HandledFor
<1>13. log' = log
  BY <1>3 DEF Restores
<1> QED
  BY <1>3, <1>5, <1>8, <1>9, <1>10, <1>11, <1>12, <1>13 DEF Restore

\* Every step of incremental sync is a step of the replay, or none.
LEMMA ReplayStep ==
    ASSUME IncInv, WindowInv, [IncNext]_incVars
    PROVE  [Next \/ (retried /\ ReplayBehind)]_vars
<1>1. IncInv' /\ Core
  BY IncInvStep DEF IncInv
<1>2. CASE CommitTxn \/ CommitTxnFails
  BY <1>2, CommitTxnReplays, CommitTxnFailsReplays
<1>3. CASE FinishFullSync \/ FinishPartialSync
  BY <1>3, FullSyncEnds, PartialSyncEnds, SnapshotEndsRestores DEF Next
<1>4. CASE SourceWrites
  BY <1>4 DEF SourceWrites, Unchanged, targetVars, progVars, Write, Next
<1>5. CASE UNCHANGED incVars
  BY <1>5 DEF incVars, vars
<1>6. CASE \/ RecoverIncrementalSync \/ EnterLoop \/ GetBinlog \/ NoMoreBinlogs \/ GetBinlogFails
           \/ EndOfBatch \/ HandleBinlog
           \/ BuildUpsert \/ SkipUpsert \/ BuildUpsertFails
           \/ BeginTxn \/ BeginTxnFails \/ BeginTxnTableNotFound
           \/ ApplyDropRollup \/ TriggerPartialSnapshot \/ Ingest \/ PrepareFails \/ IngestRuns
           \/ IngestEnds \/ CommitDone \/ RollbackTxn \/ RollbackTxnFails
           \/ HandleCommittedBinlog \/ ExecuteDropRollup \/ DropRollupNotFound
           \/ HandleBinlogFails \/ HandleAlterJob \/ StartPartialSnapshot \/ FinishBinlog
           \/ TargetAborts \/ TargetReplacesTable \/ Crash
  BY <1>1, <1>6, CheckpointMoves, QuietReplay
<1> QED
  BY <1>2, <1>3, <1>4, <1>5, <1>6
     DEF IncNext, JobAction, IngestAction, Environment, JobStep, UpsertStep

\* The initial states are initial states of the replay.
LEMMA InitIsReplayInit == IncInit => Init
<1> SUFFICES ASSUME IncInit PROVE Init
  OBVIOUS
<1>1. PICK n : n = Len(log)
  OBVIOUS
<1>2. PICK seqs \in [Tables -> 1..n] :
         /\ dest = [t \in Tables |-> [base |-> seqs[t], applied |-> <<>>]]
         /\ prog = InitialProgress(seqs) /\ ckpt = prog.prevCommitSeq
  BY <1>1 DEF IncInit
<1>3. log \in Seq(Binlogs) /\ n <= MaxSeq /\ n \in Nat
  BY <1>1, BinlogAssumption DEF IncInit
<1>4. PICK p : p = prog
  OBVIOUS
<1>5. /\ ckpt \in Nat /\ ckpt <= n
      /\ \A t \in Tables : seqs[t] \in Nat /\ ckpt <= seqs[t] /\ seqs[t] <= n
  BY <1>2, <1>3, <1>4, InitialIs
<1>6. dest \in [Tables -> [base : 0..Len(log), applied : {<<>>}]]
  BY <1>1, <1>2, <1>3, <1>5
<1>7. \A t \in Tables : ckpt <= dest[t].base
  BY <1>2, <1>5
<1> QED
  BY <1>1, <1>3, <1>5, <1>6, <1>7 DEF Init

\* Incremental sync without the pipeline implements the replay of the log: a binlog reaches
\* a table only after the earlier binlogs of that table, and the checkpoint moves only over what
\* the target has.  Excepted are the binlogs behind the checkpoint that the retry of
\* handleUpsertWithRetry replays.
THEOREM ImplementsReplay == IncSpec => RefinesReplay
<1>1. IncInit => Init
  BY InitIsReplayInit
<1>2. IncInv /\ WindowInv /\ [IncNext]_incVars => [Next \/ (retried /\ ReplayBehind)]_vars
  BY ReplayStep
<1>3. IncSpec => []WindowInv
  BY ImplementsIngest, WindowsHold, PTL
<1> QED
  BY <1>1, <1>2, <1>3, IncInvHolds, PTL DEF IncSpec, RefinesReplay
=============================================================================
