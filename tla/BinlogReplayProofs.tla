------------------------- MODULE BinlogReplayProofs -------------------------
(***************************************************************************)
(* BinlogReplay keeps its promises for every set of tables and binlogs,    *)
(* and for logs of any length.                                             *)
(***************************************************************************)
EXTENDS BinlogReplay, TLAPS

(* The invariant is the conjunction of the three; NoGap needs the bound TypeOK gives to what
   was applied (a binlog written later is after it), NoLoss stands by itself. *)
Inv == TypeOK /\ NoLoss /\ NoGap

(* The log only grows, and does not change what is in it. *)
LEMMA WriteKeepsLog ==
    ASSUME TypeOK, NEW b \in Binlogs, log' = Append(log, b)
    PROVE  /\ Len(log') = Len(log) + 1
           /\ \A s \in 1..Len(log) : log'[s] = log[s]
           /\ log' \in Seq(Binlogs)
  BY DEF TypeOK

(* The fields of a table after each kind of step. *)
LEMMA DestType ==
    ASSUME TypeOK, NEW t \in Tables
    PROVE  /\ dest[t].base \in Nat
           /\ dest[t].applied \in Seq(1..Len(log))
           /\ \A i \in DOMAIN dest[t].applied : dest[t].applied[i] \in 1..Len(log)
           /\ DOMAIN dest[t].applied = 1..Len(dest[t].applied)
           /\ Len(dest[t].applied) \in Nat
  BY DEF TypeOK

LEMMA InitInv == Init => Inv
<1> SUFFICES ASSUME Init PROVE Inv
  OBVIOUS
<1>1. \A t \in Tables : dest[t].base \in 0..Len(log) /\ dest[t].applied = <<>>
  BY DEF Init
<1>2. TypeOK
  <2>1. Len(log) \in Nat
    BY DEF Init
  <2>2. dest \in [Tables -> [base : Nat, applied : Seq(1..Len(log))]]
    <3>1. \A t \in Tables : dest[t] \in [base : 0..Len(log), applied : {<<>>}]
      BY DEF Init
    <3>2. <<>> \in Seq(1..Len(log))
      OBVIOUS
    <3>3. ASSUME NEW t \in Tables
          PROVE  dest[t] \in [base : Nat, applied : Seq(1..Len(log))]
      <4>1. dest[t] = [base |-> dest[t].base, applied |-> dest[t].applied]
        BY <3>1
      <4>2. dest[t].base \in Nat /\ dest[t].applied = <<>>
        BY <2>1, <3>1
      <4> QED BY <3>2, <4>1, <4>2
    <3> QED BY <3>3 DEF Init
  <2> QED BY <2>2 DEF Init, TypeOK
<1>3. NoLoss
  BY <1>1, <1>2 DEF Init, NoLoss, Covered, TypeOK
<1>4. NoGap
  BY <1>1 DEF NoGap
<1> QED BY <1>2, <1>3, <1>4 DEF Inv

LEMMA WriteStep == Inv /\ Write => Inv'
<1> SUFFICES ASSUME Inv, NEW b \in Binlogs, log' = Append(log, b), UNCHANGED <<dest, ckpt>>
             PROVE  Inv'
  BY DEF Write
<1>1. /\ Len(log') = Len(log) + 1
      /\ \A s \in 1..Len(log) : log'[s] = log[s]
      /\ log' \in Seq(Binlogs) /\ Len(log) \in Nat
  BY WriteKeepsLog DEF Inv, TypeOK
<1>2. TypeOK'
  <2>1. [base : Nat, applied : Seq(1..Len(log))] \subseteq [base : Nat, applied : Seq(1..Len(log'))]
    BY <1>1
  <2>2. dest' \in [Tables -> [base : Nat, applied : Seq(1..Len(log'))]]
    BY <2>1 DEF Inv, TypeOK
  <2>3. ckpt' \in 0..Len(log')
    BY <1>1 DEF Inv, TypeOK
  <2> QED BY <1>1, <2>2, <2>3 DEF TypeOK
<1>3. NoLoss'
  BY <1>1 DEF Inv, TypeOK, NoLoss, Covered
<1>4. NoGap'
  <2> SUFFICES ASSUME NEW t \in Tables, NEW i \in DOMAIN dest[t].applied, NEW s \in SeqsOf(t)',
                      dest[t].base < s, s < dest[t].applied[i]
               PROVE  \E k \in 1..i - 1 : dest[t].applied[k] = s
    BY DEF NoGap
  <2>1. dest[t].applied[i] \in 1..Len(log)
    BY DestType DEF Inv
  <2>2. s \in 1..Len(log) /\ s \in SeqsOf(t)
    BY <1>1, <2>1 DEF SeqsOf
  <2> QED BY <2>2 DEF Inv, NoGap
<1> QED BY <1>2, <1>3, <1>4 DEF Inv

LEMMA ReplayStep == Inv /\ Replay => Inv'
<1> SUFFICES ASSUME Inv,
                    NEW s \in ckpt + 1..Len(log), NEW ts \in SUBSET log[s].tables,
                    \A t \in ts : \A r \in SeqsOf(t) : r < s => Covered(t, r),
                    dest' = [t \in Tables |->
                        IF t \in ts THEN [dest[t] EXCEPT !.applied = Append(@, s)] ELSE dest[t]],
                    UNCHANGED <<log, ckpt>>
             PROVE  Inv'
  BY DEF Replay
<1>1. s \in 1..Len(log) /\ Len(log) \in Nat
  BY DEF Inv, TypeOK
<1>2. \A t \in Tables :
        /\ dest'[t].base = dest[t].base
        /\ t \in ts => dest'[t].applied = Append(dest[t].applied, s)
        /\ t \notin ts => dest'[t].applied = dest[t].applied
  BY DEF Inv, TypeOK
<1>3. TypeOK'
  <2>1. \A t \in Tables : dest'[t] \in [base : Nat, applied : Seq(1..Len(log))]
    <3> SUFFICES ASSUME NEW t \in Tables
                 PROVE  dest'[t] \in [base : Nat, applied : Seq(1..Len(log))]
      OBVIOUS
    <3>1. dest[t] \in [base : Nat, applied : Seq(1..Len(log))]
      BY DEF Inv, TypeOK
    <3>2. Append(dest[t].applied, s) \in Seq(1..Len(log))
      BY <1>1, DestType DEF Inv
    <3>3. dest'[t] = [dest[t] EXCEPT !.applied = Append(@, s)] \/ dest'[t] = dest[t]
      OBVIOUS
    <3> QED BY <3>1, <3>2, <3>3
  <2>2. dest' \in [Tables -> [base : Nat, applied : Seq(1..Len(log))]]
    BY <2>1
  <2> QED BY <2>2 DEF Inv, TypeOK
<1>4. \A t \in Tables : \A r \in 1..Len(log) : Covered(t, r) => Covered(t, r)'
  <2> SUFFICES ASSUME NEW t \in Tables, NEW r \in 1..Len(log),
                      NEW i \in DOMAIN dest[t].applied, dest[t].applied[i] = r
               PROVE  \E k \in DOMAIN dest'[t].applied : dest'[t].applied[k] = r
    BY <1>2 DEF Covered
  <2>1. i \in DOMAIN dest'[t].applied /\ dest'[t].applied[i] = r
    BY <1>2, DestType DEF Inv
  <2> QED BY <2>1
<1>5. NoLoss'
  BY <1>4 DEF Inv, TypeOK, NoLoss
<1>6. NoGap'
  <2> SUFFICES ASSUME NEW t \in Tables, NEW i \in DOMAIN dest'[t].applied, NEW r \in SeqsOf(t),
                      dest[t].base < r, r < dest'[t].applied[i]
               PROVE  \E k \in 1..i - 1 : dest'[t].applied[k] = r
    BY <1>2 DEF NoGap, SeqsOf
  <2>1. CASE t \notin ts
    BY <2>1, <1>2 DEF Inv, NoGap
  <2>2. CASE t \in ts
    <3> DEFINE a == dest[t].applied
    <3>1. /\ a \in Seq(1..Len(log)) /\ Len(a) \in Nat /\ DOMAIN a = 1..Len(a)
          /\ dest'[t].applied = Append(a, s)
      BY <2>2, <1>2, DestType DEF Inv
    <3> HIDE DEF a
    <3>2. i \in 1..Len(a) + 1 /\ (i = Len(a) + 1 => dest'[t].applied[i] = s)
          /\ \A k \in 1..Len(a) : dest'[t].applied[k] = a[k]
      BY <3>1
    <3>3. CASE i \in 1..Len(a)
      <4>1. PICK k \in 1..i - 1 : a[k] = r
        BY <3>1, <3>2, <3>3 DEF Inv, NoGap, a
      <4> QED BY <3>2, <3>3, <4>1
    <3>4. CASE i = Len(a) + 1
      <4>1. Covered(t, r)
        BY <3>2, <3>4, <2>2
      <4>2. PICK k \in DOMAIN a : a[k] = r
        BY <4>1, DestType DEF Covered, Inv, SeqsOf, a
      <4>3. k \in 1..Len(a) /\ i - 1 = Len(a)
        BY <3>1, <3>4, <4>2
      <4>4. dest'[t].applied[k] = r
        BY <3>2, <4>2, <4>3
      <4> QED BY <4>3, <4>4
    <3> QED BY <3>2, <3>3, <3>4
  <2> QED BY <2>1, <2>2
<1> QED BY <1>3, <1>5, <1>6 DEF Inv

LEMMA CheckpointStep == Inv /\ Checkpoint => Inv'
<1> SUFFICES ASSUME Inv, NEW c \in ckpt + 1..Len(log),
                    \A t \in Tables : \A s \in 1..c : t \in log[s].tables => Covered(t, s),
                    ckpt' = c, UNCHANGED <<log, dest>>
             PROVE  Inv'
  BY DEF Checkpoint
<1>1. TypeOK'
  BY DEF Inv, TypeOK
<1>2. NoLoss'
  BY DEF NoLoss, Covered
<1>3. NoGap'
  BY DEF Inv, NoGap, SeqsOf
<1> QED BY <1>1, <1>2, <1>3 DEF Inv

LEMMA RestoreStep == Inv /\ Restore => Inv'
<1> SUFFICES ASSUME Inv,
                    NEW ts \in SUBSET Tables, NEW c \in ckpt..Len(log),
                    NEW base \in [ts -> 0..Len(log)],
                    dest' = [t \in Tables |->
                        IF t \in ts THEN [base |-> base[t], applied |-> <<>>] ELSE dest[t]],
                    \A t \in ts : c <= dest'[t].base,
                    \A t \in Tables \ ts : \A s \in 1..c : t \in log[s].tables => Covered(t, s),
                    ckpt' = c, UNCHANGED log
             PROVE  Inv'
  BY DEF Restore
<1>1. \A t \in Tables :
        /\ t \in ts => dest'[t].base = base[t] /\ dest'[t].applied = <<>>
        /\ t \notin ts => dest'[t] = dest[t]
  OBVIOUS
<1>2. TypeOK'
  <2>1. Len(log) \in Nat
    BY DEF Inv, TypeOK
  <2>2. \A t \in Tables : dest'[t] \in [base : Nat, applied : Seq(1..Len(log))]
    BY <2>1 DEF Inv, TypeOK
  <2>3. dest' \in [Tables -> [base : Nat, applied : Seq(1..Len(log))]]
    BY <2>2
  <2> QED BY <2>1, <2>3 DEF Inv, TypeOK
<1>3. NoLoss'
  <2> SUFFICES ASSUME NEW s \in 1..c, NEW t \in Tables, t \in log[s].tables
               PROVE  Covered(t, s)'
    BY DEF NoLoss
  <2>1. CASE t \in ts
    <3>0. ckpt \in Int /\ Len(log) \in Nat
      BY DEF Inv, TypeOK
    <3>1. c <= dest'[t].base
      BY <2>1
    <3>2. c \in Int
      BY <3>0
    <3>3. base[t] \in 0..Len(log)
      BY <2>1
    <3>4. dest'[t].base = base[t]
      BY <1>1, <2>1
    <3>5. s <= dest'[t].base
      BY <3>0, <3>1, <3>2, <3>3, <3>4
    <3> QED BY <3>5 DEF Covered
  <2>2. CASE t \notin ts
    BY <2>2, <1>1 DEF Covered
  <2> QED BY <2>1, <2>2
<1>4. NoGap'
  BY <1>1 DEF Inv, NoGap, SeqsOf
<1> QED BY <1>2, <1>3, <1>4 DEF Inv

LEMMA NextInv == Inv /\ [Next]_vars => Inv'
<1> SUFFICES ASSUME Inv, [Next]_vars PROVE Inv'
  OBVIOUS
<1>1. CASE Write
  BY <1>1, WriteStep
<1>2. CASE Replay
  BY <1>2, ReplayStep
<1>3. CASE Checkpoint
  BY <1>3, CheckpointStep
<1>4. CASE Restore
  BY <1>4, RestoreStep
<1>5. CASE UNCHANGED vars
  <2>1. log' = log /\ dest' = dest /\ ckpt' = ckpt
    BY <1>5 DEF vars
  <2>2. TypeOK'
    BY <2>1 DEF Inv, TypeOK
  <2>3. NoLoss'
    BY <2>1 DEF Inv, NoLoss, Covered
  <2>4. NoGap'
    BY <2>1 DEF Inv, NoGap, SeqsOf
  <2> QED BY <2>2, <2>3, <2>4 DEF Inv
<1> QED BY <1>1, <1>2, <1>3, <1>4, <1>5 DEF Next

(* Whatever the checkpoint has passed is at the target: a restart that asks the source for the
   binlogs after PrevCommitSeq loses nothing. *)
THEOREM ReplayNoLoss == Spec => []NoLoss
<1>1. Inv => NoLoss
  BY DEF Inv
<1> QED BY InitInv, NextInv, <1>1, PTL DEF Spec

(* A binlog reaches a table only after every earlier binlog of that table. *)
THEOREM ReplayNoGap == Spec => []NoGap
<1>1. Inv => NoGap
  BY DEF Inv
<1> QED BY InitInv, NextInv, <1>1, PTL DEF Spec

(* The log, the tables and the checkpoint keep their types. *)
THEOREM ReplayTypeOK == Spec => []TypeOK
<1>1. Inv => TypeOK
  BY DEF Inv
<1> QED BY InitInv, NextInv, <1>1, PTL DEF Spec

(* The checkpoint and the restored prefix of a table never move back. *)
THEOREM ReplayForward == Spec => Forward
<1>1. Inv /\ [Next]_vars => [/\ ckpt <= ckpt'
                             /\ \A t \in Tables : dest[t].base <= dest'[t].base]_vars
  <2> SUFFICES ASSUME Inv, Next
               PROVE  /\ ckpt <= ckpt'
                      /\ \A t \in Tables : dest[t].base <= dest'[t].base
    OBVIOUS
  <2>0. /\ ckpt \in Int /\ Len(log) \in Nat
        /\ \A t \in Tables : dest[t].base \in Nat
    BY DEF Inv, TypeOK
  <2>1. CASE Write
    BY <2>0, <2>1 DEF Write
  <2>2. CASE Replay
    BY <2>0, <2>2 DEF Replay, Inv, TypeOK
  <2>3. CASE Checkpoint
    BY <2>0, <2>3 DEF Checkpoint
  <2>4. CASE Restore
    BY <2>0, <2>4 DEF Restore
  <2> QED BY <2>1, <2>2, <2>3, <2>4 DEF Next
<1> QED BY InitInv, NextInv, <1>1, PTL DEF Spec, Forward
=============================================================================
