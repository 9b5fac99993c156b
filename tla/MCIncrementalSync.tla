------------------------- MODULE MCIncrementalSync -------------------------
(***************************************************************************)
(* An instance of IncrementalSync for TLC: two tables with a tablet each.  *)
(* A replica of each is on the backend N1, which has room for one call, a  *)
(* second one of A is on N2.                                               *)
(***************************************************************************)
EXTENDS IncrementalSync

CONSTANTS A, B, T1, T2, N1, N2

ThreeReplicas == {[tablet |-> T1, table |-> A, backend |-> N1],
                  [tablet |-> T1, table |-> A, backend |-> N2],
                  [tablet |-> T2, table |-> B, backend |-> N1]}

\* Each target id is the other source id.
SwappedIds == [t \in {A, B} |-> IF t = A THEN B ELSE A]

Upsert(ts) == [kind |-> "UPSERT", tables |-> ts, rollup |-> Nil]
DropRollup(t) == [kind |-> "DROP_ROLLUP", tables |-> {}, rollup |-> t]
AlterJob(t) == [kind |-> "ALTER_JOB", tables |-> {t}, rollup |-> Nil]

SomeBinlogs == {Upsert({A, B}), DropRollup(A), AlterJob(B)}
OneUpsert == {<<Upsert({A, B})>>}

AllFaults == {"rpc", "lostReply", "meta", "abort", "publishTimeout", "tableGone", "crash"}
=============================================================================
