----------------------------- MODULE MCPipeline -----------------------------
(***************************************************************************)
(* Instances of Pipeline for TLC: the binlogs the source may write, the    *)
(* logs found at the start and the faults of each run.                     *)
(***************************************************************************)
EXTENDS Pipeline

CONSTANTS A, B

Upsert(ts) == [kind |-> "UPSERT", tables |-> ts]
DDL(k, t) == [kind |-> k, tables |-> {t}]
Dummy == [kind |-> "DUMMY", tables |-> {}]

\* The ids of the two clusters collide in the worst way: each target id is the other source id.
SwappedIds == [t \in {A, B} |-> IF t = A THEN B ELSE A]

OneUpsert == {<<Upsert({A, B})>>}
\* The snapshots of the first full sync may have been taken before or after the upsert of A.
TwoUpserts == {<<Upsert({A, B}), Upsert({A})>>}

FirstLogs == OneUpsert \cup TwoUpserts

SnapshotBinlogs == {Upsert({A, B}), DDL("TRUNCATE_TABLE", A), DDL("ALTER_JOB", B), Dummy}
FewBinlogs == {Upsert({A, B}), DDL("RENAME_COLUMN", A)}
Upserts == {Upsert({A, B})}

Crashes == {"crash", "rpc", "lostReply", "abort"}
SnapshotFaults == {"crash", "rpc", "meta", "ddlMeta", "tableGone", "interrupt", "silence"}
LiveFaults == {"crash", "rpc", "lostReply", "abort", "interrupt",
               "fullsync", "partialsync"}
LostReply == {"lostReply"}
=============================================================================
