--------------------------- MODULE MCSnapshotSync ---------------------------
(***************************************************************************)
(* Instances of SnapshotSync for TLC: one job under every fault, and jobs  *)
(* that compete for one permit.                                            *)
(***************************************************************************)
EXTENDS SnapshotSync

CONSTANTS J1, J2, A, B

JobFaults == {"crash", "rpc", "lostReply", "meta", "cancel", "expire", "schema", "fullsync",
              "partialsync", "drop"}
LimiterFaults == {"crash", "rpc", "lostReply", "cancel", "expire", "schema", "pause",
                  "fullsync", "partialsync"}
=============================================================================
