---------------------------- MODULE MCJobManager ----------------------------
(***************************************************************************)
(* Instances of JobManager for TLC.                                        *)
(***************************************************************************)
EXTENDS JobManager

CONSTANTS N1, N2, C1, C2

ManagerFaults == {"crash", "dead", "db"}
NoFaults == {}
=============================================================================
