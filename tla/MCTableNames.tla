---------------------------- MODULE MCTableNames ----------------------------
(***************************************************************************)
(* An instance of TableNames for TLC: three tables compete for two names,  *)
(* two of them exist when the job starts.                                  *)
(***************************************************************************)
EXTENDS TableNames

CONSTANTS X, Y

TwoTables == [s \in SourceTables |-> IF s = 1 THEN X ELSE IF s = 2 THEN Y ELSE Nil]

AllKinds == {"UPSERT", "CREATE_TABLE", "DROP_TABLE", "RENAME_TABLE", "REPLACE_TABLE",
             "RECOVER_INFO", "ALTER_JOB"}

AllFaults == {"rpc", "lostReply", "crash", "fullsync"}
=============================================================================
