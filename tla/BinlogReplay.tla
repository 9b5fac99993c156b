---------------------------- MODULE BinlogReplay ----------------------------
(***************************************************************************)
(* What the replication of a database promises, without its machinery.     *)
(*                                                                         *)
(* The source writes a log of binlogs.  The target restores a table from a *)
(* snapshot, or replays on some tables a binlog that the checkpoint has    *)
(* not reached, after every earlier binlog of those tables.  A binlog may  *)
(* be replayed again until the checkpoint is past it.  The checkpoint (the *)
(* stored PrevCommitSeq, where a restart resumes) only moves forward, and  *)
(* only over binlogs the target has.                                       *)
(***************************************************************************)
EXTENDS Integers, Sequences

CONSTANTS Tables,   \* the source tables
          Binlogs   \* a binlog b changes the tables b.tables

VARIABLES log,      \* the binlogs written; the commit seq of a binlog is its index
          dest,     \* table -> the seq its last restore covers, the binlogs replayed since
          ckpt      \* the checkpoint

vars == <<log, dest, ckpt>>

TypeOK ==
    /\ log \in Seq(Binlogs)
    /\ dest \in [Tables -> [base : Nat, applied : Seq(1..Len(log))]]
    /\ ckpt \in 0..Len(log)

SeqsOf(t) == {s \in 1..Len(log) : t \in log[s].tables}

Covered(t, s) == s <= dest[t].base \/ \E i \in DOMAIN dest[t].applied : dest[t].applied[i] = s

Init ==
    /\ log \in Seq(Binlogs)
    /\ dest \in [Tables -> [base : 0..Len(log), applied : {<<>>}]]
    /\ ckpt \in 0..Len(log)
    /\ \A t \in Tables : ckpt <= dest[t].base

Write == \E b \in Binlogs : log' = Append(log, b) /\ UNCHANGED <<dest, ckpt>>

Replay ==
    \E s \in ckpt + 1..Len(log) : \E ts \in SUBSET log[s].tables :
        /\ \A t \in ts : \A r \in SeqsOf(t) : r < s => Covered(t, r)
        /\ dest' = [t \in Tables |->
              IF t \in ts THEN [dest[t] EXCEPT !.applied = Append(@, s)] ELSE dest[t]]
        /\ UNCHANGED <<log, ckpt>>

Checkpoint ==
    \E c \in ckpt + 1..Len(log) :
        /\ \A t \in Tables : \A s \in 1..c : t \in log[s].tables => Covered(t, s)
        /\ ckpt' = c
        /\ UNCHANGED <<log, dest>>

\* Snapshots of the tables ts are restored; the checkpoint may move at once.
Restore ==
    \E ts \in SUBSET Tables : \E c \in ckpt..Len(log) :
        /\ \E base \in [ts -> 0..Len(log)] :
            /\ \A t \in ts : /\ dest[t].base <= base[t]
                             /\ \A i \in DOMAIN dest[t].applied : dest[t].applied[i] <= base[t]
            /\ dest' = [t \in Tables |->
                  IF t \in ts THEN [base |-> base[t], applied |-> <<>>] ELSE dest[t]]
        /\ \A t \in ts : c <= dest'[t].base
        /\ \A t \in Tables \ ts : \A s \in 1..c : t \in log[s].tables => Covered(t, s)
        /\ ckpt' = c
        /\ UNCHANGED log

Next == Write \/ Replay \/ Checkpoint \/ Restore

Spec == Init /\ [][Next]_vars
-----------------------------------------------------------------------------
\* Nothing is lost: whatever the checkpoint has passed is at the target, so that a restart
\* may ask the source for the binlogs after it (getNextBinlogs after a crash).
NoLoss == \A s \in 1..ckpt : \A t \in Tables : t \in log[s].tables => Covered(t, s)

\* Log order: a binlog reaches a table only after every earlier binlog of that table did
\* (the order of CommitCh and RunningTxnList, and of DDLs among upserts).
NoGap ==
    \A t \in Tables : \A i \in DOMAIN dest[t].applied : \A s \in SeqsOf(t) :
        dest[t].base < s /\ s < dest[t].applied[i]
            => \E k \in 1..i - 1 : dest[t].applied[k] = s

\* The checkpoint never moves back, and a restore never takes a table back.
Forward == [][/\ ckpt <= ckpt'
              /\ \A t \in Tables : dest[t].base <= dest'[t].base]_vars
=============================================================================
