------------------------------ MODULE MCCluster ------------------------------
(***************************************************************************)
(* Instances of Cluster for TLC.                                           *)
(***************************************************************************)
EXTENDS Cluster

CONSTANTS S1, S2, S3, S4, J1, J2, J3, J4

ClusterFaults == {"crash", "db", "recover", "slow"}
NoFaults == {}

AnyOwners == [Jobs -> Syncers \cup {Nil}]

\* One, no and three jobs: the average of four is 1, and S4 owns none.
UnevenOwners == {[j \in Jobs |-> IF j = J1 THEN S1 ELSE S2]}

\* RebalanceLoad gives away the orphans, all and no more, whatever the loads.
ASSUME AddedLoadsAreTheOrphans ==
    \A loads \in [1..3 -> 0..4], orphans \in 0..4 :
        LowLoaded(loads, orphans) # {} =>
            \A first \in Firsts(loads, orphans) :
                MapThenSumSet(LAMBDA x : AddedLoad(loads, orphans, first, x),
                              LowLoaded(loads, orphans)) = orphans
=============================================================================
