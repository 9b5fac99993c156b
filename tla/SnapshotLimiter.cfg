CONSTANTS
    J1 = J1
    J2 = J2
    A = A
    B = B
    Nil = Nil
    Jobs = {J1, J2}
    Tables = {A}
    Limit = 1
    MaxSeq = 1
    MaxFaults = 2
    FaultKinds <- LimiterFaults
SPECIFICATION FairSpec
INVARIANTS PermitsMatchHolders
PROPERTIES SnapshotEnds
