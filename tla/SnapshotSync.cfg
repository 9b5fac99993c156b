CONSTANTS
    J1 = J1
    J2 = J2
    A = A
    B = B
    Nil = Nil
    Jobs = {J1}
    Tables = {A, B}
    Limit = 1
    MaxSeq = 2
    MaxFaults = 3
    FaultKinds <- JobFaults
SPECIFICATION Spec
INVARIANTS TypeOK MapMatchesTarget ReplayStartsEarlyEnough BinlogsKept
PROPERTIES SnapshotIsFresh TargetNeverGoesBack
