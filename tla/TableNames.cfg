CONSTANTS
    X = X
    Y = Y
    SourceTables = {1, 2, 3}
    Names = {X, Y}
    InitialNames <- TwoTables
    Kinds <- AllKinds
    FaultKinds <- AllFaults
    MaxFaults = 1
    MaxSeq = 4
    Nil = Nil
SPECIFICATION NamesSpec
INVARIANTS NamesTypeOK OneSource Mirror
CHECK_DEADLOCK FALSE
