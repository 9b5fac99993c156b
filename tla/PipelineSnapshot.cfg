CONSTANTS
    A = A
    B = B
    Tables = {A, B}
    MaxSeq = 4
    MaxTxn = 9
    Nil = Nil
    BatchSize = 2
    MaxPipelineIngesting = 2
    LockInterval = 1
    DestTableId <- SwappedIds
    SourceBinlogs <- SnapshotBinlogs
    InitialLogs <- OneUpsert
    FaultKinds <- SnapshotFaults
    MaxFaults = 1
SPECIFICATION Spec
INVARIANTS AppliedOnceUnlessLost ResultsInOrder
PROPERTIES DummyMakesFullSync LosesOnlySilenced
CHECK_DEADLOCK FALSE
