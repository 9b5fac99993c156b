CONSTANTS
    A = A
    B = B
    Tables = {A, B}
    MaxSeq = 4
    MaxTxn = 9
    Nil = Nil
    BatchSize = 2
    MaxPipelineIngesting = 2
    LockInterval = 1
    DestTableId <- SwappedIds
    SourceBinlogs <- FewBinlogs
    InitialLogs <- FirstLogs
    FaultKinds <- Crashes
    MaxFaults = 2
SPECIFICATION Spec
INVARIANTS TypeOK RecordedTxnsResolved NoPanic
PROPERTY ImplementsReplay
