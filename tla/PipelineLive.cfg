CONSTANTS
    A = A
    B = B
    Tables = {A, B}
    MaxSeq = 3
    MaxTxn = 6
    Nil = Nil
    BatchSize = 2
    MaxPipelineIngesting = 2
    LockInterval = 1
    DestTableId <- SwappedIds
    SourceBinlogs <- FewBinlogs
    InitialLogs <- OneUpsert
    FaultKinds <- LiveFaults
    MaxFaults = 2
SPECIFICATION FairSpec
PROPERTIES Replicated TxnsSettle SkipFulfilled
