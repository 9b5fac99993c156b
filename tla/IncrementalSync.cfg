CONSTANTS
    A = A
    B = B
    T1 = T1
    T2 = T2
    N1 = N1
    N2 = N2
    Tables = {A, B}
    Binlogs <- SomeBinlogs
    Nil = Nil
    Replicas <- ThreeReplicas
    MaxIngestConcurrency = 1
    DestTableId <- SwappedIds
    BatchSize = 2
    LockInterval = 1
    InitialLogs <- OneUpsert
    FaultKinds <- AllFaults
    MaxFaults = 2
    MaxSeq = 3
    MaxTxn = 6
SPECIFICATION IncFairSpec
INVARIANTS IncTypeOK NoLoss AppliedOnceUnlessRetried IngestComplete RollupsFollow WindowRespected NoLostWakeup
PROPERTIES RefinesReplay Replicated
