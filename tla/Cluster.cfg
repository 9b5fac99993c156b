CONSTANTS
    S1 = S1
    S2 = S2
    S3 = S3
    S4 = S4
    J1 = J1
    J2 = J2
    J3 = J3
    J4 = J4
    Nil = Nil
    Removed = Removed
    Syncers = {S1, S2}
    Jobs = {J1, J2}
    InitialOwners <- AnyOwners
    MaxFaults = 1
    FaultKinds <- ClusterFaults
SPECIFICATION FairSpec
INVARIANTS TypeOK AssignedJobsKnown RunnerOwns OwnerRegistered
PROPERTY JobsTakenOver
CHECK_DEADLOCK FALSE
