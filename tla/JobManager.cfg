CONSTANTS
    N1 = N1
    N2 = N2
    C1 = C1
    C2 = C2
    Names = {N1}
    Clients = {C1, C2}
    MaxObjects = 2
    MaxRequests = 3
    MaxFaults = 2
    FaultKinds <- ManagerFaults
SPECIFICATION FairSpec
INVARIANTS TypeOK ManagedJobs InterruptsCounted
PROPERTY RequestsEnd
CHECK_DEADLOCK FALSE
