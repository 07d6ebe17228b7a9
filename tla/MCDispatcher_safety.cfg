CONSTANTS
    Ids = {i1, i2}
    RpcClients = {c1}
    Workers = {w1, w2}
    Pollers = {p1}
    Bodies = {"job", "null"}
    ClientSuppliedIds = FALSE
    WorkerCrashes = TRUE
    WorkerHeartbeats = TRUE
    MaxSubmits = 2
    Capacity = 2
    OutSize = 2
    NoWaiter = NoWaiter
    NoId = NoId
SPECIFICATION Spec
SYMMETRY Symmetry
INVARIANT TypeOK
INVARIANT WaiterRegistryConsistent
INVARIANT FifoDispatch
 
PROPERTY JobStoreRefined
\* A nil Job from a "null" body, or any heartbeat, kills the process: the
\* system stops there.
CHECK_DEADLOCK FALSE
