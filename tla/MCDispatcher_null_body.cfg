CONSTANTS
    Ids = {i1, i2}
    RpcClients = {c1}
    Workers = {w1}
    Pollers = {p1}
    Bodies = {"job", "null"}
    ClientSuppliedIds = FALSE
    WorkerCrashes = FALSE
    WorkerHeartbeats = FALSE
    MaxSubmits = 2
    Capacity = 2
    OutSize = 2
    NoWaiter = NoWaiter
    NoId = NoId
SPECIFICATION Spec
INVARIANT NoPanic
