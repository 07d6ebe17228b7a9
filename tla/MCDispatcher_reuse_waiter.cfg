CONSTANTS
    Ids = {i1, i2}
    RpcClients = {c1, c2}
    Workers = {w1}
    Pollers = {}
    Bodies = {"job"}
    ClientSuppliedIds = TRUE
    WorkerCrashes = FALSE
    WorkerHeartbeats = FALSE
    MaxSubmits = 2
    Capacity = 2
    OutSize = 1
    NoWaiter = NoWaiter
    NoId = NoId
SPECIFICATION FairSpec
PROPERTY SubmitterAnswered
