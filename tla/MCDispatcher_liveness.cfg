CONSTANTS
    Ids = {i1, i2}
    RpcClients = {c1, c2}
    Workers = {w1, w2}
    Pollers = {}
    Bodies = {"job"}
    ClientSuppliedIds = FALSE
    WorkerCrashes = FALSE
    WorkerHeartbeats = FALSE
    MaxSubmits = 2
    Capacity = 2
    OutSize = 2
    NoWaiter = NoWaiter
    NoId = NoId
SPECIFICATION FairSpec
PROPERTY SubmitterAnswered
