CONSTANTS
    c1 = c1
    c2 = c2
    Conns = {c1, c2}
    WorkerCount = 1
    Timeout = 1
    MaxTaskId = 3
    Requests = {"answered", "last", "hanging", "bad", "part"}
SPECIFICATION FairSpec
PROPERTY SilentIsClosed
CHECK_DEADLOCK FALSE
