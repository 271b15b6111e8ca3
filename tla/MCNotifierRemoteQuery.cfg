SPECIFICATION FairSpec
CONSTANTS
    Sinks = {s1}
    Clients = {c1}
    Workers = {w1, w2}
    Devices = {d1}
    Reentrant = {}
    Querying = {s1}
    MaxEvents = 1
    MaxCalls = 1
    Lossy = FALSE
    Free = Free
    End = End
    Idle = Idle
CHECK_DEADLOCK FALSE
PROPERTY CallsReturn
