SPECIFICATION FairSpec
CONSTANTS
    Sinks = {s1, s2}
    Clients = {c1}
    Workers = {w1, w2}
    Devices = {d1}
    Reentrant = {}
    Querying = {}
    MaxEvents = 3
    MaxCalls = 3
    Lossy = FALSE
    Free = Free
    End = End
    Idle = Idle
PROPERTIES
    EventReachesSink
    CallsReturn
    ImplementsFairBroadcast
