SPECIFICATION Spec
CONSTANTS
    Sinks = {s1}
    Clients = {c1}
    Workers = {w1, w2}
    Devices = {d1}
    Reentrant = {}
    Querying = {}
    MaxEvents = 2
    MaxCalls = 2
    Lossy = FALSE
    Free = Free
    End = End
    Idle = Idle
INVARIANT SettledView
