SPECIFICATION Spec
CONSTANTS
    Sinks = {s1, s2}
    Clients = {c1, c2}
    Workers = {w1, w2}
    Devices = {d1}
    Reentrant = {s1}
    Querying = {}
    MaxEvents = 2
    MaxCalls = 4
    Lossy = TRUE
    Free = Free
    End = End
    Idle = Idle
SYMMETRY ThreadSymmetry
INVARIANTS
    TypeOK
    IteratorValid
    CalledSinkAlive
    Balanced
    AllSinksCalled
    OncePerRegistration
    AgreedOrder
