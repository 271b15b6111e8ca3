SPECIFICATION FairSpec
CONSTANTS
    Clients = {c1, c2}
    Devices = {d1, d2, d3}
    Names = {n1, n2}
    d1 = d1  d2 = d2  d3 = d3  n1 = n1  n2 = n2
    Name <- MCName
    MaxCalls = 3
    MaxForeign = 1
    None = None
INVARIANTS
    TypeOK
    ResourcesReturned
    NoSpuriousFailure
PROPERTIES
    ImplementsDriverState
    EveryCallReturns
