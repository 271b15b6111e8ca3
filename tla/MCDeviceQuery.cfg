SPECIFICATION FairSpec
CONSTANTS
    Clients = {c1, c2}
    c1 = c1  c2 = c2
    Uses <- MCUses
    EventThread = events
    Devices = {d1, d2, d3}
    d1 = d1  d2 = d2  d3 = d3  p1 = p1  p2 = p2
    Port <- MCPort
    Kind <- MCKind
    Blocks = {sda, sdb}
    Disks = {sda, sdb}
    Below <- MCBelow
    Attempts = 2
    MaxWork = 2
    None = None
    MaxTraversalDepth = 5
    MaxChain = 7
    BufferSize = 256
    MaxText = 2
    Letters = {65, 233, 321}
    Failed = Failed
INVARIANTS
    TypeOK
    ListExact
    PathBelongs
    NoMiss
    ResourcesReturned
    WalkIsRight
    TextsAreRight
    ProductIsRight
PROPERTY EveryCallReturns
