SPECIFICATION FairSpec
CONSTANTS
    Workers = {w1, w2}
    MaxActivations = 2
    MaxJobs = 3
    MaxPending = 2
    Outcomes = {"ok", "context", "capability", "attached", "detached"}
    None = None
INVARIANTS
    TypeOK
    NoLostWakeup
    ReferencesExact
    DispatchOnLiveObject
    CleanClose
    SinkQuiet
    FaultsExplained
PROPERTIES
    LastUnlessJobs
    DeactivationEnds
    NothingLingers
