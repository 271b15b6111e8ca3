SPECIFICATION Spec
CONSTANTS
    Workers = {w1, w2}
    MaxActivations = 1
    MaxJobs = 2
    MaxPending = 1
    Outcomes = {"ok"}
    None = None
SYMMETRY WorkerSymmetry
INVARIANT NoSelfJoin
