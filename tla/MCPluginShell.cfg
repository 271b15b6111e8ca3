SPECIFICATION FairSpec
CONSTANTS
    Hosts = {h1, h2}
    Others = {o1}
    None = None
INVARIANTS
    TypeOK
    AssertionsHold
    ShellBalanced
PROPERTIES
    FailureIsOwn
    CrashHandled
    ProcessEnds
