\* BlockingRequestGenerator: two threads share one channel; the receiver may be
\* restarted once and the wrapper process replaced once.
CONSTANTS
    t1 = t1
    t2 = t2
    c1 = c1
    c2 = c2
    Threads = {t1, t2}
    Channels = {c1, c2}
    MultiThreaded = FALSE
    MaxCalls = 3
    MaxRestarts = 1
    MaxExits = 1
    FdLimit = 2
    Shared = Shared
    None = None
SPECIFICATION FairSpec
INVARIANTS
    TypeOK
    ResponseMatches
    TargetsResolve
    SingleConnectionNeverRaces
PROPERTIES
    NoLateExecution
    CallEnds
