\* ThreadLocalRequestGenerator: each of two threads opens its own channel; the
\* receiver may be restarted once and the wrapper process replaced once.
CONSTANTS
    t1 = t1
    t2 = t2
    c1 = c1
    c2 = c2
    c3 = c3
    c4 = c4
    Threads = {t1, t2}
    Channels = {c1, c2, c3, c4}
    MultiThreaded = TRUE
    MaxCalls = 3
    MaxRestarts = 1
    MaxExits = 1
    FdLimit = 3
    Shared = Shared
    None = None
SPECIFICATION Spec
SYMMETRY Symmetry
INVARIANTS
    HandlesLive
    TargetsResolve
PROPERTIES
    ReceiverSurvives
    Implements
