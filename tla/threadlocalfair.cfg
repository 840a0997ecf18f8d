\* Termination of calls over thread-local channels, with a receiver that may die
\* at any request and be restarted.
CONSTANTS
    t1 = t1
    t2 = t2
    c1 = c1
    c2 = c2
    Threads = {t1, t2}
    Channels = {c1, c2}
    MultiThreaded = TRUE
    MaxCalls = 3
    MaxRestarts = 1
    MaxExits = 0
    FdLimit = 2
    Shared = Shared
    None = None
SPECIFICATION FairSpec
PROPERTIES
    CallEnds
