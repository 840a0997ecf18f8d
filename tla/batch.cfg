\* The limit is 4; a batch of 5 can get stuck, one of 7 overflows every buffer.
SPECIFICATION FairSpec
CONSTANTS
    Batches = {0, 1, 3, 4, 5, 7}
    OutBuffer = 2
    ToSocket = 2
    InBuffer = 2
    BackBuffer = 1
    FromSocket = 1
    MaxCalls = 2
INVARIANTS TypeOK StuckOnlyIfLarge NothingLeft
PROPERTIES CallsEnd
