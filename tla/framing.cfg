\* Every pair of writer and reader that talk to each other.  A message of length 1 fits
\* into every buffer with its header, one of 4 without it, one of 8 not at all.
SPECIFICATION FairSpec
CONSTANTS
    Width = 2
    WriteBuffer = 7
    ReadBuffer = 7
    Segment = 7
    Capacity = 8
    MaxFrames = 3
    Links <- AllLinks
    Lengths <- SomeLengths
INVARIANTS TypeOK FramesIntact WholeFields
PROPERTIES AllDelivered
