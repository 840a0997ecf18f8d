\* Responses of the C++ receiver to the Kotlin wrapper; the longer ones do not fit
\* into the wrapper's buffer together with their header.
SPECIFICATION Spec
CONSTANTS
    Width = 2
    WriteBuffer = 7
    ReadBuffer = 7
    Segment = 7
    Capacity = 12
    MaxFrames = 2
    Links <- Responses
    Lengths <- SomeLengths
INVARIANTS CheckHolds
