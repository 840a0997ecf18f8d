\* All pairs of messages.  A fixed64 has two bytes here, so that its smallest and
\* largest values are numbers that TLC can count with.
SPECIFICATION CodecSpec
CONSTANTS
    Width = 2
    MaxMessages = 2
    Requests <- SomeRequests
    Responses <- SomeResponses
INVARIANTS SizesAgree ReadingMerges ResponsesNameNoMethod
CHECK_DEADLOCK FALSE
