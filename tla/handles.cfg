\* Two handles of a class, and as many calls as the longest way to a method takes.  The
\* wrapper stops at MaxRequests.
SPECIFICATION Spec
CONSTANTS
    MaxHandles = 2
    MaxRequests = 7
INVARIANTS CastsFit HandlesFit ResultsConvert
CHECK_DEADLOCK FALSE
