\* Two requests, whole or cut at any byte.  The first new id is "11": "1", which it
\* begins with, is an object.  The wrapper may stop, and the receiver may end.
SPECIFICATION Spec
CONSTANTS
    Width = 2
    MaxRequests = 2
    FirstId = 11
    Methods <- SomeMethods
    Names <- SomeNames
    Numbers <- SomeNumbers
    Strings <- SomeStrings
    FirstObjects <- SomeObjects
INVARIANTS TypeOK CallArrives CutCallsUnchanged ResultArrives IdsFresh
CHECK_DEADLOCK FALSE
