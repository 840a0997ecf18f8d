\* Three calls, one of them may be made in a callback, and two callbacks.
SPECIFICATION Spec
CONSTANTS
    Methods = {"invoke", "handle"}
    MaxCalls = 3
    MaxCallbacks = 2
INVARIANTS TypeOK OwnResponse CallbacksFirst NoneServedAfterAnswer
PROPERTIES IdsNotShared CallEnds
CHECK_DEADLOCK FALSE
