\* One method, with a Boolean parameter, as Z3_model_eval has one.
SPECIFICATION Spec
CONSTANTS
    Width = 2
    MaxRequests = 1
    FirstId = 11
    Methods <- BooleanMethod
    Names <- SomeNames
    Numbers <- SomeNumbers
    Strings <- SomeStrings
    FirstObjects <- SomeObjects
INVARIANTS BooleansArrive
CHECK_DEADLOCK FALSE
