\* Two threads, two objects, and up to four more ids for an array and results of get.
SPECIFICATION Spec
CONSTANTS
    t1 = t1
    t2 = t2
    Threads = {t1, t2}
    Objects <- SomeObjects
    Chars <- SomeChars
    MaxSize = 2
    Slack = 1
    MaxIds = 6
    MaxArrays = 1
INVARIANTS TypeOK SetReturnsReplaced
PROPERTIES Implements
CHECK_DEADLOCK FALSE
