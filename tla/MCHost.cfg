\* Bounds: a queue of two events, which keys and messages fill.
SPECIFICATION Spec
CONSTANTS
    Bound = 2
    MaxKeys = 2
    MaxMsgs = 3
INVARIANTS
    HeapExact
    AbortOnQuit
    QuitIsDelivered
PROPERTY QuitEnds
CHECK_DEADLOCK FALSE
