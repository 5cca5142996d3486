SPECIFICATION Spec
CONSTANTS
    Bound = 3
    MaxKeys = 4
    MaxMsgs = 5
INVARIANT PushersDoNotHoldMain
CHECK_DEADLOCK FALSE
