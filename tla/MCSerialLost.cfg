SPECIFICATION Spec
CONSTANTS
    BufSize = 4
    Lengths = {2, 3}
    MaxMessages = 3
    MaxOnWire = 2
    MaxLost = 1
INVARIANT OnlyParsed
CHECK_DEADLOCK FALSE
