\* Bounds: a ring of four slots for two pushers and main; in homework 10 a
\* queue of two events, which two keys and two messages on the link fill, and
\* a chunk of one task.
SPECIFICATION BothSpec
CONSTANTS
    Pushers = {input, serial}
    Main = main
    Events = {e1, e2}
    NoEvent = NoEvent
    Capacity = 4
    HBound = 2
    MaxTasks = 1
    MaxHKeys = 2
    MaxLink = 2
INVARIANTS
    NoLostWakeup
    NeverAllAsleep
    CleanupNeverBlocks
    FlagIsBoards
PROPERTIES
    FifoSpec
    TaskQuitEnds
CHECK_DEADLOCK FALSE
