\* Bounds: a user of four keys, two presses of the button; 'a' at any moment, up
\* to where it would cross the report of a chunk.
SPECIFICATION Spec
CONSTANTS
    Divide = 2
    Width = 4
    Height = 2
    Step = 2
    MaxWidth = 4
    Keys = {"set", "start", "abort", "reset", "clear", "cpu", "version"}
    Hasty = {"abort", "clear", "version"}
    MaxKeys = 4
    MaxButtons = 2
    MaxRestarts = 0
CONSTRAINT Uncrossed
CHECK_DEADLOCK FALSE
INVARIANTS
    DoneMeansComplete
    InSync
PROPERTIES
    AbortSticks
    Completes
