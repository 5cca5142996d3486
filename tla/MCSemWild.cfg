SPECIFICATION Spec
CONSTANTS
    Divide = 2
    Width = 4
    Height = 2
    Step = 2
    MaxWidth = 6
    Keys = {"set", "start", "abort", "reset", "resize"}
    Hasty = {"set", "start", "abort", "reset"}
    MaxKeys = 3
    MaxButtons = 1
    MaxRestarts = 1
CHECK_DEADLOCK FALSE
INVARIANTS
    AlignedWrites
