\* Bounds: as MCSemWild.cfg, but the size is changed at any moment.
SPECIFICATION Spec
CONSTANTS
    Divide = 2
    Width = 4
    Height = 2
    Step = 2
    MaxWidth = 6
    Keys = {"set", "start", "resize"}
    Hasty = {"resize"}
    MaxKeys = 4
    MaxButtons = 0
    MaxRestarts = 0
CHECK_DEADLOCK FALSE
INVARIANT AlignedWrites
