SPECIFICATION Spec
CONSTANTS
    Divide = 2
    Width = 4
    Height = 2
    Step = 2
    MaxWidth = 4
    Keys = {"set", "start", "abort"}
    Hasty = {"abort"}
    MaxKeys = 3
    MaxButtons = 0
    MaxRestarts = 0
CHECK_DEADLOCK FALSE
PROPERTY AbortSticks
