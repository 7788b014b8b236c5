SPECIFICATION Spec
CONSTANTS
    Data <- MCData
    TimeId = 35
    MaxLines = 2
    MaxBoots = 2
INVARIANT GarbledCaptured
CHECK_DEADLOCK FALSE
