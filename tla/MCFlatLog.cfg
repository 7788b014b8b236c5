\* Two processes, each killed at any moment.
SPECIFICATION Spec
CONSTANTS
    Data <- MCData
    TimeId = 35
    MaxLines = 3
    MaxBoots = 2
INVARIANTS IdsReadBack TimesReadBack
CHECK_DEADLOCK FALSE
