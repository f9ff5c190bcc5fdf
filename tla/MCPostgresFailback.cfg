SPECIFICATION Spec
CONSTANTS
    FailureThreshold = 2
    Fall = 2
    Rise = 2
    MaxWrites = 3
    MaxFaults = 1
PROPERTIES
    FailbackIsManual
CHECK_DEADLOCK FALSE
