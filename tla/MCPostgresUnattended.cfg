SPECIFICATION FairSpec
CONSTANTS
    FailureThreshold = 2
    Fall = 2
    Rise = 2
    MaxWrites = 3
    MaxFaults = 2
PROPERTIES
    FailoverIsAutomatic
CHECK_DEADLOCK FALSE
