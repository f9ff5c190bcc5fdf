SPECIFICATION FairSpec
CONSTANTS
    FailureThreshold = 2
    Fall = 2
    Rise = 2
    MaxWrites = 3
    MaxFaults = 4
INVARIANTS
    TypeOK
PROPERTIES
    OneHistory
    WritesResume
CHECK_DEADLOCK FALSE
