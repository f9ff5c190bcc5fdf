SPECIFICATION FairSpec
CONSTANTS
    Events <- MCEvents
    Relays = {r1, r2}
    MaxTime = 2
    MaxFaults = 1
INVARIANTS
    TypeOK
    NothingLost
    FirstCopiesInOrder
PROPERTIES
    AllPublished
CHECK_DEADLOCK FALSE
