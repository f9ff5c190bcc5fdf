SPECIFICATION Spec
CONSTANTS
    Events <- MCEvents
    Relays = {r1, r2}
    MaxTime = 2
    MaxFaults = 1
INVARIANT VersionsInOrder
CHECK_DEADLOCK FALSE
