SPECIFICATION FairSysSpec
CONSTANTS
    Lives = {1}
    Session = s1
    Relays = {r1}
    LoadMayFail = FALSE
    Events <- MCEvents
    Loads = {}
    MaxGeneration = 2
    DeliveryLimit = 1
    MaxQueue = 3
    MaxFaults = 1
    MaxCrashes = 1
PROPERTIES
    EndedAlwaysCleared
CHECK_DEADLOCK FALSE
