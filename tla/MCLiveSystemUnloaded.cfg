SPECIFICATION FairSysSpec
CONSTANTS
    Lives = {1}
    Session = s1
    Relays = {r1}
    LoadMayFail = TRUE
    Events <- MCEvents
    Loads = {}
    MaxGeneration = 2
    DeliveryLimit = 5
    MaxQueue = 3
    MaxFaults = 1
    MaxCrashes = 1
PROPERTIES
    RunningLivesPlay
CHECK_DEADLOCK FALSE
