SPECIFICATION SysSpec
CONSTANTS
    Lives = {1}
    Session = s1
    Relays = {r1, r2}
    LoadMayFail = FALSE
    Events <- MCEvents
    Loads = {}
    MaxGeneration = 2
    DeliveryLimit = 5
    MaxQueue = 3
    MaxFaults = 1
    MaxCrashes = 1
PROPERTIES
    NoRevival
CHECK_DEADLOCK FALSE
