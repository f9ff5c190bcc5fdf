SPECIFICATION FairSpec
CONSTANTS
    Lives = {1, 2}
    Events <- MCEvents
    Loads <- MCLoads
    MaxGeneration = 3
    DeliveryLimit = 1
    MaxQueue = 1
    MaxFaults = 1
    MaxCrashes = 1
INVARIANTS
    TypeOK
    OneWorker
PROPERTIES
    StartsAreWanted
    VersionsOnlyRise
    WorkerRestored
