SPECIFICATION WorkerSpec
CONSTANTS
    Lives = {l1}
    Sessions = {s1}
    NoSession = NoSession
    Generations = {1, 2}
    MaxFaults = 4
INVARIANTS
    TypeOK
    ReportedIsCurrent
PROPERTIES
    AnnouncedPlays
CHECK_DEADLOCK FALSE
