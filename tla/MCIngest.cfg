SPECIFICATION IngestSpec
CONSTANTS
    Lives = {l1}
    Sessions = {s1, s2}
    Generations = {1}
    Handlers = {h1, h2}
    NoSession = NoSession
    MaxFaults = 1
SYMMETRY Symmetry
INVARIANTS
    IngestTypeOK
    OnAirOwns
    ToldMeansEnded
CHECK_DEADLOCK FALSE
