SPECIFICATION Spec
CONSTANTS
    l1 = l1
    l2 = l2
    Lives <- MCLives
    NoLive = NoLive
    Keep = 2
    MaxRequests = 2
    MaxSelections = 2
    MaxMessages = 3
    MaxFaults = 1
INVARIANTS
    TypeOK
    ShownTogether
PROPERTIES
    CatalogConverges
