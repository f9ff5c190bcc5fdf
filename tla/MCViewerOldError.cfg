SPECIFICATION Spec
CONSTANTS
    l1 = l1
    l2 = l2
    Lives <- MCLives
    NoLive = NoLive
    Keep = 2
    MaxRequests = 2
    MaxSelections = 1
    MaxMessages = 0
    MaxFaults = 0
PROPERTY OldErrorGoes
