SPECIFICATION ChatSpec
CONSTANTS
    w1 = w1
    w2 = w2
    w3 = w3
    l1 = l1
    l2 = l2
    u1 = u1
    Sockets <- MCSockets
    Owner <- MCOwner
    MaxConnections = 2
    MaxPerLive = 2
    MaxPerUser = 1
    Ids = {1}
    Texts = {1, 2}
    MaxEntries = 1
    MaxLives = 1
    MaxMessages = 3
    MaxFaults = 1
SYMMETRY Symmetry
INVARIANTS
    ChatTypeOK
    NoGhosts
    OvershootBounded
    CreatedOnce
    NothingSkipped
CHECK_DEADLOCK FALSE
