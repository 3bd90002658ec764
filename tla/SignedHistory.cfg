CONSTANTS
    o = o
    m = m
    j = j
    Clients = {o, m, j}
    Owner = o
    Node = Node
    MaxMsgs = 2
    MaxRev = 2
    PageLimit = 2
    Worlds <- SixWorlds
SPECIFICATION Spec
INVARIANTS PageIsCurrent JoinBoundary
PROPERTIES VersionsOnlyAdvance
CHECK_DEADLOCK FALSE
