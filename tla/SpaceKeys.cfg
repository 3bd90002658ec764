CONSTANTS
    Owner = owner
    Peers = {a, b}
    Founders = {a}
    TreeMax = 50
    MaxRev = 1
    MaxRoots = 2
    CrowdWindow = 0
    TreeWindow = 0
SPECIFICATION KeysSpec
PROPERTIES RootIsImmutable
CHECK_DEADLOCK FALSE
