CONSTANTS
    i1 = i1
    i2 = i2
    h1 = h1
    h2 = h2
    Ids = {i1, i2}
    Holders = {h1, h2}
    Passes = 2
    Ttl = 1
    Retention = 2
    Recent = 0
    TargetCopies = 2
    TokenCap = 2
    TotalCap = 1
    SeenCap = 1
    MaxDay = 2
    MaxAsks = 2
    Worlds <- SixWorlds
SPECIFICATION InboxSpec
INVARIANTS SentIsInCustody AppliedOnce FullWindowIsScanned NoPhantomUsage
CHECK_DEADLOCK FALSE
