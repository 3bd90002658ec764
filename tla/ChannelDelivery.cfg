CONSTANTS
    Owner = owner
    Me = me
    Others = {w}
    TreeMax = 2
    TreeReentry = 2
    MaxBuffered = 1
    MaxRev = 3
    MaxSends = 2
    CrowdWindow = 1
    TreeWindow = 1
SPECIFICATION FairSpec
INVARIANTS LossIsExplained
PROPERTIES LiveNeverRollsBack CatchesUp
CHECK_DEADLOCK FALSE
