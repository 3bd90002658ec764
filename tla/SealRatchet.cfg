SPECIFICATION Spec
CONSTANTS
    Initiator = a
    Responder = b
    MaxSkipped = 2
    SkippedKeyTtl = 0
    MaxSends = 5
    MaxTime = 1
INVARIANTS
    GenuineTrafficOpens
    OpenedKeysAreGone
    BudgetRecovers
PROPERTIES
    ImplementsOnceChannel
CHECK_DEADLOCK FALSE
