CONSTANTS
    Initiator = alice
    Responder = bob
    Slots = {1, 2}
    LowWatermark = 0
    Grace = 1
    MaxSessions = 2
    Fetches = {f1, f2}
    MaxBundles = 2
    MaxStrangers = 1
    MaxWires = 3
SYMMETRY FetchSymmetry
SPECIFICATION SessionsSpec
INVARIANTS PrekeysAreOneTime
PROPERTIES SessionsImplementOnceChannel
CHECK_DEADLOCK FALSE
