CONSTANTS
    Owner = owner
    Peers = {a, b}
    Founders = {a}
    TreeMax = 50
    MaxRev = 2
    MaxRoots = 2
SPECIFICATION Spec
INVARIANTS KickRevokes JoinersLearnNoPast TupleIsSigned
PROPERTIES OnlyRepullsGoBack
CHECK_DEADLOCK FALSE
