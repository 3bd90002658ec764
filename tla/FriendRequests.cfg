CONSTANTS
    a = a
    b = b
    r1 = r1
    r2 = r2
    Peers = {a, b}
    Ids = {r1, r2}
    OutboxCap = 1
    MaxAttempts = 2
    MaxUid = 4
    Worlds <- ThreeWorlds
SPECIFICATION Spec
INVARIANTS PromisesAreBacked TombstonesAreFinal FriendsByConsent RequestsAreHonoured
CHECK_DEADLOCK FALSE
