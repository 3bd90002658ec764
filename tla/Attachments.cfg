CONSTANTS
    pH = pH
    pL = pL
    mine = mine
    theirs = theirs
    Self = Self
    Peers = {pH, pL}
    Blobs = {mine, theirs}
    Mine = {mine}
    Theirs = {theirs}
    Indices = {1, 2}
    Room = 3
    SponsorRoom = 1
    MaxSponsors = 1
    Target = 1
    MaxFailures = 2
    Worlds <- SmallWorlds
SPECIFICATION FairSpec
INVARIANTS StoreIsAccounted CancelledLeavesNothing HonestKeepTrust SteadyPeersAreUsed
PROPERTIES EveryTaskEnds
CHECK_DEADLOCK FALSE
