CONSTANTS
    nO = nO
    nA = nA
    nB = nB
    nT = nT
    Peers = {nO, nA, nB, nT}
    Origin = nO
    Target = nT
    Worlds <- SmallWorlds
SPECIFICATION FairSpec
INVARIANTS HandledOnce NullMeansNoRoute
PROPERTIES EveryRouteEnds
CHECK_DEADLOCK FALSE
