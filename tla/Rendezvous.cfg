SPECIFICATION FairRendezvous
CONSTANTS
    NumProc = 3
    HostLists <- ThreeRanks
    MaxLost = 2
    MaxTries = 2
INVARIANT RendezvousInv
INVARIANT RanksFitScopes
PROPERTY RendezvousEnds
