CONSTANTS
    Coordinators = {c1}
    MaxTerm = 1
    TheMap = m1
    Maps = {m1}
    Nodes = {1, 2}
    NoNode = NoNode
    MapOf <- MCMapOf
    Drainable = {1}
    Played = {1}
    Watched = {1}
    Tasks = {t1}
    MaxEpoch = 2
    MaxWorld = 2
    MaxFaults = 1
SPECIFICATION FairFailoverSpec
INVARIANT WritersHoldTheirEpoch
PROPERTY DrainedNodeStoresOnlyFinal
PROPERTY FailoverImplementsOwnership
PROPERTY DrainIsCarriedOut
CHECK_DEADLOCK FALSE
