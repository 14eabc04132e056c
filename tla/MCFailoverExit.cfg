CONSTANTS
    Coordinators = {c1}
    MaxTerm = 1
    TheMap = m1
    Maps = {m1}
    Nodes = {1, 2}
    NoNode = NoNode
    MapOf <- MCMapOf
    Drainable = {1, 2}
    Played = {1, 2}
    Watched = {}
    Tasks = {t1, t2}
    MaxEpoch = 2
    MaxWorld = 2
    MaxFaults = 0
SPECIFICATION SteadySpec
SYMMETRY MCSymmetry
INVARIANT NeverExitsAsOwner
CHECK_DEADLOCK FALSE
