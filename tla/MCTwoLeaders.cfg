CONSTANTS
    Coordinators = {c1, c2}
    MaxTerm = 2
    TheMap = m1
    Maps = {m1}
    Nodes = {1, 2}
    NoNode = NoNode
    MapOf <- MCMapOf
    Drainable = {}
    Played = {}
    Watched = {}
    Tasks = {t1, t2}
    MaxEpoch = 3
    MaxWorld = 1
    MaxFaults = 2
SPECIFICATION SteadySpec
SYMMETRY MCSymmetry
INVARIANT CommittableHasOwnersCheckpoint
PROPERTY AdmittedOnlyByRoutedOwner
PROPERTY DeposedLeaderCommitsNothing
CHECK_DEADLOCK FALSE
