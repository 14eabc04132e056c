CONSTANTS
    n1 = n1
    n2 = n2
    a1 = a1
    a2 = a2
    Maps = {green}
    Nodes = {n1, n2}
    Addrs = {a1, a2}
    Loaders = {event, poll}
    Poller = poll
    Clients = {1, 2, 3}
    None = None
    Registered <- MCRegistered
    Plans <- MCPlans
    MaxTopology = 2
    MaxMoves = 1
SPECIFICATION FairRoutingSpec
INVARIANT ClientsAccountedFor
INVARIANT ClientsLeadToTargets
INVARIANT FrameShowsItsTopology
PROPERTY RoutingConverges
