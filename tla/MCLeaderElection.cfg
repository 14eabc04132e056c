CONSTANTS
    Coordinators = {c1, c2, c3}
    NoToken = NoToken
    LostToken = LostToken
    TTL = 2
    MaxTerm = 4
SPECIFICATION FairElectionSpec
INVARIANT ElectionTypeOK
INVARIANT OneEffectiveLeader
INVARIANT LeaseHolderNotFenced
PROPERTY LeaseOnlyLostToOwnerOrTime
PROPERTY ImplementsTerms
PROPERTY LeaderEmerges
CHECK_DEADLOCK FALSE
