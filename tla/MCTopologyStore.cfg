CONSTANTS
    Maps = {m1, m2}
    Nodes = {n1, n2}
    Users = {u1, u2}
    NoNode = NoNode
    NoSession = NoSession
    MaxVersion = 3
    MaxEpoch = 3
    MaxTermCount = 1
    MaxWorld = 1
    MaxSession = 1
SPECIFICATION StoreSpec
SYMMETRY MCSymmetry
INVARIANT StoreTypeOK
INVARIANT OneOwnerPerEpoch
INVARIANT CheckpointFromEpochOwner
PROPERTY CheckpointEpochNeverRegresses
PROPERTY MigrationIsComplete
PROPERTY ImplementsOwnership
CHECK_DEADLOCK FALSE
