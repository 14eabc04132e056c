CONSTANTS
    Streams = {s1}
    Maps = {green, cave}
    DefaultMapID = green
    NoSession = NoSession
    MaxVersion = 2
    MaxFaults = 1
SPECIFICATION FairSessionSpec
PROPERTY FailedLoginCanBeRetried
CHECK_DEADLOCK FALSE
