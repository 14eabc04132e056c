CONSTANTS
    Streams = {s1, s2}
    Maps = {green, cave}
    DefaultMapID = green
    NoSession = NoSession
    MaxVersion = 3
    MaxFaults = 2
SPECIFICATION SessionSpec
CONSTRAINT MCBound
SYMMETRY MCSymmetry
INVARIANT OnePlace
INVARIANT SessionFindsPlayer
INVARIANT AnswerTellsOutcome
PROPERTY SessionVersionOrdersMaps
CHECK_DEADLOCK FALSE
