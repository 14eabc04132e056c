CONSTANTS
    Attackers = {a1, a2}
    Coordinators = {c1, c2}
    MaxHP = 2
    Damages = {1, 2}
    MaxLives = 2
    MaxLost = 1
    MaxFaults = 2
SPECIFICATION BossSpec
PROPERTY BossComesBack
CHECK_DEADLOCK FALSE
