CONSTANTS
    Attackers = {a1, a2}
    Coordinators = {c1, c2}
    MaxHP = 2
    Damages = {1, 2}
    MaxLives = 3
    MaxLost = 1
    MaxFaults = 2
SPECIFICATION BossSpec
INVARIANT OneKillerPerLife
INVARIANT DeadBossHasRecorder
PROPERTY DamageAndDeathStand
PROPERTY RecordedKillComesBack
CHECK_DEADLOCK FALSE
