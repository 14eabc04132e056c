CONSTANTS
    Users = {1, 2}
    Open <- MCOpen
    Width = 2
    Height = 2
    Spawn <- MCSpawn
    InitHP = 2
    InitAttack = 2
    AttackRange = 1
    NPCDamage = 1
    HealAmount = 1
    MaxPotions = 1
    PotionCap = 2
    PotionPrice = 1
    WeaponPrice = 2
    WeaponBoost = 1
    MinNPCs = 1
    MaxTreasures = 2
    NPCHPs = {2, 3}
    Finds = {1}
    SpawnChoices = 1
    NoCheckpoint = NoCheckpoint
    MaxVersion = 6
    MaxRestores = 1
SPECIFICATION FairWorldSpec
INVARIANT OneUnitPerCell
INVARIANT LayoutsAreFit
PROPERTY VisibleChangeRaisesVersion
PROPERTY NothingVanishes
PROPERTY DownedPlayerComesBack
