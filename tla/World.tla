------------------------------- MODULE World --------------------------------
(***************************************************************************)
(* One map's World: world/world.go, world/tick.go, world/checkpoint.go,    *)
(* and the profile that players enter and leave with (storage/store.go).   *)
(*                                                                         *)
(* w.mu makes every operation one step.  BackgroundStep and bootstrap,     *)
(* which make many random choices in a row, are sequences of steps with    *)
(* the mutex held.                                                         *)
(*                                                                         *)
(* Every operation first respawns the players it looks at whose time has   *)
(* come.  That is the step Refresh, which ProfileOf takes alone: an        *)
(* operation of the others is Refresh followed by its action, and one that *)
(* is refused is Refresh or nothing.  Left out: names, messages, MaxHP     *)
(* (always InitHP), the counters of kills, deaths and victories, and what  *)
(* a player does on another map.                                           *)
(***************************************************************************)
EXTENDS Integers, FiniteSets, FiniteSetsExt

CONSTANTS
    Users,          \* players, numbered in the order of their names
    Open,           \* cells <<x, y>> that are no wall
    Width, Height, Spawn,
    InitHP, InitAttack, AttackRange, NPCDamage, HealAmount,
    MaxPotions, PotionCap, PotionPrice, WeaponPrice, WeaponBoost,
    MinNPCs, MaxTreasures,
    NPCHPs,         \* hit points a new NPC may have
    Finds,          \* values a new treasure may have
    SpawnChoices,   \* spawnNPCLocked picks among this many best cells
    NoCheckpoint,
    MaxVersion,     \* bound: no operation starts at this version
    MaxRestores     \* bound on restarts from a checkpoint

ASSUME WorldCellAssumption ==
    /\ Open \subseteq (0 .. Width - 1) \X (0 .. Height - 1)
    /\ Spawn \in Open

ASSUME WorldRuleAssumption ==
    /\ \A n \in {InitHP, InitAttack, NPCDamage, HealAmount, MaxPotions,
                 PotionPrice, WeaponPrice, WeaponBoost, SpawnChoices} :
          n \in Nat \ {0}
    /\ PotionCap \in Nat /\ MaxPotions <= PotionCap
    /\ AttackRange \in Nat /\ MinNPCs \in Nat \ {0} /\ MaxTreasures \in Nat
    /\ Users \subseteq Nat
    /\ NPCHPs \subseteq Nat \ {0} /\ Finds \subseteq Nat \ {0}
    /\ MaxVersion \in Nat /\ MaxRestores \in Nat

VARIABLES
    players,        \* w.players
    npcs,           \* w.npcs, by number
    treasures,      \* w.treasures, by number
    nextNPC, nextTreasure, version,
    mutex,          \* who holds w.mu between two steps
    turns,          \* NPCs that BackgroundStep has still to move
    profiles,       \* the users table
    cp,             \* the stored checkpoint of the map
    restored        \* how often the world was rebuilt from a checkpoint

stock == <<nextNPC, nextTreasure>>
units == <<players, npcs, treasures>>
worldVars == <<units, stock, version, mutex, turns, profiles, cp, restored>>

Player == [pos : Open, hp : 0..InitHP, attack : Nat, potions : 0..PotionCap,
           purse : Nat, alive : BOOLEAN, respawn : {"none", "pending", "due"}]

Profile == [here : BOOLEAN, pos : Open, hp : 0..InitHP, attack : Nat,
            potions : 0..PotionCap, purse : Nat, alive : BOOLEAN]

NPC == [pos : Open, hp : Nat \ {0}]

Treasure == [pos : Open, value : Nat \ {0}]

-----------------------------------------------------------------------------
With(f, k, v) == [x \in DOMAIN f \cup {k} |-> IF x = k THEN v ELSE f[x]]

Without(f, k) == [x \in DOMAIN f \ {k} |-> f[x]]

ValueOr(v, fallback) == IF v = 0 THEN fallback ELSE v

Abs(n) == IF n < 0 THEN -n ELSE n

Distance(a, b) == Abs(a[1] - b[1]) + Abs(a[2] - b[2])

Directions == {<<0, -1>>, <<0, 1>>, <<-1, 0>>, <<1, 0>>}

Neighbour(c, d) == <<c[1] + d[1], c[2] + d[2]>>

\* Where the living players are.
Standing(ignored) == {players[u].pos : u \in {v \in DOMAIN players \ ignored :
                                                 players[v].alive}}

NPCCells == {npcs[n].pos : n \in DOMAIN npcs}

TreasureCells == {treasures[t].pos : t \in DOMAIN treasures}

\* Mutant: units do not stand in each other's way.
WalkableTerrain(c, ignored) == c \in Open

WalkableFor(c, ignored) == c \in Open \ (Standing(ignored) \cup NPCCells)

\* min over the distances, or the largest one there is.
Nearest(c, S) == Min({Width + Height} \cup {Distance(c, d) : d \in S})

SpawnScore(c, preferNPC) ==
    LET margin == Min({c[1], Width - 1 - c[1], c[2], Height - 1 - c[2]})
    IN  120 * Nearest(c, NPCCells) + 20 * Nearest(c, Standing({}))
          + 15 * Nearest(c, TreasureCells) + 30 * margin
          - 3 * Distance(c, <<Width \div 2, Height \div 2>>)
          + (IF preferNPC THEN 2 * Distance(c, Spawn) ELSE 0)

\* The order of the candidates: by score, then by row and column.
Before(c, d, preferNPC) ==
    LET diff == SpawnScore(c, preferNPC) - SpawnScore(d, preferNPC)
    IN  \/ diff > 0
        \/ diff = 0 /\ (c[2] < d[2] \/ (c[2] = d[2] /\ c[1] < d[1]))

FreeCells(ignored) == {c \in Open : WalkableFor(c, ignored)}

\* The cells bestSpawnCellLocked draws from.
BestSpawnCells(ignored, preferNPC) ==
    {c \in FreeCells(ignored) :
        Cardinality({d \in FreeCells(ignored) : Before(d, c, preferNPC)})
            < SpawnChoices}

SafePositions(c, ignored) ==
    IF WalkableFor(c, ignored) THEN {c}
    ELSE IF FreeCells(ignored) = {} THEN {Spawn}
    ELSE BestSpawnCells(ignored, TRUE)

\* The unit with the fewest hit points, then the first by name.
Weakest(S, f) ==
    CHOOSE x \in S : \A y \in S : f[x].hp < f[y].hp \/ (f[x].hp = f[y].hp /\ x <= y)

-----------------------------------------------------------------------------
(* Profiles.                                                               *)

\* The row that Register creates.
RegisteredProfile ==
    [here |-> TRUE, pos |-> Spawn, hp |-> InitHP, attack |-> InitAttack,
     potions |-> MaxPotions, purse |-> 0, alive |-> TRUE]

\* profileLocked; here: LastMap is this map.
ProfileOf(p, here) ==
    [here |-> here, pos |-> p.pos, hp |-> p.hp, attack |-> p.attack,
     potions |-> p.potions, purse |-> p.purse, alive |-> p.alive]

\* The player AddOrRestorePlayer makes of a profile: zeros are taken for
\* missing values, and there is no respawn time.
PlayerFrom(profile, c) ==
    [pos |-> c, hp |-> ValueOr(profile.hp, InitHP),
     attack |-> ValueOr(profile.attack, InitAttack),
     potions |-> ValueOr(profile.potions, MaxPotions),
     purse |-> profile.purse, alive |-> profile.alive, respawn |-> "none"]

\* SaveProfile; its callers ignore its error.
SaveProfile(u, profile) ==
    \/ profiles' = [profiles EXCEPT ![u] = profile]
    \/ UNCHANGED profiles

-----------------------------------------------------------------------------
(* Initial state: an empty world whose bootstrap is about to run.          *)

WorldInit ==
    /\ players = [u \in {} |-> {}] /\ npcs = [n \in {} |-> {}]
    /\ treasures = [t \in {} |-> {}]
    /\ nextNPC = 0 /\ nextTreasure = 0 /\ version = 0
    /\ mutex = "bootstrap" /\ turns = {}
    /\ profiles = [u \in Users |-> RegisteredProfile]
    /\ cp = NoCheckpoint
    /\ restored = 0

Idle == mutex = "free"

\* No operation begins beyond the bound.
Begins == Idle /\ version < MaxVersion

\* Mutant: the operation itself does not count.
ChangesLess(n) == version' = version + n - 1

\* w.version++, n times.
Changes(n) == version' = version + n

Outside == UNCHANGED <<mutex, turns, cp, restored>>

-----------------------------------------------------------------------------
(* Respawning.                                                             *)

\* Mutant: the check for a living player is the wrong way round.
DueAlive(u) == players[u].alive /\ players[u].respawn = "due"

Due(u) == players[u].respawn = "due"

NobodyDue == \A u \in DOMAIN players : ~Due(u)

\* The respawn time of u passes.
TimePasses(u) ==
    /\ u \in DOMAIN players
    /\ players[u].respawn = "pending"
    /\ players' = [players EXCEPT ![u].respawn = "due"]
    /\ UNCHANGED <<npcs, treasures, stock, version, mutex, turns, profiles, cp,
                   restored>>

Larger(a, b) == IF a > b THEN a ELSE b

\* refreshPlayerStateLocked of a player whose time has come, wherever it is
\* called: ProfileOf, Snapshot, FlushProfiles, the player's own operations,
\* BackgroundStep and closestPlayerLocked.
Refresh(u) ==
    /\ mutex \in {"free", "npcs"}
    /\ u \in DOMAIN players
    /\ Due(u)
    /\ \E c \in SafePositions(Spawn, {u}) :
          players' = [players EXCEPT ![u] =
              [players[u] EXCEPT !.pos = c, !.hp = InitHP, !.alive = TRUE,
                                 !.potions = Larger(@, MaxPotions),
                                 !.respawn = "none"]]
    /\ Changes(1)
    /\ UNCHANGED <<npcs, treasures, stock, profiles>> /\ Outside

\* knockDownPlayerLocked.
KnockedDown(p) == [p EXCEPT !.hp = 0, !.alive = FALSE, !.respawn = "pending"]

Hit(p, damage) ==
    IF p.hp > damage THEN [p EXCEPT !.hp = @ - damage] ELSE KnockedDown(p)

-----------------------------------------------------------------------------
(* Entering and leaving.                                                   *)

\* The profile a login gets: whatever was saved last.
Authenticate(u) == profiles[u]

\* AddOrRestorePlayer with the stored profile.  A player who is in the world
\* already (a logout that failed, a restored checkpoint) is replaced.
AddOrRestorePlayer(u) ==
    LET profile == Authenticate(u)
        wish == IF profile.here THEN profile.pos ELSE Spawn
    IN  /\ Begins
        /\ \E c \in SafePositions(wish, {}) :
              players' = With(players, u, PlayerFrom(profile, c))
        /\ Changes(1)
        /\ UNCHANGED <<npcs, treasures, stock, profiles>> /\ Outside

\* RemovePlayer for a Logout (here), or for a switch to another map, which
\* SwitchMap allows to the living only.  The caller saves the profile.
RemovePlayer(u, here) ==
    /\ Begins
    /\ u \in DOMAIN players
    /\ here \/ players[u].alive
    /\ players' = Without(players, u)
    /\ SaveProfile(u, ProfileOf(players[u], here))
    /\ Changes(1)
    /\ UNCHANGED <<npcs, treasures, stock>> /\ Outside

-----------------------------------------------------------------------------
(* What a living player does.                                              *)

Acts(u) == Begins /\ u \in DOMAIN players /\ players[u].alive

TreasuresAt(c) == {t \in DOMAIN treasures : treasures[t].pos = c}

MovePlayer(u, d) ==
    LET c == Neighbour(players[u].pos, d)
    IN  /\ Acts(u)
        /\ WalkableFor(c, {u})
        /\ \/ /\ TreasuresAt(c) = {}
              /\ players' = [players EXCEPT ![u].pos = c]
              /\ UNCHANGED treasures
           \/ \E t \in TreasuresAt(c) :
                 /\ players' = [players EXCEPT ![u].pos = c,
                                               ![u].purse = @ + treasures[t].value]
                 /\ treasures' = Without(treasures, t)
        /\ Changes(1)
        /\ UNCHANGED <<npcs, stock, profiles>> /\ Outside

Healed(hp) == IF hp + HealAmount > InitHP THEN InitHP ELSE hp + HealAmount

HealPlayer(u) ==
    /\ Acts(u)
    /\ players[u].potions > 0
    /\ players' = [players EXCEPT ![u].potions = @ - 1, ![u].hp = Healed(@)]
    /\ Changes(1)
    /\ UNCHANGED <<npcs, treasures, stock, profiles>> /\ Outside

BuyPotion(u) ==
    /\ Acts(u)
    /\ players[u].purse >= PotionPrice
    /\ players[u].potions < PotionCap
    /\ players' = [players EXCEPT ![u].purse = @ - PotionPrice, ![u].potions = @ + 1]
    /\ SaveProfile(u, ProfileOf(players'[u], TRUE))
    /\ Changes(1)
    /\ UNCHANGED <<npcs, treasures, stock>> /\ Outside

BuyWeapon(u) ==
    /\ Acts(u)
    /\ players[u].purse >= WeaponPrice
    /\ players' = [players EXCEPT ![u].purse = @ - WeaponPrice,
                                  ![u].attack = @ + WeaponBoost]
    /\ SaveProfile(u, ProfileOf(players'[u], TRUE))
    /\ Changes(1)
    /\ UNCHANGED <<npcs, treasures, stock>> /\ Outside

\* A purchase is refused (down, too poor, at the cap, no such item): the
\* profile is saved all the same.
BuyRefused(u) ==
    /\ Begins
    /\ u \in DOMAIN players
    /\ ~Due(u)
    /\ SaveProfile(u, ProfileOf(players[u], TRUE))
    /\ UNCHANGED <<units, stock, version>> /\ Outside

\* RewardPlayer, which also pays a player who is down.
RewardPlayer(u, delta) ==
    /\ Begins
    /\ u \in DOMAIN players
    /\ players' = [players EXCEPT ![u].purse = @ + delta]
    /\ Changes(1)
    /\ UNCHANGED <<npcs, treasures, stock, profiles>> /\ Outside

-----------------------------------------------------------------------------
(* Attack: the weakest NPC in range, or else the weakest other player.     *)

\* Mutant: a new treasure replaces what lies on its cell.
DropAnother(c, v) ==
    /\ treasures' = With([t \in DOMAIN treasures \ TreasuresAt(c) |-> treasures[t]],
                         nextTreasure, [pos |-> c, value |-> v])
    /\ nextTreasure' = nextTreasure + 1

\* dropTreasureLocked adds to a treasure on the same cell.
DropTreasure(c, v) ==
    \/ \E t \in TreasuresAt(c) :
          /\ treasures' = [treasures EXCEPT ![t].value = @ + v]
          /\ UNCHANGED nextTreasure
    \/ /\ TreasuresAt(c) = {}
       /\ treasures' = With(treasures, nextTreasure, [pos |-> c, value |-> v])
       /\ nextTreasure' = nextTreasure + 1

NPCsInRange(u) ==
    {n \in DOMAIN npcs : Distance(players[u].pos, npcs[n].pos) <= AttackRange}

RivalsInRange(u) ==
    {v \in DOMAIN players \ {u} : /\ players[v].alive
                                  /\ Distance(players[u].pos, players[v].pos) <= AttackRange}

StrikeNPC(u) ==
    LET n == Weakest(NPCsInRange(u), npcs)
    IN  /\ Acts(u)
        /\ NPCsInRange(u) # {}
        /\ npcs[n].hp > players[u].attack
        /\ npcs' = [npcs EXCEPT ![n].hp = @ - players[u].attack]
        /\ Changes(1)
        /\ UNCHANGED <<players, treasures, stock, profiles>> /\ Outside

SlayNPC(u) ==
    LET n == Weakest(NPCsInRange(u), npcs)
    IN  /\ Acts(u)
        /\ NPCsInRange(u) # {}
        /\ npcs[n].hp <= players[u].attack
        /\ npcs' = Without(npcs, n)
        /\ \E v \in Finds : DropTreasure(npcs[n].pos, v)
        /\ Changes(2)
        /\ UNCHANGED <<players, nextNPC, profiles>> /\ Outside

StrikePlayer(u) ==
    LET v == Weakest(RivalsInRange(u), players)
    IN  /\ Acts(u)
        /\ NPCsInRange(u) = {}
        /\ RivalsInRange(u) # {}
        /\ players' = [players EXCEPT ![v] = Hit(@, players[u].attack)]
        /\ Changes(1)
        /\ UNCHANGED <<npcs, treasures, stock, profiles>> /\ Outside

-----------------------------------------------------------------------------
(* bootstrap and BackgroundStep.                                           *)

\* spawnNPCLocked.
SpawnNPC ==
    /\ \E c \in BestSpawnCells({}, TRUE), h \in NPCHPs :
          npcs' = With(npcs, nextNPC, [pos |-> c, hp |-> h])
    /\ nextNPC' = nextNPC + 1
    /\ Changes(1)
    /\ UNCHANGED <<players, treasures, nextTreasure, profiles>> /\ Outside

\* spawnTreasureLocked.
SpawnTreasure ==
    /\ \E c \in BestSpawnCells({}, FALSE), v \in Finds : DropTreasure(c, v)
    /\ Changes(1)
    /\ UNCHANGED <<players, npcs, nextNPC, profiles, cp, restored>>

Goes(to) == mutex' = to

Bootstrap ==
    /\ mutex = "bootstrap"
    /\ \/ Cardinality(DOMAIN npcs) < MinNPCs /\ SpawnNPC
       \/ /\ Cardinality(DOMAIN npcs) >= MinNPCs
          /\ Cardinality(DOMAIN treasures) < MaxTreasures \div 2
          /\ SpawnTreasure
          /\ UNCHANGED <<mutex, turns>>
       \/ /\ Cardinality(DOMAIN npcs) >= MinNPCs
          /\ Cardinality(DOMAIN treasures) >= MaxTreasures \div 2
          /\ Goes("free")
          /\ UNCHANGED <<units, stock, version, turns, profiles, cp, restored>>

\* The tick takes the mutex and has respawned who was due.
TickBegin ==
    /\ Begins
    /\ NobodyDue
    /\ Goes("spawn")
    /\ UNCHANGED <<units, stock, version, turns, profiles, cp, restored>>

TickSpawnNPC ==
    /\ mutex = "spawn"
    /\ Cardinality(DOMAIN npcs) < MinNPCs
    /\ SpawnNPC

\* Enough NPCs, or no room: perhaps a treasure, and the NPCs take turns.
TickTreasure ==
    /\ mutex = "spawn"
    /\ Cardinality(DOMAIN npcs) >= MinNPCs \/ FreeCells({}) = {}
    /\ \/ UNCHANGED <<units, stock, version, profiles, cp, restored>>
       \/ Cardinality(DOMAIN treasures) < MaxTreasures /\ SpawnTreasure
    /\ Goes("npcs")
    /\ turns' = DOMAIN npcs

\* closestPlayerLocked around an NPC.
Victims(n) ==
    {u \in DOMAIN players : /\ players[u].alive
                            /\ Distance(npcs[n].pos, players[u].pos) <= 1}

\* One NPC, in the order of their numbers, strikes or moves.  A random first
\* direction and the others in turn: any free neighbour can be the one.
TickNPC ==
    LET n == Min(turns)
        u == Weakest(Victims(n), players)
        free == {c \in {Neighbour(npcs[n].pos, d) : d \in Directions} :
                    WalkableFor(c, {})}
    IN  /\ mutex = "npcs"
        /\ turns # {}
        /\ NobodyDue
        /\ \/ /\ Victims(n) # {}
              /\ players' = [players EXCEPT ![u] = Hit(@, NPCDamage)]
              /\ Changes(1)
              /\ UNCHANGED npcs
           \/ /\ Victims(n) = {}
              /\ \E c \in free : npcs' = [npcs EXCEPT ![n].pos = c]
              /\ Changes(1)
              /\ UNCHANGED players
           \/ /\ Victims(n) = {} /\ free = {}
              /\ UNCHANGED <<players, npcs, version>>
        /\ turns' = turns \ {n}
        /\ UNCHANGED <<treasures, stock, mutex, profiles, cp, restored>>

TickEnd ==
    /\ mutex = "npcs"
    /\ turns = {}
    /\ Goes("free")
    /\ UNCHANGED <<units, stock, version, turns, profiles, cp, restored>>

-----------------------------------------------------------------------------
(* Checkpoints.                                                            *)

\* What a PlayerView keeps of a player.  It shows the seconds to the respawn
\* too, which no checkpoint restores, and times and tallies nobody acts on.
View(p) == ProfileOf(p, TRUE)

\* Snapshot, Counts and FlushProfiles when nobody is due: they only read.
Snapshot ==
    /\ Idle
    /\ NobodyDue
    /\ UNCHANGED worldVars

\* CaptureCheckpoint, saved.
CaptureCheckpoint ==
    /\ Begins
    /\ NobodyDue
    /\ restored < MaxRestores
    /\ cp' = [players |-> [u \in DOMAIN players |-> View(players[u])],
              npcs |-> npcs, treasures |-> treasures, version |-> version]
    /\ UNCHANGED <<units, stock, version, mutex, turns, profiles, restored>>

\* The player RestoreCheckpoint makes of a view.
PlayerOfView(v) ==
    [pos |-> v.pos, hp |-> v.hp, attack |-> v.attack,
     potions |-> ValueOr(v.potions, MaxPotions),
     purse |-> v.purse, alive |-> v.alive, respawn |-> "none"]

\* A node starts, or is promoted: NewWorld and RestoreCheckpoint of what is
\* stored.  New NPCs and treasures are numbered from the count of old ones.
\* The checkpoint stays stored; after the last restart of the bound nobody
\* reads it again, and the model forgets it.
RestoreCheckpoint ==
    /\ cp # NoCheckpoint
    /\ restored < MaxRestores
    /\ players' = [u \in DOMAIN cp.players |-> PlayerOfView(cp.players[u])]
    /\ npcs' = cp.npcs
    /\ treasures' = cp.treasures
    /\ version' = cp.version
    /\ nextNPC' = Cardinality(DOMAIN cp.npcs) + 1
    /\ nextTreasure' = Cardinality(DOMAIN cp.treasures) + 1
    /\ mutex' = "free" /\ turns' = {}
    /\ restored' = restored + 1
    /\ cp' = IF restored' < MaxRestores THEN cp ELSE NoCheckpoint
    /\ UNCHANGED profiles

-----------------------------------------------------------------------------
TickStep == TickSpawnNPC \/ TickTreasure \/ TickNPC \/ TickEnd

PlayerStep(u) ==
    \/ AddOrRestorePlayer(u)
    \/ \E here \in BOOLEAN : RemovePlayer(u, here)
    \/ \E d \in Directions : MovePlayer(u, d)
    \/ HealPlayer(u) \/ BuyPotion(u) \/ BuyWeapon(u) \/ BuyRefused(u)
    \/ \E delta \in Finds : RewardPlayer(u, delta)
    \/ StrikeNPC(u) \/ SlayNPC(u) \/ StrikePlayer(u)

WorldNext ==
    \/ \E u \in Users : PlayerStep(u) \/ Refresh(u) \/ TimePasses(u)
    \/ Bootstrap
    \/ TickBegin \/ TickStep
    \/ Snapshot \/ CaptureCheckpoint \/ RestoreCheckpoint

\* Time passes, a tick that began ends, and gateways poll Snapshot, which
\* gets the mutex again and again.
WorldFairness ==
    /\ WF_worldVars(TickStep)
    /\ \A u \in Users : /\ WF_worldVars(TimePasses(u))
                        /\ SF_worldVars(Refresh(u))

WorldSpec == WorldInit /\ [][WorldNext]_worldVars

FairWorldSpec == WorldSpec /\ WorldFairness

-----------------------------------------------------------------------------
\* The type invariant: hit points and potions stay within their limits
\* whatever the order of fights, purchases, respawns, logins and restores.
WorldTypeOK ==
    /\ DOMAIN players \subseteq Users
    /\ \A u \in DOMAIN players : players[u] \in Player
    /\ DOMAIN npcs \subseteq Nat /\ \A n \in DOMAIN npcs : npcs[n] \in NPC
    /\ DOMAIN treasures \subseteq Nat
    /\ \A t \in DOMAIN treasures : treasures[t] \in Treasure
    /\ {nextNPC, nextTreasure, version} \subseteq Nat
    /\ mutex \in {"bootstrap", "free", "spawn", "npcs"}
    /\ turns \subseteq DOMAIN npcs
    /\ profiles \in [Users -> Profile]
    /\ restored \in 0..MaxRestores

(***************************************************************************)
(* No two living units share a cell (walkableForLocked, world.go:481),     *)
(* whoever moves, respawns, logs in again over an old entry, is spawned by *)
(* a tick or is restored from a checkpoint.                                *)
(***************************************************************************)
OneUnitPerCell ==
    /\ \A u, v \in DOMAIN players :
          (u # v /\ players[u].alive /\ players[v].alive)
              => players[u].pos # players[v].pos
    /\ \A m, n \in DOMAIN npcs : m # n => npcs[m].pos # npcs[n].pos
    /\ Standing({}) \cap NPCCells = {}

(***************************************************************************)
(* Of two frames of one map and epoch, gateway and client keep the one     *)
(* with the higher version, and either when the versions are equal         *)
(* (stream_sender.go:141, cmd/client/ui.go:53).  So two snapshots of one   *)
(* version must not differ, or an older one could replace a newer one:     *)
(* every step that changes the units a snapshot shows raises the version,  *)
(* unless the node is restarted or replaced.  The exception is the         *)
(* countdown of a downed player (RespawnIn, world.go:445), which runs down *)
(* without a version step and is left out here.                            *)
(***************************************************************************)
ShownUnits == <<[u \in DOMAIN players |-> View(players[u])], npcs, treasures>>

VisibleChangeRaisesVersion ==
    [][RestoreCheckpoint \/ ShownUnits' = ShownUnits \/ version' > version]_worldVars

(***************************************************************************)
(* In a world that was never restored nothing vanishes: a treasure leaves  *)
(* the ground only into the purse of the player who steps on it, and an    *)
(* NPC only by leaving a treasure where it was slain.  A restored world    *)
(* numbers new ones from len + 1 (checkpoint.go:77), which may be the      *)
(* number of a living one: it is overwritten.                              *)
(***************************************************************************)
TreasureKept(t) ==
    \/ /\ t \in DOMAIN treasures'
       /\ treasures'[t].pos = treasures[t].pos
       /\ treasures'[t].value >= treasures[t].value
    \/ \E u \in DOMAIN players \cap DOMAIN players' :
          /\ players'[u].pos = treasures[t].pos
          /\ players'[u].purse = players[u].purse + treasures[t].value

NPCKept(n) ==
    \/ n \in DOMAIN npcs' /\ npcs'[n].hp <= npcs[n].hp
    \/ \E t \in DOMAIN treasures' : treasures'[t].pos = npcs[n].pos

NothingVanishes ==
    [][restored' > 0 \/ (/\ \A t \in DOMAIN treasures : TreasureKept(t)
                     /\ \A n \in DOMAIN npcs : NPCKept(n))]_worldVars

(***************************************************************************)
(* A player who was knocked down comes back (refreshPlayerStateLocked), or *)
(* leaves first: by a logout, or with the world, and then without the      *)
(* respawn time, as EveryDownedPlayerIsDue says.                           *)
(***************************************************************************)
DownedPlayerComesBack ==
    \A u \in Users :
        (u \in DOMAIN players /\ players[u].respawn # "none")
            ~> (u \notin DOMAIN players \/ players[u].respawn = "none")

(***************************************************************************)
(* world.go:185 tells a player who is down in how many seconds he respawns *)
(* ("N seconds until respawn"): whoever is down has a respawn time.        *)
(***************************************************************************)
EveryDownedPlayerIsDue ==
    \A u \in DOMAIN players : players[u].alive \/ players[u].respawn # "none"
=============================================================================
