---------------------------- MODULE WorldProofs ----------------------------
(***************************************************************************)
(* Proofs about World, for any map, any number of players and any rules.   *)
(*                                                                         *)
(* An operation touches the entry of one player or of one NPC.  What it    *)
(* may do to that entry is stated once (PlayerPlaced, NPCPlaced), proved   *)
(* for every operation, and the properties follow from it.                 *)
(***************************************************************************)
EXTENDS World, FiniteSetTheorems, TLAPS

\* The players, NPCs and treasures are tables of their records.
UnitsInv ==
    /\ players \in [DOMAIN players -> Player] /\ DOMAIN players \subseteq Users
    /\ npcs \in [DOMAIN npcs -> NPC] /\ DOMAIN npcs \subseteq Nat
    /\ treasures \in [DOMAIN treasures -> Treasure] /\ DOMAIN treasures \subseteq Nat

\* NPCs are spawned below MinNPCs only, so the tables stay finite.
CountInv ==
    /\ IsFiniteSet(DOMAIN npcs) /\ Cardinality(DOMAIN npcs) <= MinNPCs
    /\ IsFiniteSet(DOMAIN treasures)

\* Turns are taken only while the tick is at the NPCs.
TurnInv ==
    /\ mutex \in {"bootstrap", "free", "spawn", "npcs"}
    /\ turns \subseteq DOMAIN npcs
    /\ mutex # "npcs" => turns = {}

\* A stored checkpoint has tables like those of the world it was taken from.
CheckpointInv ==
    cp # NoCheckpoint =>
        /\ cp.players \in [DOMAIN cp.players -> Profile]
        /\ DOMAIN cp.players \subseteq Users
        /\ cp.npcs \in [DOMAIN cp.npcs -> NPC] /\ DOMAIN cp.npcs \subseteq Nat
        /\ cp.treasures \in [DOMAIN cp.treasures -> Treasure]
        /\ DOMAIN cp.treasures \subseteq Nat
        /\ cp.version \in Nat
        /\ IsFiniteSet(DOMAIN cp.npcs) /\ Cardinality(DOMAIN cp.npcs) <= MinNPCs
        /\ IsFiniteSet(DOMAIN cp.treasures)

\* In a world that was never restored the next numbers are new.
NumbersInv ==
    /\ nextNPC \in Nat /\ nextTreasure \in Nat
    /\ restored = 0 => /\ \A n \in DOMAIN npcs : n < nextNPC
                       /\ \A t \in DOMAIN treasures : t < nextTreasure

WorldInv ==
    /\ UnitsInv /\ CountInv /\ TurnInv /\ CheckpointInv /\ NumbersInv
    /\ version \in Nat /\ restored \in 0..MaxRestores
    /\ profiles \in [Users -> Profile]

\* A unit is put on a free cell, unless there is none.
FreeOrFull(c, ignored) ==
    c \in Open /\ (WalkableFor(c, ignored) \/ FreeCells({}) = {})

\* A step touches one player at most, who leaves, stays where he is or comes
\* to a free cell; nobody gets up where he lies.
PlayerPlaced(u) ==
    /\ players' \in [DOMAIN players' -> Player]
    /\ DOMAIN players' \ {u} = DOMAIN players \ {u}
    /\ \A v \in DOMAIN players \ {u} : players'[v] = players[v]
    /\ u \in DOMAIN players' =>
          \/ FreeOrFull(players'[u].pos, {u})
          \/ /\ u \in DOMAIN players /\ players'[u].pos = players[u].pos
             /\ players'[u].alive => players[u].alive

\* The same of the NPCs.
NPCPlaced(n) ==
    /\ npcs' \in [DOMAIN npcs' -> NPC]
    /\ DOMAIN npcs' \ {n} = DOMAIN npcs \ {n}
    /\ \A k \in DOMAIN npcs \ {n} : npcs'[k] = npcs[k]
    /\ n \in DOMAIN npcs' =>
          \/ WalkableFor(npcs'[n].pos, {})
          \/ n \in DOMAIN npcs /\ npcs'[n].pos = npcs[n].pos

PlayersPlaced == players' = players \/ \E u \in Users : PlayerPlaced(u)

-----------------------------------------------------------------------------
(* The operators.                                                          *)

\* A set of numbers that is not empty has a least one.
LEMMA LeastNumber ==
  ASSUME NEW S \in SUBSET Nat, S # {}
  PROVE  \E x \in S : \A y \in S : x <= y
<1> DEFINE R == {ss \in Nat \X Nat : ss[1] < ss[2]}
<1>1. IsWellFoundedOn(R, Nat)
  BY NatLessThanWellFounded DEF OpToRel
<1>2. PICK x \in S : \A y \in S : <<y, x>> \notin R
  <2> HIDE DEF R
  <2>1. QED
    BY <1>1, WFMin
<1>3. ASSUME NEW y \in S
      PROVE  x <= y
  <2>1. ~(y < x)
    BY <1>2, <<y, x>> \in Nat \X Nat
  <2>2. QED
    BY <2>1
<1>4. QED
  BY <1>3

LEMMA MinIsMember ==
  ASSUME NEW S \in SUBSET Nat, S # {}
  PROVE  Min(S) \in S
  BY LeastNumber DEF Min

\* Weakest of a set of units that is not empty is one of them.
LEMMA WeakestIsMember ==
  ASSUME NEW S \in SUBSET Nat, S # {}, NEW f, \A x \in S : f[x].hp \in Nat
  PROVE  Weakest(S, f) \in S
<1> DEFINE H == {f[x].hp : x \in S}
<1>1. PICK h \in H : \A k \in H : h <= k
  <2>1. H \in SUBSET Nat /\ H # {}
    OBVIOUS
  <2> HIDE DEF H
  <2>2. QED
    BY <2>1, LeastNumber
<1> DEFINE T == {x \in S : f[x].hp = h}
<1>2. PICK x \in T : \A y \in T : x <= y
  <2>1. T \in SUBSET Nat /\ T # {}
    BY <1>1
  <2> HIDE DEF T
  <2>2. QED
    BY <2>1, LeastNumber
<1>3. ASSUME NEW y \in S
      PROVE  f[x].hp < f[y].hp \/ (f[x].hp = f[y].hp /\ x <= y)
  <2>1. f[x].hp = h /\ h <= f[y].hp /\ h \in Nat /\ f[y].hp \in Nat
    BY <1>1, <1>2
  <2>2. f[y].hp = h => x <= y
    BY <1>2
  <2>3. QED
    BY <2>1, <2>2
<1>4. x \in S
  BY <1>2
<1>5. QED
  BY <1>3, <1>4 DEF Weakest

\* A safe position is free, unless no cell is.
LEMMA SafeIsFree ==
  ASSUME NEW wish \in Open, NEW ignored, NEW c \in SafePositions(wish, ignored)
  PROVE  FreeOrFull(c, ignored)
<1>1. FreeCells({}) \subseteq FreeCells(ignored)
  BY DEF FreeCells, WalkableFor, Standing
<1>2. CASE WalkableFor(wish, ignored)
  BY <1>2 DEF SafePositions, FreeOrFull
<1>3. CASE FreeCells(ignored) = {}
  BY <1>1, <1>3, WorldCellAssumption DEF SafePositions, FreeOrFull, FreeCells
<1>4. CASE ~WalkableFor(wish, ignored) /\ FreeCells(ignored) # {}
  BY <1>4 DEF SafePositions, BestSpawnCells, FreeCells, FreeOrFull
<1>5. QED
  BY <1>2, <1>3, <1>4

\* What walks around other players also walks around them all.
LEMMA WalkableForAll ==
  ASSUME NEW c, NEW u, WalkableFor(c, {})
  PROVE  WalkableFor(c, {u})
  BY DEF WalkableFor, Standing

\* The rules as numbers.
LEMMA Rules ==
  /\ InitHP \in Nat /\ InitHP > 0 /\ InitAttack \in Nat /\ NPCDamage \in Nat
  /\ HealAmount \in Nat /\ MaxPotions \in Nat /\ MaxPotions <= PotionCap
  /\ PotionCap \in Nat /\ PotionPrice \in Nat /\ WeaponPrice \in Nat
  /\ WeaponBoost \in Nat /\ MinNPCs \in Nat /\ MaxRestores \in Nat
  /\ Users \subseteq Nat /\ NPCHPs \subseteq Nat \ {0} /\ Finds \subseteq Nat \ {0}
<1> DEFINE N == {InitHP, InitAttack, NPCDamage, HealAmount, MaxPotions,
                 PotionPrice, WeaponPrice, WeaponBoost, SpawnChoices}
<1>1. \A n \in N : n \in Nat \ {0}
  BY WorldRuleAssumption
<1>2. /\ InitHP \in N /\ InitAttack \in N /\ NPCDamage \in N /\ HealAmount \in N
      /\ MaxPotions \in N /\ PotionPrice \in N /\ WeaponPrice \in N
      /\ WeaponBoost \in N
  OBVIOUS
<1> HIDE DEF N
<1>3. QED
  BY <1>1, <1>2, WorldRuleAssumption

\* What is made of players and profiles has the right shape.
LEMMA HitKeepsShape ==
  ASSUME NEW p \in Player, NEW damage \in Nat
  PROVE  /\ Hit(p, damage) \in Player /\ Hit(p, damage).pos = p.pos
         /\ Hit(p, damage).alive => p.alive
<1>1. CASE p.hp > damage
  <2>1. p.hp - damage \in 0..InitHP
    BY <1>1, Rules DEF Player
  <2>2. QED
    BY <1>1, <2>1 DEF Hit, Player
<1>2. CASE ~(p.hp > damage)
  <2>1. 0 \in 0..InitHP
    BY Rules
  <2>2. QED
    BY <1>2, <2>1 DEF Hit, KnockedDown, Player
<1>3. QED
  BY <1>1, <1>2

LEMMA ProfileOfPlayer ==
  ASSUME NEW p \in Player, NEW here \in BOOLEAN
  PROVE  ProfileOf(p, here) \in Profile
  BY DEF ProfileOf, Player, Profile

LEMMA PlayerOfProfile ==
  ASSUME NEW profile \in Profile, NEW c \in Open
  PROVE  PlayerFrom(profile, c) \in Player
<1>1. ValueOr(profile.hp, InitHP) \in 0..InitHP
  BY Rules DEF ValueOr, Profile
<1>2. ValueOr(profile.attack, InitAttack) \in Nat
  BY Rules DEF ValueOr, Profile
<1>3. ValueOr(profile.potions, MaxPotions) \in 0..PotionCap
  BY Rules DEF ValueOr, Profile
<1>4. QED
  BY <1>1, <1>2, <1>3 DEF PlayerFrom, Player, Profile

LEMMA PlayerOfViewShape ==
  ASSUME NEW v \in Profile
  PROVE  PlayerOfView(v) \in Player /\ PlayerOfView(v).pos = v.pos
         /\ PlayerOfView(v).alive = v.alive
<1>1. ValueOr(v.potions, MaxPotions) \in 0..PotionCap
  BY Rules DEF ValueOr, Profile
<1>2. QED
  BY <1>1 DEF PlayerOfView, Player, Profile

-----------------------------------------------------------------------------
(* What the operations do to the players.                                  *)

LEMMA Entry_Placed ==
  ASSUME UnitsInv, NEW u \in DOMAIN players, NEW p \in Player,
         players' = [players EXCEPT ![u] = p],
         \/ FreeOrFull(p.pos, {u})
         \/ p.pos = players[u].pos /\ (p.alive => players[u].alive)
  PROVE  PlayersPlaced
<1>1. u \in Users /\ players \in [DOMAIN players -> Player]
  BY DEF UnitsInv
<1>2. /\ DOMAIN players' = DOMAIN players /\ players'[u] = p
      /\ \A v \in DOMAIN players \ {u} : players'[v] = players[v]
      /\ players' \in [DOMAIN players -> Player]
  BY <1>1
<1>3. PlayerPlaced(u)
  BY <1>2 DEF PlayerPlaced
<1>4. QED
  BY <1>1, <1>3 DEF PlayersPlaced

\* Every operation touches one player at most, or restores a checkpoint.
LEMMA WorldNext_Players ==
  WorldInv /\ [WorldNext]_worldVars => PlayersPlaced \/ RestoreCheckpoint
<1> SUFFICES ASSUME WorldInv, [WorldNext]_worldVars
             PROVE  PlayersPlaced \/ RestoreCheckpoint
  OBVIOUS
<1>t. /\ UnitsInv
      /\ players \in [DOMAIN players -> Player] /\ DOMAIN players \subseteq Users
      /\ treasures \in [DOMAIN treasures -> Treasure]
      /\ profiles \in [Users -> Profile]
  BY DEF WorldInv, UnitsInv
<1> USE <1>t
<1>1. ASSUME NEW u \in Users, TimePasses(u)
      PROVE  PlayersPlaced \/ RestoreCheckpoint
  <2> DEFINE p == [players[u] EXCEPT !.respawn = "due"]
  <2>1. u \in DOMAIN players /\ players' = [players EXCEPT ![u] = p]
    BY <1>1 DEF TimePasses
  <2>2. /\ p \in Player /\ p.pos = players[u].pos
        /\ p.alive => players[u].alive
    BY <1>1 DEF TimePasses, Player
  <2> HIDE DEF p
  <2>3. QED
    BY <2>1, <2>2, Entry_Placed
<1>2. ASSUME NEW u \in Users, Refresh(u)
      PROVE  PlayersPlaced \/ RestoreCheckpoint
  <2>1. PICK c \in SafePositions(Spawn, {u}) :
          players' = [players EXCEPT ![u] =
              [players[u] EXCEPT !.pos = c, !.hp = InitHP, !.alive = TRUE,
                                 !.potions = Larger(@, MaxPotions),
                                 !.respawn = "none"]]
    BY <1>2 DEF Refresh
  <2> DEFINE q == Larger(players[u].potions, MaxPotions)
             p == [players[u] EXCEPT !.pos = c, !.hp = InitHP, !.alive = TRUE,
                                     !.potions = q, !.respawn = "none"]
  <2>2. u \in DOMAIN players /\ players[u] \in Player
    BY <1>2 DEF Refresh
  <2>3. FreeOrFull(c, {u})
    BY SafeIsFree, WorldCellAssumption
  <2>4. q \in 0..PotionCap
    BY <2>2, Rules DEF Larger, Player
  <2>5. players' = [players EXCEPT ![u] = p]
    BY <2>1, <2>2 DEF Player
  <2> HIDE DEF q
  <2>6. p \in Player /\ p.pos = c
    <3>1. InitHP \in 0..InitHP
      BY Rules
    <3>2. c \in Open
      BY <2>3 DEF FreeOrFull
    <3>3. QED
      BY <2>2, <2>4, <3>1, <3>2 DEF Player
  <2> HIDE DEF p
  <2>7. QED
    BY <2>2, <2>3, <2>5, <2>6, Entry_Placed
<1>3. ASSUME NEW u \in Users, AddOrRestorePlayer(u)
      PROVE  PlayersPlaced \/ RestoreCheckpoint
  <2> DEFINE profile == profiles[u]
             wish == IF profile.here THEN profile.pos ELSE Spawn
  <2>1. PICK c \in SafePositions(wish, {}) :
          players' = With(players, u, PlayerFrom(profile, c))
    BY <1>3 DEF AddOrRestorePlayer, Authenticate
  <2>2. profile \in Profile /\ wish \in Open
    BY WorldCellAssumption DEF Profile
  <2>3. FreeOrFull(c, {})
    BY <2>2, SafeIsFree
  <2>4. FreeOrFull(c, {u}) /\ c \in Open
    BY <2>3, WalkableForAll DEF FreeOrFull
  <2> DEFINE p == PlayerFrom(profile, c)
  <2>5. p \in Player /\ p.pos = c
    BY <2>2, <2>4, PlayerOfProfile DEF PlayerFrom
  <2> HIDE DEF p
  <2>6. /\ DOMAIN players' = DOMAIN players \cup {u} /\ players'[u] = p
        /\ \A x \in DOMAIN players \ {u} : players'[x] = players[x]
        /\ players' = [x \in DOMAIN players' |-> players'[x]]
    BY <2>1 DEF p, With
  <2>7. PlayerPlaced(u)
    BY <2>4, <2>5, <2>6 DEF PlayerPlaced
  <2>8. QED
    BY <2>7 DEF PlayersPlaced
<1>4. ASSUME NEW u \in Users, NEW here \in BOOLEAN, RemovePlayer(u, here)
      PROVE  PlayersPlaced \/ RestoreCheckpoint
  <2>1. players' = Without(players, u)
    BY <1>4 DEF RemovePlayer
  <2>2. /\ DOMAIN players' = DOMAIN players \ {u}
        /\ \A x \in DOMAIN players \ {u} : players'[x] = players[x]
        /\ players' = [x \in DOMAIN players' |-> players'[x]]
    BY <2>1 DEF Without
  <2>3. PlayerPlaced(u)
    BY <2>2 DEF PlayerPlaced
  <2>4. QED
    BY <2>3 DEF PlayersPlaced
<1>5. ASSUME NEW u \in Users, NEW d \in Directions, MovePlayer(u, d)
      PROVE  PlayersPlaced \/ RestoreCheckpoint
  <2> DEFINE c == Neighbour(players[u].pos, d)
  <2>1. u \in DOMAIN players /\ WalkableFor(c, {u})
    BY <1>5 DEF MovePlayer, Acts
  <2>2. players[u] \in Player /\ FreeOrFull(c, {u})
    BY <2>1 DEF FreeOrFull, WalkableFor
  <2> HIDE DEF c
  <2>3. CASE players' = [players EXCEPT ![u].pos = c]
    <3> DEFINE p == [players[u] EXCEPT !.pos = c]
    <3>1. players' = [players EXCEPT ![u] = p]
      BY <2>3
    <3>2. p \in Player /\ p.pos = c
      BY <2>2 DEF Player, FreeOrFull
    <3> HIDE DEF p
    <3>3. QED
      BY <2>1, <2>2, <3>1, <3>2, Entry_Placed
  <2>4. ASSUME NEW t \in DOMAIN treasures,
               players' = [players EXCEPT ![u].pos = c,
                                          ![u].purse = @ + treasures[t].value]
        PROVE  PlayersPlaced
    <3> DEFINE p == [players[u] EXCEPT !.pos = c,
                                       !.purse = @ + treasures[t].value]
    <3>1. players' = [players EXCEPT ![u] = p]
      BY <2>1, <2>2, <2>4 DEF Player
    <3>2. players[u].purse + treasures[t].value \in Nat
      BY <2>2 DEF Player, Treasure
    <3>3. p \in Player /\ p.pos = c
      BY <2>2, <3>2 DEF Player, FreeOrFull
    <3> HIDE DEF p
    <3>4. QED
      BY <2>1, <2>2, <3>1, <3>3, Entry_Placed
  <2>5. QED
    BY <1>5, <2>3, <2>4 DEF MovePlayer, TreasuresAt, c
<1>6. ASSUME NEW u \in Users, HealPlayer(u)
      PROVE  PlayersPlaced \/ RestoreCheckpoint
  <2> DEFINE p == [players[u] EXCEPT !.potions = @ - 1, !.hp = Healed(@)]
  <2>1. u \in DOMAIN players /\ players' = [players EXCEPT ![u] = p]
    BY <1>6 DEF HealPlayer, Acts
  <2>2. /\ p \in Player /\ p.pos = players[u].pos
        /\ p.alive => players[u].alive
    <3>1. players[u] \in Player
      BY <2>1
    <3>2. Healed(players[u].hp) \in 0..InitHP
      BY <3>1, Rules DEF Healed, Player
    <3>3. players[u].potions - 1 \in 0..PotionCap
      BY <1>6, <3>1, Rules DEF HealPlayer, Player
    <3>4. QED
      BY <3>1, <3>2, <3>3 DEF Player
  <2> HIDE DEF p
  <2>3. QED
    BY <2>1, <2>2, Entry_Placed
<1>7. ASSUME NEW u \in Users, BuyPotion(u)
      PROVE  PlayersPlaced \/ RestoreCheckpoint
  <2> DEFINE p == [players[u] EXCEPT !.purse = @ - PotionPrice, !.potions = @ + 1]
  <2>1. u \in DOMAIN players /\ players' = [players EXCEPT ![u] = p]
    BY <1>7 DEF BuyPotion, Acts
  <2>2. /\ p \in Player /\ p.pos = players[u].pos
        /\ p.alive => players[u].alive
    <3>1. players[u] \in Player
      BY <2>1
    <3>2. players[u].purse - PotionPrice \in Nat
      BY <1>7, <3>1, Rules DEF BuyPotion, Player
    <3>3. players[u].potions + 1 \in 0..PotionCap
      BY <1>7, <3>1, Rules DEF BuyPotion, Player
    <3>4. QED
      BY <3>1, <3>2, <3>3 DEF Player
  <2> HIDE DEF p
  <2>3. QED
    BY <2>1, <2>2, Entry_Placed
<1>8. ASSUME NEW u \in Users, BuyWeapon(u)
      PROVE  PlayersPlaced \/ RestoreCheckpoint
  <2> DEFINE p == [players[u] EXCEPT !.purse = @ - WeaponPrice,
                                     !.attack = @ + WeaponBoost]
  <2>1. u \in DOMAIN players /\ players' = [players EXCEPT ![u] = p]
    BY <1>8 DEF BuyWeapon, Acts
  <2>2. /\ p \in Player /\ p.pos = players[u].pos
        /\ p.alive => players[u].alive
    <3>1. players[u] \in Player
      BY <2>1
    <3>2. players[u].purse - WeaponPrice \in Nat
      BY <1>8, <3>1, Rules DEF BuyWeapon, Player
    <3>3. players[u].attack + WeaponBoost \in Nat
      BY <3>1, Rules DEF Player
    <3>4. QED
      BY <3>1, <3>2, <3>3 DEF Player
  <2> HIDE DEF p
  <2>3. QED
    BY <2>1, <2>2, Entry_Placed
<1>9. ASSUME NEW u \in Users, NEW delta \in Finds, RewardPlayer(u, delta)
      PROVE  PlayersPlaced \/ RestoreCheckpoint
  <2> DEFINE p == [players[u] EXCEPT !.purse = @ + delta]
  <2>1. u \in DOMAIN players /\ players' = [players EXCEPT ![u] = p]
    BY <1>9 DEF RewardPlayer
  <2>2. /\ p \in Player /\ p.pos = players[u].pos
        /\ p.alive => players[u].alive
    <3>1. players[u] \in Player
      BY <2>1
    <3>2. players[u].purse + delta \in Nat
      BY <3>1, Rules DEF Player
    <3>3. QED
      BY <3>1, <3>2 DEF Player
  <2> HIDE DEF p
  <2>3. QED
    BY <2>1, <2>2, Entry_Placed
<1>10. ASSUME NEW u \in Users, StrikePlayer(u)
      PROVE  PlayersPlaced \/ RestoreCheckpoint
  <2> DEFINE v == Weakest(RivalsInRange(u), players)
             p == Hit(players[v], players[u].attack)
  <2>1. RivalsInRange(u) \in SUBSET Nat /\ RivalsInRange(u) # {}
    BY <1>10, Rules DEF StrikePlayer, RivalsInRange
  <2>2. \A x \in RivalsInRange(u) : x \in DOMAIN players /\ players[x].hp \in Nat
    BY Rules DEF RivalsInRange, Player
  <2>3. v \in DOMAIN players
    BY <2>1, <2>2, WeakestIsMember
  <2>4. players' = [players EXCEPT ![v] = p]
    BY <1>10, <2>3 DEF StrikePlayer
  <2>5. players[v] \in Player /\ players[u].attack \in Nat
    BY <1>10, <2>3 DEF StrikePlayer, Acts, Player
  <2> HIDE DEF v
  <2>6. p \in Player /\ p.pos = players[v].pos /\ (p.alive => players[v].alive)
    BY <2>5, HitKeepsShape
  <2> HIDE DEF p
  <2>7. QED
    BY <2>3, <2>4, <2>6, Entry_Placed
<1>11. ASSUME TickNPC
      PROVE  PlayersPlaced \/ RestoreCheckpoint
  <2> DEFINE n == Min(turns)
             v == Weakest(Victims(n), players)
             p == Hit(players[v], NPCDamage)
  <2>1. CASE players' = players
    BY <2>1 DEF PlayersPlaced
  <2>2. CASE Victims(n) # {} /\ players' = [players EXCEPT ![v] = Hit(@, NPCDamage)]
    <3>1. Victims(n) \in SUBSET Nat
      BY Rules DEF Victims
    <3>2. \A x \in Victims(n) : x \in DOMAIN players /\ players[x].hp \in Nat
      BY Rules DEF Victims, Player
    <3>3. v \in DOMAIN players
      BY <2>2, <3>1, <3>2, WeakestIsMember
    <3> HIDE DEF v
    <3>4. players' = [players EXCEPT ![v] = p]
      BY <2>2, <3>3
    <3>5. p \in Player /\ p.pos = players[v].pos /\ (p.alive => players[v].alive)
      BY <3>3, HitKeepsShape, Rules
    <3> HIDE DEF p
    <3>6. QED
      BY <3>3, <3>4, <3>5, Entry_Placed
  <2>3. QED
    BY <1>11, <2>1, <2>2 DEF TickNPC
<1>12. ASSUME RestoreCheckpoint
      PROVE  PlayersPlaced \/ RestoreCheckpoint
  BY <1>12
<1>13. CASE UNCHANGED players
  BY <1>13 DEF PlayersPlaced
<1>14. ASSUME NEW u \in Users, PlayerStep(u) \/ Refresh(u) \/ TimePasses(u)
      PROVE  PlayersPlaced \/ RestoreCheckpoint
  BY <1>14, <1>1, <1>2, <1>3, <1>4, <1>5, <1>6, <1>7, <1>8, <1>9, <1>10, <1>13
  DEF PlayerStep, worldVars, units, stock, Outside, Changes, Goes, BuyRefused,
      StrikeNPC, SlayNPC
<1>15. ASSUME \/ Bootstrap \/ TickBegin \/ TickStep \/ Snapshot
             \/ CaptureCheckpoint \/ RestoreCheckpoint
      PROVE  PlayersPlaced \/ RestoreCheckpoint
  BY <1>15, <1>11, <1>12, <1>13
  DEF TickStep, worldVars, units, stock, Outside, Changes, Goes, Bootstrap,
      SpawnNPC, SpawnTreasure, TickBegin, TickSpawnNPC, TickTreasure, TickEnd,
      Snapshot, CaptureCheckpoint
<1>16. QED
  BY <1>13, <1>14, <1>15
  DEF WorldNext, worldVars, units, stock

\* Every operation touches one NPC at most, and adds one only below MinNPCs.
NPCsStep ==
    \/ npcs' = npcs
    \/ \E n \in Nat : /\ NPCPlaced(n)
                      /\ \/ DOMAIN npcs' \subseteq DOMAIN npcs
                         \/ /\ n = nextNPC /\ nextNPC' = nextNPC + 1
                            /\ Cardinality(DOMAIN npcs) < MinNPCs
                            /\ DOMAIN npcs' = DOMAIN npcs \cup {n}

LEMMA SpawnNPC_Placed ==
  ASSUME WorldInv, SpawnNPC, Cardinality(DOMAIN npcs) < MinNPCs
  PROVE  NPCsStep
<1>1. PICK c \in BestSpawnCells({}, TRUE), h \in NPCHPs :
          npcs' = With(npcs, nextNPC, [pos |-> c, hp |-> h])
  BY DEF SpawnNPC
<1>2. c \in Open /\ WalkableFor(c, {})
  BY DEF BestSpawnCells, FreeCells
<1> DEFINE r == [pos |-> c, hp |-> h]
<1>3. r \in NPC /\ r.pos = c
  BY <1>2, Rules DEF NPC
<1> HIDE DEF r
<1>4. /\ DOMAIN npcs' = DOMAIN npcs \cup {nextNPC} /\ npcs'[nextNPC] = r
      /\ \A x \in DOMAIN npcs \ {nextNPC} : npcs'[x] = npcs[x]
      /\ npcs' = [x \in DOMAIN npcs' |-> npcs'[x]]
  BY <1>1 DEF r, With
<1>5. npcs \in [DOMAIN npcs -> NPC] /\ nextNPC \in Nat
  BY DEF WorldInv, UnitsInv, NumbersInv
<1>6. NPCPlaced(nextNPC)
  BY <1>2, <1>3, <1>4, <1>5 DEF NPCPlaced
<1>7. QED
  BY <1>4, <1>5, <1>6 DEF NPCsStep, SpawnNPC

LEMMA WorldNext_NPCs ==
  WorldInv /\ [WorldNext]_worldVars => NPCsStep \/ RestoreCheckpoint
<1> SUFFICES ASSUME WorldInv, [WorldNext]_worldVars
             PROVE  NPCsStep \/ RestoreCheckpoint
  OBVIOUS
<1>t. /\ players \in [DOMAIN players -> Player]
      /\ npcs \in [DOMAIN npcs -> NPC] /\ DOMAIN npcs \subseteq Nat
      /\ turns \subseteq DOMAIN npcs
  BY DEF WorldInv, UnitsInv, TurnInv
<1> USE <1>t
<1>1. ASSUME NEW u \in Users, StrikeNPC(u)
      PROVE  NPCsStep \/ RestoreCheckpoint
  <2> DEFINE n == Weakest(NPCsInRange(u), npcs)
             r == [npcs[n] EXCEPT !.hp = @ - players[u].attack]
  <2>1. u \in DOMAIN players /\ players[u].attack \in Nat
    BY <1>1 DEF StrikeNPC, Acts, Player
  <2>2. n \in NPCsInRange(u)
    <3>1. NPCsInRange(u) \in SUBSET Nat /\ NPCsInRange(u) # {}
      BY <1>1 DEF StrikeNPC, NPCsInRange
    <3>2. \A x \in NPCsInRange(u) : npcs[x].hp \in Nat
      BY DEF NPCsInRange, NPC
    <3>3. QED
      BY <3>1, <3>2, WeakestIsMember
  <2>3. n \in DOMAIN npcs /\ n \in Nat /\ npcs[n] \in NPC
    BY <2>2 DEF NPCsInRange
  <2>4. npcs' = [npcs EXCEPT ![n] = r] /\ npcs[n].hp > players[u].attack
    BY <1>1, <2>3 DEF StrikeNPC
  <2> HIDE DEF n
  <2>5. npcs[n].hp - players[u].attack \in Nat \ {0}
    BY <2>1, <2>3, <2>4 DEF NPC
  <2>6. r \in NPC /\ r.pos = npcs[n].pos
    BY <2>3, <2>5 DEF NPC
  <2> HIDE DEF r
  <2>7. NPCPlaced(n) /\ DOMAIN npcs' = DOMAIN npcs
    BY <2>3, <2>4, <2>6 DEF NPCPlaced
  <2>8. QED
    BY <2>3, <2>7 DEF NPCsStep
<1>2. ASSUME NEW u \in Users, SlayNPC(u)
      PROVE  NPCsStep \/ RestoreCheckpoint
  <2> DEFINE n == Weakest(NPCsInRange(u), npcs)
  <2>1. n \in NPCsInRange(u)
    <3>1. NPCsInRange(u) \in SUBSET Nat /\ NPCsInRange(u) # {}
      BY <1>2 DEF SlayNPC, NPCsInRange
    <3>2. \A x \in NPCsInRange(u) : npcs[x].hp \in Nat
      BY DEF NPCsInRange, NPC
    <3>3. QED
      BY <3>1, <3>2, WeakestIsMember
  <2>2. n \in Nat /\ npcs' = Without(npcs, n)
    BY <1>2, <2>1 DEF SlayNPC, NPCsInRange
  <2> HIDE DEF n
  <2>3. /\ DOMAIN npcs' = DOMAIN npcs \ {n}
        /\ \A x \in DOMAIN npcs \ {n} : npcs'[x] = npcs[x]
        /\ npcs' = [x \in DOMAIN npcs' |-> npcs'[x]]
    BY <2>2 DEF Without
  <2>4. NPCPlaced(n)
    BY <2>3 DEF NPCPlaced
  <2>5. QED
    BY <2>2, <2>3, <2>4 DEF NPCsStep
<1>3. ASSUME Bootstrap
      PROVE  NPCsStep \/ RestoreCheckpoint
  <2>1. CASE SpawnNPC /\ Cardinality(DOMAIN npcs) < MinNPCs
    BY <2>1, SpawnNPC_Placed
  <2>2. CASE npcs' = npcs
    BY <2>2 DEF NPCsStep
  <2>3. QED
    BY <1>3, <2>1, <2>2 DEF Bootstrap, SpawnTreasure, units
<1>4. ASSUME TickSpawnNPC
      PROVE  NPCsStep \/ RestoreCheckpoint
  BY <1>4, SpawnNPC_Placed DEF TickSpawnNPC
<1>5. ASSUME TickNPC
      PROVE  NPCsStep \/ RestoreCheckpoint
  <2> DEFINE n == Min(turns)
  <2>1. n \in DOMAIN npcs /\ n \in Nat
    BY <1>5, MinIsMember DEF TickNPC, TurnInv
  <2>2. CASE npcs' = npcs
    BY <2>2 DEF NPCsStep
  <2>3. ASSUME NEW c, WalkableFor(c, {}), npcs' = [npcs EXCEPT ![n].pos = c]
        PROVE  NPCsStep
    <3> HIDE DEF n
    <3> DEFINE r == [npcs[n] EXCEPT !.pos = c]
    <3>1. npcs' = [npcs EXCEPT ![n] = r]
      BY <2>3
    <3>2. r \in NPC /\ r.pos = c
      BY <2>1, <2>3 DEF NPC, WalkableFor
    <3> HIDE DEF r
    <3>3. NPCPlaced(n) /\ DOMAIN npcs' = DOMAIN npcs
      BY <2>1, <2>3, <3>1, <3>2 DEF NPCPlaced
    <3>4. QED
      BY <2>1, <3>3 DEF NPCsStep
  <2>4. QED
    BY <1>5, <2>2, <2>3 DEF TickNPC
<1>6. ASSUME RestoreCheckpoint
      PROVE  NPCsStep \/ RestoreCheckpoint
  BY <1>6
<1>7. CASE UNCHANGED npcs
  BY <1>7 DEF NPCsStep
<1>8. ASSUME NEW u \in Users, PlayerStep(u) \/ Refresh(u) \/ TimePasses(u)
      PROVE  NPCsStep \/ RestoreCheckpoint
  BY <1>8, <1>1, <1>2, <1>7
  DEF PlayerStep, worldVars, units, stock, Outside, Changes, Goes, TimePasses,
      Refresh, AddOrRestorePlayer, RemovePlayer, MovePlayer, HealPlayer,
      BuyPotion, BuyWeapon, BuyRefused, RewardPlayer, StrikePlayer
<1>9. ASSUME \/ Bootstrap \/ TickBegin \/ TickStep \/ Snapshot
             \/ CaptureCheckpoint \/ RestoreCheckpoint
      PROVE  NPCsStep \/ RestoreCheckpoint
  BY <1>9, <1>3, <1>4, <1>5, <1>6, <1>7
  DEF TickStep, worldVars, units, stock, Outside, Changes, Goes, TickBegin,
      TickTreasure, SpawnTreasure, TickEnd, Snapshot, CaptureCheckpoint
<1>10. QED
  BY <1>7, <1>8, <1>9
  DEF WorldNext, worldVars, units, stock

-----------------------------------------------------------------------------
(* What the operations do to the treasures.                                *)

\* The treasures remain a finite table, numbered below the next number, and
\* what is no longer on the ground was taken.
TreasuresStep ==
    /\ treasures' \in [DOMAIN treasures' -> Treasure]
    /\ DOMAIN treasures' \subseteq Nat /\ IsFiniteSet(DOMAIN treasures')
    /\ nextTreasure' \in Nat
    /\ restored = 0 => /\ \A t \in DOMAIN treasures' : t < nextTreasure'
                       /\ \A t \in DOMAIN treasures : TreasureKept(t)

\* The weakest NPC in range is an NPC.
LEMMA Target_IsNPC ==
  ASSUME UnitsInv, NEW u, NPCsInRange(u) # {}
  PROVE  Weakest(NPCsInRange(u), npcs) \in DOMAIN npcs
<1>1. NPCsInRange(u) \in SUBSET DOMAIN npcs /\ NPCsInRange(u) \in SUBSET Nat
  BY DEF NPCsInRange, UnitsInv
<1>2. \A x \in NPCsInRange(u) : npcs[x].hp \in Nat
  BY <1>1 DEF UnitsInv, NPC
<1>3. QED
  BY <1>1, <1>2, WeakestIsMember

LEMMA Treasures_Same ==
  ASSUME WorldInv, UNCHANGED <<treasures, nextTreasure>>
  PROVE  TreasuresStep
<1>1. /\ treasures \in [DOMAIN treasures -> Treasure]
      /\ DOMAIN treasures \subseteq Nat /\ IsFiniteSet(DOMAIN treasures)
      /\ nextTreasure \in Nat
      /\ restored = 0 => \A t \in DOMAIN treasures : t < nextTreasure
  BY DEF WorldInv, UnitsInv, CountInv, NumbersInv
<1>2. \A t \in DOMAIN treasures : TreasureKept(t)
  BY <1>1 DEF TreasureKept, Treasure
<1>3. QED
  BY <1>1, <1>2 DEF TreasuresStep

\* A dropped treasure lies where it fell and the others remain.
LEMMA DropTreasure_Treasures ==
  ASSUME WorldInv, NEW c \in Open, NEW v \in Finds, DropTreasure(c, v)
  PROVE  TreasuresStep /\ \E t \in DOMAIN treasures' : treasures'[t].pos = c
<1>1. /\ treasures \in [DOMAIN treasures -> Treasure]
      /\ DOMAIN treasures \subseteq Nat /\ IsFiniteSet(DOMAIN treasures)
      /\ nextTreasure \in Nat
      /\ restored = 0 => \A t \in DOMAIN treasures : t < nextTreasure
      /\ v \in Nat \ {0}
  BY Rules DEF WorldInv, UnitsInv, CountInv, NumbersInv
<1> USE <1>1
<1>2. ASSUME NEW t \in TreasuresAt(c),
             treasures' = [treasures EXCEPT ![t].value = @ + v],
             UNCHANGED nextTreasure
      PROVE  TreasuresStep /\ \E x \in DOMAIN treasures' : treasures'[x].pos = c
  <2> DEFINE r == [treasures[t] EXCEPT !.value = @ + v]
  <2>1. t \in DOMAIN treasures /\ treasures[t].pos = c /\ treasures[t] \in Treasure
    BY <1>2 DEF TreasuresAt
  <2>2. treasures' = [treasures EXCEPT ![t] = r]
    BY <1>2
  <2>3. r \in Treasure /\ r.pos = c /\ r.value >= treasures[t].value
    BY <2>1 DEF Treasure
  <2> HIDE DEF r
  <2>4. /\ DOMAIN treasures' = DOMAIN treasures /\ treasures'[t] = r
        /\ \A x \in DOMAIN treasures \ {t} : treasures'[x] = treasures[x]
        /\ treasures' \in [DOMAIN treasures -> Treasure]
    BY <2>1, <2>2, <2>3
  <2>5. ASSUME NEW x \in DOMAIN treasures
        PROVE  TreasureKept(x)
    <3>1. CASE x = t
      BY <2>1, <2>3, <2>4, <3>1 DEF TreasureKept
    <3>2. CASE x # t
      BY <2>4, <3>2 DEF TreasureKept, Treasure
    <3>3. QED
      BY <3>1, <3>2
  <2>6. TreasuresStep
    BY <1>2, <2>4, <2>5 DEF TreasuresStep
  <2>7. QED
    BY <2>1, <2>3, <2>4, <2>6
<1>3. ASSUME treasures' = With(treasures, nextTreasure, [pos |-> c, value |-> v]),
             nextTreasure' = nextTreasure + 1
      PROVE  TreasuresStep /\ \E x \in DOMAIN treasures' : treasures'[x].pos = c
  <2> DEFINE r == [pos |-> c, value |-> v]
  <2>1. r \in Treasure /\ r.pos = c
    BY DEF Treasure
  <2> HIDE DEF r
  <2>2. /\ DOMAIN treasures' = DOMAIN treasures \cup {nextTreasure}
        /\ treasures'[nextTreasure] = r
        /\ \A x \in DOMAIN treasures \ {nextTreasure} : treasures'[x] = treasures[x]
        /\ treasures' = [x \in DOMAIN treasures' |-> treasures'[x]]
    BY <1>3 DEF With, r
  <2>3. treasures' \in [DOMAIN treasures' -> Treasure]
    BY <2>1, <2>2
  <2>4. IsFiniteSet(DOMAIN treasures')
    BY <2>2, FS_AddElement
  <2>5. restored = 0 => \A x \in DOMAIN treasures : TreasureKept(x)
    <3>1. restored = 0 => nextTreasure \notin DOMAIN treasures
      OBVIOUS
    <3>2. QED
      BY <2>2, <3>1 DEF TreasureKept, Treasure
  <2>6. restored = 0 => \A x \in DOMAIN treasures' : x < nextTreasure'
    BY <1>3, <2>2
  <2>7. TreasuresStep
    BY <1>3, <2>2, <2>3, <2>4, <2>5, <2>6 DEF TreasuresStep
  <2>8. QED
    BY <2>1, <2>2, <2>7
<1>4. QED
  BY <1>2, <1>3 DEF DropTreasure

LEMMA SpawnTreasure_Treasures ==
  ASSUME WorldInv, SpawnTreasure
  PROVE  TreasuresStep
<1>1. PICK c \in BestSpawnCells({}, FALSE), v \in Finds : DropTreasure(c, v)
  BY DEF SpawnTreasure
<1>2. c \in Open
  BY DEF BestSpawnCells, FreeCells
<1>3. QED
  BY <1>1, <1>2, DropTreasure_Treasures

LEMMA WorldNext_Treasures ==
  WorldInv /\ [WorldNext]_worldVars => TreasuresStep \/ RestoreCheckpoint
<1> SUFFICES ASSUME WorldInv, [WorldNext]_worldVars
             PROVE  TreasuresStep \/ RestoreCheckpoint
  OBVIOUS
<1>t. /\ UnitsInv /\ players \in [DOMAIN players -> Player]
      /\ npcs \in [DOMAIN npcs -> NPC]
      /\ treasures \in [DOMAIN treasures -> Treasure]
      /\ DOMAIN treasures \subseteq Nat /\ IsFiniteSet(DOMAIN treasures)
      /\ nextTreasure \in Nat
      /\ restored = 0 => \A t \in DOMAIN treasures : t < nextTreasure
  BY DEF WorldInv, UnitsInv, CountInv, NumbersInv
<1> USE <1>t
<1>1. ASSUME NEW u \in Users, NEW d \in Directions, MovePlayer(u, d)
      PROVE  TreasuresStep \/ RestoreCheckpoint
  <2>1. CASE UNCHANGED treasures
    BY <1>1, <2>1, Treasures_Same DEF MovePlayer, stock
  <2>2. ASSUME NEW t \in TreasuresAt(Neighbour(players[u].pos, d)),
               players' = [players EXCEPT ![u].pos = Neighbour(players[u].pos, d),
                                          ![u].purse = @ + treasures[t].value],
               treasures' = Without(treasures, t)
        PROVE  TreasuresStep
    <3> DEFINE c == Neighbour(players[u].pos, d)
    <3>1. t \in DOMAIN treasures /\ treasures[t].pos = c
      BY <2>2 DEF TreasuresAt
    <3>2. u \in DOMAIN players /\ nextTreasure' = nextTreasure
      BY <1>1 DEF MovePlayer, Acts, stock
    <3>3. players[u] \in Player
      BY <3>2
    <3> HIDE DEF c
    <3>4. /\ u \in DOMAIN players'
          /\ players'[u].pos = c
          /\ players'[u].purse = players[u].purse + treasures[t].value
      BY <2>2, <3>2, <3>3 DEF Player, c
    <3>5. TreasureKept(t)
      BY <3>1, <3>2, <3>4 DEF TreasureKept
    <3>6. /\ DOMAIN treasures' = DOMAIN treasures \ {t}
          /\ \A x \in DOMAIN treasures \ {t} : treasures'[x] = treasures[x]
          /\ treasures' = [x \in DOMAIN treasures' |-> treasures'[x]]
      BY <2>2 DEF Without
    <3>7. ASSUME NEW x \in DOMAIN treasures
          PROVE  TreasureKept(x)
      <4>1. CASE x # t
        BY <4>1, <3>6 DEF TreasureKept, Treasure
      <4>2. QED
        BY <4>1, <3>5
    <3>8. IsFiniteSet(DOMAIN treasures')
      BY <3>6, FS_RemoveElement
    <3>9. treasures' \in [DOMAIN treasures' -> Treasure]
      BY <3>6
    <3>10. QED
      BY <3>2, <3>6, <3>7, <3>8, <3>9 DEF TreasuresStep
  <2>3. QED
    BY <1>1, <2>1, <2>2 DEF MovePlayer
<1>2. ASSUME NEW u \in Users, SlayNPC(u)
      PROVE  TreasuresStep \/ RestoreCheckpoint
  <2> DEFINE n == Weakest(NPCsInRange(u), npcs)
  <2>1. n \in DOMAIN npcs
    BY <1>2, Target_IsNPC DEF SlayNPC
  <2>2. npcs[n].pos \in Open
    BY <2>1 DEF NPC
  <2> HIDE DEF n
  <2>3. QED
    BY <1>2, <2>2, DropTreasure_Treasures DEF SlayNPC, n
<1>3. ASSUME Bootstrap
      PROVE  TreasuresStep \/ RestoreCheckpoint
  <2>1. CASE SpawnTreasure
    BY <2>1, SpawnTreasure_Treasures
  <2>2. CASE UNCHANGED <<treasures, nextTreasure>>
    BY <2>2, Treasures_Same
  <2>3. QED
    BY <1>3, <2>1, <2>2 DEF Bootstrap, SpawnNPC, units, stock
<1>4. ASSUME TickTreasure
      PROVE  TreasuresStep \/ RestoreCheckpoint
  <2>1. CASE SpawnTreasure
    BY <2>1, SpawnTreasure_Treasures
  <2>2. CASE UNCHANGED <<treasures, nextTreasure>>
    BY <2>2, Treasures_Same
  <2>3. QED
    BY <1>4, <2>1, <2>2 DEF TickTreasure, units, stock
<1>5. ASSUME RestoreCheckpoint
      PROVE  TreasuresStep \/ RestoreCheckpoint
  BY <1>5
<1>6. CASE UNCHANGED <<treasures, nextTreasure>>
  BY <1>6, Treasures_Same
<1>7. ASSUME NEW u \in Users, PlayerStep(u) \/ Refresh(u) \/ TimePasses(u)
      PROVE  TreasuresStep \/ RestoreCheckpoint
  BY <1>7, <1>1, <1>2, <1>6
  DEF PlayerStep, worldVars, units, stock, Outside, Changes, Goes, TimePasses,
      Refresh, AddOrRestorePlayer, RemovePlayer, HealPlayer, BuyPotion,
      BuyWeapon, BuyRefused, RewardPlayer, StrikeNPC, StrikePlayer
<1>8. ASSUME \/ Bootstrap \/ TickBegin \/ TickStep \/ Snapshot
             \/ CaptureCheckpoint \/ RestoreCheckpoint
      PROVE  TreasuresStep \/ RestoreCheckpoint
  BY <1>8, <1>3, <1>4, <1>5, <1>6
  DEF TickStep, worldVars, units, stock, Outside, Changes, Goes, TickBegin,
      TickSpawnNPC, SpawnNPC, TickNPC, TickEnd, Snapshot, CaptureCheckpoint
<1>9. QED
  BY <1>6, <1>7, <1>8
  DEF WorldNext, worldVars, units, stock

-----------------------------------------------------------------------------
(* The inductive invariant.                                                *)

LEMMA Restore_Units ==
  ASSUME WorldInv, RestoreCheckpoint
  PROVE  UnitsInv' /\ CountInv' /\ NumbersInv' /\ version' \in Nat
<1>1. /\ cp # NoCheckpoint /\ restored' = restored + 1 /\ restored \in Nat
      /\ players' = [u \in DOMAIN cp.players |-> PlayerOfView(cp.players[u])]
      /\ npcs' = cp.npcs /\ treasures' = cp.treasures /\ version' = cp.version
      /\ nextNPC' = Cardinality(DOMAIN cp.npcs) + 1
      /\ nextTreasure' = Cardinality(DOMAIN cp.treasures) + 1
  BY DEF RestoreCheckpoint, WorldInv
<1>2. /\ cp.players \in [DOMAIN cp.players -> Profile]
      /\ DOMAIN cp.players \subseteq Users
      /\ cp.npcs \in [DOMAIN cp.npcs -> NPC] /\ DOMAIN cp.npcs \subseteq Nat
      /\ cp.treasures \in [DOMAIN cp.treasures -> Treasure]
      /\ DOMAIN cp.treasures \subseteq Nat
      /\ cp.version \in Nat
      /\ IsFiniteSet(DOMAIN cp.npcs) /\ Cardinality(DOMAIN cp.npcs) <= MinNPCs
      /\ IsFiniteSet(DOMAIN cp.treasures)
  BY <1>1 DEF WorldInv, CheckpointInv
<1>3. \A u \in DOMAIN cp.players : PlayerOfView(cp.players[u]) \in Player
  BY <1>2, PlayerOfViewShape
<1>4. players' \in [DOMAIN players' -> Player] /\ DOMAIN players' \subseteq Users
  BY <1>1, <1>2, <1>3
<1>5. nextNPC' \in Nat /\ nextTreasure' \in Nat
  BY <1>1, <1>2, FS_CardinalityType
<1>6. QED
  BY <1>1, <1>2, <1>4, <1>5 DEF UnitsInv, CountInv, NumbersInv

LEMMA WorldNext_Next ==
  WorldInv /\ [WorldNext]_worldVars =>
      RestoreCheckpoint \/ (restored' = restored /\ nextNPC' \in {nextNPC, nextNPC + 1})
<1> SUFFICES ASSUME WorldInv, [WorldNext]_worldVars
             PROVE  \/ RestoreCheckpoint
                    \/ restored' = restored /\ nextNPC' \in {nextNPC, nextNPC + 1}
  OBVIOUS
<1>1. CASE UNCHANGED <<restored, nextNPC>>
  BY <1>1
<1>2. CASE SpawnNPC
  BY <1>2 DEF SpawnNPC, Outside
<1>3. ASSUME NEW u \in Users, PlayerStep(u) \/ Refresh(u) \/ TimePasses(u)
      PROVE  UNCHANGED <<restored, nextNPC>>
  BY <1>3 DEF PlayerStep, Outside, stock, worldVars, units, TimePasses,
    Refresh, AddOrRestorePlayer, RemovePlayer, MovePlayer, HealPlayer,
    BuyPotion, BuyWeapon, BuyRefused, RewardPlayer, StrikeNPC, SlayNPC,
    StrikePlayer
<1>4. ASSUME \/ Bootstrap \/ TickBegin \/ TickStep \/ Snapshot
             \/ CaptureCheckpoint
      PROVE  SpawnNPC \/ UNCHANGED <<restored, nextNPC>>
  BY <1>4 DEF TickStep, Bootstrap, SpawnTreasure, TickBegin, TickSpawnNPC,
    TickTreasure, TickNPC, TickEnd, Snapshot, CaptureCheckpoint, worldVars,
    units, stock
<1>5. QED
  BY <1>1, <1>2, <1>3, <1>4 DEF WorldNext, worldVars, stock

\* The tables keep their shape, their size and their numbers.
LEMMA WorldNext_Units ==
  WorldInv /\ [WorldNext]_worldVars => UnitsInv' /\ CountInv' /\ NumbersInv'
<1> SUFFICES ASSUME WorldInv, [WorldNext]_worldVars
             PROVE  UnitsInv' /\ CountInv' /\ NumbersInv'
  OBVIOUS
<1>1. CASE RestoreCheckpoint
  BY <1>1, Restore_Units
<1>2. CASE ~RestoreCheckpoint
  <2>1. /\ PlayersPlaced /\ NPCsStep /\ TreasuresStep /\ restored' = restored
        /\ nextNPC' \in {nextNPC, nextNPC + 1}
    BY <1>2, WorldNext_Players, WorldNext_NPCs, WorldNext_Treasures, WorldNext_Next
  <2>2. /\ players \in [DOMAIN players -> Player] /\ DOMAIN players \subseteq Users
        /\ npcs \in [DOMAIN npcs -> NPC] /\ DOMAIN npcs \subseteq Nat
        /\ IsFiniteSet(DOMAIN npcs) /\ Cardinality(DOMAIN npcs) <= MinNPCs
        /\ nextNPC \in Nat /\ nextTreasure \in Nat
        /\ restored = 0 => \A n \in DOMAIN npcs : n < nextNPC
    BY DEF WorldInv, UnitsInv, CountInv, NumbersInv
  <2>3. players' \in [DOMAIN players' -> Player] /\ DOMAIN players' \subseteq Users
    <3>1. ASSUME NEW u \in Users, PlayerPlaced(u)
          PROVE  players' \in [DOMAIN players' -> Player] /\ DOMAIN players' \subseteq Users
      BY <2>2, <3>1 DEF PlayerPlaced
    <3>2. QED
      BY <2>1, <2>2, <3>1 DEF PlayersPlaced
  <2>4. /\ npcs' \in [DOMAIN npcs' -> NPC] /\ DOMAIN npcs' \subseteq Nat
        /\ IsFiniteSet(DOMAIN npcs') /\ Cardinality(DOMAIN npcs') <= MinNPCs
        /\ restored = 0 => \A n \in DOMAIN npcs' : n < nextNPC'
    <3>1. CASE npcs' = npcs
      BY <2>1, <2>2, <3>1
    <3>2. ASSUME NEW n \in Nat, NPCPlaced(n), DOMAIN npcs' \subseteq DOMAIN npcs
          PROVE  <2>4!:
      <4>1. IsFiniteSet(DOMAIN npcs') /\ Cardinality(DOMAIN npcs') <= Cardinality(DOMAIN npcs)
        BY <2>2, <3>2, FS_Subset
      <4>2. Cardinality(DOMAIN npcs') <= MinNPCs
        BY <2>2, <4>1, Rules, FS_CardinalityType
      <4>3. QED
        BY <2>1, <2>2, <3>2, <4>1, <4>2 DEF NPCPlaced
    <3>3. ASSUME NPCPlaced(nextNPC), nextNPC' = nextNPC + 1,
                 Cardinality(DOMAIN npcs) < MinNPCs,
                 DOMAIN npcs' = DOMAIN npcs \cup {nextNPC}
          PROVE  <2>4!:
      <4>1. /\ IsFiniteSet(DOMAIN npcs')
            /\ \/ Cardinality(DOMAIN npcs') = Cardinality(DOMAIN npcs)
               \/ Cardinality(DOMAIN npcs') = Cardinality(DOMAIN npcs) + 1
        BY <2>2, <3>3, FS_AddElement
      <4>2. Cardinality(DOMAIN npcs') <= MinNPCs
        BY <2>2, <3>3, <4>1, Rules, FS_CardinalityType
      <4>3. QED
        BY <2>2, <3>3, <4>1, <4>2 DEF NPCPlaced
    <3>4. QED
      BY <2>1, <3>1, <3>2, <3>3 DEF NPCsStep
  <2>5. QED
    BY <2>1, <2>2, <2>3, <2>4 DEF TreasuresStep, UnitsInv, CountInv, NumbersInv
<1>3. QED
  BY <1>1, <1>2

LEMMA WorldNext_Turns ==
  WorldInv /\ [WorldNext]_worldVars => TurnInv'
<1> SUFFICES ASSUME WorldInv, [WorldNext]_worldVars
             PROVE  TurnInv'
  OBVIOUS
<1>t. TurnInv
  BY DEF WorldInv
<1> USE <1>t DEF TurnInv
<1>1. ASSUME NEW u \in Users, StrikeNPC(u)
      PROVE  TurnInv'
  <2>1. turns = {} /\ turns' = turns /\ mutex' = mutex
    BY <1>1 DEF StrikeNPC, Acts, Begins, Idle, Outside
  <2>2. QED
    BY <2>1
<1>2. ASSUME NEW u \in Users, SlayNPC(u)
      PROVE  TurnInv'
  <2>1. turns = {} /\ turns' = turns /\ mutex' = mutex
    BY <1>2 DEF SlayNPC, Acts, Begins, Idle, Outside
  <2>2. QED
    BY <2>1
<1>3. ASSUME Bootstrap
      PROVE  TurnInv'
  <2>1. turns = {} /\ turns' = turns /\ mutex' \in {"bootstrap", "free"}
    BY <1>3 DEF Bootstrap, SpawnNPC, SpawnTreasure, Goes, Outside
  <2>2. QED
    BY <2>1
<1>4. ASSUME TickBegin
      PROVE  TurnInv'
  <2>1. turns = {} /\ turns' = turns /\ mutex' = "spawn"
    BY <1>4 DEF TickBegin, Begins, Idle, Goes
  <2>2. QED
    BY <2>1
<1>5. ASSUME TickSpawnNPC
      PROVE  TurnInv'
  <2>1. turns = {} /\ turns' = turns /\ mutex' = mutex
    BY <1>5 DEF TickSpawnNPC, SpawnNPC, Outside
  <2>2. QED
    BY <2>1
<1>6. ASSUME TickTreasure
      PROVE  TurnInv'
  BY <1>6 DEF TickTreasure, SpawnTreasure, units, Goes
<1>7. ASSUME TickNPC
      PROVE  TurnInv'
  <2>1. DOMAIN npcs' = DOMAIN npcs
    BY <1>7 DEF TickNPC
  <2>2. turns' \subseteq turns /\ mutex' = mutex /\ mutex = "npcs"
    BY <1>7 DEF TickNPC
  <2>3. QED
    BY <2>1, <2>2
<1>8. ASSUME TickEnd
      PROVE  TurnInv'
  <2>1. turns = {} /\ turns' = turns /\ mutex' = "free"
    BY <1>8 DEF TickEnd, Goes
  <2>2. QED
    BY <2>1
<1>9. ASSUME RestoreCheckpoint
      PROVE  TurnInv'
  BY <1>9 DEF RestoreCheckpoint
<1>10. CASE UNCHANGED <<mutex, turns, npcs>>
  BY <1>10
<1> HIDE DEF TurnInv
<1>11. ASSUME NEW u \in Users, PlayerStep(u) \/ Refresh(u) \/ TimePasses(u)
      PROVE  TurnInv'
  BY <1>11, <1>1, <1>2, <1>10
  DEF PlayerStep, worldVars, units, stock, Outside, Changes, Goes, TimePasses,
      Refresh, AddOrRestorePlayer, RemovePlayer, MovePlayer, HealPlayer,
      BuyPotion, BuyWeapon, BuyRefused, RewardPlayer, StrikePlayer
<1>12. ASSUME \/ Bootstrap \/ TickBegin \/ TickStep \/ Snapshot
             \/ CaptureCheckpoint \/ RestoreCheckpoint
      PROVE  TurnInv'
  BY <1>12, <1>3, <1>4, <1>5, <1>6, <1>7, <1>8, <1>9, <1>10
  DEF TickStep, worldVars, units, stock, Outside, Changes, Goes, Snapshot,
      CaptureCheckpoint
<1>13. QED
  BY <1>10, <1>11, <1>12
  DEF WorldNext, worldVars, units, stock

LEMMA WorldNext_Profiles ==
  WorldInv /\ [WorldNext]_worldVars => profiles' \in [Users -> Profile]
<1> SUFFICES ASSUME WorldInv, [WorldNext]_worldVars
             PROVE  profiles' \in [Users -> Profile]
  OBVIOUS
<1>t. /\ players \in [DOMAIN players -> Player]
      /\ players' \in [DOMAIN players' -> Player]
      /\ profiles \in [Users -> Profile]
  BY WorldNext_Units DEF WorldInv, UnitsInv
<1> USE <1>t
<1>1. ASSUME NEW u \in Users, NEW here \in BOOLEAN, RemovePlayer(u, here)
      PROVE  profiles' \in [Users -> Profile]
  <2>1. ProfileOf(players[u], here) \in Profile
    BY <1>1, ProfileOfPlayer DEF RemovePlayer
  <2>2. QED
    BY <1>1, <2>1 DEF RemovePlayer, SaveProfile
<1>2. ASSUME NEW u \in Users, BuyPotion(u)
      PROVE  profiles' \in [Users -> Profile]
  <2>1. u \in DOMAIN players' /\ players'[u] \in Player
    BY <1>2 DEF BuyPotion, Acts
  <2>2. ProfileOf(players'[u], TRUE) \in Profile
    BY <2>1, ProfileOfPlayer
  <2>3. QED
    BY <1>2, <2>2 DEF BuyPotion, SaveProfile
<1>3. ASSUME NEW u \in Users, BuyWeapon(u)
      PROVE  profiles' \in [Users -> Profile]
  <2>1. u \in DOMAIN players' /\ players'[u] \in Player
    BY <1>3 DEF BuyWeapon, Acts
  <2>2. ProfileOf(players'[u], TRUE) \in Profile
    BY <2>1, ProfileOfPlayer
  <2>3. QED
    BY <1>3, <2>2 DEF BuyWeapon, SaveProfile
<1>4. ASSUME NEW u \in Users, BuyRefused(u)
      PROVE  profiles' \in [Users -> Profile]
  <2>1. ProfileOf(players[u], TRUE) \in Profile
    BY <1>4, ProfileOfPlayer DEF BuyRefused
  <2>2. QED
    BY <1>4, <2>1 DEF BuyRefused, SaveProfile
<1>5. ASSUME RestoreCheckpoint
      PROVE  profiles' \in [Users -> Profile]
  BY <1>5 DEF RestoreCheckpoint
<1>6. CASE UNCHANGED profiles
  BY <1>6
<1>7. ASSUME NEW u \in Users, PlayerStep(u) \/ Refresh(u) \/ TimePasses(u)
      PROVE  profiles' \in [Users -> Profile]
  BY <1>7, <1>1, <1>2, <1>3, <1>4, <1>6
  DEF PlayerStep, worldVars, units, stock, Outside, Changes, Goes, TimePasses,
      Refresh, AddOrRestorePlayer, MovePlayer, HealPlayer, RewardPlayer,
      StrikeNPC, SlayNPC, StrikePlayer
<1>8. ASSUME \/ Bootstrap \/ TickBegin \/ TickStep \/ Snapshot
             \/ CaptureCheckpoint \/ RestoreCheckpoint
      PROVE  profiles' \in [Users -> Profile]
  BY <1>8, <1>5, <1>6
  DEF TickStep, worldVars, units, stock, Outside, Changes, Goes, Bootstrap,
      SpawnNPC, SpawnTreasure, TickBegin, TickSpawnNPC, TickTreasure, TickNPC,
      TickEnd, Snapshot, CaptureCheckpoint
<1>9. QED
  BY <1>6, <1>7, <1>8
  DEF WorldNext, worldVars, units, stock

LEMMA WorldNext_Checkpoint ==
  WorldInv /\ [WorldNext]_worldVars => CheckpointInv' /\ restored' \in 0..MaxRestores
<1> SUFFICES ASSUME WorldInv, [WorldNext]_worldVars
             PROVE  CheckpointInv' /\ restored' \in 0..MaxRestores
  OBVIOUS
<1>t. /\ UnitsInv /\ CountInv /\ CheckpointInv /\ restored \in 0..MaxRestores
      /\ players \in [DOMAIN players -> Player] /\ version \in Nat
  BY DEF WorldInv, UnitsInv
<1> USE <1>t
<1>1. ASSUME CaptureCheckpoint
      PROVE  CheckpointInv' /\ restored' \in 0..MaxRestores
  <2> DEFINE ps == [u \in DOMAIN players |-> View(players[u])]
  <2>1. /\ cp' = [players |-> ps, npcs |-> npcs, treasures |-> treasures,
                  version |-> version]
        /\ restored' = restored
    BY <1>1 DEF CaptureCheckpoint
  <2>2. ps \in [DOMAIN ps -> Profile] /\ DOMAIN ps = DOMAIN players
    <3>1. \A u \in DOMAIN players : View(players[u]) \in Profile
      BY ProfileOfPlayer DEF View
    <3>2. QED
      BY <3>1
  <2> HIDE DEF ps
  <2>3. /\ cp'.players = ps /\ cp'.npcs = npcs /\ cp'.treasures = treasures
        /\ cp'.version = version
    BY <2>1
  <2>4. QED
    BY <2>1, <2>2, <2>3 DEF UnitsInv, CountInv, CheckpointInv
<1>2. ASSUME RestoreCheckpoint
      PROVE  CheckpointInv' /\ restored' \in 0..MaxRestores
  <2>1. restored' \in 0..MaxRestores
    BY <1>2, Rules DEF RestoreCheckpoint
  <2>2. cp' = NoCheckpoint \/ cp' = cp
    BY <1>2 DEF RestoreCheckpoint
  <2>3. QED
    BY <2>1, <2>2 DEF CheckpointInv
<1>3. CASE UNCHANGED <<cp, restored>>
  BY <1>3 DEF CheckpointInv
<1>4. ASSUME NEW u \in Users, PlayerStep(u) \/ Refresh(u) \/ TimePasses(u)
      PROVE  CheckpointInv' /\ restored' \in 0..MaxRestores
  BY <1>4, <1>3
  DEF PlayerStep, worldVars, units, stock, Outside, Changes, Goes, TimePasses,
      Refresh, AddOrRestorePlayer, RemovePlayer, MovePlayer, HealPlayer,
      BuyPotion, BuyWeapon, BuyRefused, RewardPlayer, StrikeNPC, SlayNPC,
      StrikePlayer
<1>5. ASSUME \/ Bootstrap \/ TickBegin \/ TickStep \/ Snapshot
             \/ CaptureCheckpoint \/ RestoreCheckpoint
      PROVE  CheckpointInv' /\ restored' \in 0..MaxRestores
  BY <1>5, <1>1, <1>2, <1>3
  DEF TickStep, worldVars, units, stock, Outside, Changes, Goes, Bootstrap,
      SpawnNPC, SpawnTreasure, TickBegin, TickSpawnNPC, TickTreasure, TickNPC,
      TickEnd, Snapshot
<1>6. QED
  BY <1>3, <1>4, <1>5
  DEF WorldNext, worldVars, units, stock

\* Every step counts what it shows, unless a checkpoint is restored.
Counted ==
    \/ version' \in {version + 1, version + 2}
    \/ version' = version /\ ShownUnits' = ShownUnits
    \/ RestoreCheckpoint

LEMMA WorldNext_Counted ==
  WorldInv /\ [WorldNext]_worldVars => Counted
<1> SUFFICES ASSUME WorldInv, [WorldNext]_worldVars
             PROVE  Counted
  OBVIOUS
<1>t. players \in [DOMAIN players -> Player]
  BY DEF WorldInv, UnitsInv
<1> USE <1>t
<1>1. ASSUME NEW u \in Users, TimePasses(u)
      PROVE  Counted
  <2>1. /\ u \in DOMAIN players /\ players[u] \in Player
        /\ players' = [players EXCEPT ![u].respawn = "due"]
        /\ UNCHANGED <<npcs, treasures, version>>
    BY <1>1 DEF TimePasses
  <2>2. /\ DOMAIN players' = DOMAIN players
        /\ \A v \in DOMAIN players : View(players'[v]) = View(players[v])
    BY <2>1 DEF View, ProfileOf, Player
  <2>3. ShownUnits' = ShownUnits
    BY <2>1, <2>2 DEF ShownUnits
  <2>4. QED
    BY <2>1, <2>3 DEF Counted
<1>2. ASSUME NEW u \in Users, Refresh(u)
      PROVE  Counted
  BY <1>2 DEF Refresh, Changes, Counted
<1>3. ASSUME NEW u \in Users, AddOrRestorePlayer(u)
      PROVE  Counted
  BY <1>3 DEF AddOrRestorePlayer, Changes, Counted
<1>4. ASSUME NEW u \in Users, NEW here \in BOOLEAN, RemovePlayer(u, here)
      PROVE  Counted
  BY <1>4 DEF RemovePlayer, Changes, Counted
<1>5. ASSUME NEW u \in Users, NEW d \in Directions, MovePlayer(u, d)
      PROVE  Counted
  BY <1>5 DEF MovePlayer, Changes, Counted
<1>6. ASSUME NEW u \in Users, HealPlayer(u)
      PROVE  Counted
  BY <1>6 DEF HealPlayer, Changes, Counted
<1>7. ASSUME NEW u \in Users, BuyPotion(u)
      PROVE  Counted
  BY <1>7 DEF BuyPotion, Changes, Counted
<1>8. ASSUME NEW u \in Users, BuyWeapon(u)
      PROVE  Counted
  BY <1>8 DEF BuyWeapon, Changes, Counted
<1>9. ASSUME NEW u \in Users, NEW delta \in Finds, RewardPlayer(u, delta)
      PROVE  Counted
  BY <1>9 DEF RewardPlayer, Changes, Counted
<1>10. ASSUME NEW u \in Users, StrikeNPC(u)
      PROVE  Counted
  BY <1>10 DEF StrikeNPC, Changes, Counted
<1>11. ASSUME NEW u \in Users, SlayNPC(u)
      PROVE  Counted
  BY <1>11 DEF SlayNPC, Changes, Counted
<1>12. ASSUME NEW u \in Users, StrikePlayer(u)
      PROVE  Counted
  BY <1>12 DEF StrikePlayer, Changes, Counted
<1>13. ASSUME Bootstrap
      PROVE  Counted
  BY <1>13 DEF Bootstrap, SpawnNPC, SpawnTreasure, Changes, ShownUnits, units, Counted
<1>14. ASSUME TickSpawnNPC
      PROVE  Counted
  BY <1>14 DEF TickSpawnNPC, SpawnNPC, Changes, Counted
<1>15. ASSUME TickTreasure
      PROVE  Counted
  BY <1>15 DEF TickTreasure, SpawnTreasure, Changes, ShownUnits, units, Counted
<1>16. ASSUME TickNPC
      PROVE  Counted
  BY <1>16 DEF TickNPC, Changes, ShownUnits, Counted
<1>17. ASSUME RestoreCheckpoint
      PROVE  Counted
  BY <1>17 DEF Counted
<1>18. CASE UNCHANGED <<players, npcs, treasures, version>>
  BY <1>18 DEF Counted, ShownUnits
<1>19. ASSUME NEW u \in Users, PlayerStep(u) \/ Refresh(u) \/ TimePasses(u)
      PROVE  Counted
  BY <1>19, <1>1, <1>2, <1>3, <1>4, <1>5, <1>6, <1>7, <1>8, <1>9, <1>10, <1>11,
     <1>12, <1>18
  DEF PlayerStep, worldVars, units, stock, Outside, Changes, Goes, BuyRefused
<1>20. ASSUME \/ Bootstrap \/ TickBegin \/ TickStep \/ Snapshot
             \/ CaptureCheckpoint \/ RestoreCheckpoint
      PROVE  Counted
  BY <1>20, <1>13, <1>14, <1>15, <1>16, <1>17, <1>18
  DEF TickStep, worldVars, units, stock, Outside, Changes, Goes, TickBegin,
      TickEnd, Snapshot, CaptureCheckpoint
<1>21. QED
  BY <1>18, <1>19, <1>20
  DEF WorldNext, worldVars, units, stock

LEMMA WorldInit_Inv ==
  WorldInit => WorldInv
<1> SUFFICES ASSUME WorldInit
             PROVE  WorldInv
  OBVIOUS
<1>1. /\ DOMAIN players = {} /\ DOMAIN npcs = {} /\ DOMAIN treasures = {}
      /\ players \in [DOMAIN players -> Player] /\ npcs \in [DOMAIN npcs -> NPC]
      /\ treasures \in [DOMAIN treasures -> Treasure]
  BY DEF WorldInit
<1>2. UnitsInv
  BY <1>1 DEF UnitsInv
<1>3. CountInv
  BY <1>1, FS_EmptySet, Rules DEF CountInv
<1>4. TurnInv /\ CheckpointInv
  BY DEF WorldInit, TurnInv, CheckpointInv
<1>5. NumbersInv
  BY <1>1 DEF WorldInit, NumbersInv
<1>6. RegisteredProfile \in Profile
  <2>1. InitHP \in 0..InitHP /\ MaxPotions \in 0..PotionCap /\ InitAttack \in Nat
    BY Rules
  <2>2. QED
    BY <2>1, WorldCellAssumption DEF RegisteredProfile, Profile
<1>7. version \in Nat /\ restored \in 0..MaxRestores /\ profiles \in [Users -> Profile]
  BY <1>6, Rules DEF WorldInit
<1>8. QED
  BY <1>2, <1>3, <1>4, <1>5, <1>7 DEF WorldInv

LEMMA WorldNext_Inv ==
  WorldInv /\ [WorldNext]_worldVars => WorldInv'
<1> SUFFICES ASSUME WorldInv, [WorldNext]_worldVars
             PROVE  WorldInv'
  OBVIOUS
<1>1. version' \in Nat
  <2>1. CASE RestoreCheckpoint
    BY <2>1, Restore_Units
  <2>2. version \in Nat
    BY DEF WorldInv
  <2>3. QED
    BY <2>1, <2>2, WorldNext_Counted DEF Counted
<1>2. QED
  BY <1>1, WorldNext_Units, WorldNext_Turns, WorldNext_Profiles,
     WorldNext_Checkpoint DEF WorldInv

LEMMA WorldInvariant ==
  WorldSpec => []WorldInv
  BY WorldInit_Inv, WorldNext_Inv, PTL DEF WorldSpec

(***************************************************************************)
(* Hit points and potions stay within their limits, attack and purse are   *)
(* no less than 0, NPCs and treasures are worth something, and the turns   *)
(* of a tick are those of living NPCs, for any rules and any order of      *)
(* fights, purchases, respawns, logins and restores (world.go, tick.go,    *)
(* checkpoint.go).                                                         *)
(***************************************************************************)
THEOREM WorldTypeCorrect ==
  WorldSpec => []WorldTypeOK
<1>1. WorldInv => WorldTypeOK
  BY DEF WorldInv, UnitsInv, TurnInv, NumbersInv, WorldTypeOK
<1>2. QED
  BY <1>1, WorldInvariant, PTL

(***************************************************************************)
(* Every step that changes the players, NPCs or treasures that Snapshot    *)
(* shows, apart from the countdown of a downed player, raises the version, *)
(* unless the node is restarted or replaced.  So two frames of one version *)
(* show the same units, and it does no harm that gateway and client let    *)
(* an equal version through (stream_sender.go:141, cmd/client/ui.go:53).   *)
(***************************************************************************)
THEOREM VisibleChangeRaisesVersionTheorem ==
  WorldSpec => VisibleChangeRaisesVersion
<1>1. ASSUME WorldInv, [WorldNext]_worldVars
      PROVE  RestoreCheckpoint \/ ShownUnits' = ShownUnits \/ version' > version
  <2>1. version \in Nat
    BY <1>1 DEF WorldInv
  <2>2. QED
    BY <1>1, <2>1, WorldNext_Counted DEF Counted
<1>2. QED
  BY <1>1, WorldInvariant, PTL DEF WorldSpec, VisibleChangeRaisesVersion

\* A new NPC takes no number of a living one, as long as nothing was restored.
LEMMA SpawnNPC_Kept ==
  ASSUME WorldInv, SpawnNPC, restored = 0
  PROVE  \A n \in DOMAIN npcs : NPCKept(n)
<1>1. PICK c, h : npcs' = With(npcs, nextNPC, [pos |-> c, hp |-> h])
  BY DEF SpawnNPC
<1>2. /\ npcs \in [DOMAIN npcs -> NPC] /\ DOMAIN npcs \subseteq Nat
      /\ nextNPC \in Nat /\ \A n \in DOMAIN npcs : n < nextNPC
  BY DEF WorldInv, UnitsInv, NumbersInv
<1>3. nextNPC \notin DOMAIN npcs
  BY <1>2
<1>4. \A n \in DOMAIN npcs : n \in DOMAIN npcs' /\ npcs'[n] = npcs[n]
  BY <1>1, <1>3 DEF With
<1>5. QED
  BY <1>2, <1>4 DEF NPCKept, NPC

LEMMA WorldNext_NPCsKept ==
  WorldInv /\ [WorldNext]_worldVars /\ restored' = 0 =>
      \A n \in DOMAIN npcs : NPCKept(n)
<1> SUFFICES ASSUME WorldInv, [WorldNext]_worldVars, restored' = 0
             PROVE  \A n \in DOMAIN npcs : NPCKept(n)
  OBVIOUS
<1>t. /\ UnitsInv /\ npcs \in [DOMAIN npcs -> NPC] /\ restored \in Nat
      /\ players \in [DOMAIN players -> Player] /\ restored' = 0
  BY DEF WorldInv, UnitsInv
<1>r. restored = 0
  BY <1>t, WorldNext_Next DEF RestoreCheckpoint
<1> USE <1>t, <1>r
<1>1. ASSUME NEW u \in Users, StrikeNPC(u)
      PROVE  \A n \in DOMAIN npcs : NPCKept(n)
  <2> DEFINE n == Weakest(NPCsInRange(u), npcs)
  <2>1. u \in DOMAIN players /\ players[u].attack \in Nat
    BY <1>1 DEF StrikeNPC, Acts, Player
  <2>2. npcs' = [npcs EXCEPT ![n].hp = @ - players[u].attack]
    BY <1>1 DEF StrikeNPC
  <2> HIDE DEF n
  <2>3. \A k \in DOMAIN npcs : npcs[k].hp \in Nat /\ npcs[k] \in NPC
    BY DEF NPC
  <2>4. \A k \in DOMAIN npcs : k \in DOMAIN npcs' /\ npcs'[k].hp <= npcs[k].hp
    BY <2>1, <2>2, <2>3 DEF NPC
  <2>5. QED
    BY <2>4 DEF NPCKept
<1>2. ASSUME NEW u \in Users, SlayNPC(u)
      PROVE  \A n \in DOMAIN npcs : NPCKept(n)
  <2> DEFINE n == Weakest(NPCsInRange(u), npcs)
  <2>1. n \in DOMAIN npcs
    BY <1>2, Target_IsNPC DEF SlayNPC
  <2>2. npcs[n].pos \in Open
    BY <2>1 DEF NPC
  <2> HIDE DEF n
  <2>3. \E t \in DOMAIN treasures' : treasures'[t].pos = npcs[n].pos
    BY <1>2, <2>2, DropTreasure_Treasures DEF SlayNPC, n
  <2>4. npcs' = Without(npcs, n)
    BY <1>2 DEF SlayNPC, n
  <2>5. \A k \in DOMAIN npcs \ {n} : k \in DOMAIN npcs' /\ npcs'[k].hp <= npcs[k].hp
    BY <2>4 DEF Without, NPC
  <2>6. QED
    BY <2>3, <2>5 DEF NPCKept
<1>3. ASSUME Bootstrap
      PROVE  \A n \in DOMAIN npcs : NPCKept(n)
  <2>1. CASE SpawnNPC
    BY <2>1, SpawnNPC_Kept
  <2>2. CASE npcs' = npcs
    BY <2>2 DEF NPCKept, NPC
  <2>3. QED
    BY <1>3, <2>1, <2>2 DEF Bootstrap, SpawnTreasure, units
<1>4. ASSUME TickSpawnNPC
      PROVE  \A n \in DOMAIN npcs : NPCKept(n)
  BY <1>4, SpawnNPC_Kept DEF TickSpawnNPC
<1>5. ASSUME TickNPC
      PROVE  \A n \in DOMAIN npcs : NPCKept(n)
  <2>1. CASE npcs' = npcs
    BY <2>1 DEF NPCKept, NPC
  <2>2. ASSUME NEW c, npcs' = [npcs EXCEPT ![Min(turns)].pos = c]
        PROVE  \A n \in DOMAIN npcs : NPCKept(n)
    <3>1. \A n \in DOMAIN npcs : n \in DOMAIN npcs' /\ npcs'[n].hp = npcs[n].hp
      BY <2>2 DEF NPC
    <3>2. \A n \in DOMAIN npcs : npcs[n].hp \in Nat
      BY DEF NPC
    <3>3. QED
      BY <3>1, <3>2 DEF NPCKept
  <2>3. QED
    BY <1>5, <2>1, <2>2 DEF TickNPC
<1>6. ASSUME RestoreCheckpoint
      PROVE  \A n \in DOMAIN npcs : NPCKept(n)
  BY <1>6 DEF RestoreCheckpoint
<1>7. CASE UNCHANGED npcs
  BY <1>7 DEF NPCKept, NPC
<1>8. ASSUME NEW u \in Users, PlayerStep(u) \/ Refresh(u) \/ TimePasses(u)
      PROVE  \A n \in DOMAIN npcs : NPCKept(n)
  BY <1>8, <1>1, <1>2, <1>7
  DEF PlayerStep, worldVars, units, stock, Outside, Changes, Goes, TimePasses,
      Refresh, AddOrRestorePlayer, RemovePlayer, MovePlayer, HealPlayer,
      BuyPotion, BuyWeapon, BuyRefused, RewardPlayer, StrikePlayer
<1>9. ASSUME \/ Bootstrap \/ TickBegin \/ TickStep \/ Snapshot
             \/ CaptureCheckpoint \/ RestoreCheckpoint
      PROVE  \A n \in DOMAIN npcs : NPCKept(n)
  BY <1>9, <1>3, <1>4, <1>5, <1>6, <1>7
  DEF TickStep, worldVars, units, stock, Outside, Changes, Goes, TickBegin,
      TickTreasure, SpawnTreasure, TickEnd, Snapshot, CaptureCheckpoint
<1>10. QED
  BY <1>7, <1>8, <1>9
  DEF WorldNext, worldVars, units, stock

(***************************************************************************)
(* In a world that was never restored nothing vanishes: a treasure leaves  *)
(* the ground only into a purse, and an NPC only by leaving a treasure,    *)
(* because every new number is above those in use.                         *)
(***************************************************************************)
THEOREM NothingVanishesTheorem ==
  WorldSpec => NothingVanishes
<1>1. ASSUME WorldInv, [WorldNext]_worldVars, ~(restored' > 0)
      PROVE  /\ \A t \in DOMAIN treasures : TreasureKept(t)
             /\ \A n \in DOMAIN npcs : NPCKept(n)
  <2>1. restored \in Nat /\ restored' \in Nat
    BY <1>1, WorldNext_Inv DEF WorldInv
  <2>2. restored' = 0 /\ restored = 0 /\ ~RestoreCheckpoint
    BY <1>1, <2>1, WorldNext_Next DEF RestoreCheckpoint
  <2>3. TreasuresStep
    BY <1>1, <2>2, WorldNext_Treasures
  <2>4. QED
    BY <1>1, <2>2, <2>3, WorldNext_NPCsKept DEF TreasuresStep
<1>2. QED
  BY <1>1, WorldInvariant, PTL DEF WorldSpec, NothingVanishes

-----------------------------------------------------------------------------
(* One unit per cell, on a map with room for everybody.                    *)

\* More open cells than there can be units.  Without it the code has no cell
\* to offer and puts the player on the spawn cell (world.go:523).
RoomForAll ==
    /\ IsFiniteSet(Open) /\ IsFiniteSet(Users)
    /\ Cardinality(Users) + MinNPCs < Cardinality(Open)

\* OneUnitPerCell, of any tables of players and NPCs.
SpreadOut(ps, ns) ==
    /\ \A u, v \in DOMAIN ps :
          (u # v /\ ps[u].alive /\ ps[v].alive) => ps[u].pos # ps[v].pos
    /\ \A m, n \in DOMAIN ns : m # n => ns[m].pos # ns[n].pos
    /\ \A u \in DOMAIN ps, n \in DOMAIN ns : ps[u].alive => ps[u].pos # ns[n].pos

\* The units of the world, and of the checkpoint it may be restored from.
SpreadInv ==
    /\ SpreadOut(players, npcs)
    /\ cp # NoCheckpoint => SpreadOut(cp.players, cp.npcs)

\* The values of a finite table are no more than its entries.
LEMMA FewValues ==
  ASSUME NEW S, IsFiniteSet(S), NEW f
  PROVE  /\ IsFiniteSet({f[x] : x \in S})
         /\ Cardinality({f[x] : x \in S}) <= Cardinality(S)
<1> DEFINE T == {f[x] : x \in S}
           g == [x \in S |-> f[x]]
<1>1. g \in Surjection(S, T)
  BY DEF Surjection
<1> HIDE DEF g, T
<1>2. IsFiniteSet(T) /\ Cardinality(T) <= Cardinality(S)
  BY <1>1, FS_Surjection
<1>3. QED
  BY <1>2 DEF T

\* There is always a free cell.
LEMMA RoomLeavesCell ==
  ASSUME RoomForAll, WorldInv
  PROVE  FreeCells({}) # {}
<1>1. /\ IsFiniteSet(Open) /\ IsFiniteSet(Users)
      /\ Cardinality(Users) + MinNPCs < Cardinality(Open)
      /\ Cardinality(Users) \in Nat /\ Cardinality(Open) \in Nat /\ MinNPCs \in Nat
  BY FS_CardinalityType, Rules DEF RoomForAll
<1> DEFINE L == {v \in DOMAIN players \ {} : players[v].alive}
           at == [u \in DOMAIN players |-> players[u].pos]
           of == [n \in DOMAIN npcs |-> npcs[n].pos]
           S == {at[u] : u \in L}
           N == {of[n] : n \in DOMAIN npcs}
<1>2. Standing({}) = S
  BY DEF Standing
<1>3. NPCCells = N
  BY DEF NPCCells
<1>4. L \in SUBSET Users
  BY DEF WorldInv, UnitsInv
<1>5. IsFiniteSet(DOMAIN npcs) /\ Cardinality(DOMAIN npcs) <= MinNPCs
  BY DEF WorldInv, CountInv
<1> HIDE DEF L, at, of
<1>6. IsFiniteSet(L) /\ Cardinality(L) <= Cardinality(Users)
  BY <1>1, <1>4, FS_Subset
<1>7. IsFiniteSet(S) /\ Cardinality(S) <= Cardinality(L)
  BY <1>6, FewValues
<1>8. IsFiniteSet(N) /\ Cardinality(N) <= Cardinality(DOMAIN npcs)
  BY <1>5, FewValues
<1> HIDE DEF S, N
<1>9. /\ Cardinality(S) \in Nat /\ Cardinality(N) \in Nat
      /\ Cardinality(L) \in Nat /\ Cardinality(DOMAIN npcs) \in Nat
  BY <1>5, <1>6, <1>7, <1>8, FS_CardinalityType
<1>10. Cardinality(S \cup N) <= Cardinality(S) + Cardinality(N) /\ IsFiniteSet(S \cup N)
  <2>1. /\ IsFiniteSet(S \cup N)
        /\ Cardinality(S \cup N) = Cardinality(S) + Cardinality(N) - Cardinality(S \cap N)
    BY <1>7, <1>8, FS_Union
  <2>2. Cardinality(S \cap N) \in Nat
    <3>1. S \cap N \in SUBSET S
      OBVIOUS
    <3>2. IsFiniteSet(S \cap N)
      BY <1>7, <3>1, FS_Subset
    <3>3. QED
      BY <3>2, FS_CardinalityType
  <2>3. QED
    BY <1>9, <2>1, <2>2
<1>11. Cardinality(S \cup N) < Cardinality(Open)
  <2>1. Cardinality(S \cup N) \in Nat
    BY <1>10, FS_CardinalityType
  <2>2. QED
    BY <1>1, <1>5, <1>6, <1>7, <1>8, <1>9, <1>10, <2>1
<1>12. ~(Open \subseteq S \cup N)
  <2>1. SUFFICES ASSUME Open \subseteq S \cup N
                 PROVE  FALSE
    OBVIOUS
  <2>2. Open \in SUBSET (S \cup N)
    BY <2>1
  <2>3. Cardinality(Open) <= Cardinality(S \cup N)
    BY <1>10, <2>2, FS_Subset
  <2>4. Cardinality(S \cup N) \in Nat
    BY <1>10, FS_CardinalityType
  <2>5. QED
    BY <1>1, <1>11, <2>3, <2>4
<1>13. QED
  BY <1>2, <1>3, <1>12 DEF FreeCells, WalkableFor

\* A step changes players or NPCs, or restores a checkpoint.
LEMMA WorldNext_OneKind ==
  WorldInv /\ [WorldNext]_worldVars =>
      players' = players \/ npcs' = npcs \/ RestoreCheckpoint
<1> SUFFICES ASSUME WorldInv, [WorldNext]_worldVars
             PROVE  players' = players \/ npcs' = npcs \/ RestoreCheckpoint
  OBVIOUS
<1>1. ASSUME NEW u \in Users, PlayerStep(u) \/ Refresh(u) \/ TimePasses(u)
      PROVE  players' = players \/ npcs' = npcs
  BY <1>1 DEF PlayerStep, worldVars, units, TimePasses, Refresh,
    AddOrRestorePlayer, RemovePlayer, MovePlayer, HealPlayer, BuyPotion,
    BuyWeapon, BuyRefused, RewardPlayer, StrikeNPC, SlayNPC, StrikePlayer
<1>2. ASSUME \/ Bootstrap \/ TickBegin \/ TickStep \/ Snapshot
             \/ CaptureCheckpoint
      PROVE  players' = players \/ npcs' = npcs
  BY <1>2 DEF TickStep, Bootstrap, SpawnNPC, SpawnTreasure, TickBegin,
    TickSpawnNPC, TickTreasure, TickNPC, TickEnd, Snapshot, CaptureCheckpoint,
    worldVars, units
<1>3. QED
  BY <1>1, <1>2 DEF WorldNext, worldVars, units

\* A player who is placed is alone where he is put.
LEMMA PlayerPlaced_Spread ==
  ASSUME UnitsInv, SpreadOut(players, npcs), FreeCells({}) # {}, npcs' = npcs,
         NEW w, PlayerPlaced(w)
  PROVE  SpreadOut(players', npcs')
<1>1. /\ \A u, v \in DOMAIN players :
            (u # v /\ players[u].alive /\ players[v].alive)
                => players[u].pos # players[v].pos
      /\ \A m, n \in DOMAIN npcs : m # n => npcs[m].pos # npcs[n].pos
      /\ \A u \in DOMAIN players, n \in DOMAIN npcs :
            players[u].alive => players[u].pos # npcs[n].pos
  BY DEF SpreadOut
<1>2. \A v \in DOMAIN players' \ {w} : v \in DOMAIN players /\ players'[v] = players[v]
  BY DEF PlayerPlaced
<1>3. ASSUME w \in DOMAIN players', players'[w].alive
      PROVE  /\ \A v \in DOMAIN players \ {w} :
                   players[v].alive => players[v].pos # players'[w].pos
             /\ \A n \in DOMAIN npcs : players'[w].pos # npcs[n].pos
  <2>1. CASE FreeOrFull(players'[w].pos, {w})
    <3> DEFINE c == players'[w].pos
    <3>1. c \notin Standing({w}) /\ c \notin NPCCells
      BY <2>1 DEF FreeOrFull, WalkableFor
    <3> HIDE DEF c
    <3>2. QED
      BY <3>1 DEF Standing, NPCCells, c
  <2>2. CASE /\ w \in DOMAIN players /\ players'[w].pos = players[w].pos
             /\ players[w].alive
    BY <1>1, <2>2
  <2>3. QED
    BY <1>3, <2>1, <2>2 DEF PlayerPlaced
<1>4. ASSUME NEW u \in DOMAIN players', NEW v \in DOMAIN players',
             u # v, players'[u].alive, players'[v].alive
      PROVE  players'[u].pos # players'[v].pos
  <2>1. CASE u = w
    BY <1>2, <1>3, <1>4, <2>1
  <2>2. CASE v = w
    BY <1>2, <1>3, <1>4, <2>2
  <2>3. CASE u # w /\ v # w
    BY <1>1, <1>2, <1>4, <2>3
  <2>4. QED
    BY <2>1, <2>2, <2>3
<1>5. ASSUME NEW u \in DOMAIN players', NEW n \in DOMAIN npcs, players'[u].alive
      PROVE  players'[u].pos # npcs[n].pos
  BY <1>1, <1>2, <1>3, <1>5
<1>6. QED
  BY <1>1, <1>4, <1>5 DEF SpreadOut

LEMMA NPCPlaced_Spread ==
  ASSUME UnitsInv, SpreadOut(players, npcs), players' = players,
         NEW k, NPCPlaced(k)
  PROVE  SpreadOut(players', npcs')
<1>1. /\ \A u, v \in DOMAIN players :
            (u # v /\ players[u].alive /\ players[v].alive)
                => players[u].pos # players[v].pos
      /\ \A m, n \in DOMAIN npcs : m # n => npcs[m].pos # npcs[n].pos
      /\ \A u \in DOMAIN players, n \in DOMAIN npcs :
            players[u].alive => players[u].pos # npcs[n].pos
  BY DEF SpreadOut
<1>2. \A n \in DOMAIN npcs' \ {k} : n \in DOMAIN npcs /\ npcs'[n] = npcs[n]
  BY DEF NPCPlaced
<1>3. ASSUME k \in DOMAIN npcs'
      PROVE  /\ \A n \in DOMAIN npcs \ {k} : npcs[n].pos # npcs'[k].pos
             /\ \A u \in DOMAIN players : players[u].alive => players[u].pos # npcs'[k].pos
  <2>1. CASE WalkableFor(npcs'[k].pos, {})
    <3> DEFINE c == npcs'[k].pos
    <3>1. c \notin Standing({}) /\ c \notin NPCCells
      BY <2>1 DEF WalkableFor
    <3> HIDE DEF c
    <3>2. QED
      BY <3>1 DEF Standing, NPCCells, c
  <2>2. CASE k \in DOMAIN npcs /\ npcs'[k].pos = npcs[k].pos
    BY <1>1, <2>2
  <2>3. QED
    BY <1>3, <2>1, <2>2 DEF NPCPlaced
<1>4. ASSUME NEW m \in DOMAIN npcs', NEW n \in DOMAIN npcs', m # n
      PROVE  npcs'[m].pos # npcs'[n].pos
  <2>1. CASE m = k
    BY <1>2, <1>3, <1>4, <2>1
  <2>2. CASE n = k
    BY <1>2, <1>3, <1>4, <2>2
  <2>3. CASE m # k /\ n # k
    BY <1>1, <1>2, <1>4, <2>3
  <2>4. QED
    BY <2>1, <2>2, <2>3
<1>5. ASSUME NEW u \in DOMAIN players, NEW n \in DOMAIN npcs', players[u].alive
      PROVE  players[u].pos # npcs'[n].pos
  BY <1>1, <1>2, <1>3, <1>5
<1>6. QED
  BY <1>1, <1>4, <1>5 DEF SpreadOut

\* A view keeps who is where, and so does the player restored from it.
LEMMA Views_Spread ==
  ASSUME UnitsInv, SpreadOut(players, npcs)
  PROVE  SpreadOut([u \in DOMAIN players |-> View(players[u])], npcs)
  BY DEF SpreadOut, View, ProfileOf

LEMMA Restored_Spread ==
  ASSUME NEW ps, NEW ns, SpreadOut(ps, ns)
  PROVE  SpreadOut([u \in DOMAIN ps |-> PlayerOfView(ps[u])], ns)
  BY DEF SpreadOut, PlayerOfView

LEMMA WorldNext_CheckpointTaken ==
  WorldInv /\ [WorldNext]_worldVars =>
      \/ cp' = cp \/ RestoreCheckpoint \/ CaptureCheckpoint
<1> SUFFICES ASSUME WorldInv, [WorldNext]_worldVars
             PROVE  cp' = cp \/ RestoreCheckpoint \/ CaptureCheckpoint
  OBVIOUS
<1>1. ASSUME NEW u \in Users, PlayerStep(u) \/ Refresh(u) \/ TimePasses(u)
      PROVE  cp' = cp
  BY <1>1 DEF PlayerStep, Outside, TimePasses, Refresh, AddOrRestorePlayer,
    RemovePlayer, MovePlayer, HealPlayer, BuyPotion, BuyWeapon, BuyRefused,
    RewardPlayer, StrikeNPC, SlayNPC, StrikePlayer
<1>2. ASSUME Bootstrap \/ TickBegin \/ TickStep \/ Snapshot
      PROVE  cp' = cp
  BY <1>2 DEF TickStep, Bootstrap, SpawnNPC, SpawnTreasure, TickBegin,
    TickSpawnNPC, TickTreasure, TickNPC, TickEnd, Snapshot, Outside, worldVars
<1>3. QED
  BY <1>1, <1>2 DEF WorldNext, worldVars

LEMMA WorldNext_Spread ==
  ASSUME RoomForAll, WorldInv, SpreadInv, [WorldNext]_worldVars
  PROVE  SpreadInv'
<1>1. UnitsInv /\ SpreadOut(players, npcs) /\ FreeCells({}) # {}
  BY RoomLeavesCell DEF WorldInv, SpreadInv
<1>2. CASE RestoreCheckpoint
  <2>1. SpreadOut(cp.players, cp.npcs)
    BY <1>2 DEF RestoreCheckpoint, SpreadInv
  <2>2. SpreadOut([u \in DOMAIN cp.players |-> PlayerOfView(cp.players[u])], cp.npcs)
    BY <2>1, Restored_Spread
  <2>3. SpreadOut(players', npcs')
    BY <1>2, <2>2 DEF RestoreCheckpoint
  <2>4. cp' = NoCheckpoint \/ cp' = cp
    BY <1>2 DEF RestoreCheckpoint
  <2>5. QED
    BY <2>1, <2>3, <2>4 DEF SpreadInv
<1>3. CASE ~RestoreCheckpoint
  <2>1. SpreadOut(players', npcs')
    <3>1. CASE npcs' = npcs /\ players' = players
      BY <1>1, <3>1
    <3>2. CASE npcs' = npcs /\ players' # players
      <4>1. PICK w \in Users : PlayerPlaced(w)
        BY <1>3, <3>2, WorldNext_Players DEF PlayersPlaced
      <4>2. QED
        BY <1>1, <3>2, <4>1, PlayerPlaced_Spread
    <3>3. CASE npcs' # npcs /\ players' = players
      <4>1. PICK k \in Nat : NPCPlaced(k)
        BY <1>3, <3>3, WorldNext_NPCs DEF NPCsStep
      <4>2. QED
        BY <1>1, <3>3, <4>1, NPCPlaced_Spread
    <3>4. QED
      BY <1>3, <3>1, <3>2, <3>3, WorldNext_OneKind
  <2>2. CASE cp' = cp
    BY <2>1, <2>2 DEF SpreadInv
  <2>3. CASE CaptureCheckpoint
    <3> DEFINE ps == [u \in DOMAIN players |-> View(players[u])]
    <3>1. cp' = [players |-> ps, npcs |-> npcs, treasures |-> treasures,
                 version |-> version]
      BY <2>3 DEF CaptureCheckpoint
    <3>2. SpreadOut(ps, npcs)
      BY <1>1, Views_Spread
    <3> HIDE DEF ps
    <3>3. cp'.players = ps /\ cp'.npcs = npcs
      BY <3>1
    <3>4. SpreadOut(cp'.players, cp'.npcs)
      BY <3>2, <3>3
    <3>5. QED
      BY <2>1, <3>4 DEF SpreadInv
  <2>4. QED
    BY <1>3, <2>2, <2>3, WorldNext_CheckpointTaken
<1>4. QED
  BY <1>2, <1>3

(***************************************************************************)
(* On a map with more open cells than units no two living units ever share *)
(* a cell (walkableForLocked, world.go:481): logins, moves, respawns and   *)
(* spawns put a unit on a free cell or leave it where it was, nobody gets  *)
(* up where he lies, and a checkpoint keeps who was where.                 *)
(***************************************************************************)
THEOREM OneUnitPerCellTheorem ==
  ASSUME RoomForAll
  PROVE  WorldSpec => []OneUnitPerCell
<1>1. WorldInit => SpreadInv
  BY DEF WorldInit, SpreadInv, SpreadOut
<1>2. WorldInv /\ SpreadInv /\ [WorldNext]_worldVars => SpreadInv'
  BY WorldNext_Spread
<1>3. SpreadInv => OneUnitPerCell
  <2>1. SUFFICES ASSUME SpreadOut(players, npcs)
                 PROVE  OneUnitPerCell
    BY DEF SpreadInv
  <2>2. Standing({}) \cap NPCCells = {}
    BY <2>1 DEF SpreadOut, Standing, NPCCells
  <2>3. QED
    BY <2>1, <2>2 DEF SpreadOut, OneUnitPerCell
<1>4. QED
  BY <1>1, <1>2, <1>3, WorldInvariant, PTL DEF WorldSpec

-----------------------------------------------------------------------------
(* The living and the fallen.                                              *)

\* A living player has hit points and no respawn time.
Sound(p) == p.alive => p.hp > 0 /\ p.respawn = "none"

\* Down, without a time to come back.
Stranded(p) == ~p.alive /\ p.respawn = "none"

\* What happens in the world leaves a player sound and strands nobody.
Kept(old, new) == (Sound(old) => Sound(new)) /\ (Stranded(new) => Stranded(old))

\* A step keeps the entry of u, or it is u's login or a restore of the world.
EntryKept(u) ==
    \/ u \in DOMAIN players /\ Kept(players[u], players'[u])
    \/ /\ AddOrRestorePlayer(u) /\ Sound(players'[u])
       /\ players'[u].alive = profiles[u].alive
    \/ /\ RestoreCheckpoint /\ u \in DOMAIN cp.players
       /\ players'[u] = PlayerOfView(cp.players[u])

EntriesKept == \A u \in DOMAIN players' : EntryKept(u)

\* The living have hit points, in the world and in its checkpoint.
LivingInv ==
    /\ \A u \in DOMAIN players : Sound(players[u])
    /\ cp # NoCheckpoint => \A u \in DOMAIN cp.players :
          cp.players[u].alive => cp.players[u].hp > 0

\* Nobody is alive with no hit points left or waits for a respawn while alive.
LivingAreUp == \A u \in DOMAIN players : Sound(players[u])

\* A player loses his respawn time only by coming back: by a login with the
\* profile of a player who is down, or with a world that is restored.
OnlyReturningStrands ==
    [][\A u \in DOMAIN players' : Stranded(players'[u]) =>
          \/ u \in DOMAIN players /\ Stranded(players[u])
          \/ AddOrRestorePlayer(u) /\ ~profiles[u].alive
          \/ RestoreCheckpoint /\ ~cp.players[u].alive]_worldVars

LEMMA HitKeeps ==
  ASSUME NEW p \in Player, NEW damage \in Nat
  PROVE  Kept(p, Hit(p, damage))
<1>1. CASE p.hp > damage
  <2>1. /\ Hit(p, damage).hp = p.hp - damage /\ Hit(p, damage).alive = p.alive
        /\ Hit(p, damage).respawn = p.respawn /\ p.hp \in Nat
    BY <1>1, Rules DEF Hit, Player
  <2>2. QED
    BY <1>1, <2>1 DEF Kept, Sound, Stranded
<1>2. CASE ~(p.hp > damage)
  <2>1. Hit(p, damage).alive = FALSE /\ Hit(p, damage).respawn = "pending"
    BY <1>2 DEF Hit, KnockedDown, Player
  <2>2. QED
    BY <2>1 DEF Kept, Sound, Stranded
<1>3. QED
  BY <1>1, <1>2

LEMMA Entry_Kept ==
  ASSUME UnitsInv, NEW u \in DOMAIN players, NEW p,
         players' = [players EXCEPT ![u] = p], Kept(players[u], p)
  PROVE  EntriesKept
<1>1. /\ DOMAIN players' = DOMAIN players /\ players'[u] = p
      /\ \A v \in DOMAIN players \ {u} : players'[v] = players[v]
  OBVIOUS
<1>2. \A old : Kept(old, old)
  BY DEF Kept
<1>3. QED
  BY <1>1, <1>2 DEF EntriesKept, EntryKept

\* Fields that neither fights nor respawns touch.
LEMMA SameState ==
  ASSUME NEW old, NEW new, new.alive = old.alive, new.respawn = old.respawn,
         new.hp = old.hp
  PROVE  Kept(old, new)
  BY DEF Kept, Sound, Stranded

LEMMA WorldNext_Entries ==
  WorldInv /\ [WorldNext]_worldVars => EntriesKept
<1> SUFFICES ASSUME WorldInv, [WorldNext]_worldVars
             PROVE  EntriesKept
  OBVIOUS
<1>t. /\ UnitsInv
      /\ players \in [DOMAIN players -> Player] /\ DOMAIN players \subseteq Users
      /\ profiles \in [Users -> Profile]
  BY DEF WorldInv, UnitsInv
<1> USE <1>t
<1>1. ASSUME NEW u \in Users, TimePasses(u)
      PROVE  EntriesKept
  <2> DEFINE p == [players[u] EXCEPT !.respawn = "due"]
  <2>1. u \in DOMAIN players /\ players' = [players EXCEPT ![u] = p]
    BY <1>1 DEF TimePasses
  <2>2. /\ p.alive = players[u].alive /\ p.hp = players[u].hp /\ p.respawn = "due"
        /\ players[u].respawn = "pending"
    BY <1>1 DEF TimePasses, Player
  <2> HIDE DEF p
  <2>3. QED
    BY <2>1, <2>2, Entry_Kept DEF Kept, Sound, Stranded
<1>2. ASSUME NEW u \in Users, Refresh(u)
      PROVE  EntriesKept
  <2>1. PICK c \in SafePositions(Spawn, {u}) :
          players' = [players EXCEPT ![u] =
              [players[u] EXCEPT !.pos = c, !.hp = InitHP, !.alive = TRUE,
                                 !.potions = Larger(@, MaxPotions),
                                 !.respawn = "none"]]
    BY <1>2 DEF Refresh
  <2> DEFINE q == Larger(players[u].potions, MaxPotions)
             p == [players[u] EXCEPT !.pos = c, !.hp = InitHP, !.alive = TRUE,
                                     !.potions = q, !.respawn = "none"]
  <2>2. u \in DOMAIN players /\ players[u] \in Player
    BY <1>2 DEF Refresh
  <2>3. players' = [players EXCEPT ![u] = p]
    BY <2>1, <2>2 DEF Player
  <2> HIDE DEF q
  <2>4. p.alive = TRUE /\ p.hp = InitHP /\ p.respawn = "none"
    BY <2>2 DEF Player
  <2> HIDE DEF p
  <2>5. QED
    BY <2>2, <2>3, <2>4, Rules, Entry_Kept DEF Kept, Sound, Stranded
<1>3. ASSUME NEW u \in Users, AddOrRestorePlayer(u)
      PROVE  EntriesKept
  <2> DEFINE profile == profiles[u]
             wish == IF profile.here THEN profile.pos ELSE Spawn
  <2>1. PICK c \in SafePositions(wish, {}) :
          players' = With(players, u, PlayerFrom(profile, c))
    BY <1>3 DEF AddOrRestorePlayer, Authenticate
  <2> DEFINE p == PlayerFrom(profile, c)
  <2>2. ValueOr(profile.hp, InitHP) > 0
    BY Rules DEF ValueOr, Profile
  <2>3. p.alive = profile.alive /\ p.respawn = "none" /\ p.hp > 0
    BY <2>2 DEF PlayerFrom
  <2> HIDE DEF p
  <2>4. /\ DOMAIN players' = DOMAIN players \cup {u} /\ players'[u] = p
        /\ \A x \in DOMAIN players \ {u} : players'[x] = players[x]
    BY <2>1 DEF p, With
  <2>5. EntryKept(u)
    BY <1>3, <2>3, <2>4 DEF EntryKept, Sound
  <2>6. QED
    BY <2>4, <2>5 DEF EntriesKept, EntryKept, Kept
<1>4. ASSUME NEW u \in Users, NEW here \in BOOLEAN, RemovePlayer(u, here)
      PROVE  EntriesKept
  BY <1>4 DEF RemovePlayer, Without, EntriesKept, EntryKept, Kept
<1>5. ASSUME NEW u \in Users, NEW d \in Directions, MovePlayer(u, d)
      PROVE  EntriesKept
  <2> DEFINE c == Neighbour(players[u].pos, d)
  <2>1. u \in DOMAIN players /\ players[u] \in Player
    BY <1>5 DEF MovePlayer, Acts
  <2> HIDE DEF c
  <2>2. CASE players' = [players EXCEPT ![u].pos = c]
    <3> DEFINE p == [players[u] EXCEPT !.pos = c]
    <3>1. players' = [players EXCEPT ![u] = p]
      BY <2>2
    <3>2. p.alive = players[u].alive /\ p.respawn = players[u].respawn
          /\ p.hp = players[u].hp
      BY <2>1 DEF Player
    <3> HIDE DEF p
    <3>3. QED
      BY <2>1, <3>1, <3>2, SameState, Entry_Kept
  <2>3. ASSUME NEW t \in DOMAIN treasures,
               players' = [players EXCEPT ![u].pos = c,
                                          ![u].purse = @ + treasures[t].value]
        PROVE  EntriesKept
    <3> DEFINE p == [players[u] EXCEPT !.pos = c,
                                       !.purse = @ + treasures[t].value]
    <3>1. players' = [players EXCEPT ![u] = p]
      BY <2>1, <2>3 DEF Player
    <3>2. p.alive = players[u].alive /\ p.respawn = players[u].respawn
          /\ p.hp = players[u].hp
      BY <2>1 DEF Player
    <3> HIDE DEF p
    <3>3. QED
      BY <2>1, <3>1, <3>2, SameState, Entry_Kept
  <2>4. QED
    BY <1>5, <2>2, <2>3 DEF MovePlayer, TreasuresAt, c
<1>6. ASSUME NEW u \in Users, HealPlayer(u)
      PROVE  EntriesKept
  <2> DEFINE p == [players[u] EXCEPT !.potions = @ - 1, !.hp = Healed(@)]
  <2>1. u \in DOMAIN players /\ players' = [players EXCEPT ![u] = p]
    BY <1>6 DEF HealPlayer, Acts
  <2>2. players[u] \in Player
    BY <2>1
  <2>3. Healed(players[u].hp) > 0
    BY <2>2, Rules, WorldRuleAssumption DEF Healed, Player
  <2>4. p.alive = players[u].alive /\ p.respawn = players[u].respawn
        /\ p.hp = Healed(players[u].hp)
    BY <2>2 DEF Player
  <2> HIDE DEF p
  <2>5. QED
    BY <2>1, <2>3, <2>4, Entry_Kept DEF Kept, Sound, Stranded
<1>7. ASSUME NEW u \in Users, BuyPotion(u)
      PROVE  EntriesKept
  <2> DEFINE p == [players[u] EXCEPT !.purse = @ - PotionPrice, !.potions = @ + 1]
  <2>1. u \in DOMAIN players /\ players' = [players EXCEPT ![u] = p]
    BY <1>7 DEF BuyPotion, Acts
  <2>2. p.alive = players[u].alive /\ p.respawn = players[u].respawn
        /\ p.hp = players[u].hp
    BY <2>1 DEF Player
  <2> HIDE DEF p
  <2>3. QED
    BY <2>1, <2>2, SameState, Entry_Kept
<1>8. ASSUME NEW u \in Users, BuyWeapon(u)
      PROVE  EntriesKept
  <2> DEFINE p == [players[u] EXCEPT !.purse = @ - WeaponPrice,
                                     !.attack = @ + WeaponBoost]
  <2>1. u \in DOMAIN players /\ players' = [players EXCEPT ![u] = p]
    BY <1>8 DEF BuyWeapon, Acts
  <2>2. p.alive = players[u].alive /\ p.respawn = players[u].respawn
        /\ p.hp = players[u].hp
    BY <2>1 DEF Player
  <2> HIDE DEF p
  <2>3. QED
    BY <2>1, <2>2, SameState, Entry_Kept
<1>9. ASSUME NEW u \in Users, NEW delta \in Finds, RewardPlayer(u, delta)
      PROVE  EntriesKept
  <2> DEFINE p == [players[u] EXCEPT !.purse = @ + delta]
  <2>1. u \in DOMAIN players /\ players' = [players EXCEPT ![u] = p]
    BY <1>9 DEF RewardPlayer
  <2>2. p.alive = players[u].alive /\ p.respawn = players[u].respawn
        /\ p.hp = players[u].hp
    BY <2>1 DEF Player
  <2> HIDE DEF p
  <2>3. QED
    BY <2>1, <2>2, SameState, Entry_Kept
<1>10. ASSUME NEW u \in Users, StrikePlayer(u)
      PROVE  EntriesKept
  <2> DEFINE v == Weakest(RivalsInRange(u), players)
             p == Hit(players[v], players[u].attack)
  <2>1. RivalsInRange(u) \in SUBSET Nat /\ RivalsInRange(u) # {}
    BY <1>10, Rules DEF StrikePlayer, RivalsInRange
  <2>2. \A x \in RivalsInRange(u) : x \in DOMAIN players /\ players[x].hp \in Nat
    BY Rules DEF RivalsInRange, Player
  <2>3. v \in DOMAIN players
    BY <2>1, <2>2, WeakestIsMember
  <2>4. players' = [players EXCEPT ![v] = p]
    BY <1>10, <2>3 DEF StrikePlayer
  <2>5. players[v] \in Player /\ players[u].attack \in Nat
    BY <1>10, <2>3 DEF StrikePlayer, Acts, Player
  <2> HIDE DEF v
  <2>6. Kept(players[v], p)
    BY <2>5, HitKeeps
  <2> HIDE DEF p
  <2>7. QED
    BY <2>3, <2>4, <2>6, Entry_Kept
<1>11. ASSUME TickNPC
      PROVE  EntriesKept
  <2> DEFINE n == Min(turns)
             v == Weakest(Victims(n), players)
             p == Hit(players[v], NPCDamage)
  <2>1. CASE players' = players
    BY <2>1 DEF EntriesKept, EntryKept, Kept
  <2>2. CASE Victims(n) # {} /\ players' = [players EXCEPT ![v] = Hit(@, NPCDamage)]
    <3>1. Victims(n) \in SUBSET Nat
      BY Rules DEF Victims
    <3>2. \A x \in Victims(n) : x \in DOMAIN players /\ players[x].hp \in Nat
      BY Rules DEF Victims, Player
    <3>3. v \in DOMAIN players
      BY <2>2, <3>1, <3>2, WeakestIsMember
    <3> HIDE DEF v
    <3>4. players' = [players EXCEPT ![v] = p]
      BY <2>2, <3>3
    <3>5. Kept(players[v], p)
      BY <3>3, HitKeeps, Rules
    <3> HIDE DEF p
    <3>6. QED
      BY <3>3, <3>4, <3>5, Entry_Kept
  <2>3. QED
    BY <1>11, <2>1, <2>2 DEF TickNPC
<1>12. ASSUME RestoreCheckpoint
      PROVE  EntriesKept
  <2>1. players' = [u \in DOMAIN cp.players |-> PlayerOfView(cp.players[u])]
    BY <1>12 DEF RestoreCheckpoint
  <2>2. QED
    BY <1>12, <2>1 DEF EntriesKept, EntryKept
<1>13. CASE UNCHANGED players
  BY <1>13 DEF EntriesKept, EntryKept, Kept
<1> HIDE <1>t
<1>14. ASSUME NEW u \in Users, PlayerStep(u) \/ Refresh(u) \/ TimePasses(u)
      PROVE  EntriesKept
  BY <1>14, <1>1, <1>2, <1>3, <1>4, <1>5, <1>6, <1>7, <1>8, <1>9, <1>10, <1>13
  DEF PlayerStep, units, BuyRefused, StrikeNPC, SlayNPC
<1>15. ASSUME \/ Bootstrap \/ TickBegin \/ TickStep \/ Snapshot
             \/ CaptureCheckpoint \/ RestoreCheckpoint
      PROVE  EntriesKept
  BY <1>15, <1>11, <1>12, <1>13
  DEF TickStep, worldVars, units, Bootstrap, SpawnNPC, SpawnTreasure, TickBegin,
      TickSpawnNPC, TickTreasure, TickEnd, Snapshot, CaptureCheckpoint
<1>16. QED
  BY <1>13, <1>14, <1>15 DEF WorldNext, worldVars, units

LEMMA WorldNext_Living ==
  ASSUME WorldInv, LivingInv, [WorldNext]_worldVars
  PROVE  LivingInv'
<1>1. ASSUME NEW u \in DOMAIN players'
      PROVE  Sound(players'[u])
  <2>1. EntryKept(u)
    BY <1>1, WorldNext_Entries DEF EntriesKept
  <2>2. CASE /\ RestoreCheckpoint /\ u \in DOMAIN cp.players
             /\ players'[u] = PlayerOfView(cp.players[u])
    BY <2>2 DEF RestoreCheckpoint, LivingInv, PlayerOfView, Sound
  <2>3. QED
    BY <2>1, <2>2 DEF EntryKept, Kept, LivingInv
<1>2. CASE cp' = cp
  BY <1>1, <1>2 DEF LivingInv
<1>3. CASE RestoreCheckpoint
  <2>1. cp' = NoCheckpoint \/ cp' = cp
    BY <1>3 DEF RestoreCheckpoint
  <2>2. QED
    BY <1>1, <2>1 DEF LivingInv
<1>4. CASE CaptureCheckpoint
  <2> DEFINE ps == [u \in DOMAIN players |-> View(players[u])]
  <2>1. cp' = [players |-> ps, npcs |-> npcs, treasures |-> treasures,
               version |-> version]
    BY <1>4 DEF CaptureCheckpoint
  <2>2. \A u \in DOMAIN ps : ps[u].alive => ps[u].hp > 0
    BY DEF LivingInv, Sound, View, ProfileOf
  <2> HIDE DEF ps
  <2>3. cp'.players = ps
    BY <2>1
  <2>4. QED
    BY <1>1, <2>2, <2>3 DEF LivingInv
<1>5. QED
  BY <1>2, <1>3, <1>4, WorldNext_CheckpointTaken

(***************************************************************************)
(* A living player always has hit points and never waits for a respawn, so *)
(* refreshPlayerStateLocked (world.go) heals and moves to the spawn nobody *)
(* but the fallen: not after a fight, a login over an old entry, a profile *)
(* with zeros or a restored checkpoint.                                    *)
(***************************************************************************)
THEOREM LivingAreUpTheorem == WorldSpec => []LivingAreUp
<1>1. WorldInit => LivingInv
  BY DEF WorldInit, LivingInv
<1>2. WorldInv /\ LivingInv /\ [WorldNext]_worldVars => LivingInv'
  BY WorldNext_Living
<1>3. LivingInv => LivingAreUp
  BY DEF LivingInv, LivingAreUp
<1>4. QED
  BY <1>1, <1>2, <1>3, WorldInvariant, PTL DEF WorldSpec

(***************************************************************************)
(* EveryDownedPlayerIsDue (world.go:185) is violated, and this is where:   *)
(* AddOrRestorePlayer of the profile of a player who is down, and          *)
(* RestoreCheckpoint of a view of one.  No other operation takes a respawn *)
(* time away from a player who is down.                                    *)
(***************************************************************************)
THEOREM OnlyReturningStrandsTheorem == WorldSpec => OnlyReturningStrands
<1>1. WorldInv /\ [WorldNext]_worldVars =>
        \A u \in DOMAIN players' : Stranded(players'[u]) =>
          \/ u \in DOMAIN players /\ Stranded(players[u])
          \/ AddOrRestorePlayer(u) /\ ~profiles[u].alive
          \/ RestoreCheckpoint /\ ~cp.players[u].alive
  <2> SUFFICES ASSUME WorldInv, [WorldNext]_worldVars,
                      NEW u \in DOMAIN players', Stranded(players'[u])
               PROVE  \/ u \in DOMAIN players /\ Stranded(players[u])
                      \/ AddOrRestorePlayer(u) /\ ~profiles[u].alive
                      \/ RestoreCheckpoint /\ ~cp.players[u].alive
    OBVIOUS
  <2>1. EntryKept(u)
    BY WorldNext_Entries DEF EntriesKept
  <2>2. CASE RestoreCheckpoint /\ players'[u] = PlayerOfView(cp.players[u])
    BY <2>2 DEF PlayerOfView, Stranded
  <2>3. QED
    BY <2>1, <2>2 DEF EntryKept, Kept, Stranded
<1>2. QED
  BY <1>1, WorldInvariant, PTL DEF WorldSpec, OnlyReturningStrands
=============================================================================
