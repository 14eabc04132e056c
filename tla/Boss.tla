-------------------------------- MODULE Boss --------------------------------
(***************************************************************************)
(* The world boss: HP and state are two Redis keys that every node's       *)
(* AttackBoss and every leading coordinator's restoreBossIfDue read and    *)
(* write.  Sources: storage/store.go (LoadGlobalBoss ... TryLockBoss-      *)
(* Respawn), node/node.go (AttackBoss), coordinator/boss.go.               *)
(*                                                                         *)
(* The kill is decided by a script on the HP key; that the boss is dead is *)
(* recorded afterwards by the killer's node in a separate write.  Reviving *)
(* is guarded by a lock key that expires by itself.                        *)
(***************************************************************************)
EXTENDS Integers

CONSTANTS
    Attackers,     \* attacks that may be in progress at once
    Coordinators,
    MaxHP,         \* defaultBossHP
    Damages,       \* damage one attack can do
    MaxLives,      \* bound on how often the boss is revived
    MaxLost,       \* bound on killers that die before recording the death
    MaxFaults      \* bound on failed restore rounds and changes of leader

ASSUME BossAssumption ==
    /\ MaxHP \in Nat \ {0}
    /\ Damages \subseteq Nat \ {0}
    /\ MaxLives \in Nat /\ MaxLost \in Nat /\ MaxFaults \in Nat

VARIABLES
    hp,            \* boss:global:hp
    boss,          \* boss:global:state; version 0: the key does not exist
    lock,          \* boss:global:respawn_lock exists
    attack,        \* attack[a]: progress of an AttackBoss call
    restore,       \* restore[c]: progress of ensureBoss or restoreBossIfDue
    leader,        \* the coordinator that believes it leads
    kills,         \* history: how often a script run was the killing blow
    lost,          \* history: killers that did not record the death
    faults,        \* number of failed rounds and changes of leader so far
    stalled        \* history: a lock or a lease ran out inside a write window

bossVars ==
    <<hp, boss, lock, attack, restore, leader, kills, lost, faults, stalled>>

\* waiting: RespawnAt lies in the future.
BossState == [alive : BOOLEAN, waiting : BOOLEAN, version : Nat]

Attack == [pc : {"idle", "seen", "killer", "marking"}, version : Nat]

Restore == [pc : {"idle", "initialising", "due", "locked", "reviving"},
            hp : Nat, version : Nat]

IdleAttack == [pc |-> "idle", version |-> 0]

IdleRestore == [pc |-> "idle", hp |-> 0, version |-> 0]

\* The type invariant of the boss.
BossTypeOK ==
    /\ hp \in 0..MaxHP
    /\ boss \in BossState
    /\ lock \in BOOLEAN
    /\ attack \in [Attackers -> Attack]
    /\ restore \in [Coordinators -> Restore]
    /\ leader \in Coordinators
    /\ kills \in Nat /\ lost \in Nat /\ faults \in Nat
    /\ stalled \in BOOLEAN

BossInit ==
    /\ hp = 0
    /\ boss = [alive |-> FALSE, waiting |-> FALSE, version |-> 0]
    /\ lock = FALSE
    /\ attack = [a \in Attackers |-> IdleAttack]
    /\ restore = [c \in Coordinators |-> IdleRestore]
    /\ leader \in Coordinators
    /\ kills = 0 /\ lost = 0 /\ faults = 0
    /\ stalled = FALSE

\* Something goes wrong on a coordinator, within the bound.
Fault == faults < MaxFaults /\ faults' = faults + 1

-----------------------------------------------------------------------------
(* AttackBoss on a node.                                                   *)

\* The first LoadGlobalBoss shows a living boss.
SeeBoss(a) ==
    /\ attack[a].pc = "idle"
    /\ boss.version > 0 /\ boss.alive
    /\ attack' = [attack EXCEPT ![a].pc = "seen"]
    /\ UNCHANGED <<hp, boss, lock, restore, leader, kills, lost, faults, stalled>>

\* Mutant: any attack that leaves no HP is the killing blow.
EveryBlowKills(before, damage) == damage >= before

\* The script calls a blow the killing one if it crosses zero.
IsKiller(before, damage) == before > 0 /\ damage >= before

HPAfter(before, damage) == IF damage >= before THEN 0 ELSE before - damage

\* AtomicAttackBoss: subtract, never below zero, and name the killer.
Strike(a) ==
    /\ attack[a].pc = "seen"
    /\ \E d \in Damages :
          /\ hp' = HPAfter(hp, d)
          /\ IF IsKiller(hp, d)
             THEN /\ attack' = [attack EXCEPT ![a].pc = "killer"]
                  /\ kills' = kills + 1
             ELSE /\ attack' = [attack EXCEPT ![a] = IdleAttack]
                  /\ UNCHANGED kills
    /\ UNCHANGED <<boss, lock, restore, leader, lost, faults, stalled>>

\* Mutant: the killer takes the boss for dead already and records nothing.
LoadForDeathSkipped(a) ==
    /\ attack[a].pc = "killer"
    /\ attack' = [attack EXCEPT ![a] = IdleAttack]
    /\ UNCHANGED <<hp, boss, lock, restore, leader, kills, lost, faults, stalled>>

\* The killer loads the state again.
LoadForDeath(a) ==
    /\ attack[a].pc = "killer"
    /\ attack' = [attack EXCEPT ![a] =
                    IF boss.alive
                    THEN [pc |-> "marking", version |-> boss.version]
                    ELSE IdleAttack]
    /\ UNCHANGED <<hp, boss, lock, restore, leader, kills, lost, faults, stalled>>

\* ... and saves it back, dead until RespawnAt.
RecordDeath(a) ==
    /\ attack[a].pc = "marking"
    /\ boss' = [alive |-> FALSE, waiting |-> TRUE, version |-> attack[a].version]
    /\ attack' = [attack EXCEPT ![a] = IdleAttack]
    /\ UNCHANGED <<hp, lock, restore, leader, kills, lost, faults, stalled>>

\* The killer's node crashes, or one of its two Redis calls fails; errors of
\* both are ignored.
LoseKiller(a) ==
    /\ attack[a].pc \in {"killer", "marking"}
    /\ lost < MaxLost
    /\ lost' = lost + 1
    /\ attack' = [attack EXCEPT ![a] = IdleAttack]
    /\ UNCHANGED <<hp, boss, lock, restore, leader, kills, faults, stalled>>

RespawnTimePasses ==
    /\ boss.waiting
    /\ boss' = [boss EXCEPT !.waiting = FALSE]
    /\ UNCHANGED <<hp, lock, attack, restore, leader, kills, lost, faults, stalled>>

-----------------------------------------------------------------------------
(* ensureBoss and restoreBossIfDue on a coordinator.                       *)

\* It runs once when c becomes leader; the model lets it run at any time while
\* c leads and the boss is missing, and obliges nobody to try again.
EnsureBoss(c) ==
    /\ leader = c
    /\ restore[c].pc = "idle"
    /\ boss.version = 0
    /\ restore' = [restore EXCEPT ![c].pc = "initialising"]
    /\ UNCHANGED <<hp, boss, lock, attack, leader, kills, lost, faults, stalled>>

InitGlobalBoss(c) ==
    /\ restore[c].pc = "initialising"
    /\ hp' = MaxHP
    /\ boss' = [alive |-> TRUE, waiting |-> FALSE, version |-> 1]
    /\ restore' = [restore EXCEPT ![c] = IdleRestore]
    /\ UNCHANGED <<lock, attack, leader, kills, lost, faults, stalled>>

\* Mutant: the respawn time is not looked at.
DeadBoss == boss.version > 0 /\ ~boss.alive

\* The boss is dead and its time has come.
RespawnDue == boss.version > 0 /\ ~boss.alive /\ ~boss.waiting

FindDue(c) ==
    /\ leader = c
    /\ restore[c].pc = "idle"
    /\ RespawnDue
    /\ restore' = [restore EXCEPT ![c].pc = "due"]
    /\ UNCHANGED <<hp, boss, lock, attack, leader, kills, lost, faults, stalled>>

\* TryLockBossRespawn: SET NX with an expiry; nobody ever deletes it.
LockRespawn(c) ==
    /\ restore[c].pc = "due"
    /\ lock' = TRUE
    /\ restore' = [restore EXCEPT ![c] =
                     IF lock THEN IdleRestore ELSE [@ EXCEPT !.pc = "locked"]]
    /\ UNCHANGED <<hp, boss, attack, leader, kills, lost, faults, stalled>>

\* Under the lock everything is read and checked once more.
Recheck(c) ==
    /\ restore[c].pc = "locked"
    /\ restore' = [restore EXCEPT ![c] =
                     IF RespawnDue /\ boss.version < MaxLives
                     THEN [pc |-> "reviving", hp |-> hp, version |-> boss.version]
                     ELSE IdleRestore]
    /\ UNCHANGED <<hp, boss, lock, attack, leader, kills, lost, faults, stalled>>

\* Mutant: the HP is written back as it was read.
SameHP(read) == read

RevivedHP(read) == IF read <= 0 THEN MaxHP ELSE read

\* HP and state are written in one transaction.
Revive(c) ==
    /\ restore[c].pc = "reviving"
    /\ hp' = RevivedHP(restore[c].hp)
    /\ boss' = [alive |-> TRUE, waiting |-> FALSE,
                version |-> restore[c].version + 1]
    /\ restore' = [restore EXCEPT ![c] = IdleRestore]
    /\ UNCHANGED <<lock, attack, leader, kills, lost, faults, stalled>>

\* A Redis call fails, or the process ends.  bossLoop tries again in its next
\* round, ensureBoss with the next leadership.
RestoreFails(c) ==
    /\ restore[c].pc # "idle"
    /\ Fault
    /\ restore' = [restore EXCEPT ![c] = IdleRestore]
    /\ UNCHANGED <<hp, boss, lock, attack, leader, kills, lost, stalled>>

LockExpires ==
    /\ lock
    /\ lock' = FALSE
    /\ stalled' = (stalled \/ \E c \in Coordinators :
                                 restore[c].pc \in {"locked", "reviving"})
    /\ UNCHANGED <<hp, boss, attack, restore, leader, kills, lost, faults>>

\* Another coordinator takes over; the old one finishes what it is doing.
ChangeLeader(c) ==
    /\ leader # c
    /\ Fault
    /\ leader' = c
    /\ stalled' = (stalled \/ restore[leader].pc = "initialising")
    /\ UNCHANGED <<hp, boss, lock, attack, restore, kills, lost>>

-----------------------------------------------------------------------------
BossNext ==
    \/ \E a \in Attackers :
          \/ SeeBoss(a) \/ Strike(a)
          \/ LoadForDeath(a) \/ RecordDeath(a) \/ LoseKiller(a)
    \/ \E c \in Coordinators :
          \/ EnsureBoss(c) \/ InitGlobalBoss(c)
          \/ FindDue(c) \/ LockRespawn(c) \/ Recheck(c) \/ Revive(c)
          \/ RestoreFails(c) \/ ChangeLeader(c)
    \/ RespawnTimePasses \/ LockExpires

\* What bossLoop does if nothing goes wrong, and the end of an ensureBoss.
BossRound(c) ==
    \/ InitGlobalBoss(c)
    \/ FindDue(c) \/ LockRespawn(c) \/ Recheck(c) \/ Revive(c)

(***************************************************************************)
(* Fairness: calls end, time passes, the lock expires, and bossLoop comes  *)
(* round for ever.  Weak fairness is enough because faults are bounded.    *)
(***************************************************************************)
BossFairness ==
    /\ WF_bossVars(RespawnTimePasses)
    /\ WF_bossVars(LockExpires)
    /\ \A a \in Attackers : WF_bossVars(LoadForDeath(a) \/ RecordDeath(a))
    /\ \A c \in Coordinators : WF_bossVars(BossRound(c))

BossSpec == BossInit /\ [][BossNext]_bossVars /\ BossFairness

-----------------------------------------------------------------------------
(***************************************************************************)
(* However many attacks race for the last hit points, one life of the boss *)
(* has one killer, unless a lock or lease ran out inside a write.          *)
(***************************************************************************)
OneKillerPerLife == ~stalled => kills <= boss.version

(***************************************************************************)
(* boss.go:75: the second read under the lock keeps one coordinator from   *)
(* undoing what another did.  Within one life HP only falls: what players  *)
(* did to a living boss is not undone, and no boss returns before its      *)
(* time, unless a lock or lease ran out inside a write.                    *)
(***************************************************************************)
DamageAndDeathStand ==
    [][(/\ ~stalled'
        /\ hp' > hp \/ (~boss.alive /\ boss'.alive))
       => boss.version = 0 \/ (~boss.alive /\ ~boss.waiting)]_bossVars

(***************************************************************************)
(* A boss without HP that is still recorded alive has a killer on its way  *)
(* to record the death, unless a killer was lost.                          *)
(***************************************************************************)
DeadBossHasRecorder ==
    (boss.version > 0 /\ hp = 0 /\ boss.alive /\ lost = 0) =>
        \E a \in Attackers : attack[a].pc \in {"killer", "marking"}

(***************************************************************************)
(* After a kill the boss comes back once its respawn time has come,        *)
(* through failed rounds and changes of leader, unless a killer was lost   *)
(* (past the last life the model looks no further).                        *)
(***************************************************************************)
RecordedKillComesBack ==
    (boss.version > 0 /\ hp = 0)
        ~> (hp > 0 \/ boss.version >= MaxLives \/ lost > 0)

(***************************************************************************)
(* boss.go:17: life and death are updated atomically by the nodes' Boss    *)
(* RPC, and the coordinator brings the boss back when it is due.  So every *)
(* kill, the lost killer's included, is followed by a new life.            *)
(***************************************************************************)
BossComesBack ==
    (boss.version > 0 /\ hp = 0) ~> (hp > 0 \/ boss.version >= MaxLives)
=============================================================================
