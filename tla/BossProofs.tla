----------------------------- MODULE BossProofs -----------------------------
(***************************************************************************)
(* Proofs about Boss, for any set of attacks and coordinators, any HP, any *)
(* damages and any bound.                                                  *)
(*                                                                         *)
(* The boss is spread over two Redis keys and the local copies of nodes    *)
(* and coordinators.  The inductive invariant says which copies are still  *)
(* true: of the killer, of a coordinator initialising the boss and of one  *)
(* reviving it.  A stall (a lock or a lease that ran out inside a write)   *)
(* ends that knowledge for good, so all but TypeInv is stated without one. *)
(***************************************************************************)
EXTENDS Boss, TLAPS

\* This attack struck the killing blow and has not recorded the death yet.
Killing(a) == attack[a].pc \in {"killer", "marking"}

\* This coordinator is between taking the respawn lock and its last write.
HoldsLock(c) == restore[c].pc \in {"locked", "reviving"}

\* The HP a coordinator read is an HP the boss can have.
TypeInv ==
    /\ BossTypeOK
    /\ \A c \in Coordinators : restore[c].hp <= MaxHP

\* HP and state agree: who has HP is alive, and who is alive exists.
KeysAgree ==
    /\ hp > 0 => boss.alive
    /\ boss.alive => boss.version > 0

\* One life is struck dead once; the next blow needs the next life.
KillsCounted ==
    /\ kills <= boss.version
    /\ hp > 0 => kills < boss.version

\* Only one attack is the killer, of the life the state still shows alive.
OneKiller ==
    /\ \A a \in Attackers : Killing(a) => hp = 0 /\ boss.alive
    /\ \A a \in Attackers :
          attack[a].pc = "marking" => attack[a].version = boss.version
    /\ \A a, b \in Attackers : Killing(a) /\ Killing(b) => a = b

\* Only the leader initialises the boss, and the boss does not exist yet.
OneInitialiser ==
    \A c \in Coordinators :
        restore[c].pc = "initialising" => leader = c /\ boss.version = 0

\* One coordinator at most holds the lock, and the boss it revives is as it
\* read it: dead, due and of the same life.
OneReviver ==
    /\ \A c \in Coordinators : HoldsLock(c) => lock
    /\ \A c, d \in Coordinators : HoldsLock(c) /\ HoldsLock(d) => c = d
    /\ \A c \in Coordinators :
          restore[c].pc = "reviving" =>
              RespawnDue /\ restore[c].version = boss.version

BossSafe ==
    KeysAgree /\ KillsCounted /\ OneKiller /\ OneInitialiser /\ OneReviver

BossInv == TypeInv /\ DeadBossHasRecorder /\ (~stalled => BossSafe)

-----------------------------------------------------------------------------
\* The initial state satisfies the inductive invariant.
LEMMA BossInit_Inv == BossInit => BossInv
<1> SUFFICES ASSUME BossInit
             PROVE  BossInv
  OBVIOUS
<1> USE BossAssumption DEF BossInit, IdleAttack, IdleRestore
<1>1. TypeInv
  <2>1. boss \in BossState
    BY DEF BossState
  <2>2. attack \in [Attackers -> Attack] /\ restore \in [Coordinators -> Restore]
    BY DEF Attack, Restore
  <2>3. lock \in BOOLEAN /\ stalled \in BOOLEAN
    BY Zenon
  <2>4. QED
    BY <2>1, <2>2, <2>3 DEF TypeInv, BossTypeOK
<1>2. DeadBossHasRecorder
  BY DEF DeadBossHasRecorder
<1>3. BossSafe
  BY DEF BossSafe, KeysAgree, KillsCounted, OneKiller, OneInitialiser,
         OneReviver, Killing, HoldsLock
<1>4. QED
  BY <1>1, <1>2, <1>3 DEF BossInv

\* Every step keeps the types and the bound of the HP.
LEMMA BossNext_Type == TypeInv /\ [BossNext]_bossVars => TypeInv'
<1> SUFFICES ASSUME TypeInv, [BossNext]_bossVars
             PROVE  TypeInv'
  OBVIOUS
<1> USE BossAssumption
    DEF TypeInv, BossTypeOK, BossState, Attack, Restore, IdleAttack, IdleRestore
<1>1. ASSUME NEW a \in Attackers, SeeBoss(a)
      PROVE  TypeInv'
  BY <1>1 DEF SeeBoss
<1>2. ASSUME NEW a \in Attackers, Strike(a)
      PROVE  TypeInv'
  BY <1>2 DEF Strike, HPAfter, IsKiller
<1>3. ASSUME NEW a \in Attackers, LoadForDeath(a)
      PROVE  TypeInv'
  BY <1>3 DEF LoadForDeath
<1>4. ASSUME NEW a \in Attackers, RecordDeath(a)
      PROVE  TypeInv'
  BY <1>4 DEF RecordDeath
<1>5. ASSUME NEW a \in Attackers, LoseKiller(a)
      PROVE  TypeInv'
  BY <1>5 DEF LoseKiller
<1>6. ASSUME NEW c \in Coordinators, EnsureBoss(c)
      PROVE  TypeInv'
  BY <1>6 DEF EnsureBoss
<1>7. ASSUME NEW c \in Coordinators, InitGlobalBoss(c)
      PROVE  TypeInv'
  BY <1>7 DEF InitGlobalBoss
<1>8. ASSUME NEW c \in Coordinators, FindDue(c)
      PROVE  TypeInv'
  BY <1>8 DEF FindDue, RespawnDue
<1>9. ASSUME NEW c \in Coordinators, LockRespawn(c)
      PROVE  TypeInv'
  BY <1>9 DEF LockRespawn
<1>10. ASSUME NEW c \in Coordinators, Recheck(c)
      PROVE  TypeInv'
  BY <1>10 DEF Recheck, RespawnDue
<1>11. ASSUME NEW c \in Coordinators, Revive(c)
      PROVE  TypeInv'
  BY <1>11 DEF Revive, RevivedHP
<1>12. ASSUME NEW c \in Coordinators, RestoreFails(c)
      PROVE  TypeInv'
  BY <1>12 DEF RestoreFails, Fault
<1>13. ASSUME NEW c \in Coordinators, ChangeLeader(c)
      PROVE  TypeInv'
  BY <1>13 DEF ChangeLeader, Fault
<1>14. CASE RespawnTimePasses
  BY <1>14 DEF RespawnTimePasses
<1>15. CASE LockExpires
  BY <1>15 DEF LockExpires
<1>16. CASE UNCHANGED bossVars
  BY <1>16 DEF bossVars
<1>17. QED
  BY <1>1, <1>2, <1>3, <1>4, <1>5, <1>6, <1>7, <1>8, <1>9, <1>10, <1>11, <1>12, <1>13, <1>14, <1>15, <1>16
  DEF BossNext

\* Every step keeps a recorder for a boss that is dead and not recorded so.
LEMMA BossNext_Recorder ==
  /\ TypeInv /\ TypeInv' /\ DeadBossHasRecorder
  /\ [BossNext]_bossVars
  => DeadBossHasRecorder'
<1> SUFFICES ASSUME TypeInv, TypeInv', DeadBossHasRecorder, [BossNext]_bossVars
             PROVE  DeadBossHasRecorder'
  OBVIOUS
<1> USE BossAssumption
    DEF TypeInv, BossTypeOK, BossState, Attack, Restore, IdleAttack, IdleRestore,
        DeadBossHasRecorder
<1>1. ASSUME NEW a \in Attackers, SeeBoss(a)
      PROVE  DeadBossHasRecorder'
  BY <1>1 DEF SeeBoss
<1>2. ASSUME NEW a \in Attackers, Strike(a)
      PROVE  DeadBossHasRecorder'
  BY <1>2 DEF Strike, HPAfter, IsKiller
<1>3. ASSUME NEW a \in Attackers, LoadForDeath(a)
      PROVE  DeadBossHasRecorder'
  BY <1>3 DEF LoadForDeath
<1>4. ASSUME NEW a \in Attackers, RecordDeath(a)
      PROVE  DeadBossHasRecorder'
  BY <1>4 DEF RecordDeath
<1>5. ASSUME NEW a \in Attackers, LoseKiller(a)
      PROVE  DeadBossHasRecorder'
  BY <1>5 DEF LoseKiller
<1>6. ASSUME NEW c \in Coordinators, EnsureBoss(c)
      PROVE  DeadBossHasRecorder'
  BY <1>6 DEF EnsureBoss
<1>7. ASSUME NEW c \in Coordinators, InitGlobalBoss(c)
      PROVE  DeadBossHasRecorder'
  BY <1>7 DEF InitGlobalBoss
<1>8. ASSUME NEW c \in Coordinators, FindDue(c)
      PROVE  DeadBossHasRecorder'
  BY <1>8 DEF FindDue, RespawnDue
<1>9. ASSUME NEW c \in Coordinators, LockRespawn(c)
      PROVE  DeadBossHasRecorder'
  BY <1>9 DEF LockRespawn
<1>10. ASSUME NEW c \in Coordinators, Recheck(c)
      PROVE  DeadBossHasRecorder'
  BY <1>10 DEF Recheck, RespawnDue
<1>11. ASSUME NEW c \in Coordinators, Revive(c)
      PROVE  DeadBossHasRecorder'
  BY <1>11 DEF Revive, RevivedHP
<1>12. ASSUME NEW c \in Coordinators, RestoreFails(c)
      PROVE  DeadBossHasRecorder'
  BY <1>12 DEF RestoreFails, Fault
<1>13. ASSUME NEW c \in Coordinators, ChangeLeader(c)
      PROVE  DeadBossHasRecorder'
  BY <1>13 DEF ChangeLeader, Fault
<1>14. CASE RespawnTimePasses
  BY <1>14 DEF RespawnTimePasses
<1>15. CASE LockExpires
  BY <1>15 DEF LockExpires
<1>16. CASE UNCHANGED bossVars
  BY <1>16 DEF bossVars
<1>17. QED
  BY <1>1, <1>2, <1>3, <1>4, <1>5, <1>6, <1>7, <1>8, <1>9, <1>10, <1>11, <1>12, <1>13, <1>14, <1>15, <1>16
  DEF BossNext

\* Every step that is no stall keeps what nodes and coordinators know.
LEMMA BossNext_Safe ==
  /\ TypeInv /\ TypeInv' /\ (~stalled => BossSafe)
  /\ [BossNext]_bossVars
  => (~stalled' => BossSafe')
<1> SUFFICES ASSUME TypeInv, TypeInv', ~stalled => BossSafe,
                    [BossNext]_bossVars, ~stalled'
             PROVE  BossSafe'
  OBVIOUS
<1>s. ~stalled /\ BossSafe
  <2>1. \/ stalled' = stalled
        \/ LockExpires
        \/ \E c \in Coordinators : ChangeLeader(c)
    BY DEF BossNext, bossVars, SeeBoss, Strike, LoadForDeath, RecordDeath,
           LoseKiller, EnsureBoss, InitGlobalBoss, FindDue, LockRespawn, Recheck,
           Revive, RestoreFails, RespawnTimePasses
  <2>2. ~stalled
    BY <2>1, Zenon DEF LockExpires, ChangeLeader
  <2>3. QED
    BY <2>2
<1> USE BossAssumption, <1>s
    DEF TypeInv, BossTypeOK, BossState, Attack, Restore, IdleAttack, IdleRestore,
        BossSafe, KeysAgree, KillsCounted, OneKiller, OneInitialiser, OneReviver,
        Killing, HoldsLock, RespawnDue
<1>1. ASSUME NEW a \in Attackers, SeeBoss(a)
      PROVE  BossSafe'
  BY <1>1 DEF SeeBoss
<1>2. ASSUME NEW a \in Attackers, Strike(a)
      PROVE  BossSafe'
  BY <1>2 DEF Strike, HPAfter, IsKiller
<1>3. ASSUME NEW a \in Attackers, LoadForDeath(a)
      PROVE  BossSafe'
  BY <1>3 DEF LoadForDeath
<1>4. ASSUME NEW a \in Attackers, RecordDeath(a)
      PROVE  BossSafe'
  BY <1>4 DEF RecordDeath
<1>5. ASSUME NEW a \in Attackers, LoseKiller(a)
      PROVE  BossSafe'
  BY <1>5 DEF LoseKiller
<1>6. ASSUME NEW c \in Coordinators, EnsureBoss(c)
      PROVE  BossSafe'
  BY <1>6 DEF EnsureBoss
<1>7. ASSUME NEW c \in Coordinators, InitGlobalBoss(c)
      PROVE  BossSafe'
  BY <1>7 DEF InitGlobalBoss
<1>8. ASSUME NEW c \in Coordinators, FindDue(c)
      PROVE  BossSafe'
  BY <1>8 DEF FindDue
<1>9. ASSUME NEW c \in Coordinators, LockRespawn(c)
      PROVE  BossSafe'
  BY <1>9 DEF LockRespawn
<1>10. ASSUME NEW c \in Coordinators, Recheck(c)
      PROVE  BossSafe'
  BY <1>10 DEF Recheck
<1>11. ASSUME NEW c \in Coordinators, Revive(c)
      PROVE  BossSafe'
  BY <1>11 DEF Revive, RevivedHP
<1>12. ASSUME NEW c \in Coordinators, RestoreFails(c)
      PROVE  BossSafe'
  BY <1>12 DEF RestoreFails, Fault
<1>13. ASSUME NEW c \in Coordinators, ChangeLeader(c)
      PROVE  BossSafe'
  BY <1>13 DEF ChangeLeader, Fault
<1>14. CASE RespawnTimePasses
  BY <1>14 DEF RespawnTimePasses
<1>15. CASE LockExpires
  BY <1>15 DEF LockExpires
<1>16. CASE UNCHANGED bossVars
  BY <1>16 DEF bossVars
<1>17. QED
  BY <1>1, <1>2, <1>3, <1>4, <1>5, <1>6, <1>7, <1>8, <1>9, <1>10, <1>11, <1>12, <1>13, <1>14, <1>15, <1>16
  DEF BossNext

\* The invariant holds in every reachable state.
LEMMA BossInvariant == BossSpec => []BossInv
<1>1. BossInv /\ [BossNext]_bossVars => BossInv'
  BY BossNext_Type, BossNext_Recorder, BossNext_Safe DEF BossInv
<1>2. QED
  BY <1>1, BossInit_Inv, PTL DEF BossSpec

-----------------------------------------------------------------------------
\* HP stays between zero and the maximum, whatever stale HP a coordinator
\* writes back, and every record keeps its shape.
THEOREM BossTypeCorrect == BossSpec => []BossTypeOK
<1>1. BossInv => BossTypeOK
  BY DEF BossInv, TypeInv
<1>2. QED
  BY <1>1, BossInvariant, PTL

\* However many attacks race for the last hit points, one life of the boss
\* has one killer (the script of AtomicAttackBoss and the locked second read
\* of restoreBossIfDue), unless a lock or lease ran out inside a write.
THEOREM OneKillerPerLifeTheorem == BossSpec => []OneKillerPerLife
<1>1. BossInv => OneKillerPerLife
  BY DEF BossInv, BossSafe, KillsCounted, OneKillerPerLife
<1>2. QED
  BY <1>1, BossInvariant, PTL

\* A boss without HP that is still recorded alive always has a killer on its
\* way to record the death, stalled locks or not, unless a killer was lost.
THEOREM DeadBossHasRecorderTheorem == BossSpec => []DeadBossHasRecorder
<1>1. BossInv => DeadBossHasRecorder
  BY DEF BossInv
<1>2. QED
  BY <1>1, BossInvariant, PTL

\* No step heals a living boss or revives one before its time, unless a lock
\* or lease ran out inside a write (boss.go, the second read under the lock).
THEOREM DamageAndDeathStandTheorem == BossSpec => DamageAndDeathStand
<1> DEFINE Stand ==
      (/\ ~stalled'
       /\ hp' > hp \/ (~boss.alive /\ boss'.alive))
      => boss.version = 0 \/ (~boss.alive /\ ~boss.waiting)
<1>1. ASSUME BossInv, [BossNext]_bossVars
      PROVE  [Stand]_bossVars
  <2> SUFFICES ASSUME BossNext, ~stalled',
                      hp' > hp \/ (~boss.alive /\ boss'.alive)
               PROVE  boss.version = 0 \/ (~boss.alive /\ ~boss.waiting)
    BY <1>1
  <2> USE <1>1, BossAssumption
      DEF BossInv, TypeInv, BossTypeOK, BossState, Attack, Restore
  <2>1. \E c \in Coordinators : InitGlobalBoss(c) \/ Revive(c)
    BY DEF BossNext, SeeBoss, Strike, HPAfter, LoadForDeath, RecordDeath,
           LoseKiller, EnsureBoss, FindDue, LockRespawn, Recheck, RestoreFails,
           ChangeLeader, RespawnTimePasses, LockExpires
  <2>2. PICK c \in Coordinators : InitGlobalBoss(c) \/ Revive(c)
    BY <2>1
  <2>3. ~stalled /\ BossSafe
    BY <2>2 DEF InitGlobalBoss, Revive
  <2>4. CASE InitGlobalBoss(c)
    BY <2>3, <2>4 DEF InitGlobalBoss, BossSafe, OneInitialiser
  <2>5. CASE Revive(c)
    BY <2>3, <2>5 DEF Revive, BossSafe, OneReviver, RespawnDue
  <2>6. QED
    BY <2>2, <2>4, <2>5
<1>2. QED
  BY <1>1, BossInvariant, PTL DEF BossSpec, DamageAndDeathStand
=============================================================================
