------------------------- MODULE MapFailoverProofs -------------------------
(***************************************************************************)
(* Proofs about MapFailover, for any maps, nodes, coordinators, goroutines *)
(* and bounds.                                                             *)
(*                                                                         *)
(* Whatever nodes and coordinators do, Redis sees one of three things: a   *)
(* commit of a topology that some goroutine prepared, a fenced save of a   *)
(* checkpoint, or nothing.  So the invariant of TopologyStoreProofs holds  *)
(* here too, and the lemmas proved there are used for it.  What is added   *)
(* is what nodes and goroutines know: the epochs that writers hold, that a *)
(* drain locks writers out, and what a prepared topology says of the       *)
(* stored one for as long as its commit can succeed.                       *)
(***************************************************************************)
EXTENDS MapFailover, WellFoundedInduction, TLAPS

StoreProofs == INSTANCE TopologyStoreProofs WITH
    Users <- {}, NoSession <- NoNode, session <- [u \in {} |-> NoNode],
    MaxVersion <- MaxEpoch, MaxTermCount <- MaxTerm, MaxSession <- 0

\* Goroutines commit owners for every map, so a fence never outlives its map's
\* owner: it is the topology's.
OwnersInv ==
    /\ topology.version > 0 => \A m \in Maps : topology.owner[m] # NoNode
    /\ \A m \in Maps : fence[m].owner # NoNode => topology.owner[m] # NoNode

\* BeginDrain got the lock, so no tick and no write is inside.
DrainLockInv ==
    \A n \in Nodes : IsDraining(n) => DrainLockFree(n)

\* A goroutine has what its next step needs.
TaskKnows(k) ==
    /\ k.pc # "idle" => k.coord \in Coordinators
    /\ k.pc \notin {"idle", "commit"} => k.failed \in Nodes
    /\ k.pc \in {"checkpoint", "promote", "install", "late", "prepared"} =>
          k.standby \in Nodes
    /\ k.pc \notin {"idle", "start"} => \A m \in Maps : k.next.owner[m] # NoNode

\* The commit of a failover can still succeed over topology T: no other commit
\* came first.
Committable(k, T) == T.version + 1 = k.next.version /\ k.failed # NoNode

\* A prepared topology is never ahead of the stored one, T, by more than one,
\* and while it is ahead it still says what T and the checkpoints cps say.
TaskFollows(k, T, cps) ==
    LET m == MapOf[k.failed]
    IN  /\ k.pc \notin {"idle", "start"} =>
              k.next.version > 0 /\ k.next.version <= T.version + 1
        /\ k.pc \notin {"idle", "start"} /\ Committable(k, T) =>
              T.owner[m] = k.failed /\ k.next.epoch[m] = T.epoch[m] + 1
        /\ k.pc \in {"promote", "install", "prepared", "commit"} /\ Committable(k, T) =>
              cps[m].node = k.failed /\ cps[m].epoch = T.epoch[m]

TaskFits(k) == TaskKnows(k) /\ TaskFollows(k, topology, checkpoint)

FailoverInv ==
    /\ FailoverTypeOK
    /\ StoreProofs!StoreInv
    /\ OwnersInv
    /\ WritersHoldTheirEpoch
    /\ DrainLockInv
    /\ \A t \in Tasks : TaskFits(task[t])

\* What Redis sees of a step.
RedisStep ==
    \/ \E t \in Tasks :
          LET next == task[t].next
          IN  /\ task[t].pc = "commit"
              /\ StoreProofs!CommitAllowed(next.version - 1, next)
              /\ StoreProofs!CommitTopology(next)
    \/ \E n \in Nodes, e \in Nat, v \in Nat :
          StoreProofs!SaveCheckpointIfOwner(n, MapOf[n], e, v)
    \/ UNCHANGED <<topology, fence, checkpoint, granted>> /\ durableTerm' \in Nat

-----------------------------------------------------------------------------
\* LowestID of a non-empty set of nodes is one of them.
LEMMA LowestIDIsMember ==
  ASSUME NEW S \in SUBSET Nodes, S # {}
  PROVE  LowestID(S) \in S
<1> DEFINE R == {ss \in Nat \X Nat : ss[1] < ss[2]}
<1>1. IsWellFoundedOn(R, Nat)
  BY NatLessThanWellFounded DEF OpToRel
<1>2. S \subseteq Nat
  BY NodeAssumption
<1>3. PICK x \in S : \A y \in S : <<y, x>> \notin R
  <2> HIDE DEF R
  <2>1. QED
    BY <1>1, <1>2, WFMin
<1>4. ASSUME NEW y \in S
      PROVE  x <= y
  <2>1. ~(y < x)
    BY <1>2, <1>3, <<y, x>> \in Nat \X Nat
  <2>2. QED
    BY <1>2, <2>1
<1>5. QED
  BY <1>4 DEF LowestID

\* The types of the store are those of TopologyStoreProofs.
LEMMA SameTypes ==
  /\ Store!Topology = StoreProofs!Topology
  /\ Store!NoTopology = StoreProofs!NoTopology
  /\ Store!NoTopology \in Store!Topology
  BY DEF Store!Topology, StoreProofs!Topology, Store!NoTopology,
         StoreProofs!NoTopology

\* The initial state satisfies the inductive invariant.
LEMMA FailoverInit_Inv == FailoverInit => FailoverInv
<1> SUFFICES ASSUME FailoverInit
             PROVE  FailoverInv
  OBVIOUS
<1> USE NodeAssumption DEF FailoverInit, TermsInit
<1>1. FailoverTypeOK
  <2>1. topology \in Store!Topology /\ cache \in [Nodes -> Store!Topology]
    BY SameTypes
  <2>2. fence \in [Maps -> Store!Fence] /\ checkpoint \in [Maps -> Store!Checkpoint]
    BY DEF Store!Fence, Store!Checkpoint, Store!NoFence, Store!NoCheckpoint
  <2>3. task \in [Tasks -> Task] /\ tick \in [Nodes -> Tick]
    BY SameTypes DEF Task, TaskSteps, IdleTask, Tick, IdleTick
  <2>4. QED
    BY <2>1, <2>2, <2>3 DEF FailoverTypeOK, DrainSteps
<1>2. StoreProofs!StoreInit
  BY DEF StoreProofs!StoreInit, StoreProofs!NoTopology, Store!NoTopology,
         StoreProofs!NoFence, Store!NoFence, StoreProofs!NoCheckpoint,
         Store!NoCheckpoint
<1>3. StoreProofs!StoreInv
  BY <1>2, StoreProofs!StoreInit_Inv, NoSessionRecord, FailoverBoundAssumption
<1>4. OwnersInv
  BY DEF OwnersInv, Store!NoTopology, Store!NoFence
<1>5. WritersHoldTheirEpoch /\ DrainLockInv
  BY DEF WritersHoldTheirEpoch, DrainLockInv, IsDraining, IdleTick
<1>6. \A t \in Tasks : TaskFits(task[t])
  BY DEF TaskFits, TaskKnows, TaskFollows, IdleTask
<1>7. QED
  BY <1>1, <1>3, <1>4, <1>5, <1>6 DEF FailoverInv

\* Records that the steps build have their types.
LEMMA IdleRecords == IdleTask \in Task /\ IdleTick \in Tick
  BY SameTypes DEF IdleTask, Task, TaskSteps, IdleTick, Tick

LEMMA AbandonedType == ASSUME NEW k \in Task PROVE Abandoned(k) \in Task
  BY IdleRecords DEF Abandoned, Task, TaskSteps

LEMMA TickRecords ==
  ASSUME NEW r \in Tick, NEW v \in Nat
  PROVE  /\ [r EXCEPT !.pc = "snapshot"] \in Tick
         /\ [r EXCEPT !.pc = "stepping", !.epoch = v] \in Tick
         /\ [r EXCEPT !.pc = "saving", !.detached = v] \in Tick
         /\ [r EXCEPT !.detached = v] \in Tick
  BY DEF Tick

LEMMA TaskRecords ==
  ASSUME NEW k \in Task, NEW m \in Maps, NEW s \in Nodes,
         NEW next \in Store!Topology, NEW v \in Nat
  PROVE  /\ [k EXCEPT !.pc = "select", !.next = next] \in Task
         /\ [k EXCEPT !.pc = "checkpoint", !.standby = s, !.next.owner[m] = s]
               \in Task
         /\ [k EXCEPT !.pc = "promote", !.version = v] \in Task
<1>1. [k.next EXCEPT !.owner[m] = s] \in Store!Topology
  BY DEF Task, Store!Topology
<1>2. QED
  BY <1>1 DEF Task, TaskSteps

LEMMA TaskAdvances ==
  ASSUME NEW k \in Task
  PROVE  /\ [k EXCEPT !.pc = "install"] \in Task
         /\ [k EXCEPT !.pc = "prepared"] \in Task
         /\ [k EXCEPT !.pc = "commit"] \in Task
  BY DEF Task, TaskSteps

LEMMA NextTopology ==
  ASSUME NEW T \in Store!Topology, NEW m \in Maps, NEW e \in Nat
  PROVE  [T EXCEPT !.version = @ + 1, !.term = e, !.epoch[m] = @ + 1]
            \in Store!Topology
<1>1. T.version + 1 \in Nat /\ T.epoch[m] + 1 \in Nat
  BY DEF Store!Topology
<1>2. [T.epoch EXCEPT ![m] = @ + 1] \in [Maps -> Nat]
  BY <1>1 DEF Store!Topology
<1>3. QED
  BY <1>1, <1>2 DEF Store!Topology

LEMMA NodeValues ==
  ASSUME FailoverTypeOK, NEW n \in Nodes
  PROVE  /\ CachedEpoch(n) \in Nat
         /\ LoadedWorld(MapOf[n]) \in Nat
         /\ TickedWorld(n) \in Nat
<1>1. MapOf[n] \in Maps
  BY MapOfAssumption
<1>2. CachedEpoch(n) \in Nat
  BY <1>1 DEF FailoverTypeOK, CachedEpoch, Store!Topology
<1>3. checkpoint[MapOf[n]].version \in Nat
  BY <1>1 DEF FailoverTypeOK, Store!Checkpoint
<1>4. tick[n].detached \in Nat /\ world[n] \in Nat
  BY DEF FailoverTypeOK, Tick
<1>5. QED
  BY <1>2, <1>3, <1>4 DEF LoadedWorld, TickedWorld

LEMMA CheckpointType ==
  ASSUME FailoverTypeOK, NEW n \in Nodes, NEW e \in Nat, NEW v \in Nat,
         Store!SaveCheckpointIfOwner(n, MapOf[n], e, v)
  PROVE  /\ checkpoint' \in [Maps -> Store!Checkpoint]
         /\ UNCHANGED <<durableTerm, topology, fence, granted>>
  BY DEF Store!SaveCheckpointIfOwner, FailoverTypeOK, Store!Checkpoint

LEMMA TickStep_Types ==
  ASSUME FailoverTypeOK, NEW n \in Nodes, TickStep(n)
  PROVE  tick' \in [Nodes -> Tick] /\ world' \in [Nodes -> Nat]
<1> DEFINE w(v) == IF tick[n].detached > 0 THEN v ELSE 0
           r(v) == IF RequireAuthority(n, tick[n].epoch)
                   THEN [tick[n] EXCEPT !.pc = "saving", !.detached = w(v)]
                   ELSE IdleTick
<1>1. PICK v \in BackgroundStep(TickedWorld(n)) :
          /\ world' = IF tick[n].detached > 0 THEN world
                                              ELSE [world EXCEPT ![n] = v]
          /\ tick' = [tick EXCEPT ![n] = r(v)]
  BY DEF TickStep
<1>2. v \in Nat
  BY NodeValues DEF BackgroundStep
<1>3. /\ tick \in [Nodes -> Tick] /\ tick[n] \in Tick
      /\ world \in [Nodes -> Nat]
  BY DEF FailoverTypeOK
<1>4. w(v) \in Nat
  BY <1>2
<1>5. r(v) \in Tick
  <2> HIDE DEF w
  <2>1. QED
    BY <1>3, <1>4, TickRecords, IdleRecords
<1> HIDE DEF r
<1>6. QED
  BY <1>1, <1>2, <1>3, <1>5

LEMMA Continue_Type ==
  ASSUME FailoverTypeOK, NEW t \in Tasks, NEW k \in Task, Continue(t, k)
  PROVE  FailoverTypeOK'
  BY DEF FailoverTypeOK, Continue, NoFault, redisVars, nodeVars

\* Every step keeps the types.
LEMMA FailoverNext_Type ==
  FailoverInv /\ [FailoverNext]_failoverVars => FailoverTypeOK'
<1> SUFFICES ASSUME FailoverInv, [FailoverNext]_failoverVars
             PROVE  FailoverTypeOK'
  OBVIOUS
<1>t. FailoverTypeOK /\ \A t \in Tasks : TaskKnows(task[t])
  BY DEF FailoverInv, TaskFits
<1> USE <1>t, NodeAssumption, MapOfAssumption, FailoverBoundAssumption
    DEF FailoverTypeOK, redisVars, coordVars, nodeVars, Fault, NoFault
<1>1. ASSUME NEW n \in Nodes, RefreshTopology(n)
      PROVE  FailoverTypeOK'
  BY <1>1
  DEF RefreshTopology
<1>2. ASSUME NEW n \in Nodes, EnsureOwnedMaps(n)
      PROVE  FailoverTypeOK'
  BY <1>2, NodeValues DEF EnsureOwnedMaps
<1>3. ASSUME NEW n \in Nodes, GraceExpires(n)
      PROVE  FailoverTypeOK'
  BY <1>3
  DEF GraceExpires
<1>4. ASSUME NEW n \in Nodes, TickSnapshot(n)
      PROVE  FailoverTypeOK'
  <2>1. [tick[n] EXCEPT !.pc = "snapshot"] \in Tick
    BY TickRecords
  <2>2. QED
    BY <1>4, <2>1 DEF TickSnapshot
<1>5. ASSUME NEW n \in Nodes, TickBegin(n)
      PROVE  FailoverTypeOK'
  <2>1. [tick[n] EXCEPT !.pc = "stepping", !.epoch = CachedEpoch(n)] \in Tick
    BY NodeValues, TickRecords
  <2>2. QED
    BY <1>5, <2>1, IdleRecords DEF TickBegin
<1>6. ASSUME NEW n \in Nodes, TickStep(n)
      PROVE  FailoverTypeOK'
  BY <1>6, TickStep_Types DEF TickStep
<1>7. ASSUME NEW n \in Nodes, TickSave(n)
      PROVE  FailoverTypeOK'
  <2>1. tick[n].epoch \in Nat /\ TickedWorld(n) \in Nat
    BY NodeValues DEF Tick
  <2>2. /\ durableTerm' \in Nat /\ topology' \in Store!Topology
        /\ fence' \in [Maps -> Store!Fence]
        /\ checkpoint' \in [Maps -> Store!Checkpoint]
        /\ granted' \in SUBSET (Maps \X Nat \X Nodes)
    BY <1>7, <2>1, CheckpointType DEF TickSave
  <2>3. faults' \in Nat /\ tick' \in [Nodes -> Tick]
    BY <1>7, IdleRecords DEF TickSave
  <2>4. QED
    BY <1>7, <2>2, <2>3 DEF TickSave
<1>8. ASSUME NEW n \in Nodes, WriteBegin(n)
      PROVE  FailoverTypeOK'
  BY <1>8, NodeValues DEF WriteBegin
<1>9. ASSUME NEW n \in Nodes, WriteFinish(n)
      PROVE  FailoverTypeOK'
  <2>1. PICK v \in IF world[n] > 0 THEN PlayerOperation(world[n])
                          ELSE {0, LoadedWorld(MapOf[n]) + 1} :
            world' = [world EXCEPT ![n] = v]
    BY <1>9 DEF WriteFinish
  <2>2. world[n] \in Nat /\ LoadedWorld(MapOf[n]) \in Nat
    BY NodeValues
  <2>3. v \in Nat
    BY <2>1, <2>2 DEF PlayerOperation
  <2>4. QED
    BY <1>9, <2>1, <2>3 DEF WriteFinish
<1>10. ASSUME NEW n \in Nodes, ReadWorld(n)
      PROVE  FailoverTypeOK'
  BY <1>10
  DEF ReadWorld
<1>11. ASSUME NEW n \in Nodes, BeginDrain(n)
      PROVE  FailoverTypeOK'
  BY <1>11
  DEF BeginDrain, DrainSteps
<1>12. ASSUME NEW n \in Nodes, SaveFinalCheckpoints(n)
      PROVE  FailoverTypeOK'
  <2>1. CachedEpoch(n) \in Nat /\ world[n] \in Nat
    BY NodeValues
  <2>2. /\ durableTerm' \in Nat /\ topology' \in Store!Topology
        /\ fence' \in [Maps -> Store!Fence]
        /\ checkpoint' \in [Maps -> Store!Checkpoint]
        /\ granted' \in SUBSET (Maps \X Nat \X Nodes)
    BY <1>12, <2>1, CheckpointType DEF SaveFinalCheckpoints
  <2>3. /\ faults' \in Nat
        /\ drain' \in [Nodes -> DrainSteps]
    BY <1>12 DEF SaveFinalCheckpoints, DrainSteps
  <2>4. QED
    BY <1>12, <2>2, <2>3 DEF SaveFinalCheckpoints
<1>13. ASSUME NEW n \in Nodes, DrainAgain(n)
      PROVE  FailoverTypeOK'
  BY <1>13
  DEF DrainAgain, DrainSteps
<1>14. ASSUME NEW n \in Nodes, DrainPoll(n)
      PROVE  FailoverTypeOK'
  BY <1>14
  DEF DrainPoll, DrainSteps, DrainOutcomes
<1>15. ASSUME NEW n \in Nodes, Exit(n)
      PROVE  FailoverTypeOK'
  <2>1. LoseNodeMemory(n)
    BY <1>15 DEF Exit
  <2>2. /\ drain' \in [Nodes -> DrainSteps]
        /\ cache' \in [Nodes -> Store!Topology] /\ fresh' \in [Nodes -> BOOLEAN]
        /\ world' \in [Nodes -> Nat] /\ tick' \in [Nodes -> Tick]
        /\ write' \in [Nodes -> Nat]
    BY <2>1, IdleRecords, SameTypes DEF LoseNodeMemory, DrainSteps
  <2>3. task' \in [Tasks -> Task] /\ faults' \in Nat
    BY <1>15, IdleRecords DEF Exit
  <2>4. QED
    BY <1>15, <2>2, <2>3 DEF Exit
<1>16. ASSUME NEW n \in Nodes, CrashNode(n)
      PROVE  FailoverTypeOK'
  <2>1. LoseNodeMemory(n)
    BY <1>16 DEF CrashNode
  <2>2. /\ drain' \in [Nodes -> DrainSteps]
        /\ cache' \in [Nodes -> Store!Topology] /\ fresh' \in [Nodes -> BOOLEAN]
        /\ world' \in [Nodes -> Nat] /\ tick' \in [Nodes -> Tick]
        /\ write' \in [Nodes -> Nat]
    BY <2>1, IdleRecords, SameTypes DEF LoseNodeMemory, DrainSteps
  <2>3. task' \in [Tasks -> Task] /\ faults' \in Nat
    BY <1>16, IdleRecords DEF CrashNode
  <2>4. QED
    BY <1>16, <2>2, <2>3 DEF CrashNode
<1>17. ASSUME NEW n \in Nodes, RestartNode(n)
      PROVE  FailoverTypeOK'
  BY <1>17
  DEF RestartNode
<1>18. ASSUME NEW n \in Nodes, RegisterNode(n)
      PROVE  FailoverTypeOK'
  BY <1>18
  DEF RegisterNode
<1>19. ASSUME NEW n \in Nodes, RegistrationExpires(n)
      PROVE  FailoverTypeOK'
  BY <1>19
  DEF RegistrationExpires
<1>20. ASSUME NEW c \in Coordinators, ElectLeader(c)
      PROVE  FailoverTypeOK'
  BY <1>20
  DEF ElectLeader, CountTerm, Believe
<1>21. ASSUME NEW c \in Coordinators, LoseLeadership(c)
      PROVE  FailoverTypeOK'
  BY <1>21
  DEF LoseLeadership, Drop
<1>22. ASSUME NEW c \in Coordinators, RestartCoordinator(c)
      PROVE  FailoverTypeOK'
  <2>1. task' \in [Tasks -> Task]
    BY <1>22, AbandonedType DEF RestartCoordinator
  <2>2. QED
    BY <1>22, <2>1 DEF RestartCoordinator, Drop
<1>23. ASSUME NEW c \in Coordinators, NEW n \in Nodes, ConnectNode(c, n)
      PROVE  FailoverTypeOK'
  BY <1>23
  DEF ConnectNode
<1>24. ASSUME NEW c \in Coordinators, NEW n \in Nodes, NodeRecovers(c, n)
      PROVE  FailoverTypeOK'
  BY <1>24
  DEF NodeRecovers
<1>25. ASSUME NEW c \in Coordinators, NEW t \in Tasks, Bootstrap(c, t)
      PROVE  FailoverTypeOK'
  <2>1. InitialTopology(c) \in Store!Topology
    <3>1. \A m \in Maps : LowestID(Candidates(c, m)) \in Nodes
      <4> TAKE m \in Maps
      <4>1. Candidates(c, m) \in SUBSET Nodes /\ Candidates(c, m) # {}
        BY <1>25 DEF Bootstrap, Candidates
      <4>2. QED
        BY <4>1, LowestIDIsMember
    <3>2. QED
      BY <3>1 DEF InitialTopology, Store!Topology
  <2>2. [IdleTask EXCEPT !.pc = "commit", !.coord = c, !.next = InitialTopology(c)]
           \in Task
    BY <2>1, IdleRecords DEF Task, TaskSteps
  <2>3. QED
    BY <1>25, <2>2 DEF Bootstrap
<1>26. ASSUME NEW c \in Coordinators, NEW n \in Nodes, NEW t \in Tasks,
             NodeUnhealthy(c, n, t)
      PROVE  FailoverTypeOK'
  <2>1. [IdleTask EXCEPT !.pc = "start", !.coord = c, !.failed = n] \in Task
    BY IdleRecords DEF Task, TaskSteps
  <2>2. task' \in [Tasks -> Task]
    BY <1>26, <2>1 DEF NodeUnhealthy, Spawn
  <2>3. QED
    BY <1>26, <2>2 DEF NodeUnhealthy
<1>27. ASSUME NEW c \in Coordinators, NEW n \in Nodes, NEW t \in Tasks,
             ReconcileDraining(c, n, t)
      PROVE  FailoverTypeOK'
  <2>1. [IdleTask EXCEPT !.pc = "start", !.coord = c, !.failed = n] \in Task
    BY IdleRecords DEF Task, TaskSteps
  <2>2. task' \in [Tasks -> Task]
    BY <1>27, <2>1 DEF ReconcileDraining, Spawn
  <2>3. QED
    BY <1>27, <2>2 DEF ReconcileDraining
<1>28. ASSUME NEW t \in Tasks, StartFailover(t)
      PROVE  FailoverTypeOK'
  <2> DEFINE k == task[t]
             m == MapOf[k.failed]
             next == [topology EXCEPT !.version = @ + 1,
                                      !.term = leaderTerm[k.coord],
                                      !.epoch[m] = @ + 1]
  <2>1. k \in Task /\ k.failed \in Nodes /\ k.coord \in Coordinators /\ m \in Maps
    BY <1>28 DEF StartFailover, TaskKnows
  <2>2. next \in Store!Topology
    <3>1. topology \in Store!Topology /\ leaderTerm[k.coord] \in Nat
      BY <2>1
    <3>2. QED
      BY <2>1, <3>1, NextTopology
  <2>3. [k EXCEPT !.pc = "select", !.next = next] \in Task
    BY <2>1, <2>2, TaskRecords
  <2> HIDE DEF next
  <2>4. PICK r \in Task : Continue(t, r)
    BY <1>28, <2>3, IdleRecords DEF StartFailover, next
  <2>5. QED
    BY <2>4, Continue_Type
<1>29. ASSUME NEW t \in Tasks, SelectStandby(t)
      PROVE  FailoverTypeOK'
  <2> DEFINE k == task[t]
             m == MapOf[k.failed]
             standbys == Candidates(k.coord, m) \ {k.failed}
             s == LowestID(standbys)
  <2>1. k \in Task /\ k.failed \in Nodes /\ m \in Maps
    BY <1>29 DEF SelectStandby, TaskKnows
  <2>2. standbys # {} => s \in Nodes
    <3>1. standbys \in SUBSET Nodes
      BY DEF Candidates
    <3> HIDE DEF standbys
    <3>2. QED
      BY <3>1, LowestIDIsMember
  <2> HIDE DEF s
  <2>3. s \in Nodes => [k EXCEPT !.pc = "checkpoint", !.standby = s,
                                 !.next.owner[m] = s] \in Task
    BY <2>1, TaskRecords
  <2>4. PICK r \in Task : Continue(t, r)
    BY <1>29, <2>2, <2>3, IdleRecords DEF SelectStandby, s
  <2>5. QED
    BY <2>4, Continue_Type
<1>30. ASSUME NEW t \in Tasks, LoadCheckpoint(t)
      PROVE  FailoverTypeOK'
  <2> DEFINE k == task[t]
             v == checkpoint[MapOf[k.failed]].version
  <2>1. k \in Task /\ k.failed \in Nodes
    BY <1>30 DEF LoadCheckpoint, TaskKnows
  <2>2. v \in Nat
    BY <2>1 DEF Store!Checkpoint
  <2>3. [k EXCEPT !.pc = "promote", !.version = v] \in Task
    BY <2>1, <2>2, TaskRecords
  <2>4. PICK r \in Task : Continue(t, r)
    BY <1>30, <2>3, IdleRecords DEF LoadCheckpoint
  <2>5. QED
    BY <2>4, Continue_Type
<1>31. ASSUME NEW t \in Tasks, PromoteCheck(t)
      PROVE  FailoverTypeOK'
  <2>1. [task[t] EXCEPT !.pc = "install"] \in Task
    BY TaskAdvances
  <2>2. PICK r \in Task : Continue(t, r)
    BY <1>31, <2>1, IdleRecords DEF PromoteCheck
  <2>3. QED
    BY <2>2, Continue_Type
<1>32. ASSUME NEW t \in Tasks, PromoteInstall(t)
      PROVE  FailoverTypeOK'
  <2> DEFINE s == task[t].standby
  <2>1. s \in Nodes /\ task[t].version \in Nat
    BY <1>32 DEF PromoteInstall, TaskKnows, Task
  <2>2. world' \in [Nodes -> Nat]
    BY <1>32, <2>1 DEF PromoteInstall
  <2>3. [tick[s] EXCEPT !.detached = world[s]] \in Tick
    <3>1. tick[s] \in Tick /\ world[s] \in Nat
      BY <2>1
    <3>2. QED
      BY <3>1, TickRecords
  <2>4. tick' \in [Nodes -> Tick]
    BY <1>32, <2>1, <2>3 DEF PromoteInstall
  <2>5. [task[t] EXCEPT !.pc = "prepared"] \in Task
    BY TaskAdvances
  <2>6. task' \in [Tasks -> Task]
    BY <1>32, <2>5, IdleRecords DEF PromoteInstall
  <2>7. QED
    BY <1>32, <2>2, <2>4, <2>6 DEF PromoteInstall
<1>33. ASSUME NEW t \in Tasks, CheckTerm(t)
      PROVE  FailoverTypeOK'
  <2>1. [task[t] EXCEPT !.pc = "commit"] \in Task
    BY TaskAdvances
  <2>2. PICK r \in Task : Continue(t, r)
    BY <1>33, <2>1, IdleRecords DEF CheckTerm
  <2>3. QED
    BY <2>2, Continue_Type
<1>34. ASSUME NEW t \in Tasks, Commit(t)
      PROVE  FailoverTypeOK'
  <2> DEFINE next == task[t].next
  <2>1. next \in Store!Topology
    BY DEF Task
  <2>2. \/ Store!CommitTopology(next)
        \/ UNCHANGED redisVars
    BY <1>34 DEF Commit, Store!CompareAndSaveTopology,
             Store!CompareAndSaveTopologyAndMigrateSessions
  <2> HIDE DEF next
  <2>3. ASSUME Store!CommitTopology(next)
        PROVE  /\ topology' \in Store!Topology /\ UNCHANGED <<durableTerm, checkpoint>>
               /\ fence' \in [Maps -> Store!Fence]
               /\ granted' \in SUBSET (Maps \X Nat \X Nodes)
    <3>1. topology' = next /\ UNCHANGED <<durableTerm, checkpoint>>
      BY <2>3 DEF Store!CommitTopology
    <3>2. fence' \in [Maps -> Store!Fence]
      BY <2>1, <2>3 DEF Store!CommitTopology, Store!FencesAfter, Store!Fence,
                        Store!Topology
    <3>3. granted' \in SUBSET (Maps \X Nat \X Nodes)
      BY <2>1, <2>3 DEF Store!CommitTopology, Store!Topology
    <3>4. QED
      BY <2>1, <3>1, <3>2, <3>3
  <2>4. task' \in [Tasks -> Task]
    BY <1>34, IdleRecords DEF Commit
  <2>5. QED
    BY <1>34, <2>2, <2>3, <2>4 DEF Commit
<1>35. ASSUME NEW t \in Tasks, GiveUp(t)
      PROVE  FailoverTypeOK'
  BY <1>35, AbandonedType DEF GiveUp
<1>36. CASE UNCHANGED failoverVars
  BY <1>36 DEF failoverVars
<1> HIDE DEF FailoverTypeOK
<1>37. ASSUME NEW n \in Nodes, NodeStep(n)
      PROVE  FailoverTypeOK'
  BY <1>37, <1>1, <1>2, <1>3, <1>4, <1>5, <1>6, <1>7, <1>8, <1>9, <1>10, <1>11,
     <1>12, <1>13, <1>14, <1>15, <1>16, <1>17, <1>18, <1>19
  DEF NodeStep
<1>38. ASSUME NEW c \in Coordinators, CoordinatorStep(c)
      PROVE  FailoverTypeOK'
  BY <1>38, <1>20, <1>21, <1>22, <1>23, <1>24, <1>25, <1>26, <1>27
  DEF CoordinatorStep
<1>39. ASSUME NEW t \in Tasks, TaskStep(t) \/ GiveUp(t)
      PROVE  FailoverTypeOK'
  BY <1>39, <1>28, <1>29, <1>30, <1>31, <1>32, <1>33, <1>34, <1>35
  DEF TaskStep
<1>40. QED
  BY <1>36, <1>37, <1>38, <1>39
  DEF FailoverNext, failoverVars, redisVars, coordVars, nodeVars

-----------------------------------------------------------------------------
(* What Redis sees, and what follows for the stored state.                 *)

\* The scripts are those of TopologyStoreProofs.
LEMMA SaveIsStores ==
  ASSUME NEW n, NEW m, NEW e, NEW v, Store!SaveCheckpointIfOwner(n, m, e, v)
  PROVE  StoreProofs!SaveCheckpointIfOwner(n, m, e, v)
  BY DEF Store!SaveCheckpointIfOwner, StoreProofs!SaveCheckpointIfOwner,
         Store!FenceAdmits, StoreProofs!FenceAdmits

LEMMA CommitIsStores ==
  ASSUME NEW next, NEW expected,
         Store!CommitAllowed(expected, next), Store!CommitTopology(next)
  PROVE  StoreProofs!CommitAllowed(expected, next) /\ StoreProofs!CommitTopology(next)
<1>1. StoreProofs!CommitAllowed(expected, next)
  BY DEF Store!CommitAllowed, StoreProofs!CommitAllowed, Store!Valid, StoreProofs!Valid,
         Store!TermFenceOpen, StoreProofs!TermFenceOpen, Store!TermNotBehindTopology,
         StoreProofs!TermNotBehindTopology, Store!EpochsAdvance,
         StoreProofs!EpochsAdvance
<1>2. StoreProofs!CommitTopology(next)
  BY DEF Store!CommitTopology, StoreProofs!CommitTopology, Store!FencesAfter,
         StoreProofs!FencesAfter
<1>3. QED
  BY <1>1, <1>2

\* Every step is a commit of a goroutine's topology, a fenced save, or no
\* change of the stored state but the term counter.
LEMMA FailoverNext_Redis ==
  FailoverInv /\ [FailoverNext]_failoverVars => RedisStep
<1> SUFFICES ASSUME FailoverInv, [FailoverNext]_failoverVars
             PROVE  RedisStep
  OBVIOUS
<1>t. FailoverTypeOK
  BY DEF FailoverInv
<1> USE <1>t DEF RedisStep
<1>1. ASSUME NEW n \in Nodes, TickSave(n)
      PROVE  RedisStep
  <2>1. tick[n].epoch \in Nat /\ TickedWorld(n) \in Nat
    BY NodeValues DEF FailoverTypeOK, Tick
  <2>2. \/ Store!SaveCheckpointIfOwner(n, MapOf[n], tick[n].epoch, TickedWorld(n))
        \/ UNCHANGED redisVars
    BY <1>1 DEF TickSave
  <2>3. QED
    BY <2>1, <2>2, SaveIsStores DEF redisVars, FailoverTypeOK
<1>2. ASSUME NEW n \in Nodes, SaveFinalCheckpoints(n)
      PROVE  RedisStep
  <2>1. CachedEpoch(n) \in Nat /\ world[n] \in Nat
    BY NodeValues DEF FailoverTypeOK
  <2>2. \/ Store!SaveCheckpointIfOwner(n, MapOf[n], CachedEpoch(n), world[n])
        \/ UNCHANGED redisVars
    BY <1>2 DEF SaveFinalCheckpoints
  <2>3. QED
    BY <2>1, <2>2, SaveIsStores DEF redisVars, FailoverTypeOK
<1>3. ASSUME NEW c \in Coordinators, ElectLeader(c)
      PROVE  RedisStep
  BY <1>3 DEF ElectLeader, CountTerm, Believe, FailoverTypeOK
<1>4. ASSUME NEW t \in Tasks, Commit(t)
      PROVE  RedisStep
  <2> DEFINE next == task[t].next
  <2>1. \/ /\ task[t].pc = "commit"
           /\ Store!CommitAllowed(next.version - 1, next)
           /\ Store!CommitTopology(next)
        \/ UNCHANGED redisVars
    BY <1>4 DEF Commit, Store!CompareAndSaveTopology,
             Store!CompareAndSaveTopologyAndMigrateSessions
  <2>2. QED
    BY <2>1, CommitIsStores DEF redisVars, FailoverTypeOK
<1>5. CASE UNCHANGED <<topology, fence, checkpoint, granted, durableTerm>>
  BY <1>5 DEF FailoverTypeOK
<1> HIDE DEF RedisStep
<1>6. ASSUME NEW n \in Nodes, NodeStep(n)
      PROVE  RedisStep
  BY <1>6, <1>1, <1>2, <1>5
  DEF NodeStep, redisVars, coordVars, nodeVars, RefreshTopology,
      EnsureOwnedMaps, GraceExpires, TickSnapshot, TickBegin, TickStep,
      WriteBegin, WriteFinish, ReadWorld, BeginDrain, DrainAgain, DrainPoll,
      Exit, CrashNode, RestartNode, RegisterNode, RegistrationExpires
<1>7. ASSUME NEW c \in Coordinators, CoordinatorStep(c)
      PROVE  RedisStep
  BY <1>7, <1>3, <1>5
  DEF CoordinatorStep, redisVars, coordVars, nodeVars, LoseLeadership, Drop,
      RestartCoordinator, ConnectNode, NodeRecovers, Bootstrap, NodeUnhealthy,
      ReconcileDraining
<1>8. ASSUME NEW t \in Tasks, TaskStep(t) \/ GiveUp(t)
      PROVE  RedisStep
  BY <1>8, <1>4, <1>5
  DEF TaskStep, redisVars, coordVars, nodeVars, StartFailover, Continue,
      SelectStandby, LoadCheckpoint, PromoteCheck, PromoteInstall, CheckTerm,
      GiveUp
<1>9. QED
  BY <1>5, <1>6, <1>7, <1>8
  DEF FailoverNext, failoverVars, redisVars, coordVars, nodeVars

\* So the invariant of the store holds here.
LEMMA RedisStep_Store ==
  ASSUME FailoverInv, RedisStep
  PROVE  StoreProofs!StoreInv' /\ granted \subseteq granted' /\ OwnersInv'
<1> USE NodeAssumption, NoSessionRecord, FailoverBoundAssumption
<1>1. StoreProofs!StoreInv /\ OwnersInv /\ FailoverTypeOK
  BY DEF FailoverInv
<1>2. ASSUME NEW t \in Tasks, task[t].pc = "commit",
             StoreProofs!CommitAllowed(task[t].next.version - 1, task[t].next),
             StoreProofs!CommitTopology(task[t].next)
      PROVE  StoreProofs!StoreInv' /\ granted \subseteq granted' /\ OwnersInv'
  <2> DEFINE next == task[t].next
  <2>1. next \in StoreProofs!Topology
    BY <1>1, SameTypes DEF FailoverTypeOK, Task
  <2>2. \A m \in Maps : next.owner[m] # NoNode
    BY <1>2 DEF FailoverInv, TaskFits, TaskKnows
  <2> HIDE DEF next
  <2>3. StoreProofs!CommitTopology(next)
    BY <1>2 DEF next
  <2>4. /\ topology' \in StoreProofs!Topology
        /\ fence' \in [Maps -> StoreProofs!Fence]
        /\ granted' \in SUBSET (Maps \X Nat \X Nodes)
        /\ StoreProofs!GrantInv' /\ StoreProofs!FenceInv'
        /\ StoreProofs!FenceFollowsTopology' /\ StoreProofs!CheckpointFromEpochOwner'
    BY <1>1, <1>2, <2>1, StoreProofs!Commit_Inv DEF next
  <2>5. StoreProofs!StoreInv'
    BY <1>1, <2>3, <2>4
    DEF StoreProofs!StoreInv, StoreProofs!StoreTypeOK, StoreProofs!CommitTopology
  <2>6. OwnersInv'
    BY <2>2, <2>3 DEF OwnersInv, StoreProofs!CommitTopology, StoreProofs!FencesAfter
  <2>7. QED
    BY <2>3, <2>5, <2>6 DEF StoreProofs!CommitTopology
<1>3. ASSUME NEW n \in Nodes, NEW e \in Nat, NEW v \in Nat,
             StoreProofs!SaveCheckpointIfOwner(n, MapOf[n], e, v)
      PROVE  StoreProofs!StoreInv' /\ granted \subseteq granted' /\ OwnersInv'
  <2>1. MapOf[n] \in Maps
    BY MapOfAssumption
  <2>2. StoreProofs!StoreInv'
    BY <1>1, <1>3, <2>1, StoreProofs!Save_Inv
  <2>3. QED
    BY <1>1, <1>3, <2>2 DEF StoreProofs!SaveCheckpointIfOwner, OwnersInv
<1>4. CASE UNCHANGED <<topology, fence, checkpoint, granted>> /\ durableTerm' \in Nat
  <2>1. StoreProofs!StoreInv'
    BY <1>1, <1>4
    DEF StoreProofs!StoreInv, StoreProofs!StoreTypeOK, StoreProofs!GrantInv,
        StoreProofs!FenceInv, StoreProofs!FenceFollowsTopology,
        StoreProofs!CheckpointFromEpochOwner
  <2>2. QED
    BY <1>1, <1>4, <2>1 DEF OwnersInv
<1>5. QED
  BY <1>2, <1>3, <1>4 DEF RedisStep

\* A fence that admits a node names the owner that Redis routes to.
LEMMA FenceNamesRoutedOwner ==
  ASSUME FailoverInv, NEW n \in Nodes, NEW m \in Maps, NEW e,
         fence[m].owner = n, fence[m].epoch = e
  PROVE  /\ <<m, e, n>> \in granted
         /\ topology.owner[m] = n /\ topology.epoch[m] = e
<1>1. StoreProofs!StoreInv /\ OwnersInv
  BY DEF FailoverInv
<1>2. topology.owner[m] # NoNode
  BY <1>1, NodeAssumption DEF OwnersInv
<1>3. fence[m] = [owner |-> topology.owner[m], epoch |-> topology.epoch[m]]
  BY <1>1, <1>2 DEF StoreProofs!StoreInv, StoreProofs!FenceFollowsTopology
<1>4. <<m, e, n>> \in granted
  BY <1>1, NodeAssumption DEF StoreProofs!StoreInv, StoreProofs!FenceInv
<1>5. QED
  BY <1>3, <1>4

LEMMA AuthorityIsGranted ==
  ASSUME FailoverInv, NEW n \in Nodes, NEW e, RequireAuthority(n, e)
  PROVE  /\ <<MapOf[n], e, n>> \in granted
         /\ topology.owner[MapOf[n]] = n /\ topology.epoch[MapOf[n]] = e
  BY MapOfAssumption, FenceNamesRoutedOwner DEF RequireAuthority, Store!FenceAdmits

-----------------------------------------------------------------------------
(* Writers, drains and goroutines.                                         *)

\* Writers keep the grant they were let in with.
LEMMA FailoverNext_Writers ==
  FailoverInv /\ [FailoverNext]_failoverVars => WritersHoldTheirEpoch'
<1> SUFFICES ASSUME FailoverInv, [FailoverNext]_failoverVars
             PROVE  WritersHoldTheirEpoch'
  OBVIOUS
<1>t. /\ FailoverTypeOK /\ WritersHoldTheirEpoch
      /\ granted \subseteq granted'
  BY FailoverNext_Redis, RedisStep_Store DEF FailoverInv
<1>n. tick \in [Nodes -> Tick] /\ write \in [Nodes -> Nat]
  BY <1>t DEF FailoverTypeOK
<1> USE <1>t, <1>n DEF WritersHoldTheirEpoch
<1>1. ASSUME NEW n \in Nodes, TickSnapshot(n)
      PROVE  WritersHoldTheirEpoch'
  <2>1. \A k \in Nodes : tick'[k].epoch = tick[k].epoch
    BY <1>1 DEF TickSnapshot, Tick
  <2>2. QED
    BY <1>1, <2>1 DEF TickSnapshot
<1>2. ASSUME NEW n \in Nodes, TickBegin(n)
      PROVE  WritersHoldTheirEpoch'
  <2>1. \A k \in Nodes \ {n} : tick'[k] = tick[k]
    BY <1>2 DEF TickBegin
  <2>2. \/ tick'[n] = IdleTick
        \/ /\ RequireAuthority(n, CachedEpoch(n))
           /\ tick'[n] = [tick[n] EXCEPT !.pc = "stepping", !.epoch = CachedEpoch(n)]
    BY <1>2 DEF TickBegin
  <2>3. tick'[n].epoch > 0 => <<MapOf[n], tick'[n].epoch, n>> \in granted
    <3>1. CASE tick'[n] = IdleTick
      BY <3>1 DEF IdleTick
    <3>2. CASE tick'[n] # IdleTick
      <4>1. tick'[n].epoch = CachedEpoch(n)
        BY <2>2, <3>2 DEF Tick
      <4>2. <<MapOf[n], CachedEpoch(n), n>> \in granted
        BY <2>2, <3>2, AuthorityIsGranted
      <4>3. QED
        BY <4>1, <4>2
    <3>3. QED
      BY <3>1, <3>2
  <2>4. QED
    BY <1>2, <2>1, <2>3 DEF TickBegin
<1>3. ASSUME NEW n \in Nodes, TickStep(n)
      PROVE  WritersHoldTheirEpoch'
  <2>1. \A k \in Nodes : tick'[k].epoch \in {0, tick[k].epoch}
    BY <1>3 DEF TickStep, Tick, IdleTick
  <2>2. write' = write
    BY <1>3 DEF TickStep
  <2>3. \A k \in Nodes : tick'[k].epoch > 0 =>
            <<MapOf[k], tick'[k].epoch, k>> \in granted
    <3> SUFFICES ASSUME NEW k \in Nodes, tick'[k].epoch > 0
                 PROVE  <<MapOf[k], tick'[k].epoch, k>> \in granted
      OBVIOUS
    <3>1. tick'[k].epoch = tick[k].epoch
      BY <2>1
    <3>2. QED
      BY <3>1
  <2>4. QED
    BY <2>2, <2>3
<1>4. ASSUME NEW n \in Nodes, TickSave(n)
      PROVE  WritersHoldTheirEpoch'
  BY <1>4 DEF TickSave, IdleTick
<1>5. ASSUME NEW n \in Nodes, WriteBegin(n)
      PROVE  WritersHoldTheirEpoch'
  <2>1. <<MapOf[n], CachedEpoch(n), n>> \in granted
    BY <1>5, AuthorityIsGranted DEF WriteBegin
  <2>2. QED
    BY <1>5, <2>1 DEF WriteBegin
<1>6. ASSUME NEW n \in Nodes, WriteFinish(n)
      PROVE  WritersHoldTheirEpoch'
  BY <1>6
  DEF WriteFinish, PlayerOperation, LoadedWorld
<1>7. ASSUME NEW n \in Nodes, Exit(n)
      PROVE  WritersHoldTheirEpoch'
  BY <1>7 DEF Exit, LoseNodeMemory, IdleTick
<1>8. ASSUME NEW n \in Nodes, CrashNode(n)
      PROVE  WritersHoldTheirEpoch'
  BY <1>8 DEF CrashNode, LoseNodeMemory, IdleTick
<1>9. ASSUME NEW t \in Tasks, PromoteInstall(t)
      PROVE  WritersHoldTheirEpoch'
  <2>1. \A k \in Nodes : tick'[k].epoch = tick[k].epoch
    BY <1>9 DEF PromoteInstall, Tick
  <2>2. QED
    BY <1>9, <2>1 DEF PromoteInstall
<1>10. CASE UNCHANGED <<tick, write>>
  BY <1>10
<1> HIDE DEF WritersHoldTheirEpoch
<1>11. ASSUME NEW n \in Nodes, NodeStep(n)
      PROVE  WritersHoldTheirEpoch'
  BY <1>11, <1>1, <1>2, <1>3, <1>4, <1>5, <1>6, <1>7, <1>8, <1>10
  DEF NodeStep, redisVars, coordVars, nodeVars, RefreshTopology,
      EnsureOwnedMaps, GraceExpires, ReadWorld, BeginDrain,
      SaveFinalCheckpoints, DrainAgain, DrainPoll, RestartNode, RegisterNode,
      RegistrationExpires
<1>12. ASSUME NEW c \in Coordinators, CoordinatorStep(c)
      PROVE  WritersHoldTheirEpoch'
  BY <1>12, <1>10
  DEF CoordinatorStep, redisVars, coordVars, nodeVars, ElectLeader, CountTerm,
      Believe, LoseLeadership, Drop, RestartCoordinator, ConnectNode,
      NodeRecovers, Bootstrap, NodeUnhealthy, Spawn, ReconcileDraining
<1>13. ASSUME NEW t \in Tasks, TaskStep(t) \/ GiveUp(t)
      PROVE  WritersHoldTheirEpoch'
  BY <1>13, <1>9, <1>10
  DEF TaskStep, redisVars, coordVars, nodeVars, StartFailover, Continue,
      SelectStandby, LoadCheckpoint, PromoteCheck, CheckTerm, Commit,
      Store!CompareAndSaveTopology,
      Store!CompareAndSaveTopologyAndMigrateSessions, Store!CommitTopology,
      GiveUp
<1>14. QED
  BY <1>10, <1>11, <1>12, <1>13
  DEF FailoverNext, failoverVars, redisVars, coordVars, nodeVars

\* While a node drains, nobody else holds its lock.
LEMMA FailoverNext_DrainLock ==
  FailoverInv /\ [FailoverNext]_failoverVars => DrainLockInv'
<1> SUFFICES ASSUME FailoverInv, [FailoverNext]_failoverVars
             PROVE  DrainLockInv'
  OBVIOUS
<1>t. DrainLockInv
  BY DEF FailoverInv
<1>n. /\ tick \in [Nodes -> Tick] /\ write \in [Nodes -> Nat]
      /\ drain \in [Nodes -> DrainSteps]
  BY DEF FailoverInv, FailoverTypeOK
<1> USE <1>t, <1>n DEF DrainLockInv
<1>1. ASSUME NEW n \in Nodes, TickSnapshot(n)
      PROVE  DrainLockInv'
  <2>1. \A k \in Nodes : IsDraining(k) =>
            tick'[k].pc \in {tick[k].pc, "idle", "snapshot"}
    BY <1>1 DEF TickSnapshot, Tick, IdleTick, IsDraining, DrainLockFree
  <2>2. QED
    BY <1>1, <2>1 DEF TickSnapshot, IsDraining, DrainLockFree
<1>2. ASSUME NEW n \in Nodes, TickBegin(n)
      PROVE  DrainLockInv'
  <2>1. \A k \in Nodes : IsDraining(k) =>
            tick'[k].pc \in {tick[k].pc, "idle", "snapshot"}
    BY <1>2 DEF TickBegin, Tick, IdleTick, IsDraining, DrainLockFree
  <2>2. QED
    BY <1>2, <2>1 DEF TickBegin, IsDraining, DrainLockFree
<1>3. ASSUME NEW n \in Nodes, TickStep(n)
      PROVE  DrainLockInv'
  <2>1. \A k \in Nodes : IsDraining(k) =>
            tick'[k].pc \in {tick[k].pc, "idle", "snapshot"}
    BY <1>3 DEF TickStep, Tick, IdleTick, IsDraining, DrainLockFree
  <2>2. QED
    BY <1>3, <2>1 DEF TickStep, IsDraining, DrainLockFree
<1>4. ASSUME NEW n \in Nodes, TickSave(n)
      PROVE  DrainLockInv'
  BY <1>4 DEF TickSave, IdleTick, IsDraining, DrainLockFree
<1>5. ASSUME NEW n \in Nodes, WriteBegin(n)
      PROVE  DrainLockInv'
  BY <1>5 DEF WriteBegin, IsDraining, DrainLockFree
<1>6. ASSUME NEW n \in Nodes, WriteFinish(n)
      PROVE  DrainLockInv'
  BY <1>6 DEF WriteFinish, IsDraining, DrainLockFree
<1>7. ASSUME NEW n \in Nodes, Exit(n)
      PROVE  DrainLockInv'
  BY <1>7 DEF Exit, LoseNodeMemory, IdleTick, IsDraining, DrainLockFree
<1>8. ASSUME NEW n \in Nodes, CrashNode(n)
      PROVE  DrainLockInv'
  BY <1>8 DEF CrashNode, LoseNodeMemory, IdleTick, IsDraining, DrainLockFree
<1>9. ASSUME NEW t \in Tasks, PromoteInstall(t)
      PROVE  DrainLockInv'
  <2>1. \A k \in Nodes : IsDraining(k) =>
            tick'[k].pc \in {tick[k].pc, "idle", "snapshot"}
    BY <1>9 DEF PromoteInstall, Tick, IdleTick, IsDraining, DrainLockFree
  <2>2. QED
    BY <1>9, <2>1 DEF PromoteInstall, IsDraining, DrainLockFree
<1>10. ASSUME NEW n \in Nodes, BeginDrain(n)
      PROVE  DrainLockInv'
  BY <1>10 DEF BeginDrain, IsDraining, DrainLockFree
<1>11. ASSUME NEW n \in Nodes, SaveFinalCheckpoints(n)
      PROVE  DrainLockInv'
  BY <1>11 DEF SaveFinalCheckpoints, IsDraining, DrainLockFree
<1>12. ASSUME NEW n \in Nodes, DrainAgain(n)
      PROVE  DrainLockInv'
  BY <1>12 DEF DrainAgain, IsDraining, DrainLockFree
<1>13. ASSUME NEW n \in Nodes, DrainPoll(n)
      PROVE  DrainLockInv'
  BY <1>13 DEF DrainPoll, IsDraining, DrainLockFree
<1>14. CASE UNCHANGED <<tick, write, drain>>
  BY <1>14 DEF IsDraining, DrainLockFree
<1> HIDE DEF DrainLockInv
<1>15. ASSUME NEW n \in Nodes, NodeStep(n)
      PROVE  DrainLockInv'
  BY <1>15, <1>1, <1>2, <1>3, <1>4, <1>5, <1>6, <1>10, <1>11, <1>12, <1>13,
     <1>7, <1>8, <1>14
  DEF NodeStep, redisVars, coordVars, nodeVars, RefreshTopology,
      EnsureOwnedMaps, GraceExpires, ReadWorld, RestartNode, RegisterNode,
      RegistrationExpires
<1>16. ASSUME NEW c \in Coordinators, CoordinatorStep(c)
      PROVE  DrainLockInv'
  BY <1>16, <1>14
  DEF CoordinatorStep, redisVars, coordVars, nodeVars, ElectLeader, CountTerm,
      Believe, LoseLeadership, Drop, RestartCoordinator, ConnectNode,
      NodeRecovers, Bootstrap, NodeUnhealthy, Spawn, ReconcileDraining
<1>17. ASSUME NEW t \in Tasks, TaskStep(t) \/ GiveUp(t)
      PROVE  DrainLockInv'
  BY <1>17, <1>9, <1>14
  DEF TaskStep, redisVars, coordVars, nodeVars, StartFailover, Continue,
      SelectStandby, LoadCheckpoint, PromoteCheck, CheckTerm, Commit,
      Store!CompareAndSaveTopology,
      Store!CompareAndSaveTopologyAndMigrateSessions, Store!CommitTopology,
      GiveUp
<1>18. QED
  BY <1>14, <1>15, <1>16, <1>17
  DEF FailoverNext, failoverVars, redisVars, coordVars, nodeVars

\* What Redis does to the topology and the checkpoints leaves a goroutine that
\* can still commit with what it knew: another commit makes its own commit
\* fail, and a save is one of the owner it replaces.
LEMMA RedisStep_TaskFollows ==
  ASSUME FailoverInv, RedisStep, NEW k \in Task, TaskFits(k)
  PROVE  TaskFollows(k, topology', checkpoint')
<1>1. /\ TaskKnows(k) /\ TaskFollows(k, topology, checkpoint)
      /\ topology \in Store!Topology /\ k.next \in Store!Topology
  BY DEF FailoverInv, FailoverTypeOK, TaskFits, Task
<1>2. ASSUME NEW t \in Tasks, task[t].pc = "commit",
             StoreProofs!CommitAllowed(task[t].next.version - 1, task[t].next),
             StoreProofs!CommitTopology(task[t].next)
      PROVE  TaskFollows(k, topology', checkpoint')
  <2>1. task[t].next.version \in Nat
    BY DEF FailoverInv, FailoverTypeOK, Task, Store!Topology
  <2>2. topology'.version = topology.version + 1
    BY <1>2, <2>1 DEF StoreProofs!CommitTopology, StoreProofs!CommitAllowed
  <2>3. topology.version \in Nat /\ k.next.version \in Nat
    BY <1>1 DEF Store!Topology
  <2>4. QED
    BY <1>1, <2>2, <2>3 DEF TaskFollows, Committable
<1>3. ASSUME NEW n \in Nodes, NEW e \in Nat, NEW v \in Nat,
             StoreProofs!SaveCheckpointIfOwner(n, MapOf[n], e, v)
      PROVE  TaskFollows(k, topology', checkpoint')
  <2> DEFINE m == MapOf[n]
  <2>1. m \in Maps
    BY MapOfAssumption
  <2>2. /\ topology' = topology
        /\ checkpoint' = [checkpoint EXCEPT ![m] =
                             [node |-> n, epoch |-> e, version |-> v]]
        /\ fence[m].owner = n /\ fence[m].epoch = e
    BY <1>3 DEF StoreProofs!SaveCheckpointIfOwner, StoreProofs!FenceAdmits
  <2>3. topology.owner[m] = n /\ topology.epoch[m] = e
    BY <2>1, <2>2, FenceNamesRoutedOwner
  <2>4. checkpoint \in [Maps -> Store!Checkpoint]
    BY DEF FailoverInv, FailoverTypeOK
  <2> HIDE DEF m
  <2>5. \A q \in Maps : checkpoint'[q] =
            IF q = m THEN [node |-> n, epoch |-> e, version |-> v] ELSE checkpoint[q]
    BY <2>1, <2>2, <2>4
  <2>6. \A q \in Maps : q = m => checkpoint'[q].node = n /\ checkpoint'[q].epoch = e
    BY <2>5
  <2>7. k.failed # NoNode => MapOf[k.failed] \in Maps
    BY MapOfAssumption DEF Task
  <2>8. QED
    BY <1>1, <2>2, <2>3, <2>5, <2>6, <2>7 DEF TaskFollows, Committable
<1>4. CASE UNCHANGED <<topology, checkpoint>>
  BY <1>1, <1>4
<1>5. QED
  BY <1>2, <1>3, <1>4 DEF RedisStep

\* Every goroutine still fits after a step.
LEMMA FailoverNext_Tasks ==
  FailoverInv /\ [FailoverNext]_failoverVars => (\A t \in Tasks : TaskFits(task[t]))'
<1> SUFFICES ASSUME FailoverInv, [FailoverNext]_failoverVars
             PROVE  (\A t \in Tasks : TaskFits(task[t]))'
  OBVIOUS
<1> DEFINE Fits(k) == TaskKnows(k) /\ TaskFollows(k, topology', checkpoint')
<1> SUFFICES \A s \in Tasks : Fits(task'[s])
  BY DEF TaskFits
<1>t. /\ FailoverTypeOK /\ OwnersInv
      /\ \A t \in Tasks : TaskKnows(task[t]) /\ TaskFits(task[t])
      /\ task \in [Tasks -> Task] /\ MapOf \in [Nodes -> Maps]
  BY MapOfAssumption DEF FailoverInv, FailoverTypeOK, TaskFits
<1>g. topology.version = 0 => \A m \in Maps : topology.epoch[m] = 0
  BY DEF FailoverInv, StoreProofs!StoreInv, StoreProofs!GrantInv
<1>k. \A t \in Tasks : TaskFollows(task[t], topology', checkpoint') /\ Fits(task[t])
  BY <1>t, FailoverNext_Redis, RedisStep_TaskFollows
<1>i. Fits(IdleTask)
  BY DEF TaskKnows, TaskFollows, IdleTask
<1>a. \A t \in Tasks : Fits(Abandoned(task[t]))
  <2> SUFFICES ASSUME NEW t \in Tasks PROVE Fits(Abandoned(task[t]))
    OBVIOUS
  <2> DEFINE k == task[t]
             r == [k EXCEPT !.pc = "late"]
  <2>1. k \in Task /\ Fits(k)
    BY <1>t, <1>k
  <2>2. /\ r.pc = "late" /\ r.failed = k.failed /\ r.coord = k.coord
        /\ r.standby = k.standby /\ r.next = k.next
    BY <2>1 DEF Task
  <2>3. Abandoned(k) = IF k.pc \in {"install", "late"} THEN r ELSE IdleTask
    BY DEF Abandoned
  <2> HIDE DEF r
  <2>4. k.pc \in {"install", "late"} => Fits(r)
    BY <2>1, <2>2 DEF TaskKnows, TaskFollows, Committable
  <2>5. QED
    BY <2>3, <2>4, <1>i
<1> HIDE DEF Fits
<1>u. ASSUME NEW t \in Tasks, NEW r, Fits(r), task' = [task EXCEPT ![t] = r]
      PROVE  \A s \in Tasks : Fits(task'[s])
  BY <1>u, <1>k, <1>t
<1> USE <1>t, NodeAssumption DEF Fits
<1>1. ASSUME NEW n \in Nodes, CrashNode(n)
      PROVE  \A s \in Tasks : Fits(task'[s])
  <2>1. \A t \in Tasks : task'[t] \in {task[t], IdleTask}
    BY <1>1 DEF CrashNode
  <2>2. QED
    BY <2>1, <1>k, <1>i
<1>2. ASSUME NEW c \in Coordinators, RestartCoordinator(c)
      PROVE  \A s \in Tasks : Fits(task'[s])
  <2>1. \A t \in Tasks : task'[t] \in {task[t], Abandoned(task[t])}
    BY <1>2 DEF RestartCoordinator
  <2>2. QED
    BY <2>1, <1>k, <1>a
<1>3. ASSUME NEW c \in Coordinators, NEW t \in Tasks, Bootstrap(c, t)
      PROVE  \A s \in Tasks : Fits(task'[s])
  <2> DEFINE r == [IdleTask EXCEPT !.pc = "commit", !.coord = c,
                                 !.next = InitialTopology(c)]
  <2>1. task' = [task EXCEPT ![t] = r] /\ UNCHANGED <<topology, checkpoint>>
    BY <1>3 DEF Bootstrap, redisVars
  <2>2. \A m \in Maps : LowestID(Candidates(c, m)) \in Nodes
    <3> TAKE m \in Maps
    <3>1. Candidates(c, m) \in SUBSET Nodes /\ Candidates(c, m) # {}
      BY <1>3 DEF Bootstrap, Candidates
    <3>2. QED
      BY <3>1, LowestIDIsMember
  <2>3. TaskKnows(r)
    BY <2>2 DEF TaskKnows, IdleTask, InitialTopology
  <2>4. TaskFollows(r, topology', checkpoint')
    <3>1. topology'.version \in Nat
      BY <2>1 DEF FailoverTypeOK, Store!Topology
    <3>2. r.next.version = 1 /\ r.failed = NoNode
      BY DEF IdleTask, InitialTopology
    <3> HIDE DEF r
    <3>3. QED
      BY <3>1, <3>2 DEF TaskFollows, Committable
  <2> HIDE DEF r
  <2>5. QED
    BY <2>1, <2>3, <2>4, <1>u
<1>4. ASSUME NEW c \in Coordinators, NEW n \in Nodes, NEW t \in Tasks,
             NodeUnhealthy(c, n, t)
      PROVE  \A s \in Tasks : Fits(task'[s])
  <2> DEFINE r == [IdleTask EXCEPT !.pc = "start", !.coord = c, !.failed = n]
  <2>1. task' = [task EXCEPT ![t] = r]
    BY <1>4 DEF NodeUnhealthy, Spawn
  <2>2. Fits(r)
    BY DEF TaskKnows, TaskFollows, IdleTask
  <2> HIDE DEF r
  <2>3. QED
    BY <2>1, <2>2, <1>u
<1>5. ASSUME NEW c \in Coordinators, NEW n \in Nodes, NEW t \in Tasks,
             ReconcileDraining(c, n, t)
      PROVE  \A s \in Tasks : Fits(task'[s])
  <2> DEFINE r == [IdleTask EXCEPT !.pc = "start", !.coord = c, !.failed = n]
  <2>1. task' = [task EXCEPT ![t] = r]
    BY <1>5 DEF ReconcileDraining, Spawn
  <2>2. Fits(r)
    BY DEF TaskKnows, TaskFollows, IdleTask
  <2> HIDE DEF r
  <2>3. QED
    BY <2>1, <2>2, <1>u
<1>6. ASSUME NEW t \in Tasks, StartFailover(t)
      PROVE  \A s \in Tasks : Fits(task'[s])
  <2> DEFINE k == task[t]
             m == MapOf[k.failed]
             next == [topology EXCEPT !.version = @ + 1,
                                      !.term = leaderTerm[k.coord],
                                      !.epoch[m] = @ + 1]
             r == [k EXCEPT !.pc = "select", !.next = next]
  <2>1. k \in Task /\ k.failed \in Nodes /\ k.coord \in Coordinators /\ m \in Maps
    BY <1>6 DEF StartFailover, TaskKnows, FailoverTypeOK
  <2>2. CASE task' = [task EXCEPT ![t] = IdleTask]
    BY <2>2, <1>i, <1>u
  <2>3. ASSUME task' = [task EXCEPT ![t] = r],
               topology.owner[m] = k.failed, topology.epoch[m] >= 1
        PROVE  \A s \in Tasks : Fits(task'[s])
    <3>1. UNCHANGED <<topology, checkpoint>>
      BY <1>6 DEF StartFailover, Continue, redisVars
    <3>2. topology \in Store!Topology
      BY DEF FailoverTypeOK
    <3>3. topology.version > 0 /\ \A q \in Maps : topology.owner[q] # NoNode
      BY <2>1, <2>3, <3>2, <1>g DEF OwnersInv, Store!Topology
    <3>4. /\ next.version = topology.version + 1 /\ next.owner = topology.owner
          /\ next.epoch[m] = topology.epoch[m] + 1
      BY <2>1, <3>2 DEF Store!Topology
    <3> HIDE DEF next
    <3>5. /\ r.pc = "select" /\ r.next = next /\ r.failed = k.failed
          /\ r.coord = k.coord
      BY <2>1 DEF Task
    <3> HIDE DEF r
    <3>6. TaskKnows(r)
      BY <2>1, <3>3, <3>4, <3>5 DEF TaskKnows
    <3>7. TaskFollows(r, topology, checkpoint)
      BY <2>1, <2>3, <3>2, <3>3, <3>4, <3>5 DEF TaskFollows, Store!Topology
    <3>8. QED
      BY <2>3, <3>1, <3>6, <3>7, <1>u
  <2>4. \/ task' = [task EXCEPT ![t] = IdleTask]
        \/ /\ task' = [task EXCEPT ![t] = r]
           /\ topology.owner[m] = k.failed
           /\ topology.epoch[m] \in 1..(MaxEpoch - 1)
    BY <1>6 DEF StartFailover, Continue
  <2> HIDE DEF r
  <2>5. QED
    BY <2>2, <2>3, <2>4
<1>7. ASSUME NEW t \in Tasks, SelectStandby(t)
      PROVE  \A s \in Tasks : Fits(task'[s])
  <2> DEFINE k == task[t]
             m == MapOf[k.failed]
             standbys == Candidates(k.coord, m) \ {k.failed}
             x == LowestID(standbys)
             r == [k EXCEPT !.pc = "checkpoint", !.standby = x,
                            !.next.owner[m] = x]
  <2>1. k \in Task /\ TaskKnows(k) /\ k.pc = "select" /\ k.failed \in Nodes /\ m \in Maps
    BY <1>7 DEF SelectStandby, TaskKnows, FailoverTypeOK
  <2>2. standbys # {} => x \in Nodes
    <3>1. standbys \in SUBSET Nodes
      BY DEF Candidates
    <3> HIDE DEF standbys
    <3>2. QED
      BY <3>1, LowestIDIsMember
  <2>3. \/ task' = [task EXCEPT ![t] = IdleTask]
        \/ standbys # {} /\ task' = [task EXCEPT ![t] = r]
    BY <1>7 DEF SelectStandby, Continue
  <2> HIDE DEF x, standbys
  <2>4. ASSUME x \in Nodes
        PROVE  Fits(r)
    <3>1. /\ r.pc = "checkpoint" /\ r.failed = k.failed /\ r.coord = k.coord
          /\ r.standby = x
          /\ r.next.version = k.next.version /\ r.next.epoch = k.next.epoch
          /\ \A q \in Maps : r.next.owner[q] = IF q = m THEN x ELSE k.next.owner[q]
      BY <2>1 DEF Task, Store!Topology
    <3> HIDE DEF r
    <3>2. TaskKnows(r)
      BY <2>1, <2>4, <3>1 DEF TaskKnows
    <3>3. TaskFollows(k, topology', checkpoint')
      BY <1>k
    <3>4. QED
      BY <2>1, <3>1, <3>2, <3>3 DEF TaskFollows, Committable
  <2> HIDE DEF r
  <2>5. QED
    BY <2>2, <2>3, <2>4, <1>i, <1>u
<1>8. ASSUME NEW t \in Tasks, LoadCheckpoint(t)
      PROVE  \A s \in Tasks : Fits(task'[s])
  <2> DEFINE k == task[t]
             m == MapOf[k.failed]
             r == [k EXCEPT !.pc = "promote", !.version = checkpoint[m].version]
  <2>1. k \in Task /\ TaskKnows(k) /\ k.pc = "checkpoint" /\ k.failed \in Nodes
        /\ m \in Maps
    BY <1>8 DEF LoadCheckpoint, TaskKnows, FailoverTypeOK
  <2>2. /\ UNCHANGED <<topology, checkpoint>>
        /\ \/ task' = [task EXCEPT ![t] = IdleTask]
           \/ CheckpointUsable(k, checkpoint[m]) /\ task' = [task EXCEPT ![t] = r]
    BY <1>8 DEF LoadCheckpoint, Continue, redisVars
  <2>3. ASSUME CheckpointUsable(k, checkpoint[m])
        PROVE  Fits(r)
    <3>1. /\ r.pc = "promote" /\ r.failed = k.failed /\ r.coord = k.coord
          /\ r.standby = k.standby /\ r.next = k.next
      BY <2>1 DEF Task
    <3> HIDE DEF r
    <3>2. TaskKnows(r)
      BY <2>1, <3>1 DEF TaskKnows
    <3>3. TaskFollows(k, topology, checkpoint)
      BY DEF TaskFits
    <3>4. checkpoint[m].epoch \in Nat /\ topology.epoch[m] \in Nat
      BY <2>1 DEF FailoverTypeOK, Store!Checkpoint, Store!Topology
    <3>5. TaskFollows(r, topology, checkpoint)
      BY <2>1, <2>3, <3>1, <3>3, <3>4 DEF TaskFollows, Committable, CheckpointUsable
    <3>6. QED
      BY <2>2, <3>2, <3>5
  <2> HIDE DEF r
  <2>4. QED
    BY <2>2, <2>3, <1>i, <1>u
<1>9. ASSUME NEW t \in Tasks, PromoteCheck(t)
      PROVE  \A s \in Tasks : Fits(task'[s])
  <2> DEFINE k == task[t]
             r == [k EXCEPT !.pc = "install"]
  <2>1. k \in Task /\ TaskKnows(k)
    BY DEF FailoverTypeOK
  <2>2. \/ task' = [task EXCEPT ![t] = IdleTask]
        \/ k.pc = "promote" /\ task' = [task EXCEPT ![t] = r]
    BY <1>9 DEF PromoteCheck, Continue
  <2>3. ASSUME k.pc = "promote"
        PROVE  Fits(r)
    <3>1. /\ r.pc = "install" /\ r.failed = k.failed /\ r.coord = k.coord
          /\ r.standby = k.standby /\ r.next = k.next
      BY <2>1 DEF Task
    <3> HIDE DEF r
    <3>2. TaskFollows(k, topology', checkpoint')
      BY <1>k
    <3>3. QED
      BY <2>1, <2>3, <3>1, <3>2 DEF TaskKnows, TaskFollows, Committable
  <2> HIDE DEF r
  <2>4. QED
    BY <2>2, <2>3, <1>i, <1>u
<1>10. ASSUME NEW t \in Tasks, PromoteInstall(t)
      PROVE  \A s \in Tasks : Fits(task'[s])
  <2> DEFINE k == task[t]
             r == [k EXCEPT !.pc = "prepared"]
  <2>1. k \in Task /\ TaskKnows(k)
    BY DEF FailoverTypeOK
  <2>2. \/ task' = [task EXCEPT ![t] = IdleTask]
        \/ k.pc = "install" /\ task' = [task EXCEPT ![t] = r]
    BY <1>10 DEF PromoteInstall
  <2>3. ASSUME k.pc = "install"
        PROVE  Fits(r)
    <3>1. /\ r.pc = "prepared" /\ r.failed = k.failed /\ r.coord = k.coord
          /\ r.standby = k.standby /\ r.next = k.next
      BY <2>1 DEF Task
    <3> HIDE DEF r
    <3>2. TaskFollows(k, topology', checkpoint')
      BY <1>k
    <3>3. QED
      BY <2>1, <2>3, <3>1, <3>2 DEF TaskKnows, TaskFollows, Committable
  <2> HIDE DEF r
  <2>4. QED
    BY <2>2, <2>3, <1>i, <1>u
<1>11. ASSUME NEW t \in Tasks, CheckTerm(t)
      PROVE  \A s \in Tasks : Fits(task'[s])
  <2> DEFINE k == task[t]
             r == [k EXCEPT !.pc = "commit"]
  <2>1. k \in Task /\ TaskKnows(k)
    BY DEF FailoverTypeOK
  <2>2. \/ task' = [task EXCEPT ![t] = IdleTask]
        \/ k.pc = "prepared" /\ task' = [task EXCEPT ![t] = r]
    BY <1>11 DEF CheckTerm, Continue
  <2>3. ASSUME k.pc = "prepared"
        PROVE  Fits(r)
    <3>1. /\ r.pc = "commit" /\ r.failed = k.failed /\ r.coord = k.coord
          /\ r.standby = k.standby /\ r.next = k.next
      BY <2>1 DEF Task
    <3> HIDE DEF r
    <3>2. TaskFollows(k, topology', checkpoint')
      BY <1>k
    <3>3. QED
      BY <2>1, <2>3, <3>1, <3>2 DEF TaskKnows, TaskFollows, Committable
  <2> HIDE DEF r
  <2>4. QED
    BY <2>2, <2>3, <1>i, <1>u
<1>12. ASSUME NEW t \in Tasks, Commit(t)
      PROVE  \A s \in Tasks : Fits(task'[s])
  <2>1. task' = [task EXCEPT ![t] = IdleTask]
    BY <1>12 DEF Commit
  <2>2. QED
    BY <2>1, <1>i, <1>u
<1>13. ASSUME NEW t \in Tasks, GiveUp(t)
      PROVE  \A s \in Tasks : Fits(task'[s])
  <2>1. task' = [task EXCEPT ![t] = Abandoned(task[t])]
    BY <1>13 DEF GiveUp
  <2>2. QED
    BY <2>1, <1>a, <1>u
<1>14. CASE UNCHANGED task
  BY <1>14, <1>k
<1> HIDE DEF Fits
<1>15. ASSUME NEW n \in Nodes, NodeStep(n)
      PROVE  \A s \in Tasks : Fits(task'[s])
  BY <1>15, <1>1, <1>14
  DEF NodeStep, redisVars, coordVars, nodeVars, RefreshTopology,
      EnsureOwnedMaps, GraceExpires, TickSnapshot, TickBegin, TickStep,
      TickSave, WriteBegin, WriteFinish, ReadWorld, BeginDrain,
      SaveFinalCheckpoints, DrainAgain, DrainPoll, Exit, LoseNodeMemory,
      RestartNode, RegisterNode, RegistrationExpires
<1>16. ASSUME NEW c \in Coordinators, CoordinatorStep(c)
      PROVE  \A s \in Tasks : Fits(task'[s])
  BY <1>16, <1>2, <1>3, <1>4, <1>5, <1>14
  DEF CoordinatorStep, redisVars, coordVars, nodeVars, ElectLeader, CountTerm,
      Believe, LoseLeadership, Drop, ConnectNode, NodeRecovers
<1>17. ASSUME NEW t \in Tasks, TaskStep(t) \/ GiveUp(t)
      PROVE  \A s \in Tasks : Fits(task'[s])
  BY <1>17, <1>6, <1>7, <1>8, <1>9, <1>10, <1>11, <1>12, <1>13
  DEF TaskStep
<1>18. QED
  BY <1>14, <1>15, <1>16, <1>17
  DEF FailoverNext, failoverVars, redisVars, coordVars, nodeVars

LEMMA FailoverNext_Inv == FailoverInv /\ [FailoverNext]_failoverVars => FailoverInv'
<1> SUFFICES ASSUME FailoverInv, [FailoverNext]_failoverVars
             PROVE  FailoverInv'
  OBVIOUS
<1>1. FailoverTypeOK' /\ WritersHoldTheirEpoch' /\ DrainLockInv'
  BY FailoverNext_Type, FailoverNext_Writers, FailoverNext_DrainLock
<1>2. StoreProofs!StoreInv' /\ OwnersInv'
  BY FailoverNext_Redis, RedisStep_Store
<1>3. QED
  BY <1>1, <1>2, FailoverNext_Tasks DEF FailoverInv

LEMMA FailoverInvariant == FailoverSpec => []FailoverInv
  BY FailoverInit_Inv, FailoverNext_Inv, PTL DEF FailoverSpec

-----------------------------------------------------------------------------
\* The control plane is always well typed.
THEOREM FailoverTypeCorrect ==
  FailoverSpec => []FailoverTypeOK
<1>1. FailoverInv => FailoverTypeOK
  BY DEF FailoverInv
<1>2. QED
  BY <1>1, FailoverInvariant, PTL

\* Two nodes that are inside a write to one map at once are in different
\* epochs, each of them granted to it, however stale their caches and however
\* many coordinators believe they lead (node.go:190).
THEOREM WritersHoldTheirEpochTheorem ==
  FailoverSpec => []WritersHoldTheirEpoch
<1>1. FailoverInv => WritersHoldTheirEpoch
  BY DEF FailoverInv
<1>2. QED
  BY <1>1, FailoverInvariant, PTL

\* A failover whose commit can still succeed starts from the checkpoint of the
\* owner it replaces, of the epoch it ends (failover.go).
THEOREM CommittableHasOwnersCheckpointTheorem ==
  FailoverSpec => []CommittableHasOwnersCheckpoint
<1>1. FailoverInv => CommittableHasOwnersCheckpoint
  BY DEF CommittableHasOwnersCheckpoint, FailoverInv, TaskFits, TaskFollows, Committable
<1>2. QED
  BY <1>1, FailoverInvariant, PTL

\* When a tick or a write is let in, the node is the routed owner of the map in
\* the current epoch (node.go:190).
THEOREM AdmittedOnlyByRoutedOwnerTheorem ==
  FailoverSpec => AdmittedOnlyByRoutedOwner
<1> DEFINE Admits(n, e) ==
             topology.owner[MapOf[n]] = n /\ topology.epoch[MapOf[n]] = e
           A == \A n \in Nodes :
                   /\ (write[n] = 0 /\ write'[n] > 0) => Admits(n, write'[n])
                   /\ (tick[n].epoch = 0 /\ tick'[n].epoch > 0)
                         => Admits(n, tick'[n].epoch)
<1>a. FailoverInv /\ [FailoverNext]_failoverVars => A
  <2> SUFFICES ASSUME FailoverInv, [FailoverNext]_failoverVars
               PROVE  A
    OBVIOUS
  <2>n. tick \in [Nodes -> Tick] /\ write \in [Nodes -> Nat]
    BY DEF FailoverInv, FailoverTypeOK
  <2> USE <2>n
  <2>1. ASSUME NEW n \in Nodes, TickSnapshot(n)
        PROVE  A
    <3>1. \A k \in Nodes : tick'[k].epoch = tick[k].epoch
      BY <2>1 DEF TickSnapshot, Tick
    <3>2. QED
      BY <2>1, <3>1 DEF TickSnapshot
  <2>2. ASSUME NEW n \in Nodes, TickBegin(n)
        PROVE  A
    <3>1. \A k \in Nodes \ {n} : tick'[k] = tick[k]
      BY <2>2 DEF TickBegin
    <3>2. \/ tick'[n] = IdleTick
          \/ /\ RequireAuthority(n, CachedEpoch(n))
             /\ tick'[n] = [tick[n] EXCEPT !.pc = "stepping", !.epoch = CachedEpoch(n)]
      BY <2>2 DEF TickBegin
    <3>3. tick'[n].epoch > 0 =>
            /\ topology.owner[MapOf[n]] = n
            /\ topology.epoch[MapOf[n]] = tick'[n].epoch
      <4>1. CASE tick'[n] = IdleTick
        BY <4>1 DEF IdleTick
      <4>2. CASE tick'[n] # IdleTick
        <5>1. tick'[n].epoch = CachedEpoch(n)
          BY <3>2, <4>2 DEF Tick
        <5>2. /\ topology.owner[MapOf[n]] = n
              /\ topology.epoch[MapOf[n]] = CachedEpoch(n)
          BY <3>2, <4>2, AuthorityIsGranted
        <5>3. QED
          BY <5>1, <5>2
      <4>3. QED
        BY <4>1, <4>2
    <3>4. QED
      BY <2>2, <3>1, <3>3 DEF TickBegin
  <2>3. ASSUME NEW n \in Nodes, TickStep(n)
        PROVE  A
    <3>1. \A k \in Nodes : tick'[k].epoch \in {0, tick[k].epoch}
      BY <2>3 DEF TickStep, Tick, IdleTick
    <3>2. write' = write
      BY <2>3 DEF TickStep
    <3>3. QED
      BY <3>1, <3>2
  <2>4. ASSUME NEW n \in Nodes, TickSave(n)
        PROVE  A
    BY <2>4 DEF TickSave, IdleTick
  <2>5. ASSUME NEW n \in Nodes, WriteBegin(n)
        PROVE  A
    <3>1. /\ topology.owner[MapOf[n]] = n
          /\ topology.epoch[MapOf[n]] = CachedEpoch(n)
      BY <2>5, AuthorityIsGranted DEF WriteBegin
    <3>2. QED
      BY <2>5, <3>1 DEF WriteBegin
  <2>6. ASSUME NEW n \in Nodes, WriteFinish(n)
        PROVE  A
    BY <2>6
    DEF WriteFinish, PlayerOperation, LoadedWorld
  <2>7. ASSUME NEW n \in Nodes, Exit(n)
        PROVE  A
    BY <2>7 DEF Exit, LoseNodeMemory, IdleTick
  <2>8. ASSUME NEW n \in Nodes, CrashNode(n)
        PROVE  A
    BY <2>8 DEF CrashNode, LoseNodeMemory, IdleTick
  <2>9. ASSUME NEW t \in Tasks, PromoteInstall(t)
        PROVE  A
    <3>1. \A k \in Nodes : tick'[k].epoch = tick[k].epoch
      BY <2>9 DEF PromoteInstall, Tick
    <3>2. QED
      BY <2>9, <3>1 DEF PromoteInstall
  <2>10. CASE UNCHANGED <<tick, write>>
    BY <2>10
  <2> HIDE DEF A
  <2>11. ASSUME NEW n \in Nodes, NodeStep(n)
        PROVE  A
    BY <2>11, <2>1, <2>2, <2>3, <2>4, <2>5, <2>6, <2>7, <2>8, <2>10
    DEF NodeStep, redisVars, coordVars, nodeVars, RefreshTopology,
        EnsureOwnedMaps, GraceExpires, ReadWorld, BeginDrain,
        SaveFinalCheckpoints, DrainAgain, DrainPoll, RestartNode, RegisterNode,
        RegistrationExpires
  <2>12. ASSUME NEW c \in Coordinators, CoordinatorStep(c)
        PROVE  A
    BY <2>12, <2>10
    DEF CoordinatorStep, redisVars, coordVars, nodeVars, ElectLeader, CountTerm,
        Believe, LoseLeadership, Drop, RestartCoordinator, ConnectNode,
        NodeRecovers, Bootstrap, NodeUnhealthy, Spawn, ReconcileDraining
  <2>13. ASSUME NEW t \in Tasks, TaskStep(t) \/ GiveUp(t)
        PROVE  A
    BY <2>13, <2>9, <2>10
    DEF TaskStep, redisVars, coordVars, nodeVars, StartFailover, Continue,
        SelectStandby, LoadCheckpoint, PromoteCheck, CheckTerm, Commit,
        Store!CompareAndSaveTopology,
        Store!CompareAndSaveTopologyAndMigrateSessions, Store!CommitTopology,
        GiveUp
  <2>14. QED
    BY <2>10, <2>11, <2>12, <2>13
    DEF FailoverNext, failoverVars, redisVars, coordVars, nodeVars
<1>b. QED
  BY <1>a, FailoverInvariant, PTL DEF FailoverSpec, AdmittedOnlyByRoutedOwner

\* A deposed leader's commit never changes the topology once a newer term was
\* counted (store.go:429).
THEOREM DeposedLeaderCommitsNothingTheorem ==
  FailoverSpec => DeposedLeaderCommitsNothing
<1>1. RedisStep => (topology' # topology => topology'.term = durableTerm)
  BY DEF RedisStep, StoreProofs!CommitAllowed, StoreProofs!CommitTopology,
         StoreProofs!TermFenceOpen, StoreProofs!SaveCheckpointIfOwner
<1>2. FailoverInv /\ [FailoverNext]_failoverVars
        => (topology' # topology => topology'.term = durableTerm)
  BY <1>1, FailoverNext_Redis
<1>3. QED
  BY <1>2, FailoverInvariant, PTL DEF FailoverSpec, DeposedLeaderCommitsNothing

\* A node that drains has its final save left, and no other.
LEMMA FailoverNext_DrainSaves ==
  FailoverInv /\ [FailoverNext]_failoverVars =>
    \A n \in Nodes :
       (/\ IsDraining(n)
        /\ checkpoint'[MapOf[n]] # checkpoint[MapOf[n]]
        /\ checkpoint'[MapOf[n]].node = n)
       => drain[n] = "saving" /\ drain'[n] = "waiting"
<1> DEFINE A == \A n \in Nodes :
                   (/\ IsDraining(n)
                    /\ checkpoint'[MapOf[n]] # checkpoint[MapOf[n]]
                    /\ checkpoint'[MapOf[n]].node = n)
                   => drain[n] = "saving" /\ drain'[n] = "waiting"
<1> SUFFICES ASSUME FailoverInv, [FailoverNext]_failoverVars
             PROVE  A
  OBVIOUS
<1>n. /\ checkpoint \in [Maps -> Store!Checkpoint] /\ MapOf \in [Nodes -> Maps]
      /\ drain \in [Nodes -> DrainSteps]
  BY MapOfAssumption DEF FailoverInv, FailoverTypeOK
<1> USE <1>n
<1>1. ASSUME NEW n \in Nodes, TickSave(n)
      PROVE  A
  <2> DEFINE e == tick[n].epoch
  <2>1. drain[n] = "none"
    BY <1>1 DEF TickSave, FailoverInv, DrainLockInv, DrainLockFree, IsDraining
  <2>2. \/ Store!SaveCheckpointIfOwner(n, MapOf[n], e, TickedWorld(n))
        \/ UNCHANGED redisVars
    BY <1>1 DEF TickSave
  <2>3. \/ checkpoint' = [checkpoint EXCEPT ![MapOf[n]] =
                             [node |-> n, epoch |-> e, version |-> TickedWorld(n)]]
        \/ checkpoint' = checkpoint
    BY <2>2 DEF Store!SaveCheckpointIfOwner, redisVars
  <2>4. \A k \in Nodes \ {n} :
            checkpoint'[MapOf[k]] # checkpoint[MapOf[k]]
               => checkpoint'[MapOf[k]].node # k
    BY <2>3
  <2>5. QED
    BY <2>1, <2>4 DEF IsDraining
<1>2. ASSUME NEW n \in Nodes, SaveFinalCheckpoints(n)
      PROVE  A
  <2> DEFINE e == CachedEpoch(n)
  <2>1. \/ /\ Store!SaveCheckpointIfOwner(n, MapOf[n], e, world[n])
           /\ drain' = [drain EXCEPT ![n] = "waiting"]
        \/ UNCHANGED redisVars
    BY <1>2 DEF SaveFinalCheckpoints
  <2>2. \/ /\ checkpoint' = [checkpoint EXCEPT ![MapOf[n]] =
                                [node |-> n, epoch |-> e, version |-> world[n]]]
           /\ drain'[n] = "waiting"
        \/ checkpoint' = checkpoint
    BY <2>1 DEF Store!SaveCheckpointIfOwner, redisVars
  <2>3. drain[n] = "saving"
    BY <1>2 DEF SaveFinalCheckpoints
  <2>4. \A k \in Nodes \ {n} :
            checkpoint'[MapOf[k]] # checkpoint[MapOf[k]]
               => checkpoint'[MapOf[k]].node # k
    BY <2>2
  <2>5. QED
    BY <2>2, <2>3, <2>4
<1>3. ASSUME NEW t \in Tasks, Commit(t)
      PROVE  A
  <2>1. checkpoint' = checkpoint
    BY <1>3 DEF Commit, Store!CompareAndSaveTopology, Store!CommitTopology,
             Store!CompareAndSaveTopologyAndMigrateSessions, redisVars
  <2>2. QED
    BY <2>1
<1>4. CASE UNCHANGED checkpoint
  BY <1>4
<1> HIDE DEF A
<1>5. ASSUME NEW n \in Nodes, NodeStep(n)
      PROVE  A
  BY <1>5, <1>1, <1>2, <1>4
  DEF NodeStep, redisVars, coordVars, nodeVars, RefreshTopology,
      EnsureOwnedMaps, GraceExpires, TickSnapshot, TickBegin, TickStep,
      WriteBegin, WriteFinish, ReadWorld, BeginDrain, DrainAgain, DrainPoll,
      Exit, CrashNode, RestartNode, RegisterNode, RegistrationExpires
<1>6. ASSUME NEW c \in Coordinators, CoordinatorStep(c)
      PROVE  A
  BY <1>6, <1>4
  DEF CoordinatorStep, redisVars, coordVars, nodeVars, ElectLeader, CountTerm,
      Believe, LoseLeadership, Drop, RestartCoordinator, ConnectNode,
      NodeRecovers, Bootstrap, NodeUnhealthy, ReconcileDraining
<1>7. ASSUME NEW t \in Tasks, TaskStep(t) \/ GiveUp(t)
      PROVE  A
  BY <1>7, <1>3, <1>4
  DEF TaskStep, redisVars, coordVars, nodeVars, StartFailover, Continue,
      SelectStandby, LoadCheckpoint, PromoteCheck, PromoteInstall, CheckTerm,
      GiveUp
<1>8. QED
  BY <1>4, <1>5, <1>6, <1>7
  DEF FailoverNext, failoverVars, redisVars, coordVars, nodeVars

\* After BeginDrain took the lock, the node stores nothing but its final
\* checkpoint (drain.go).
THEOREM DrainedNodeStoresOnlyFinalTheorem ==
  FailoverSpec => DrainedNodeStoresOnlyFinal
  BY FailoverNext_DrainSaves, FailoverInvariant, PTL
  DEF FailoverSpec, DrainedNodeStoresOnlyFinal

-----------------------------------------------------------------------------
\* The whole control plane implements the abstract promise: each handover
\* opens a new epoch, and durable state is stored under a grant only.
THEOREM FailoverImplementsOwnershipTheorem ==
  FailoverSpec => FailoverImplementsOwnership
<1>1. FailoverInit => Ownership!OwnershipInit
  BY DEF FailoverInit, Store!NoTopology, Store!NoCheckpoint, Ownership!OwnershipInit
<1>2. FailoverInv /\ [FailoverNext]_failoverVars
        => [Ownership!OwnershipNext]_(Ownership!ownershipVars)
  <2> SUFFICES ASSUME FailoverInv, RedisStep
               PROVE  \/ Ownership!OwnershipNext
                      \/ UNCHANGED Ownership!ownershipVars
    BY FailoverNext_Redis
  <2> USE NodeAssumption, NoSessionRecord, FailoverBoundAssumption
  <2>s. StoreProofs!StoreInv /\ FailoverTypeOK
    BY DEF FailoverInv
  <2>1. ASSUME NEW t \in Tasks,
               StoreProofs!CommitAllowed(task[t].next.version - 1, task[t].next),
               StoreProofs!CommitTopology(task[t].next)
        PROVE  Ownership!OwnershipNext
    <3>1. task[t].next \in StoreProofs!Topology
      BY <2>s, SameTypes DEF FailoverTypeOK, Task
    <3>2. StoreProofs!Ownership!Handover
      BY <2>s, <2>1, <3>1, StoreProofs!Commit_Handover
    <3>3. Ownership!Handover
      BY <3>2 DEF StoreProofs!Ownership!Handover, Ownership!Handover
    <3>4. QED
      BY <3>3 DEF Ownership!OwnershipNext
  <2>2. ASSUME NEW n \in Nodes, NEW e \in Nat, NEW v \in Nat,
               StoreProofs!SaveCheckpointIfOwner(n, MapOf[n], e, v)
        PROVE  Ownership!OwnershipNext
    <3> DEFINE m == MapOf[n]
    <3>1. m \in Maps
      BY MapOfAssumption
    <3>2. <<m, e, n>> \in granted /\ e >= checkpoint[m].epoch
      BY <2>s, <2>2, <3>1, StoreProofs!Save_Inv
    <3> HIDE DEF m
    <3>3. /\ checkpoint' = [checkpoint EXCEPT ![m] =
                               [node |-> n, epoch |-> e, version |-> v]]
          /\ UNCHANGED <<topology, granted>>
      BY <2>2 DEF StoreProofs!SaveCheckpointIfOwner, m
    <3>4. [k \in Maps |-> <<checkpoint'[k].epoch, checkpoint'[k].node>>]
            = [[k \in Maps |-> <<checkpoint[k].epoch, checkpoint[k].node>>]
                 EXCEPT ![m] = <<e, n>>]
      BY <2>s, <3>1, <3>3 DEF FailoverTypeOK
    <3>5. e \in {g[2] : g \in granted}
      BY <3>2
    <3>6. Ownership!Store(m)
      BY <3>1, <3>2, <3>3, <3>4, <3>5 DEF Ownership!Store
    <3>7. QED
      BY <3>1, <3>6 DEF Ownership!OwnershipNext
  <2>3. CASE UNCHANGED <<topology, checkpoint, granted>>
    BY <2>3 DEF Ownership!ownershipVars
  <2>4. QED
    BY <2>1, <2>2, <2>3 DEF RedisStep
<1>3. QED
  BY <1>1, <1>2, FailoverInvariant, PTL
  DEF FailoverSpec, FailoverImplementsOwnership, Ownership!OwnershipSpec

-----------------------------------------------------------------------------
(* Terms: what LeaderTerms promises, and what it means for the goroutines. *)

\* c was the one for whom term e was counted, whether it leads it yet or not.
Holds(c, e) == e > 0 /\ (claim[c] = e \/ leaderTerm[c] = e)

TermsInv ==
    /\ durableTerm \in Nat
    /\ claim \in [Coordinators -> Nat]
    /\ leaderTerm \in [Coordinators -> Nat]
    /\ \A c \in Coordinators : claim[c] <= durableTerm /\ leaderTerm[c] <= durableTerm
    /\ \A c, d \in Coordinators : \A e \in Nat : Holds(c, e) /\ Holds(d, e) => c = d

\* A term is led by one instance at most, however long the others go on
\* believing in theirs.
OneLeaderPerTerm ==
    \A c, d \in Coordinators :
        (leaderTerm[c] > 0 /\ leaderTerm[c] = leaderTerm[d]) => c = d

LEMMA TermsNext_Inv ==
  TermsInv /\ [TermsNext]_termVars => TermsInv'
<1> SUFFICES ASSUME TermsInv, [TermsNext]_termVars
             PROVE  TermsInv'
  OBVIOUS
<1> USE DEF TermsInv, Holds
<1>1. ASSUME NEW c \in Coordinators, CountTerm(c)
      PROVE  TermsInv'
  BY <1>1 DEF CountTerm
<1>2. ASSUME NEW c \in Coordinators, Believe(c)
      PROVE  TermsInv'
  BY <1>2 DEF Believe
<1>3. ASSUME NEW c \in Coordinators, Drop(c)
      PROVE  TermsInv'
  BY <1>3 DEF Drop
<1>4. CASE UNCHANGED termVars
  BY <1>4 DEF termVars
<1> HIDE DEF TermsInv
<1>5. QED
  BY <1>1, <1>2, <1>3, <1>4 DEF TermsNext

LEMMA TermsInvariant == TermsSpec => []TermsInv
<1>1. TermsInit => TermsInv
  BY DEF TermsInit, TermsInv, Holds
<1>2. QED
  BY <1>1, TermsNext_Inv, PTL DEF TermsSpec

\* The abstract election: counting a term for one instance only is enough for
\* a term never to have two leaders.
THEOREM OneLeaderPerTermTheorem == TermsSpec => []OneLeaderPerTerm
<1>1. TermsInv => OneLeaderPerTerm
  BY DEF TermsInv, OneLeaderPerTerm, Holds
<1>2. QED
  BY <1>1, TermsInvariant, PTL

\* To the coordinators of the control plane, too, happens only what LeaderTerms
\* allows: what was proved of it, and what the election implements, holds here.
LEMMA FailoverNext_Terms ==
  [FailoverNext]_failoverVars => [TermsNext]_termVars
<1> SUFFICES ASSUME [FailoverNext]_failoverVars
             PROVE  TermsNext \/ UNCHANGED termVars
  OBVIOUS
<1>1. ASSUME NEW n \in Nodes, NodeStep(n)
      PROVE  UNCHANGED termVars
  BY <1>1
  DEF NodeStep, termVars, redisVars, coordVars, nodeVars, RefreshTopology,
      EnsureOwnedMaps, GraceExpires, TickSnapshot, TickBegin, TickStep, TickSave,
      Store!SaveCheckpointIfOwner, WriteBegin, WriteFinish, ReadWorld, BeginDrain,
      SaveFinalCheckpoints, DrainAgain, DrainPoll, Exit, CrashNode, RestartNode,
      RegisterNode, RegistrationExpires
<1>2. ASSUME NEW c \in Coordinators, CoordinatorStep(c)
      PROVE  TermsNext \/ UNCHANGED termVars
  BY <1>2
  DEF CoordinatorStep, TermsNext, termVars, redisVars, coordVars, nodeVars,
      ElectLeader, LoseLeadership, RestartCoordinator, ConnectNode, NodeRecovers,
      Bootstrap, NodeUnhealthy, ReconcileDraining
<1>3. ASSUME NEW t \in Tasks, TaskStep(t) \/ GiveUp(t)
      PROVE  UNCHANGED termVars
  BY <1>3
  DEF TaskStep, termVars, redisVars, coordVars, nodeVars, StartFailover, Continue,
      SelectStandby, LoadCheckpoint, PromoteCheck, PromoteInstall, CheckTerm,
      Commit, Store!CompareAndSaveTopology,
      Store!CompareAndSaveTopologyAndMigrateSessions, Store!CommitTopology, GiveUp
<1>4. QED
  BY <1>1, <1>2, <1>3
  DEF FailoverNext, failoverVars, redisVars, coordVars, nodeVars, termVars

\* Leader election as the failover sees it is the one LeaderTerms promises: no
\* step of a node or of a goroutine counts, claims or takes a term.
LEMMA FailoverImplementsTerms == FailoverSpec => TermsSpec
<1>1. FailoverInit => TermsInit
  BY DEF FailoverInit
<1>2. QED
  BY <1>1, FailoverNext_Terms, PTL DEF FailoverSpec, TermsSpec

-----------------------------------------------------------------------------
(* The topologies that goroutines prepare.                                 *)

\* A goroutine has read the term and the topology.
Prepared(k) == k.pc \notin {"idle", "start"}

\* A failover has read the checkpoint it starts from.
Loaded(k) == k.failed # NoNode /\ k.pc \in {"promote", "install", "prepared", "commit"}

\* How goroutine k of this state came to be q.  What it has read it keeps: the
\* term, which its coordinator led at that time, the version it expects, the
\* owners of the other maps, and then the checkpoint.
TaskComesFrom(q, k) ==
    /\ Prepared(q) =>
          \/ /\ Prepared(k) /\ q.coord = k.coord /\ q.failed = k.failed
             /\ q.next.term = k.next.term /\ q.next.version = k.next.version
             /\ \A m \in Maps :
                   m # MapOf[q.failed] => q.next.owner[m] = k.next.owner[m]
          \/ /\ Leads(q.coord) /\ q.next.term = leaderTerm[q.coord]
             /\ IF q.failed = NoNode
                THEN q.next.version = 1
                ELSE q.next.version = topology.version + 1
                        /\ q.next.owner = topology.owner
             /\ UNCHANGED <<termVars, topology>>
    /\ Loaded(q) =>
          \/ /\ Loaded(k) /\ q.failed = k.failed /\ q.version = k.version
             /\ q.next = k.next
          \/ /\ q.version = checkpoint[MapOf[q.failed]].version
             /\ UNCHANGED <<checkpoint, drain>>

LEMMA FailoverNext_TaskComesFrom ==
  ASSUME FailoverInv, [FailoverNext]_failoverVars
  PROVE  \A s \in Tasks : TaskComesFrom(task'[s], task[s])
<1> DEFINE A == \A s \in Tasks : TaskComesFrom(task'[s], task[s])
<1>t. task \in [Tasks -> Task]
  BY DEF FailoverInv, FailoverTypeOK
<1>k. \A s \in Tasks : TaskKnows(task[s])
  BY DEF FailoverInv, TaskFits
<1>i. \A k : TaskComesFrom(k, k) /\ TaskComesFrom(IdleTask, k)
  BY DEF TaskComesFrom, Prepared, Loaded, IdleTask
<1> USE <1>t, <1>i DEF TaskComesFrom, Prepared, Loaded, termVars, redisVars, coordVars, nodeVars
<1>1. ASSUME NEW n \in Nodes, CrashNode(n)
      PROVE  A
  BY <1>1 DEF CrashNode
<1>2. ASSUME NEW t \in Tasks, NEW c \in Coordinators, NEW n \in Nodes, Spawn(t, c, n)
      PROVE  A
  BY <1>2 DEF Spawn, IdleTask
<1>3. ASSUME NEW c \in Coordinators, RestartCoordinator(c)
      PROVE  A
  BY <1>3 DEF RestartCoordinator, Abandoned, Task
<1>4. ASSUME NEW c \in Coordinators, NEW t \in Tasks, Bootstrap(c, t)
      PROVE  A
  BY <1>4 DEF Bootstrap, InitialTopology, IdleTask
<1>5. ASSUME NEW t \in Tasks, StartFailover(t)
      PROVE  A
  <2> DEFINE k == task[t]
             next == [topology EXCEPT !.version = @ + 1, !.term = leaderTerm[k.coord],
                                      !.epoch[MapOf[k.failed]] = @ + 1]
  <2>1. topology \in Store!Topology
    BY DEF FailoverInv, FailoverTypeOK
  <2>2. /\ next.term = leaderTerm[k.coord] /\ next.version = topology.version + 1
        /\ next.owner = topology.owner /\ k.failed \in Nodes /\ NoNode \notin Nodes
    BY <1>5, <1>k, <2>1, NodeAssumption DEF Store!Topology, StartFailover, TaskKnows
  <2>3. UNCHANGED <<termVars, topology>> /\ \A s \in Tasks \ {t} : task'[s] = task[s]
    BY <1>5 DEF StartFailover, Continue
  <2>4. \/ task'[t] = IdleTask
        \/ Leads(k.coord) /\ task'[t] = [k EXCEPT !.pc = "select", !.next = next]
    BY <1>5 DEF StartFailover, Continue
  <2> HIDE DEF next
  <2>5. ASSUME Leads(k.coord), task'[t] = [k EXCEPT !.pc = "select", !.next = next]
        PROVE  TaskComesFrom(task'[t], k)
    <3>1. /\ task'[t].pc = "select" /\ task'[t].coord = k.coord
          /\ task'[t].failed = k.failed /\ task'[t].next = next
      BY <2>5 DEF Task
    <3>2. QED
      BY <2>2, <2>3, <2>5, <3>1
  <2>6. QED
    BY <2>3, <2>4, <2>5
<1>6. ASSUME NEW t \in Tasks, SelectStandby(t)
      PROVE  A
  <2> DEFINE k == task[t]
             m == MapOf[k.failed]
             s == LowestID(Candidates(k.coord, m) \ {k.failed})
             q == [k EXCEPT !.pc = "checkpoint", !.standby = s, !.next.owner[m] = s]
  <2>1. /\ k.pc = "select" /\ (\A r \in Tasks \ {t} : task'[r] = task[r])
        /\ task'[t] \in {IdleTask, q}
    BY <1>6 DEF SelectStandby, Continue
  <2>2. k \in Task /\ k.next.owner \in [Maps -> Nodes \cup {NoNode}]
    BY DEF Task, Store!Topology
  <2>3. /\ q.pc = "checkpoint" /\ q.coord = k.coord /\ q.failed = k.failed
        /\ q.next.term = k.next.term /\ q.next.version = k.next.version
        /\ q.next.owner = [k.next.owner EXCEPT ![m] = s]
    BY <2>2 DEF Task, Store!Topology
  <2> HIDE DEF q, s
  <2>4. TaskComesFrom(q, k)
    BY <2>1, <2>2, <2>3
  <2>5. QED
    BY <2>1, <2>4
<1>7. ASSUME NEW t \in Tasks, LoadCheckpoint(t)
      PROVE  A
  BY <1>7 DEF LoadCheckpoint, Continue, Task
<1>8. ASSUME NEW t \in Tasks, PromoteCheck(t)
      PROVE  A
  <2>1. /\ \A s \in Tasks \ {t} : task'[s] = task[s]
        /\ task[t].pc = "promote"
        /\ task'[t] \in {IdleTask, [task[t] EXCEPT !.pc = "install"]}
    BY <1>8 DEF PromoteCheck, Continue
  <2>2. QED
    BY <2>1 DEF Task
<1>9. ASSUME NEW t \in Tasks, PromoteInstall(t)
      PROVE  A
  BY <1>9 DEF PromoteInstall, Task
<1>10. ASSUME NEW t \in Tasks, CheckTerm(t)
      PROVE  A
  BY <1>10 DEF CheckTerm, Continue, Task
<1>11. ASSUME NEW t \in Tasks, Commit(t) \/ GiveUp(t)
      PROVE  A
  BY <1>11 DEF Commit, GiveUp, Abandoned, Task
<1>12. ASSUME UNCHANGED task
      PROVE  A
  BY <1>12
<1> HIDE <1>t, <1>i DEF A, TaskComesFrom, Prepared, Loaded
<1>15. ASSUME NEW n \in Nodes, NodeStep(n)
      PROVE  A
  BY <1>15, <1>1, <1>12
  DEF NodeStep, RefreshTopology, EnsureOwnedMaps, GraceExpires, TickSnapshot,
      TickBegin, TickStep, TickSave, WriteBegin, WriteFinish, ReadWorld, BeginDrain,
      SaveFinalCheckpoints, DrainAgain, DrainPoll, Exit, LoseNodeMemory,
      RestartNode, RegisterNode, RegistrationExpires
<1>16. ASSUME NEW c \in Coordinators, CoordinatorStep(c)
      PROVE  A
  BY <1>16, <1>2, <1>3, <1>4, <1>12
  DEF CoordinatorStep, ElectLeader, LoseLeadership, ConnectNode, NodeRecovers,
      NodeUnhealthy, ReconcileDraining
<1>17. ASSUME NEW t \in Tasks, TaskStep(t) \/ GiveUp(t)
      PROVE  A
  BY <1>17, <1>5, <1>6, <1>7, <1>8, <1>9, <1>10, <1>11
  DEF TaskStep
<1>18. QED
  BY <1>12, <1>15, <1>16, <1>17 DEF FailoverNext, failoverVars, A

\* The term of a prepared topology was counted, and nobody but the coordinator
\* that prepared it has it.
TaskTermsInv ==
    \A t \in Tasks : Prepared(task[t]) =>
        /\ task[t].next.term \in 1..durableTerm
        /\ \A d \in Coordinators :
              Holds(d, task[t].next.term) => d = task[t].coord

\* Goroutines that carry one term are one coordinator's.
OneCoordinatorPerTerm ==
    \A t, u \in Tasks :
        (/\ Prepared(task[t]) /\ Prepared(task[u])
         /\ task[t].next.term = task[u].next.term)
        => task[t].coord = task[u].coord

LEMMA FailoverNext_TaskTerms ==
  ASSUME FailoverInv, TermsInv, TaskTermsInv, OneCoordinatorPerTerm,
         [FailoverNext]_failoverVars
  PROVE  TaskTermsInv' /\ OneCoordinatorPerTerm'
<1>1. TermsInv' /\ (TermsNext \/ UNCHANGED termVars)
  BY FailoverNext_Terms, TermsNext_Inv
<1>2. /\ durableTerm \in Nat /\ durableTerm' \in Nat
      /\ claim \in [Coordinators -> Nat] /\ leaderTerm \in [Coordinators -> Nat]
      /\ task' \in [Tasks -> Task]
  BY <1>1, FailoverNext_Inv DEF TermsInv, FailoverInv, FailoverTypeOK
<1>3. /\ durableTerm <= durableTerm'
      /\ \A d \in Coordinators, e \in 1..durableTerm : Holds(d, e)' => Holds(d, e)
  BY <1>1, <1>2 DEF TermsNext, CountTerm, Believe, Drop, termVars, Holds
<1>4. \A s \in Tasks : Prepared(task'[s]) =>
          \/ /\ Prepared(task[s]) /\ task'[s].coord = task[s].coord
             /\ task'[s].next.term = task[s].next.term
          \/ /\ Leads(task'[s].coord) /\ task'[s].next.term = leaderTerm[task'[s].coord]
             /\ UNCHANGED termVars
  BY FailoverNext_TaskComesFrom DEF TaskComesFrom, termVars
<1>5. \A s \in Tasks : Prepared(task'[s]) => task'[s].coord \in Coordinators
  BY FailoverNext_Tasks DEF TaskFits, TaskKnows, Prepared
<1>6. ASSUME NEW s \in Tasks, Prepared(task'[s])
      PROVE  /\ task'[s].next.term \in 1..durableTerm
             /\ \A d \in Coordinators :
                   Holds(d, task'[s].next.term) => d = task'[s].coord
  <2>1. CASE Prepared(task[s]) /\ task'[s].coord = task[s].coord
             /\ task'[s].next.term = task[s].next.term
    BY <2>1 DEF TaskTermsInv
  <2>2. CASE Leads(task'[s].coord) /\ task'[s].next.term = leaderTerm[task'[s].coord]
    BY <1>2, <1>5, <1>6, <2>2 DEF TermsInv, Leads, Holds
  <2>3. QED
    BY <1>4, <1>6, <2>1, <2>2
<1>7. TaskTermsInv'
  BY <1>2, <1>3, <1>6 DEF TaskTermsInv, Prepared
<1>8. ASSUME NEW t \in Tasks, NEW u \in Tasks,
             Prepared(task'[t]), Prepared(task'[u]),
             task'[t].next.term = task'[u].next.term
      PROVE  task'[t].coord = task'[u].coord
  <2>1. ASSUME NEW s \in {t, u}, Leads(task'[s].coord),
               task'[s].next.term = leaderTerm[task'[s].coord]
        PROVE  task'[t].coord = task'[u].coord
    <3>1. Holds(task'[s].coord, task'[t].next.term)
      BY <1>8, <2>1 DEF Holds, Leads
    <3>2. QED
      BY <1>5, <1>6, <1>8, <3>1
  <2>2. CASE /\ Prepared(task[t]) /\ task'[t].coord = task[t].coord
             /\ task'[t].next.term = task[t].next.term
             /\ Prepared(task[u]) /\ task'[u].coord = task[u].coord
             /\ task'[u].next.term = task[u].next.term
    BY <1>8, <2>2 DEF OneCoordinatorPerTerm
  <2>3. QED
    BY <1>4, <1>8, <2>1, <2>2
<1>9. QED
  BY <1>7, <1>8 DEF OneCoordinatorPerTerm, Prepared

\* Two coordinators never carry topologies of the same term to Redis, whatever
\* leases lapsed and whichever goroutines outlived their leader; with
\* DeposedLeaderCommitsNothing, only one coordinator commits in each term
\* (failover.go, hasLeaderTerm; store.go:429).
THEOREM OneCoordinatorPerTermTheorem == FailoverSpec => []OneCoordinatorPerTerm
<1>1. FailoverInit => TaskTermsInv /\ OneCoordinatorPerTerm
  BY DEF FailoverInit, TaskTermsInv, OneCoordinatorPerTerm, Prepared, IdleTask
<1>2. FailoverInv /\ TermsInv /\ TaskTermsInv /\ OneCoordinatorPerTerm
      /\ [FailoverNext]_failoverVars => TaskTermsInv' /\ OneCoordinatorPerTerm'
  BY FailoverNext_TaskTerms
<1>3. QED
  BY <1>1, <1>2, FailoverInvariant, FailoverImplementsTerms, TermsInvariant, PTL
  DEF FailoverSpec

-----------------------------------------------------------------------------
(* What nodes remember of the topology.                                    *)

\* A cached topology was stored once: each owner in it was granted its epoch,
\* and no epoch is ahead of the stored one.
CacheRemembers(n) ==
    LET T == cache[n]
    IN  /\ T.version = 0 => \A m \in Maps : T.epoch[m] = 0
        /\ T.version <= topology.version
        /\ T.version > 0 => \A m \in Maps :
              <<m, T.epoch[m], T.owner[m]>> \in granted /\ T.epoch[m] <= topology.epoch[m]

CachesInv == \A n \in Nodes : CacheRemembers(n)

\* However stale two caches are, they agree on who owns a map in an epoch.
CachesAgreeOnEpochs ==
    \A n, k \in Nodes, m \in Maps :
        (cache[n].version > 0 /\ cache[k].version > 0
            /\ cache[n].epoch[m] = cache[k].epoch[m])
        => cache[n].owner[m] = cache[k].owner[m]

\* Versions, epochs and grants only grow.
LEMMA RedisStep_Grows ==
  ASSUME FailoverInv, RedisStep
  PROVE  /\ granted \subseteq granted'
         /\ topology.version <= topology'.version
         /\ topology.version > 0 =>
               \A m \in Maps : topology.epoch[m] <= topology'.epoch[m]
<1>t. topology \in Store!Topology
  BY DEF FailoverInv, FailoverTypeOK
<1>1. ASSUME NEW t \in Tasks,
             StoreProofs!CommitAllowed(task[t].next.version - 1, task[t].next),
             StoreProofs!CommitTopology(task[t].next)
      PROVE  /\ topology.version <= topology'.version
             /\ topology.version > 0 =>
                   \A m \in Maps : topology.epoch[m] <= topology'.epoch[m]
  <2> DEFINE next == task[t].next
  <2>1. next \in Store!Topology
    BY DEF FailoverInv, FailoverTypeOK, Task
  <2> HIDE DEF next
  <2>2. /\ topology' = next /\ topology.version = next.version - 1
        /\ StoreProofs!EpochsAdvance(next)
    BY <1>1 DEF next, StoreProofs!CommitAllowed, StoreProofs!CommitTopology
  <2>3. \A m \in Maps : topology.epoch[m] \in Nat /\ next.epoch[m] \in Nat
    BY <1>t, <2>1 DEF Store!Topology
  <2>4. topology.version \in Nat /\ next.version \in Nat
    BY <1>t, <2>1 DEF Store!Topology
  <2>5. QED
    BY <2>2, <2>3, <2>4 DEF StoreProofs!EpochsAdvance
<1>2. UNCHANGED topology =>
         /\ topology.version <= topology'.version
         /\ topology.version > 0 =>
               \A m \in Maps : topology.epoch[m] <= topology'.epoch[m]
  BY <1>t DEF Store!Topology
<1>3. QED
  BY <1>1, <1>2, RedisStep_Store DEF RedisStep, StoreProofs!SaveCheckpointIfOwner

\* What is stored is granted, so a node that copies it remembers grants.
LEMMA TopologyIsGranted ==
  ASSUME FailoverInv, topology.version > 0, NEW m \in Maps
  PROVE  <<m, topology.epoch[m], topology.owner[m]>> \in granted
<1>1. topology.owner[m] \in Nodes /\ topology.owner[m] # NoNode
  BY DEF FailoverInv, FailoverTypeOK, Store!Topology, OwnersInv
<1>2. fence[m] = [owner |-> topology.owner[m], epoch |-> topology.epoch[m]]
  BY <1>1 DEF FailoverInv, StoreProofs!StoreInv, StoreProofs!FenceFollowsTopology
<1>3. QED
  BY <1>1, <1>2, FenceNamesRoutedOwner

\* A node's cache stays, is read again, or is lost with the process.
LEMMA FailoverNext_Cache ==
  ASSUME FailoverInv, [FailoverNext]_failoverVars
  PROVE  \A n \in Nodes : \/ cache'[n] = cache[n]
                          \/ cache'[n] = topology /\ UNCHANGED <<topology, granted>>
                               /\ topology.version > 0
                          \/ cache'[n] = Store!NoTopology
<1> DEFINE A == \A n \in Nodes : \/ cache'[n] = cache[n]
                                 \/ cache'[n] = topology /\ UNCHANGED <<topology, granted>>
                                      /\ topology.version > 0
                                 \/ cache'[n] = Store!NoTopology
<1>t. cache \in [Nodes -> Store!Topology]
  BY DEF FailoverInv, FailoverTypeOK
<1>1. ASSUME NEW n \in Nodes, RefreshTopology(n)
      PROVE  A
  BY <1>t, <1>1 DEF RefreshTopology, redisVars
<1>2. ASSUME NEW n \in Nodes, LoseNodeMemory(n)
      PROVE  A
  BY <1>t, <1>2 DEF LoseNodeMemory
<1>3. ASSUME UNCHANGED cache
      PROVE  A
  BY <1>3
<1> HIDE DEF A
<1> USE DEF redisVars, coordVars, nodeVars
<1>4. ASSUME NEW n \in Nodes, NodeStep(n)
      PROVE  A
  BY <1>4, <1>1, <1>2, <1>3
  DEF NodeStep, EnsureOwnedMaps, GraceExpires, TickSnapshot, TickBegin, TickStep,
      TickSave, WriteBegin, WriteFinish, ReadWorld, BeginDrain,
      SaveFinalCheckpoints, DrainAgain, DrainPoll, Exit, CrashNode, RestartNode,
      RegisterNode, RegistrationExpires
<1>5. ASSUME NEW c \in Coordinators, CoordinatorStep(c)
      PROVE  A
  BY <1>5, <1>3
  DEF CoordinatorStep, ElectLeader, LoseLeadership, RestartCoordinator,
      ConnectNode, NodeRecovers, Bootstrap, NodeUnhealthy, ReconcileDraining
<1>6. ASSUME NEW t \in Tasks, TaskStep(t) \/ GiveUp(t)
      PROVE  A
  BY <1>6, <1>3
  DEF TaskStep, StartFailover, Continue, SelectStandby, LoadCheckpoint,
      PromoteCheck, PromoteInstall, CheckTerm, Commit, GiveUp
<1>7. QED
  BY <1>3, <1>4, <1>5, <1>6 DEF FailoverNext, failoverVars, A

LEMMA FailoverNext_Caches ==
  FailoverInv /\ CachesInv /\ [FailoverNext]_failoverVars => CachesInv'
<1> SUFFICES ASSUME FailoverInv, CachesInv, [FailoverNext]_failoverVars,
                    NEW n \in Nodes
             PROVE  CacheRemembers(n)'
  BY DEF CachesInv
<1>1. /\ granted \subseteq granted' /\ topology.version <= topology'.version
      /\ topology.version > 0 =>
            \A m \in Maps : topology.epoch[m] <= topology'.epoch[m]
  BY FailoverNext_Redis, RedisStep_Grows
<1>2. FailoverInv'
  BY FailoverNext_Inv
<1>3. /\ topology \in Store!Topology /\ topology' \in Store!Topology
      /\ cache[n] \in Store!Topology /\ cache'[n] \in Store!Topology
  BY <1>2 DEF FailoverInv, FailoverTypeOK
<1>4. /\ topology.version \in Nat /\ topology'.version \in Nat
      /\ cache[n].version \in Nat
      /\ \A m \in Maps : /\ topology.epoch[m] \in Nat /\ topology'.epoch[m] \in Nat
                         /\ cache[n].epoch[m] \in Nat
  BY <1>3 DEF Store!Topology
<1>5. CASE cache'[n] = cache[n]
  BY <1>1, <1>4, <1>5 DEF CachesInv, CacheRemembers
<1>6. CASE cache'[n] = topology /\ UNCHANGED <<topology, granted>>
           /\ topology.version > 0
  BY <1>4, <1>6, TopologyIsGranted DEF CacheRemembers
<1>7. CASE cache'[n] = Store!NoTopology
  BY <1>4, <1>7 DEF CacheRemembers, Store!NoTopology
<1>8. QED
  BY <1>5, <1>6, <1>7, FailoverNext_Cache

LEMMA CachesInvariant == FailoverSpec => []CachesInv
<1>1. FailoverInit => CachesInv
  BY DEF FailoverInit, CachesInv, CacheRemembers, Store!NoTopology
<1>2. QED
  BY <1>1, FailoverNext_Caches, FailoverInvariant, PTL DEF FailoverSpec

\* The epoch that a gateway sends along names one owner, whatever topology the
\* node that checks it has cached (authority.go, Require).
THEOREM CachesAgreeOnEpochsTheorem == FailoverSpec => []CachesAgreeOnEpochs
<1>1. FailoverInv /\ CachesInv => CachesAgreeOnEpochs
  <2> SUFFICES ASSUME FailoverInv, CachesInv, NEW n \in Nodes, NEW k \in Nodes,
                      NEW m \in Maps, cache[n].version > 0, cache[k].version > 0,
                      cache[n].epoch[m] = cache[k].epoch[m]
               PROVE  cache[n].owner[m] = cache[k].owner[m]
    BY DEF CachesAgreeOnEpochs
  <2>1. /\ <<m, cache[n].epoch[m], cache[n].owner[m]>> \in granted
        /\ <<m, cache[n].epoch[m], cache[k].owner[m]>> \in granted
    BY DEF CachesInv, CacheRemembers
  <2>2. granted \in SUBSET (Maps \X Nat \X Nodes)
    BY DEF FailoverInv, FailoverTypeOK
  <2>3. QED
    BY <2>1, <2>2 DEF FailoverInv, StoreProofs!StoreInv, StoreProofs!GrantInv
<1>2. QED
  BY <1>1, FailoverInvariant, CachesInvariant, PTL

\* A drain that reports success to a node that owns its map has not seen the
\* handover to it: the poll reads an older epoch than the one in Redis.
DrainPassesAsOwnerOnlyUnseen ==
    [][\A n \in Nodes :
          (/\ drain[n] = "waiting" /\ drain'[n] \in {"done", "stopping"}
           /\ topology.owner[MapOf[n]] = n)
          => cache[n].epoch[MapOf[n]] < topology.epoch[MapOf[n]]]_failoverVars

\* node/drain.go:28, 49-54: BeginDrain returns nil to an owner only if its cache
\* is older than the handover.  This is about the poll: the process goes on
\* refreshing its cache while GracefulStop waits (cmd/node/main.go:107-111), and
\* ends whatever it sees then.
THEOREM DrainPassesAsOwnerOnlyUnseenTheorem ==
  FailoverSpec => DrainPassesAsOwnerOnlyUnseen
<1> DEFINE A == \A n \in Nodes :
                  (/\ drain[n] = "waiting" /\ drain'[n] \in {"done", "stopping"}
                   /\ topology.owner[MapOf[n]] = n)
                  => cache[n].epoch[MapOf[n]] < topology.epoch[MapOf[n]]
<1>1. ASSUME FailoverInv, CachesInv, NEW n \in Nodes, ~CachedOwner(n),
             topology.owner[MapOf[n]] = n
      PROVE  cache[n].epoch[MapOf[n]] < topology.epoch[MapOf[n]]
  <2> DEFINE m == MapOf[n]
  <2>1. m \in Maps
    BY MapOfAssumption
  <2>2. /\ cache[n].epoch[m] \in Nat /\ topology.epoch[m] \in Nat
        /\ cache[n].version \in Nat /\ topology.owner[m] # NoNode
        /\ granted \in SUBSET (Maps \X Nat \X Nodes)
    BY <1>1, <2>1, NodeAssumption DEF FailoverInv, FailoverTypeOK, Store!Topology
  <2>3. topology.epoch[m] > 0
    BY <1>1, <2>1, <2>2 DEF FailoverInv, StoreProofs!StoreInv, StoreProofs!GrantInv
  <2>4. CASE cache[n].version = 0
    BY <1>1, <2>1, <2>2, <2>3, <2>4 DEF CachesInv, CacheRemembers
  <2>5. CASE cache[n].version > 0
    <3>1. /\ <<m, cache[n].epoch[m], cache[n].owner[m]>> \in granted
          /\ cache[n].epoch[m] <= topology.epoch[m]
      BY <1>1, <2>1, <2>5 DEF CachesInv, CacheRemembers
    <3>2. cache[n].owner[m] # n \/ cache[n].epoch[m] = 0
      BY <1>1, <2>2 DEF CachedOwner
    <3>3. cache[n].epoch[m] = topology.epoch[m] => cache[n].owner[m] = n
      BY <1>1, <2>1, <2>2, <3>1
      DEF FailoverInv, StoreProofs!StoreInv, StoreProofs!GrantInv
    <3>4. QED
      BY <2>2, <2>3, <3>1, <3>2, <3>3
  <2>6. QED
    BY <2>2, <2>4, <2>5
<1>2. ASSUME FailoverInv, [FailoverNext]_failoverVars, NEW n \in Nodes,
             drain[n] = "waiting", drain'[n] \in {"done", "stopping"}
      PROVE  ~CachedOwner(n)
  <2>t. drain \in [Nodes -> DrainSteps]
    BY <1>2 DEF FailoverInv, FailoverTypeOK
  <2> USE DEF redisVars, coordVars, nodeVars
  <2>1. ASSUME NEW k \in Nodes, DrainPoll(k)
        PROVE  ~CachedOwner(n)
    BY <1>2, <2>1, <2>t DEF DrainPoll, DrainOutcomes
  <2>2. ASSUME NEW k \in Nodes, NodeStep(k), ~DrainPoll(k)
        PROVE  \/ drain' = drain
               \/ \E d \in {"none", "saving", "waiting", "failed"} :
                     drain' = [drain EXCEPT ![k] = d]
    BY <2>2
    DEF NodeStep, RefreshTopology, EnsureOwnedMaps, GraceExpires, TickSnapshot,
        TickBegin, TickStep, TickSave, WriteBegin, WriteFinish, ReadWorld,
        BeginDrain, SaveFinalCheckpoints, DrainAgain, Exit, CrashNode,
        LoseNodeMemory, RestartNode, RegisterNode, RegistrationExpires
  <2>3. ASSUME NEW c \in Coordinators, CoordinatorStep(c)
        PROVE  UNCHANGED drain
    BY <2>3
    DEF CoordinatorStep, ElectLeader, LoseLeadership, RestartCoordinator,
        ConnectNode, NodeRecovers, Bootstrap, NodeUnhealthy, ReconcileDraining
  <2>4. ASSUME NEW t \in Tasks, TaskStep(t) \/ GiveUp(t)
        PROVE  UNCHANGED drain
    BY <2>4
    DEF TaskStep, StartFailover, Continue, SelectStandby, LoadCheckpoint,
        PromoteCheck, PromoteInstall, CheckTerm, Commit, GiveUp
  <2>5. QED
    BY <1>2, <2>t, <2>1, <2>2, <2>3, <2>4 DEF FailoverNext, failoverVars
<1>3. FailoverInv /\ CachesInv /\ [FailoverNext]_failoverVars => A
  BY <1>1, <1>2
<1>4. QED
  BY <1>3, FailoverInvariant, CachesInvariant, PTL
  DEF FailoverSpec, DrainPassesAsOwnerOnlyUnseen

-----------------------------------------------------------------------------
(* What a commit moves.                                                    *)

\* A prepared topology is a first one, or it differs from the stored one, while
\* its commit can succeed, in the failed node's map only.
CommitsInv ==
    /\ topology.version = 0 => \A m \in Maps : topology.owner[m] = NoNode
    /\ \A t \in Tasks : Prepared(task[t]) =>
          /\ task[t].failed = NoNode => task[t].next.version = 1
          /\ Committable(task[t], topology) =>
                \A m \in Maps : m # MapOf[task[t].failed] =>
                    task[t].next.owner[m] = topology.owner[m]

\* What moves a map away from its owner is the commit of a failover of that
\* owner.
OnlyItsFailoverMovesAMap ==
    [][\A m \in Maps :
          (topology.owner[m] # NoNode /\ topology'.owner[m] # topology.owner[m])
          => \E t \in Tasks : /\ task[t].pc = "commit"
                              /\ task[t].failed = topology.owner[m]
                              /\ MapOf[task[t].failed] = m
                              /\ topology' = task[t].next]_failoverVars

\* The stored version is never more than one behind a prepared one, so what
\* can be committed after a step could be before it, over the same topology.
LEMMA StaysCommittable ==
  ASSUME FailoverInv, [FailoverNext]_failoverVars,
         NEW t \in Tasks, Prepared(task[t]),
         task'[t].next.version = task[t].next.version,
         task'[t].failed = task[t].failed, Committable(task'[t], topology')
  PROVE  topology' = topology /\ Committable(task[t], topology)
<1>1. RedisStep
  BY FailoverNext_Redis
<1>2. topology' = topology \/ topology.version + 1 = topology'.version
  <2>1. ASSUME NEW s \in Tasks,
               StoreProofs!CommitAllowed(task[s].next.version - 1, task[s].next),
               StoreProofs!CommitTopology(task[s].next)
        PROVE  topology.version + 1 = topology'.version
    <3>1. task[s].next.version \in Nat
      BY DEF FailoverInv, FailoverTypeOK, Task, Store!Topology
    <3>2. QED
      BY <2>1, <3>1 DEF StoreProofs!CommitAllowed, StoreProofs!CommitTopology
  <2>2. QED
    BY <1>1, <2>1 DEF RedisStep, StoreProofs!SaveCheckpointIfOwner
<1>3. task[t].next.version <= topology.version + 1
  BY DEF FailoverInv, TaskFits, TaskFollows, Prepared
<1>4. topology.version \in Nat /\ task[t].next.version \in Nat
  BY DEF FailoverInv, FailoverTypeOK, Task, Store!Topology
<1>5. QED
  BY <1>2, <1>3, <1>4 DEF Committable

LEMMA FailoverNext_Commits ==
  ASSUME FailoverInv, CommitsInv, [FailoverNext]_failoverVars
  PROVE  CommitsInv'
<1>1. RedisStep /\ FailoverInv'
  BY FailoverNext_Redis, FailoverNext_Inv
<1>2. topology'.version = 0 => \A m \in Maps : topology'.owner[m] = NoNode
  <2>1. ASSUME NEW s \in Tasks,
               StoreProofs!CommitAllowed(task[s].next.version - 1, task[s].next),
               StoreProofs!CommitTopology(task[s].next)
        PROVE  topology'.version # 0
    <3>1. task[s].next.version \in Nat
      BY DEF FailoverInv, FailoverTypeOK, Task, Store!Topology
    <3>2. QED
      BY <2>1, <3>1 DEF StoreProofs!CommitAllowed, StoreProofs!CommitTopology, StoreProofs!Valid
  <2>2. QED
    BY <1>1, <2>1 DEF RedisStep, StoreProofs!SaveCheckpointIfOwner, CommitsInv
<1>3. ASSUME NEW t \in Tasks, Prepared(task'[t])
      PROVE  /\ task'[t].failed = NoNode => task'[t].next.version = 1
             /\ Committable(task'[t], topology') =>
                   \A m \in Maps : m # MapOf[task'[t].failed] =>
                       task'[t].next.owner[m] = topology'.owner[m]
  <2>1. CASE /\ Prepared(task[t]) /\ task'[t].failed = task[t].failed
             /\ task'[t].next.version = task[t].next.version
             /\ \A m \in Maps : m # MapOf[task'[t].failed] =>
                   task'[t].next.owner[m] = task[t].next.owner[m]
    <3>1. Committable(task'[t], topology') =>
             topology' = topology /\ Committable(task[t], topology)
      BY <2>1, StaysCommittable
    <3>2. QED
      BY <2>1, <3>1 DEF CommitsInv
  <2>2. CASE /\ IF task'[t].failed = NoNode THEN task'[t].next.version = 1
                ELSE task'[t].next.owner = topology.owner
             /\ UNCHANGED topology
    BY <2>2 DEF Committable
  <2>3. QED
    BY <1>3, <2>1, <2>2, FailoverNext_TaskComesFrom DEF TaskComesFrom
<1>4. QED
  BY <1>2, <1>3 DEF CommitsInv, Prepared, Committable

LEMMA CommitsInvariant == FailoverSpec => []CommitsInv
<1>1. FailoverInit => CommitsInv
  BY DEF FailoverInit, CommitsInv, Prepared, IdleTask, Store!NoTopology
<1>2. QED
  BY <1>1, FailoverNext_Commits, FailoverInvariant, PTL DEF FailoverSpec

LEMMA FailoverNext_Moves ==
  FailoverInv /\ CommitsInv /\ [FailoverNext]_failoverVars =>
     \A m \in Maps :
        (topology.owner[m] # NoNode /\ topology'.owner[m] # topology.owner[m])
        => \E t \in Tasks : /\ task[t].pc = "commit"
                            /\ task[t].failed = topology.owner[m]
                            /\ MapOf[task[t].failed] = m
                            /\ topology' = task[t].next
                            /\ Committable(task[t], topology)
<1> SUFFICES ASSUME FailoverInv, CommitsInv, [FailoverNext]_failoverVars,
                    NEW m \in Maps, topology.owner[m] # NoNode,
                    topology'.owner[m] # topology.owner[m]
             PROVE  \E t \in Tasks : /\ task[t].pc = "commit"
                                     /\ task[t].failed = topology.owner[m]
                                     /\ MapOf[task[t].failed] = m
                                     /\ topology' = task[t].next
                                     /\ Committable(task[t], topology)
  OBVIOUS
<1>1. PICK t \in Tasks : /\ task[t].pc = "commit"
                         /\ StoreProofs!CommitAllowed(task[t].next.version - 1, task[t].next)
                         /\ StoreProofs!CommitTopology(task[t].next)
  BY FailoverNext_Redis DEF RedisStep, StoreProofs!SaveCheckpointIfOwner
<1>2. /\ topology' = task[t].next /\ topology.version = task[t].next.version - 1
  BY <1>1 DEF StoreProofs!CommitAllowed, StoreProofs!CommitTopology
<1>3. topology.version \in Nat /\ task[t].next.version \in Nat /\ Prepared(task[t])
  BY <1>1 DEF FailoverInv, FailoverTypeOK, Task, Store!Topology, Prepared
<1>4. task[t].failed # NoNode /\ Committable(task[t], topology)
  BY <1>2, <1>3 DEF CommitsInv, Committable
<1>5. MapOf[task[t].failed] = m
  BY <1>2, <1>3, <1>4 DEF CommitsInv
<1>6. topology.owner[m] = task[t].failed
  BY <1>3, <1>4, <1>5 DEF FailoverInv, TaskFits, TaskFollows, Prepared
<1>7. QED
  BY <1>1, <1>2, <1>4, <1>5, <1>6

\* failoverMap copies the topology, replaces one owner and commits it whole: it
\* never moves another map along, whatever was committed meanwhile.
THEOREM OnlyItsFailoverMovesAMapTheorem == FailoverSpec => OnlyItsFailoverMovesAMap
<1>1. FailoverInv /\ CommitsInv /\ [FailoverNext]_failoverVars =>
        \A m \in Maps :
          (topology.owner[m] # NoNode /\ topology'.owner[m] # topology.owner[m])
          => \E t \in Tasks : /\ task[t].pc = "commit"
                              /\ task[t].failed = topology.owner[m]
                              /\ MapOf[task[t].failed] = m
                              /\ topology' = task[t].next
  BY FailoverNext_Moves
<1>2. QED
  BY <1>1, FailoverInvariant, CommitsInvariant, PTL
  DEF FailoverSpec, OnlyItsFailoverMovesAMap

-----------------------------------------------------------------------------
(* When a drain hands over its final state.                                *)

\* The claim of coordinator/drain.go:14 about the order of things: no failover
\* of n has read a checkpoint that n's final save will replace.
FinalSaveUndisturbed ==
    \A n \in Nodes : drain[n] = "saving" =>
        \A t \in Tasks : ~(Loaded(task[t]) /\ task[t].failed = n)

\* Past saveFinalCheckpoints, whatever came of it.
Drained == {"waiting", "failed", "done", "stopping"}

\* From then on a failover that can be committed has what is stored.
FinalInv ==
    \A t \in Tasks :
        (/\ Loaded(task[t]) /\ Committable(task[t], topology)
         /\ drain[task[t].failed] \in Drained)
        => task[t].version = checkpoint[MapOf[task[t].failed]].version

\* Node n is past its drain's save, still owns its map, and version v of its
\* world is what is stored of it.
FinalStored(n, v) ==
    /\ drain[n] \in Drained
    /\ topology.owner[MapOf[n]] = n
    /\ checkpoint[MapOf[n]].node = n
    /\ checkpoint[MapOf[n]].version = v

\* Version v of n's map goes to the owner that follows n.
MovesWith(n, v) ==
    \E t \in Tasks : /\ task[t].pc = "commit" /\ task[t].failed = n
                     /\ task[t].version = v
                     /\ topology' = task[t].next

\* When BeginDrain of an owner that hosts its map gets past its save without an
\* error, the world of that moment is stored.  It stays stored until the node
\* is gone or the map moves, and the map moves with it.
HandoverTakesFinal ==
    [][\A n \in Nodes :
          /\ (/\ drain[n] = "saving" /\ drain'[n] = "waiting"
              /\ CachedOwner(n) /\ world[n] > 0)
             => FinalStored(n, world[n])'
          /\ \A v \in Nat : FinalStored(n, v) =>
                \/ FinalStored(n, v)'
                \/ drain'[n] = "none"
                \/ MovesWith(n, v)]_failoverVars

\* How a step changes where a drain is.
LEMMA FailoverNext_Drains ==
  ASSUME FailoverInv, [FailoverNext]_failoverVars, NEW n \in Nodes
  PROVE  \/ drain'[n] = drain[n]
         \/ drain'[n] = "none"
         \/ drain[n] = "none" /\ drain'[n] = "saving"
         \/ drain[n] = "saving" /\ drain'[n] = "failed"
         \/ drain[n] = "saving" /\ drain'[n] = "waiting" /\ SaveFinalCheckpoints(n)
         \/ drain[n] \in Drained /\ drain'[n] \in Drained
<1>t. drain \in [Nodes -> DrainSteps]
  BY DEF FailoverInv, FailoverTypeOK
<1> DEFINE G == \/ drain'[n] = drain[n]
                \/ drain'[n] = "none"
                \/ drain[n] = "none" /\ drain'[n] = "saving"
                \/ drain[n] = "saving" /\ drain'[n] = "failed"
                \/ drain[n] = "saving" /\ drain'[n] = "waiting" /\ SaveFinalCheckpoints(n)
                \/ drain[n] \in Drained /\ drain'[n] \in Drained
<1>1. ASSUME NEW k \in Nodes, SaveFinalCheckpoints(k)
      PROVE  G
  <2>1. /\ drain[k] = "saving"
        /\ \/ drain' = [drain EXCEPT ![k] = "waiting"]
           \/ drain' = [drain EXCEPT ![k] = "failed"]
    BY <1>1 DEF SaveFinalCheckpoints
  <2>2. QED
    BY <1>1, <1>t, <2>1
<1>2. ASSUME NEW k \in Nodes, NodeStep(k), ~SaveFinalCheckpoints(k)
      PROVE  G
  <2>1. \/ drain' = drain
        \/ drain' = [drain EXCEPT ![k] = "none"]
        \/ drain[k] = "none" /\ drain' = [drain EXCEPT ![k] = "saving"]
        \/ /\ drain[k] \in Drained
           /\ \E d \in Drained : drain' = [drain EXCEPT ![k] = d]
    BY <1>2
    DEF NodeStep, RefreshTopology, EnsureOwnedMaps, GraceExpires, TickSnapshot,
        TickBegin, TickStep, TickSave, WriteBegin, WriteFinish, ReadWorld,
        BeginDrain, DrainAgain, DrainPoll, DrainOutcomes, Exit, CrashNode,
        LoseNodeMemory, RestartNode, RegisterNode, RegistrationExpires, nodeVars,
        Drained
  <2>2. QED
    BY <1>t, <2>1
<1>3. ASSUME NEW c \in Coordinators, CoordinatorStep(c)
      PROVE  UNCHANGED drain
  BY <1>3
  DEF CoordinatorStep, ElectLeader, LoseLeadership, RestartCoordinator,
      ConnectNode, NodeRecovers, Bootstrap, NodeUnhealthy, ReconcileDraining,
      nodeVars
<1>4. ASSUME NEW t \in Tasks, TaskStep(t) \/ GiveUp(t)
      PROVE  UNCHANGED drain
  BY <1>4
  DEF TaskStep, StartFailover, Continue, SelectStandby, LoadCheckpoint,
      PromoteCheck, PromoteInstall, CheckTerm, Commit, GiveUp, nodeVars
<1>5. CASE UNCHANGED failoverVars
  BY <1>5 DEF failoverVars, nodeVars
<1>6. QED
  BY <1>1, <1>2, <1>3, <1>4, <1>5 DEF FailoverNext

\* The final save of an owner that hosts its map, when it reports no error.
LEMMA FinalSaveStores ==
  ASSUME FailoverInv, [FailoverNext]_failoverVars, NEW n \in Nodes,
         drain[n] = "saving", drain'[n] = "waiting", CachedOwner(n), world[n] > 0
  PROVE  FinalStored(n, world[n])'
<1> DEFINE m == MapOf[n]
           e == CachedEpoch(n)
<1>1. SaveFinalCheckpoints(n)
  BY FailoverNext_Drains DEF Drained
<1>t. /\ drain \in [Nodes -> DrainSteps] /\ m \in Maps
      /\ checkpoint \in [Maps -> Store!Checkpoint]
  BY MapOfAssumption DEF FailoverInv, FailoverTypeOK
<1>2. /\ RequireAuthority(n, e)
      /\ Store!SaveCheckpointIfOwner(n, m, e, world[n])
      /\ world' = world
  BY <1>1, <1>t DEF SaveFinalCheckpoints
<1>3. /\ checkpoint' = [checkpoint EXCEPT ![m] =
                          [node |-> n, epoch |-> e, version |-> world[n]]]
      /\ topology' = topology
  BY <1>2 DEF Store!SaveCheckpointIfOwner
<1>4. topology.owner[m] = n
  BY <1>2, <1>t, FenceNamesRoutedOwner DEF RequireAuthority, Store!FenceAdmits
<1>5. /\ checkpoint'[m].node = n /\ checkpoint'[m].version = world'[n]
  BY <1>2, <1>3, <1>t
<1>6. QED
  BY <1>3, <1>4, <1>5 DEF FinalStored, Drained

\* Only the owner Redis routes to stores a checkpoint of the map.
LEMMA OwnerAloneStores ==
  ASSUME FailoverInv, [FailoverNext]_failoverVars, NEW m \in Maps,
         checkpoint'[m] # checkpoint[m]
  PROVE  checkpoint'[m].node = topology.owner[m]
<1>1. checkpoint \in [Maps -> Store!Checkpoint]
  BY DEF FailoverInv, FailoverTypeOK
<1>2. PICK n \in Nodes, e \in Nat, v \in Nat :
         StoreProofs!SaveCheckpointIfOwner(n, MapOf[n], e, v)
  BY FailoverNext_Redis DEF RedisStep, StoreProofs!CommitTopology
<1>3. /\ fence[MapOf[n]].owner = n
      /\ checkpoint' = [checkpoint EXCEPT ![MapOf[n]] =
                          [node |-> n, epoch |-> e, version |-> v]]
  BY <1>2 DEF StoreProofs!SaveCheckpointIfOwner, StoreProofs!FenceAdmits
<1>4. MapOf[n] = m /\ checkpoint'[m].node = n
  BY <1>1, <1>3, MapOfAssumption
<1>5. QED
  BY <1>2, <1>3, <1>4, FenceNamesRoutedOwner
  DEF StoreProofs!SaveCheckpointIfOwner, StoreProofs!FenceAdmits

LEMMA FailoverNext_FinalInv ==
  FailoverInv /\ FinalSaveUndisturbed /\ FinalInv /\ [FailoverNext]_failoverVars
    => FinalInv'
<1> SUFFICES ASSUME FailoverInv, FinalSaveUndisturbed, FinalInv,
                    [FailoverNext]_failoverVars, NEW t \in Tasks,
                    Loaded(task'[t]), Committable(task'[t], topology'),
                    drain'[task'[t].failed] \in Drained
             PROVE  task'[t].version = checkpoint'[MapOf[task'[t].failed]].version
  BY DEF FinalInv, Loaded, Committable
<1> DEFINE n == task'[t].failed
           m == MapOf[n]
<1>1. FailoverInv'
  BY FailoverNext_Inv
<1>2. n \in Nodes
  BY <1>1, NodeAssumption DEF FailoverInv, FailoverTypeOK, Task, Loaded
<1>3. CASE Loaded(task[t]) /\ n = task[t].failed /\ task'[t].version = task[t].version
           /\ task'[t].next = task[t].next
  <2>1. Committable(task[t], topology)
    BY <1>3, StaysCommittable DEF Loaded, Prepared
  <2>2. drain[n] \in Drained
    <3>1. drain[n] # "saving"
      BY <1>2, <1>3 DEF FinalSaveUndisturbed
    <3>2. QED
      BY <1>2, <3>1, FailoverNext_Drains DEF Drained
  <2>3. checkpoint'[m].node = n
    BY <1>1 DEF FailoverInv, TaskFits, TaskFollows, Loaded
  <2>4. checkpoint'[m] = checkpoint[m]
    BY <1>2, <2>2, <2>3, FailoverNext_DrainSaves DEF IsDraining, Drained
  <2>5. QED
    BY <1>3, <2>1, <2>2, <2>4 DEF FinalInv
<1>4. CASE task'[t].version = checkpoint[m].version /\ UNCHANGED checkpoint
  BY <1>4
<1>5. QED
  BY <1>3, <1>4, FailoverNext_TaskComesFrom DEF TaskComesFrom

\* coordinator/drain.go:14 says that the migration does not race with the final
\* save.  It can.  Whenever it does not, that is, no failover of the node has
\* read a checkpoint before the final save, the map moves with the world the
\* drain saved, whoever coordinates and however often it is tried.  Nothing is
\* said of a drain whose save failed (drain.go:39-42): the node stays draining,
\* no retry saves, and its map moves with the last checkpoint of a tick.
THEOREM HandoverTakesFinalTheorem ==
  FailoverSpec /\ []FinalSaveUndisturbed => HandoverTakesFinal
<1> DEFINE A == \A n \in Nodes :
                  /\ (/\ drain[n] = "saving" /\ drain'[n] = "waiting"
                      /\ CachedOwner(n) /\ world[n] > 0)
                     => FinalStored(n, world[n])'
                  /\ \A v \in Nat : FinalStored(n, v) =>
                        \/ FinalStored(n, v)'
                        \/ drain'[n] = "none"
                        \/ MovesWith(n, v)
<1>1. FailoverInit => FinalInv
  BY DEF FailoverInit, FinalInv, Loaded, IdleTask
<1>2. ASSUME FailoverInv, [FailoverNext]_failoverVars, NEW n \in Nodes,
             drain[n] = "saving", drain'[n] = "waiting", CachedOwner(n),
             world[n] > 0
      PROVE  FinalStored(n, world[n])'
  BY <1>2, FinalSaveStores
<1>3. ASSUME FailoverInv, CommitsInv, FinalInv, FinalSaveUndisturbed,
             [FailoverNext]_failoverVars, NEW n \in Nodes, NEW v \in Nat,
             FinalStored(n, v), drain'[n] # "none"
      PROVE  FinalStored(n, v)' \/ MovesWith(n, v)
  <2>1. MapOf[n] \in Maps /\ n # NoNode
    BY MapOfAssumption, NodeAssumption
  <2>2. CASE topology'.owner[MapOf[n]] # n
    <3>1. PICK t \in Tasks : /\ task[t].pc = "commit" /\ task[t].failed = n
                             /\ topology' = task[t].next
                             /\ Committable(task[t], topology)
      BY <1>3, <2>1, <2>2, FailoverNext_Moves DEF FinalStored
    <3>2. Loaded(task[t])
      BY <2>1, <3>1 DEF Loaded
    <3>3. task[t].version = v
      BY <1>3, <3>1, <3>2 DEF FinalInv, FinalStored
    <3>4. QED
      BY <3>1, <3>3 DEF MovesWith
  <2>3. CASE topology'.owner[MapOf[n]] = n
    <3>1. drain'[n] \in Drained
      BY <1>3, FailoverNext_Drains DEF FinalStored, Drained
    <3>2. checkpoint'[MapOf[n]].node = n => checkpoint'[MapOf[n]] = checkpoint[MapOf[n]]
      BY <1>3, FailoverNext_DrainSaves DEF FinalStored, IsDraining, Drained
    <3>3. checkpoint'[MapOf[n]] = checkpoint[MapOf[n]]
      BY <1>3, <2>1, <3>2, OwnerAloneStores DEF FinalStored
    <3>4. QED
      BY <1>3, <2>3, <3>1, <3>3 DEF FinalStored
  <2>4. QED
    BY <2>2, <2>3
<1>4. FailoverInv /\ CommitsInv /\ FinalInv /\ FinalSaveUndisturbed
      /\ [FailoverNext]_failoverVars => A
  BY <1>2, <1>3
<1>5. QED
  BY <1>1, <1>4, FailoverNext_FinalInv, FailoverInvariant, CommitsInvariant, PTL
  DEF FailoverSpec, HandoverTakesFinal

-----------------------------------------------------------------------------
(* When the durable world of an epoch does not go back.                    *)

\* What Promote takes for granted when it installs the world (node.go:604): the
\* node still does not own the map, and no tick is under way on an older world.
PromotesOnlyIdleStandbys ==
    \A t \in Tasks :
        LET s == task[t].standby
        IN  PromoteInstall(t) => topology.owner[MapOf[s]] # s /\ tick[s].pc = "idle"

\* A tick works on the hosted world.
TicksInv ==
    \A n \in Nodes : tick[n].detached = 0 /\ (tick[n].pc # "idle" => world[n] > 0)

\* The owner's world is not older than what it stored in its epoch.
OwnersWorldInv ==
    \A n \in Nodes :
        LET m == MapOf[n]
        IN  (topology.owner[m] = n /\ checkpoint[m].epoch = topology.epoch[m]
                /\ world[n] > 0)
            => world[n] >= checkpoint[m].version

\* What a step does to the world of node n.
WorldStep(n) ==
    \/ world[n] > 0 /\ world'[n] >= world[n]
    \/ world'[n] = 0
    \/ /\ world'[n] >= checkpoint[MapOf[n]].version
       /\ UNCHANGED <<topology, checkpoint>>
    \/ topology.owner[MapOf[n]] # n /\ UNCHANGED <<topology, checkpoint>>

LEMMA FailoverNext_Worlds ==
  ASSUME FailoverInv, TicksInv, PromotesOnlyIdleStandbys, [FailoverNext]_failoverVars
  PROVE  TicksInv' /\ \A n \in Nodes : WorldStep(n)
<1> DEFINE A == TicksInv' /\ \A n \in Nodes : WorldStep(n)
<1>t. /\ tick \in [Nodes -> Tick] /\ world \in [Nodes -> Nat]
      /\ \A n \in Nodes : checkpoint[MapOf[n]].version \in Nat
      /\ \A n \in Nodes : tick[n].detached = 0 /\ (tick[n].pc # "idle" => world[n] > 0)
      /\ \A n \in Nodes : MapOf[n] \in Maps
  BY MapOfAssumption DEF FailoverInv, FailoverTypeOK, Store!Checkpoint, TicksInv
<1> USE <1>t DEF TicksInv, WorldStep, redisVars, coordVars, nodeVars
<1>1. ASSUME NEW n \in Nodes, EnsureOwnedMaps(n)
      PROVE  A
  BY <1>1 DEF EnsureOwnedMaps, LoadedWorld
<1>2. ASSUME NEW n \in Nodes, TickSnapshot(n)
      PROVE  A
  BY <1>2 DEF TickSnapshot, Tick
<1>3. ASSUME NEW n \in Nodes, TickBegin(n)
      PROVE  A
  <2>1. /\ tick[n].pc = "snapshot" /\ UNCHANGED world
        /\ \A k \in Nodes \ {n} : tick'[k] = tick[k]
        /\ \/ tick'[n] = IdleTick
           \/ tick'[n] = [tick[n] EXCEPT !.pc = "stepping", !.epoch = CachedEpoch(n)]
    BY <1>3 DEF TickBegin
  <2>2. tick'[n].detached = 0
    <3> DEFINE q == [tick[n] EXCEPT !.pc = "stepping", !.epoch = CachedEpoch(n)]
    <3>1. tick[n] \in Tick /\ tick[n].detached = 0
      OBVIOUS
    <3>2. q.detached = 0
      BY <3>1 DEF Tick
    <3>3. IdleTick.detached = 0
      BY DEF IdleTick
    <3> HIDE DEF q
    <3>4. tick'[n] = IdleTick \/ tick'[n] = q
      BY <2>1 DEF q
    <3>5. QED
      BY <3>2, <3>3, <3>4
  <2>3. QED
    BY <2>1, <2>2
<1>4. ASSUME NEW n \in Nodes, TickStep(n)
      PROVE  A
  <2> DEFINE w(v) == IF tick[n].detached > 0 THEN v ELSE 0
             r(v) == IF RequireAuthority(n, tick[n].epoch)
                     THEN [tick[n] EXCEPT !.pc = "saving", !.detached = w(v)]
                     ELSE IdleTick
  <2>1. PICK v \in BackgroundStep(TickedWorld(n)) :
            /\ world' = IF tick[n].detached > 0 THEN world
                                                ELSE [world EXCEPT ![n] = v]
            /\ tick' = [tick EXCEPT ![n] = r(v)]
    BY <1>4 DEF TickStep
  <2>2. v >= world[n] /\ world[n] > 0 /\ v \in Nat
    BY <1>4 DEF TickStep, BackgroundStep, TickedWorld
  <2>3. r(v).detached = 0
    <3>1. tick[n] \in Tick /\ w(v) = 0
      OBVIOUS
    <3>2. \A q \in Tick : [q EXCEPT !.pc = "saving", !.detached = 0].detached = 0
      BY DEF Tick
    <3>3. QED
      BY <3>1, <3>2 DEF IdleTick
  <2> HIDE DEF r
  <2>4. QED
    BY <2>1, <2>2, <2>3
<1>5. ASSUME NEW n \in Nodes, TickSave(n)
      PROVE  A
  BY <1>5 DEF TickSave, IdleTick
<1>6. ASSUME NEW n \in Nodes, WriteFinish(n)
      PROVE  A
  <2>1. PICK v : /\ world' = [world EXCEPT ![n] = v]
                 /\ v \in IF world[n] > 0 THEN PlayerOperation(world[n])
                                          ELSE {0, LoadedWorld(MapOf[n]) + 1}
                 /\ UNCHANGED tick
    BY <1>6 DEF WriteFinish
  <2>2. v >= world[n] /\ v \in Nat
    BY <2>1 DEF PlayerOperation, LoadedWorld
  <2>3. world[n] = 0 => v \in {0, LoadedWorld(MapOf[n]) + 1}
    BY <2>1
  <2>4. UNCHANGED <<topology, checkpoint>>
    BY <1>6 DEF WriteFinish
  <2>5. QED
    BY <2>1, <2>2, <2>3, <2>4 DEF LoadedWorld
<1>7. ASSUME NEW n \in Nodes, ReadWorld(n)
      PROVE  A
  BY <1>7 DEF ReadWorld
<1>8. ASSUME NEW n \in Nodes, LoseNodeMemory(n)
      PROVE  A
  BY <1>8 DEF LoseNodeMemory, IdleTick
<1>9. ASSUME NEW t \in Tasks, PromoteInstall(t)
      PROVE  A
  <2> DEFINE s == task[t].standby
  <2>1. topology.owner[MapOf[s]] # s /\ tick[s].pc = "idle" /\ s \in Nodes
    BY <1>9 DEF PromotesOnlyIdleStandbys, PromoteInstall, FailoverInv, TaskFits, TaskKnows
  <2>2. /\ world' = [world EXCEPT ![s] = task[t].version]
        /\ tick' = [tick EXCEPT ![s] = tick[s]]
        /\ UNCHANGED <<topology, checkpoint>>
    BY <1>9, <2>1 DEF PromoteInstall
  <2>3. QED
    BY <2>1, <2>2
<1>10. ASSUME UNCHANGED <<world, tick>>
      PROVE  A
  BY <1>10
<1> HIDE <1>t DEF A, TicksInv, WorldStep
<1>11. ASSUME NEW n \in Nodes, NodeStep(n)
      PROVE  A
  BY <1>11, <1>1, <1>2, <1>3, <1>4, <1>5, <1>6, <1>7, <1>8, <1>10
  DEF NodeStep, RefreshTopology, GraceExpires, WriteBegin, BeginDrain,
      SaveFinalCheckpoints, DrainAgain, DrainPoll, Exit, CrashNode, RestartNode,
      RegisterNode, RegistrationExpires
<1>12. ASSUME NEW c \in Coordinators, CoordinatorStep(c)
      PROVE  A
  BY <1>12, <1>10
  DEF CoordinatorStep, ElectLeader, LoseLeadership, RestartCoordinator,
      ConnectNode, NodeRecovers, Bootstrap, NodeUnhealthy, ReconcileDraining
<1>13. ASSUME NEW t \in Tasks, TaskStep(t) \/ GiveUp(t)
      PROVE  A
  BY <1>13, <1>9, <1>10
  DEF TaskStep, StartFailover, Continue, SelectStandby, LoadCheckpoint,
      PromoteCheck, CheckTerm, Commit, GiveUp
<1>14. QED
  BY <1>10, <1>11, <1>12, <1>13 DEF FailoverNext, failoverVars, A

\* What is saved is the world of the owner, as of the current epoch.
SavesOwnersWorld ==
    \E n \in Nodes :
        LET m == MapOf[n]
        IN  /\ topology.owner[m] = n /\ world[n] > 0
            /\ checkpoint' = [checkpoint EXCEPT ![m] =
                  [node |-> n, epoch |-> topology.epoch[m], version |-> world[n]]]
            /\ UNCHANGED <<topology, world>>

LEMMA FailoverNext_Saves ==
  ASSUME FailoverInv, TicksInv, [FailoverNext]_failoverVars
  PROVE  UNCHANGED checkpoint \/ SavesOwnersWorld
<1> DEFINE A == UNCHANGED checkpoint \/ SavesOwnersWorld
<1> USE DEF redisVars, coordVars, nodeVars
<1>1. ASSUME NEW n \in Nodes, NEW e, world[n] > 0, UNCHANGED world,
             Store!SaveCheckpointIfOwner(n, MapOf[n], e, world[n])
      PROVE  SavesOwnersWorld
  <2>1. topology.owner[MapOf[n]] = n /\ topology.epoch[MapOf[n]] = e
    BY <1>1, FenceNamesRoutedOwner, MapOfAssumption
    DEF Store!SaveCheckpointIfOwner, Store!FenceAdmits
  <2>2. QED
    BY <1>1, <2>1 DEF SavesOwnersWorld, Store!SaveCheckpointIfOwner
<1>2. ASSUME NEW n \in Nodes, TickSave(n)
      PROVE  A
  <2>1. world[n] > 0 /\ TickedWorld(n) = world[n]
    BY <1>2 DEF TickSave, TicksInv, TickedWorld
  <2>2. QED
    BY <1>1, <1>2, <2>1 DEF TickSave
<1>3. ASSUME NEW n \in Nodes, SaveFinalCheckpoints(n)
      PROVE  A
  BY <1>1, <1>3 DEF SaveFinalCheckpoints
<1>4. ASSUME UNCHANGED checkpoint
      PROVE  A
  BY <1>4
<1> HIDE DEF A
<1>5. ASSUME NEW n \in Nodes, NodeStep(n)
      PROVE  A
  BY <1>5, <1>2, <1>3, <1>4
  DEF NodeStep, RefreshTopology, EnsureOwnedMaps, GraceExpires, TickSnapshot,
      TickBegin, TickStep, WriteBegin, WriteFinish, ReadWorld, BeginDrain,
      DrainAgain, DrainPoll, Exit, CrashNode, RestartNode, RegisterNode,
      RegistrationExpires
<1>6. ASSUME NEW c \in Coordinators, CoordinatorStep(c)
      PROVE  A
  BY <1>6, <1>4
  DEF CoordinatorStep, ElectLeader, LoseLeadership, RestartCoordinator,
      ConnectNode, NodeRecovers, Bootstrap, NodeUnhealthy, ReconcileDraining
<1>7. ASSUME NEW t \in Tasks, TaskStep(t) \/ GiveUp(t)
      PROVE  A
  BY <1>7, <1>4
  DEF TaskStep, StartFailover, Continue, SelectStandby, LoadCheckpoint,
      PromoteCheck, PromoteInstall, CheckTerm, GiveUp, Commit,
      Store!CompareAndSaveTopology, Store!CompareAndSaveTopologyAndMigrateSessions,
      Store!CommitTopology
<1>8. QED
  BY <1>4, <1>5, <1>6, <1>7 DEF FailoverNext, failoverVars, A

\* A new owner has nothing stored in its epoch yet.
LEMMA RedisStep_SameEpoch ==
  ASSUME FailoverInv, RedisStep, NEW m \in Maps, topology'.owner[m] # NoNode,
         checkpoint[m].epoch = topology'.epoch[m]
  PROVE  topology.owner[m] = topology'.owner[m] /\ topology.epoch[m] = topology'.epoch[m]
<1>1. CASE UNCHANGED topology
  BY <1>1
<1>2. ASSUME NEW t \in Tasks,
             StoreProofs!CommitAllowed(task[t].next.version - 1, task[t].next),
             StoreProofs!CommitTopology(task[t].next)
      PROVE  topology.owner[m] = topology'.owner[m] /\ topology.epoch[m] = topology'.epoch[m]
  <2> DEFINE next == task[t].next
  <2>1. topology' = next /\ StoreProofs!EpochsAdvance(next) /\ StoreProofs!Valid(next)
    BY <1>2 DEF StoreProofs!CommitAllowed, StoreProofs!CommitTopology
  <2> HIDE DEF next
  <2>2. topology.epoch[m] \in Nat /\ checkpoint[m].epoch \in Nat
    BY DEF FailoverInv, FailoverTypeOK, Store!Topology, Store!Checkpoint
  <2>3. checkpoint[m].epoch <= topology.epoch[m]
    <3>1. CASE checkpoint[m] = StoreProofs!NoCheckpoint
      <4>1. checkpoint[m].epoch = 0
        BY <3>1 DEF StoreProofs!NoCheckpoint
      <4>2. QED
        BY <2>2, <4>1
    <3>2. CASE checkpoint[m] # StoreProofs!NoCheckpoint
      BY <3>2 DEF FailoverInv, StoreProofs!StoreInv, StoreProofs!CheckpointFromEpochOwner
    <3>3. QED
      BY <3>1, <3>2
  <2>4. next.epoch[m] > 0
    BY <2>1 DEF StoreProofs!Valid
  <2>5. topology.version = 0 => topology.epoch[m] = 0
    BY DEF FailoverInv, StoreProofs!StoreInv, StoreProofs!GrantInv
  <2>6. QED
    BY <2>1, <2>2, <2>3, <2>4, <2>5 DEF StoreProofs!EpochsAdvance
<1>3. QED
  BY <1>1, <1>2 DEF RedisStep, StoreProofs!SaveCheckpointIfOwner

LEMMA FailoverNext_OwnersWorld ==
  FailoverInv /\ TicksInv /\ OwnersWorldInv /\ PromotesOnlyIdleStandbys
    /\ [FailoverNext]_failoverVars => TicksInv' /\ OwnersWorldInv'
<1> SUFFICES ASSUME FailoverInv, TicksInv, OwnersWorldInv, PromotesOnlyIdleStandbys,
                    [FailoverNext]_failoverVars
             PROVE  TicksInv' /\ OwnersWorldInv'
  OBVIOUS
<1>1. TicksInv' /\ (\A n \in Nodes : WorldStep(n)) /\ FailoverInv' /\ RedisStep
  BY FailoverNext_Worlds, FailoverNext_Inv, FailoverNext_Redis
<1>2. ASSUME NEW n \in Nodes, topology'.owner[MapOf[n]] = n,
             checkpoint'[MapOf[n]].epoch = topology'.epoch[MapOf[n]], world'[n] > 0
      PROVE  world'[n] >= checkpoint'[MapOf[n]].version
  <2> DEFINE m == MapOf[n]
  <2>1. m \in Maps /\ n # NoNode
    BY MapOfAssumption, NodeAssumption
  <2>2. /\ world[n] \in Nat /\ world'[n] \in Nat
        /\ checkpoint[m].version \in Nat /\ checkpoint \in [Maps -> Store!Checkpoint]
    BY <1>1, <2>1 DEF FailoverInv, FailoverTypeOK, Store!Checkpoint
  <2>3. CASE UNCHANGED checkpoint
    <3>1. topology.owner[m] = n /\ topology.epoch[m] = checkpoint[m].epoch
      BY <1>1, <1>2, <2>1, <2>3, RedisStep_SameEpoch
    <3>2. world[n] > 0 => world[n] >= checkpoint[m].version
      BY <3>1 DEF OwnersWorldInv
    <3>3. CASE world'[n] >= world[n] /\ world[n] > 0
      BY <2>2, <2>3, <3>2, <3>3
    <3>4. CASE world[n] = 0 /\ world'[n] >= checkpoint[m].version
      BY <2>3, <3>4
    <3>5. QED
      BY <1>1, <1>2, <2>2, <2>3, <3>1, <3>2, <3>3, <3>4 DEF WorldStep
  <2>4. CASE SavesOwnersWorld
    <3>1. PICK k \in Nodes :
             /\ topology.owner[MapOf[k]] = k
             /\ checkpoint' = [checkpoint EXCEPT ![MapOf[k]] =
                   [node |-> k, epoch |-> topology.epoch[MapOf[k]], version |-> world[k]]]
             /\ UNCHANGED <<topology, world>>
      BY <2>4 DEF SavesOwnersWorld
    <3>2. CASE MapOf[k] = m
      BY <1>2, <2>1, <2>2, <3>1, <3>2
    <3>3. CASE MapOf[k] # m
      BY <1>2, <2>1, <2>2, <3>1, <3>3 DEF OwnersWorldInv
    <3>4. QED
      BY <3>2, <3>3
  <2>5. QED
    BY <2>3, <2>4, FailoverNext_Saves
<1>3. QED
  BY <1>1, <1>2 DEF OwnersWorldInv

\* coordinator/failover.go:51, node/authority.go:144: Promote prepares a world on
\* a node that does not own the map.  As long as the node still does not own
\* it, and does not tick it, when the world is installed, the durable world of
\* an epoch never goes back.  So the late install of node.go:604 is the only
\* way for it to go back: no order of ticks, writes, drains, crashes, stale
\* caches and commits does it.
THEOREM EpochWorldNeverGoesBackTheorem ==
  FailoverSpec /\ [][PromotesOnlyIdleStandbys]_failoverVars => EpochWorldNeverGoesBack
<1>1. FailoverInit => TicksInv /\ OwnersWorldInv
  BY DEF FailoverInit, TicksInv, OwnersWorldInv, IdleTick
<1>2. FailoverInv /\ TicksInv /\ OwnersWorldInv /\ [FailoverNext]_failoverVars =>
        \A m \in Maps :
          checkpoint'[m].epoch = checkpoint[m].epoch
              => checkpoint'[m].version >= checkpoint[m].version
  <2> SUFFICES ASSUME FailoverInv, TicksInv, OwnersWorldInv,
                      [FailoverNext]_failoverVars, NEW m \in Maps,
                      checkpoint'[m].epoch = checkpoint[m].epoch
               PROVE  checkpoint'[m].version >= checkpoint[m].version
    OBVIOUS
  <2>1. checkpoint \in [Maps -> Store!Checkpoint] /\ checkpoint[m].version \in Nat
    BY DEF FailoverInv, FailoverTypeOK, Store!Checkpoint
  <2>2. CASE SavesOwnersWorld
    BY <2>1, <2>2 DEF SavesOwnersWorld, OwnersWorldInv
  <2>3. QED
    BY <2>1, <2>2, FailoverNext_Saves
<1>3. UNCHANGED failoverVars /\ TicksInv /\ OwnersWorldInv => TicksInv' /\ OwnersWorldInv'
  BY DEF TicksInv, OwnersWorldInv, failoverVars, redisVars, nodeVars
<1>4. QED
  BY <1>1, <1>2, <1>3, FailoverNext_OwnersWorld, FailoverInvariant, PTL
  DEF FailoverSpec, EpochWorldNeverGoesBack
=============================================================================
