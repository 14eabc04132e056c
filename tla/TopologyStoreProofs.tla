------------------------ MODULE TopologyStoreProofs ------------------------
(***************************************************************************)
(* Proofs about TopologyStore, for any maps, nodes, users and bounds and   *)
(* for arbitrary callers of the scripts.                                   *)
(***************************************************************************)
EXTENDS TopologyStore, TLAPS

\* A granted epoch is not in the future, and the grant of the current epoch
\* names the current owner.  Before the first commit nothing was granted, and
\* a map without an epoch has no owner.
GrantInv ==
    /\ topology.version = 0 =>
          granted = {} /\ \A m \in Maps : topology.epoch[m] = 0
    /\ \A m \in Maps : topology.epoch[m] = 0 => topology.owner[m] = NoNode
    /\ \A m \in Maps, e \in Nat, n \in Nodes :
          <<m, e, n>> \in granted =>
              /\ 0 < e /\ e <= topology.epoch[m]
              /\ e = topology.epoch[m] => topology.owner[m] = n
    /\ \A m \in Maps, e \in Nat, n, k \in Nodes :
          (<<m, e, n>> \in granted /\ <<m, e, k>> \in granted) => n = k

\* A fence repeats some grant, and is never older than the checkpoint it
\* guards.
FenceInv ==
    \A m \in Maps :
        /\ fence[m].owner = NoNode => fence[m].epoch = 0
        /\ fence[m].owner # NoNode =>
              <<m, fence[m].epoch, fence[m].owner>> \in granted
        /\ checkpoint[m].epoch <= fence[m].epoch

StoreInv ==
    /\ StoreTypeOK
    /\ GrantInv
    /\ FenceInv
    /\ FenceFollowsTopology
    /\ CheckpointFromEpochOwner

\* The empty store satisfies the inductive invariant.
LEMMA StoreInit_Inv == StoreInit => StoreInv
  BY NoNodeAssumption
  DEF StoreInit, StoreInv, StoreTypeOK, GrantInv, FenceInv, FenceFollowsTopology,
      CheckpointFromEpochOwner, Topology, NoTopology, Fence, NoFence,
      Checkpoint, NoCheckpoint

\* What a caller submits within the bounds is a well-formed topology.
LEMMA SubmissionType == \A next \in Submissions : next \in Topology
  BY StoreBoundAssumption DEF Submissions, Topology

\* Whatever topology the commit script accepts, writing it together with the
\* fences keeps every part of the invariant.
LEMMA Commit_Inv ==
  ASSUME StoreInv, NEW next \in Topology, NEW expected,
         CommitAllowed(expected, next), CommitTopology(next)
  PROVE  /\ topology' \in Topology
         /\ fence' \in [Maps -> Fence]
         /\ granted' \in SUBSET (Maps \X Nat \X Nodes)
         /\ GrantInv' /\ FenceInv'
         /\ FenceFollowsTopology' /\ CheckpointFromEpochOwner'
<1> USE NoNodeAssumption
<1> DEFINE new == {<<m, next.epoch[m], next.owner[m]>> :
                      m \in {k \in Maps : next.owner[k] # NoNode}}
<1>1. /\ topology' = next
      /\ granted' = granted \cup new
      /\ UNCHANGED <<durableTerm, checkpoint>>
      /\ fence' = FencesAfter(next)
  BY DEF CommitTopology
<1>2. topology' \in Topology
  BY <1>1
<1>3. fence' \in [Maps -> Fence]
  BY <1>1 DEF FencesAfter, StoreInv, StoreTypeOK, Topology, Fence
<1>4. granted' \in SUBSET (Maps \X Nat \X Nodes)
  BY <1>1 DEF StoreInv, StoreTypeOK, Topology
<1>5. /\ next.version > 0
      /\ \A m \in Maps : next.owner[m] # NoNode => next.epoch[m] > 0
      /\ EpochsAdvance(next)
  BY DEF CommitAllowed, Valid
<1>6. \A m \in Maps :
         /\ topology.epoch[m] <= next.epoch[m] \/ topology.version = 0
         /\ \/ topology.version = 0
            \/ topology.epoch[m] = 0
            \/ next.epoch[m] = topology.epoch[m] /\ next.owner[m] = topology.owner[m]
            \/ next.epoch[m] = topology.epoch[m] + 1
  <2> SUFFICES ASSUME NEW m \in Maps, topology.version # 0
               PROVE  /\ topology.epoch[m] <= next.epoch[m]
                      /\ \/ topology.epoch[m] = 0
                         \/ /\ next.epoch[m] = topology.epoch[m]
                            /\ next.owner[m] = topology.owner[m]
                         \/ next.epoch[m] = topology.epoch[m] + 1
    OBVIOUS
  <2>1. topology.epoch[m] \in Nat /\ next.epoch[m] \in Nat
    BY DEF StoreInv, StoreTypeOK, Topology
  <2>2. QED
    BY <1>5, <2>1 DEF EpochsAdvance
<1>7. \A m \in Maps, e \in Nat, n \in Nodes :
         <<m, e, n>> \in granted' =>
             \/ <<m, e, n>> \in granted
             \/ e = next.epoch[m] /\ n = next.owner[m]
  BY <1>1
<1>8. \A m \in Maps, e \in Nat, n \in Nodes :
         <<m, e, n>> \in granted =>
             /\ topology.version # 0
             /\ 0 < e /\ e <= topology.epoch[m]
             /\ e = topology.epoch[m] => topology.owner[m] = n
  BY DEF StoreInv, GrantInv
<1>9. \A m \in Maps, e \in Nat, n \in Nodes :
         (<<m, e, n>> \in granted /\ e = next.epoch[m] /\ next.owner[m] # NoNode)
            => next.owner[m] = n
  <2> SUFFICES ASSUME NEW m \in Maps, NEW e \in Nat, NEW n \in Nodes,
                      <<m, e, n>> \in granted, e = next.epoch[m],
                      next.owner[m] # NoNode
               PROVE  next.owner[m] = n
    OBVIOUS
  <2>1. topology.epoch[m] \in Nat /\ next.epoch[m] \in Nat
    BY DEF StoreInv, StoreTypeOK, Topology
  <2>2. QED
    BY <1>5, <1>6, <1>8, <2>1
<1>10. GrantInv'
  <2>1. topology'.version # 0
    BY <1>1, <1>5 DEF Topology
  <2>2. ASSUME NEW m \in Maps, NEW e \in Nat, NEW n \in Nodes,
               <<m, e, n>> \in granted'
        PROVE  /\ 0 < e /\ e <= next.epoch[m]
               /\ e = next.epoch[m] => next.owner[m] = n
    <3>1. topology.epoch[m] \in Nat /\ next.epoch[m] \in Nat
      BY DEF StoreInv, StoreTypeOK, Topology
    <3>2. CASE <<m, e, n>> \in granted
      <4>1. /\ topology.version # 0
            /\ 0 < e /\ e <= topology.epoch[m]
            /\ e = topology.epoch[m] => topology.owner[m] = n
        BY <1>8, <3>2
      <4>2. QED
        BY <1>6, <3>1, <4>1
    <3>3. CASE e = next.epoch[m] /\ n = next.owner[m]
      BY <1>5, <3>1, <3>3
    <3>4. QED
      BY <1>7, <2>2, <3>2, <3>3
  <2>3. ASSUME NEW m \in Maps, NEW e \in Nat, NEW n \in Nodes, NEW k \in Nodes,
               <<m, e, n>> \in granted', <<m, e, k>> \in granted'
        PROVE  n = k
    BY <1>7, <1>9, <2>3 DEF StoreInv, GrantInv
  <2>4. \A m \in Maps : next.epoch[m] = 0 => next.owner[m] = NoNode
    BY <1>5
  <2>5. QED
    BY <1>1, <2>1, <2>2, <2>3, <2>4 DEF GrantInv
<1>11. FenceInv'
  <2> SUFFICES ASSUME NEW m \in Maps
               PROVE  /\ fence'[m].owner = NoNode => fence'[m].epoch = 0
                      /\ fence'[m].owner # NoNode =>
                            <<m, fence'[m].epoch, fence'[m].owner>> \in granted'
                      /\ checkpoint'[m].epoch <= fence'[m].epoch
    BY DEF FenceInv
  <2>1. CASE next.owner[m] = NoNode
    <3>1. fence'[m] = fence[m]
      BY <1>1, <2>1 DEF FencesAfter
    <3>2. QED
      BY <1>1, <3>1 DEF StoreInv, FenceInv
  <2>2. CASE next.owner[m] # NoNode
    <3>1. fence'[m] = [owner |-> next.owner[m], epoch |-> next.epoch[m]]
      BY <1>1, <2>2 DEF FencesAfter
    <3>2. <<m, next.epoch[m], next.owner[m]>> \in granted'
      BY <1>1, <2>2
    <3>3. checkpoint[m].epoch <= next.epoch[m]
      <4>1. /\ checkpoint[m].epoch \in Nat
            /\ topology.epoch[m] \in Nat
            /\ next.epoch[m] \in Nat
        BY DEF StoreInv, StoreTypeOK, Topology, Checkpoint
      <4>2. CASE checkpoint[m] = NoCheckpoint
        BY <4>1, <4>2 DEF NoCheckpoint
      <4>3. CASE checkpoint[m] # NoCheckpoint
        <5>1. /\ <<m, checkpoint[m].epoch, checkpoint[m].node>> \in granted
              /\ checkpoint[m].epoch <= topology.epoch[m]
          BY <4>3 DEF StoreInv, CheckpointFromEpochOwner
        <5>2. topology.version # 0
          BY <5>1 DEF StoreInv, GrantInv
        <5>3. QED
          BY <1>6, <4>1, <5>1, <5>2
      <4>4. QED
        BY <4>2, <4>3
    <3>4. QED
      BY <1>1, <2>2, <3>1, <3>2, <3>3
  <2>3. QED
    BY <2>1, <2>2
<1>12. FenceFollowsTopology'
  BY <1>1 DEF FencesAfter, FenceFollowsTopology, Topology
<1>13. CheckpointFromEpochOwner'
  <2> SUFFICES ASSUME NEW m \in Maps, checkpoint[m] # NoCheckpoint
               PROVE  /\ <<m, checkpoint[m].epoch, checkpoint[m].node>> \in granted'
                      /\ checkpoint[m].epoch <= next.epoch[m]
    BY <1>1 DEF CheckpointFromEpochOwner
  <2>1. /\ <<m, checkpoint[m].epoch, checkpoint[m].node>> \in granted
        /\ checkpoint[m].epoch <= topology.epoch[m]
    BY DEF StoreInv, CheckpointFromEpochOwner
  <2>2. topology.version # 0
    BY <2>1 DEF StoreInv, GrantInv
  <2>3. /\ checkpoint[m].epoch \in Nat
        /\ topology.epoch[m] \in Nat
        /\ next.epoch[m] \in Nat
    BY DEF StoreInv, StoreTypeOK, Topology, Checkpoint
  <2>4. QED
    BY <1>1, <1>6, <2>1, <2>2, <2>3
<1>14. QED
  BY <1>2, <1>3, <1>4, <1>10, <1>11, <1>12, <1>13

\* The migrated sessions are sessions of nodes.
LEMMA Migration_Type ==
  ASSUME StoreTypeOK, NEW m \in Maps, NEW old, NEW new \in Nodes
  PROVE  SessionsAfter(m, old, new) \in [Users -> Session \cup {NoSession}]
<1>1. \A u \in Users : session[u] # NoSession => session[u].version + 1 \in Nat
  BY DEF StoreTypeOK, Session
<1>2. QED
  BY <1>1 DEF SessionsAfter, StoreTypeOK, Session

\* A save that passes the fence keeps the invariant: the fence names the
\* grant under which the checkpoint is stored.
LEMMA Save_Inv ==
  ASSUME StoreInv, NEW n \in Nodes, NEW m \in Maps, NEW e \in Nat, NEW v \in Nat,
         SaveCheckpointIfOwner(n, m, e, v)
  PROVE  StoreInv' /\ e >= checkpoint[m].epoch /\ <<m, e, n>> \in granted
<1> USE NoNodeAssumption
<1>1. /\ fence[m].owner = n /\ fence[m].epoch = e
      /\ checkpoint' = [checkpoint EXCEPT ![m] =
                           [node |-> n, epoch |-> e, version |-> v]]
      /\ UNCHANGED <<durableTerm, topology, fence, session, granted>>
  BY DEF SaveCheckpointIfOwner, FenceAdmits
<1>2. <<m, e, n>> \in granted
  BY <1>1 DEF StoreInv, FenceInv
<1>3. e <= topology.epoch[m]
  BY <1>2 DEF StoreInv, GrantInv
<1>4. e >= checkpoint[m].epoch
  BY <1>1 DEF StoreInv, FenceInv, StoreTypeOK, Checkpoint
<1>5. StoreTypeOK'
  BY <1>1 DEF StoreInv, StoreTypeOK, Checkpoint
<1>6. GrantInv' /\ FenceFollowsTopology'
  BY <1>1 DEF StoreInv, GrantInv, FenceFollowsTopology
<1>7. FenceInv'
  BY <1>1 DEF StoreInv, FenceInv, StoreTypeOK
<1>8. CheckpointFromEpochOwner'
  BY <1>1, <1>2, <1>3 DEF StoreInv, CheckpointFromEpochOwner, StoreTypeOK
<1>9. QED
  BY <1>2, <1>4, <1>5, <1>6, <1>7, <1>8 DEF StoreInv

\* Steps that touch only sessions or the term counter keep the invariant.
LEMMA Other_Inv ==
  ASSUME StoreInv, UNCHANGED <<topology, fence, checkpoint, granted>>,
         durableTerm' \in Nat, session' \in [Users -> Session \cup {NoSession}]
  PROVE  StoreInv'
  BY DEF StoreInv, StoreTypeOK, GrantInv, FenceInv, FenceFollowsTopology,
         CheckpointFromEpochOwner

\* Both commit operations keep the invariant, and the rest of what they do is
\* CommitTopology of an allowed topology.
LEMMA Submit_Inv ==
  ASSUME StoreInv, NEW next \in Submissions,
         \/ CompareAndSaveTopology(next.version - 1, next)
         \/ \E m \in Maps :
               CompareAndSaveTopologyAndMigrateSessions(next.version - 1, next, m)
  PROVE  /\ StoreInv'
         /\ CommitAllowed(next.version - 1, next) /\ CommitTopology(next)
<1>1. next \in Topology
  BY SubmissionType
<1>2. CommitAllowed(next.version - 1, next) /\ CommitTopology(next)
  BY DEF CompareAndSaveTopology, CompareAndSaveTopologyAndMigrateSessions
<1>3. session' \in [Users -> Session \cup {NoSession}]
  <2>1. CASE CompareAndSaveTopology(next.version - 1, next)
    BY <2>1 DEF CompareAndSaveTopology, StoreInv, StoreTypeOK
  <2>2. ASSUME NEW m \in Maps,
               CompareAndSaveTopologyAndMigrateSessions(next.version - 1, next, m)
        PROVE  session' \in [Users -> Session \cup {NoSession}]
    <3>1. next.owner[m] \in Nodes
      BY <1>1, <2>2 DEF CompareAndSaveTopologyAndMigrateSessions, MigratesBetweenOwners, Topology
    <3>2. QED
      BY <2>2, <3>1, Migration_Type
      DEF CompareAndSaveTopologyAndMigrateSessions, StoreInv
  <2>3. QED
    BY <2>1, <2>2
<1>4. UNCHANGED <<durableTerm, checkpoint>>
  BY <1>2 DEF CommitTopology
<1>5. StoreInv'
  BY <1>1, <1>2, <1>3, <1>4, Commit_Inv DEF StoreInv, StoreTypeOK
<1>6. QED
  BY <1>2, <1>5

\* Every operation of the store keeps the invariant.
LEMMA StoreNext_Inv == StoreInv /\ [StoreNext]_storeVars => StoreInv'
<1> SUFFICES ASSUME StoreInv, [StoreNext]_storeVars
             PROVE  StoreInv'
  OBVIOUS
<1>1. ASSUME NEW next \in Submissions,
             \/ CompareAndSaveTopology(next.version - 1, next)
             \/ \E m \in Maps :
                   CompareAndSaveTopologyAndMigrateSessions(next.version - 1, next, m)
      PROVE  StoreInv'
  BY <1>1, Submit_Inv
<1>2. ASSUME NEW n \in Nodes, NEW m \in Maps, NEW e \in 1..MaxEpoch,
             NEW v \in 1..MaxWorld, SaveCheckpointIfOwner(n, m, e, v)
      PROVE  StoreInv'
  <2>1. e \in Nat /\ v \in Nat
    OBVIOUS
  <2>2. QED
    BY <1>2, <2>1, Save_Inv
<1>3. ASSUME NEW u \in Users, NEW s \in Session, SaveGlobalSession(u, s)
      PROVE  StoreInv'
  BY <1>3, Other_Inv DEF SaveGlobalSession, StoreInv, StoreTypeOK
<1>4. ASSUME NEW u \in Users, DeleteGlobalSession(u)
      PROVE  StoreInv'
  BY <1>4, Other_Inv DEF DeleteGlobalSession, StoreInv, StoreTypeOK
<1>5. CASE IncrementTerm
  BY <1>5, Other_Inv DEF IncrementTerm, StoreInv, StoreTypeOK
<1>6. CASE UNCHANGED storeVars
  BY <1>6, Other_Inv DEF storeVars, StoreInv, StoreTypeOK
<1>7. \A s \in [map : Maps, node : Nodes, version : 1..MaxSession] : s \in Session
  BY StoreBoundAssumption DEF Session
<1>8. QED
  BY <1>1, <1>2, <1>3, <1>4, <1>5, <1>6, <1>7 DEF StoreNext

\* The invariant holds in every reachable state of the store.
LEMMA StoreInvariant == StoreSpec => []StoreInv
  BY StoreInit_Inv, StoreNext_Inv, PTL DEF StoreSpec

-----------------------------------------------------------------------------
\* The stored state is always well typed.
THEOREM StoreTypeCorrect == StoreSpec => []StoreTypeOK
<1>1. StoreInv => StoreTypeOK
  BY DEF StoreInv
<1>2. QED
  BY <1>1, StoreInvariant, PTL

\* No epoch of a map is ever granted to two nodes, whatever coordinators
\* submit and in whatever order their commits arrive.
THEOREM OneOwnerPerEpochTheorem == StoreSpec => []OneOwnerPerEpoch
<1>1. StoreInv => OneOwnerPerEpoch
  <2> SUFFICES ASSUME StoreInv, NEW m \in Maps, NEW e, NEW n \in Nodes,
                      NEW k \in Nodes,
                      <<m, e, n>> \in granted, <<m, e, k>> \in granted
               PROVE  n = k
    BY DEF OneOwnerPerEpoch
  <2>1. e \in Nat
    BY DEF StoreInv, StoreTypeOK
  <2>2. QED
    BY <2>1 DEF StoreInv, GrantInv
<1>2. QED
  BY <1>1, StoreInvariant, PTL

\* A stored checkpoint was written under a grant of the epoch it carries.
THEOREM CheckpointFromEpochOwnerTheorem ==
  StoreSpec => []CheckpointFromEpochOwner
<1>1. StoreInv => CheckpointFromEpochOwner
  BY DEF StoreInv
<1>2. QED
  BY <1>1, StoreInvariant, PTL

\* A node that passes the fence of an owned map is the routed owner.
THEOREM FenceFollowsTopologyTheorem == StoreSpec => []FenceFollowsTopology
<1>1. StoreInv => FenceFollowsTopology
  BY DEF StoreInv
<1>2. QED
  BY <1>1, StoreInvariant, PTL

\* An owner of an earlier epoch never overwrites the checkpoint of a later
\* one, however late its save arrives (store.go:310).
THEOREM CheckpointEpochNeverRegressesTheorem ==
  StoreSpec => CheckpointEpochNeverRegresses
<1> DEFINE Kept == \A m \in Maps : checkpoint'[m].epoch >= checkpoint[m].epoch
<1>1. StoreInv /\ [StoreNext]_storeVars => [Kept]_storeVars
  <2> SUFFICES ASSUME StoreInv, StoreNext
               PROVE  Kept
    BY DEF storeVars
  <2>1. CASE UNCHANGED checkpoint
    BY <2>1 DEF StoreInv, StoreTypeOK, Checkpoint
  <2>2. ASSUME NEW n \in Nodes, NEW m \in Maps, NEW e \in 1..MaxEpoch,
               NEW v \in 1..MaxWorld, SaveCheckpointIfOwner(n, m, e, v)
        PROVE  Kept
    <3>1. e \in Nat /\ v \in Nat
      OBVIOUS
    <3>2. e >= checkpoint[m].epoch
      BY <2>2, <3>1, Save_Inv
    <3>3. QED
      BY <2>2, <3>2
      DEF SaveCheckpointIfOwner, StoreInv, StoreTypeOK, Checkpoint
  <2>3. QED
    BY <2>1, <2>2
    DEF StoreNext, CompareAndSaveTopology, CommitTopology,
        CompareAndSaveTopologyAndMigrateSessions, SaveGlobalSession,
        DeleteGlobalSession, IncrementTerm
<1>2. QED
  BY <1>1, StoreInvariant, PTL DEF StoreSpec, CheckpointEpochNeverRegresses

(***************************************************************************)
(* A commit that moves one player off the old owner of a map moves all of  *)
(* them, each session once, whoever else writes sessions in between        *)
(* (CompareAndSaveTopologyAndMigrateSessionsForLeader, store.go).          *)
(***************************************************************************)
THEOREM MigrationIsCompleteTheorem == StoreSpec => MigrationIsComplete
<1>1. ASSUME [StoreNext]_storeVars, topology' # topology,
             NEW u \in Users, session'[u] # session[u],
             NEW w \in Users, session[w] # NoSession,
             session[w].map = session[u].map, session[w].node = session[u].node
      PROVE  session'[w] = [map |-> session[u].map,
                            node |-> topology'.owner[session[u].map],
                            version |-> session[w].version + 1]
  <2>1. PICK next \in Submissions, m \in Maps :
            CompareAndSaveTopologyAndMigrateSessions(next.version - 1, next, m)
    BY <1>1 DEF StoreNext, storeVars, CompareAndSaveTopology,
       SaveCheckpointIfOwner, SaveGlobalSession, DeleteGlobalSession, IncrementTerm
  <2>2. /\ topology' = next
        /\ session' = SessionsAfter(m, topology.owner[m], next.owner[m])
    BY <2>1 DEF CompareAndSaveTopologyAndMigrateSessions, CommitTopology
  <2>3. session[u].map = m /\ session[u].node = topology.owner[m]
    BY <1>1, <2>2 DEF SessionsAfter
  <2>4. QED
    BY <1>1, <2>2, <2>3 DEF SessionsAfter
<1>2. [StoreNext]_storeVars =>
        (topology' # topology =>
          \A u \in {w \in Users : session'[w] # session[w]} :
             LET m == session[u].map
                 old == session[u].node
             IN  \A w \in Users :
                    (session[w] # NoSession /\ session[w].map = m
                        /\ session[w].node = old)
                    => session'[w] = [map |-> m, node |-> topology'.owner[m],
                                      version |-> session[w].version + 1])
  BY <1>1
<1>3. QED
  BY <1>2, PTL DEF StoreSpec, MigrationIsComplete

-----------------------------------------------------------------------------
\* An accepted commit is a handover of the abstract specification.
LEMMA Commit_Handover ==
  ASSUME StoreInv, NEW next \in Topology, NEW expected,
         CommitAllowed(expected, next), CommitTopology(next)
  PROVE  Ownership!Handover
<1>1. /\ topology' = next
      /\ granted' = granted \cup
            {<<m, next.epoch[m], next.owner[m]>> :
                m \in {k \in Maps : next.owner[k] # NoNode}}
      /\ UNCHANGED checkpoint
  BY DEF CommitTopology
<1>2. /\ next.owner \in [Maps -> Nodes \cup {NoNode}]
      /\ next.epoch \in [Maps -> Nat]
  BY DEF Topology
<1>3. /\ \A m \in Maps : next.owner[m] # NoNode => next.epoch[m] > 0
      /\ EpochsAdvance(next)
  BY DEF CommitAllowed, Valid
<1>4. ASSUME NEW m \in Maps
      PROVE  \/ topology.epoch[m] = 0 /\ granted = {}
             \/ next.epoch[m] = topology.epoch[m] /\ next.owner[m] = topology.owner[m]
             \/ /\ next.epoch[m] = topology.epoch[m] + 1
                /\ next.owner[m] # topology.owner[m] \/ topology.epoch[m] = 0
  <2>1. topology.epoch[m] \in Nat /\ next.epoch[m] \in Nat
    BY <1>2 DEF StoreInv, StoreTypeOK, Topology
  <2>2. topology.epoch[m] = 0 => topology.owner[m] = NoNode
    BY DEF StoreInv, GrantInv
  <2>3. topology.version = 0 => topology.epoch[m] = 0 /\ granted = {}
    BY DEF StoreInv, GrantInv
  <2>4. QED
    BY <1>3, <2>1, <2>2, <2>3 DEF EpochsAdvance
<1>5. QED
  BY <1>1, <1>2, <1>4 DEF Ownership!Handover

\* The scripts of the store implement the abstract promise: each handover
\* opens a new epoch, and durable state is stored under a grant only.
THEOREM StoreImplementsOwnership == StoreSpec => ImplementsOwnership
<1>1. StoreInit => Ownership!OwnershipInit
  BY DEF StoreInit, NoTopology, NoCheckpoint, Ownership!OwnershipInit
<1>2. StoreInv /\ [StoreNext]_storeVars
        => [Ownership!OwnershipNext]_(Ownership!ownershipVars)
  <2> SUFFICES ASSUME StoreInv, [StoreNext]_storeVars
               PROVE  \/ Ownership!OwnershipNext
                      \/ UNCHANGED Ownership!ownershipVars
    OBVIOUS
  <2>1. ASSUME NEW next \in Submissions,
               \/ CompareAndSaveTopology(next.version - 1, next)
               \/ \E m \in Maps :
                     CompareAndSaveTopologyAndMigrateSessions(next.version - 1, next, m)
        PROVE  Ownership!OwnershipNext
    BY <2>1, Submit_Inv, SubmissionType, Commit_Handover
    DEF Ownership!OwnershipNext
  <2>2. ASSUME NEW n \in Nodes, NEW m \in Maps, NEW e \in 1..MaxEpoch,
               NEW v \in 1..MaxWorld, SaveCheckpointIfOwner(n, m, e, v)
        PROVE  Ownership!OwnershipNext
    <3>1. e \in Nat /\ v \in Nat
      OBVIOUS
    <3>2. <<m, e, n>> \in granted /\ e >= checkpoint[m].epoch
      BY <2>2, <3>1, Save_Inv
    <3>3. /\ checkpoint' = [checkpoint EXCEPT ![m] =
                               [node |-> n, epoch |-> e, version |-> v]]
          /\ UNCHANGED <<topology, granted>>
      BY <2>2 DEF SaveCheckpointIfOwner
    <3>4. [k \in Maps |-> <<checkpoint'[k].epoch, checkpoint'[k].node>>]
            = [[k \in Maps |-> <<checkpoint[k].epoch, checkpoint[k].node>>]
                 EXCEPT ![m] = <<e, n>>]
      BY <3>3 DEF StoreInv, StoreTypeOK
    <3>5. e \in {g[2] : g \in granted}
      BY <3>2
    <3>6. Ownership!Store(m)
      BY <3>2, <3>3, <3>4, <3>5 DEF Ownership!Store
    <3>7. QED
      BY <3>6 DEF Ownership!OwnershipNext
  <2>3. CASE UNCHANGED <<topology, checkpoint, granted>>
    BY <2>3 DEF Ownership!ownershipVars
  <2>4. QED
    BY <2>1, <2>2, <2>3
    DEF StoreNext, storeVars, SaveGlobalSession, DeleteGlobalSession,
        IncrementTerm
<1>3. QED
  BY <1>1, <1>2, StoreInvariant, PTL
  DEF StoreSpec, ImplementsOwnership, Ownership!OwnershipSpec

-----------------------------------------------------------------------------
(* What MapOwnership alone implies, whatever implements it.                *)

\* What MapOwnership calls stored[m].
Stored(m) == <<checkpoint[m].epoch, checkpoint[m].node>>

\* A map has been granted no epoch beyond the current one, and this one to its
\* owner; what is stored was stored under a grant.
PromiseInv ==
    /\ topology.epoch \in [Maps -> Nat]
    /\ \A m \in Maps : \A e, n : <<m, e, n>> \in granted =>
          /\ e \in Nat /\ e <= topology.epoch[m]
          /\ e = topology.epoch[m] => n = topology.owner[m]
    /\ \A m \in Maps : \A e, n, k :
          (<<m, e, n>> \in granted /\ <<m, e, k>> \in granted) => n = k
    /\ \A m \in Maps : \/ checkpoint[m].epoch = 0
                       \/ <<m, checkpoint[m].epoch, checkpoint[m].node>> \in granted

LEMMA Handover_Promise ==
  ASSUME PromiseInv, Ownership!Handover
  PROVE  PromiseInv'
<1>1. /\ topology'.owner \in [Maps -> Nodes \cup {NoNode}]
      /\ topology'.epoch \in [Maps -> Nat]
      /\ \A m \in Maps :
            \/ topology.epoch[m] = 0 /\ granted = {}
            \/ /\ topology'.epoch[m] = topology.epoch[m]
               /\ topology'.owner[m] = topology.owner[m]
            \/ topology'.epoch[m] = topology.epoch[m] + 1
      /\ granted' = granted \cup
            {<<m, topology'.epoch[m], topology'.owner[m]>> :
                m \in {k \in Maps : topology'.owner[k] # NoNode}}
      /\ [m \in Maps |-> <<checkpoint'[m].epoch, checkpoint'[m].node>>]
           = [m \in Maps |-> <<checkpoint[m].epoch, checkpoint[m].node>>]
  BY DEF Ownership!Handover
<1>2. \A m \in Maps : /\ checkpoint'[m].epoch = checkpoint[m].epoch
                      /\ checkpoint'[m].node = checkpoint[m].node
  <2> TAKE m \in Maps
  <2>1. <<checkpoint'[m].epoch, checkpoint'[m].node>>
          = <<checkpoint[m].epoch, checkpoint[m].node>>
    BY <1>1
  <2>2. QED
    BY <2>1
<1>3. \A m \in Maps : topology.epoch[m] \in Nat /\ topology'.epoch[m] \in Nat
  BY <1>1 DEF PromiseInv
<1>4. ASSUME NEW m \in Maps, NEW e, NEW n, <<m, e, n>> \in granted'
      PROVE  /\ e \in Nat /\ e <= topology'.epoch[m]
             /\ e = topology'.epoch[m] => n = topology'.owner[m]
  <2>1. CASE <<m, e, n>> \in granted
    BY <1>1, <1>3, <2>1 DEF PromiseInv
  <2>2. CASE e = topology'.epoch[m] /\ n = topology'.owner[m]
    BY <1>3, <2>2
  <2>3. QED
    BY <1>1, <1>4, <2>1, <2>2
<1>5. ASSUME NEW m \in Maps, NEW e, NEW n, NEW k,
             <<m, e, n>> \in granted', <<m, e, k>> \in granted'
      PROVE  n = k
  <2>1. CASE <<m, e, n>> \in granted /\ <<m, e, k>> \in granted
    BY <2>1 DEF PromiseInv
  <2>2. CASE e = topology'.epoch[m]
    BY <1>4, <1>5, <2>2
  <2>3. QED
    BY <1>1, <1>5, <2>1, <2>2
<1>6. granted \subseteq granted'
  BY <1>1
<1>7. QED
  BY <1>1, <1>2, <1>4, <1>5, <1>6 DEF PromiseInv

LEMMA Stored_Promise ==
  ASSUME PromiseInv, NEW m \in Maps, Ownership!Store(m)
  PROVE  PromiseInv'
<1>1. PICK n \in Nodes, e \in {g[2] : g \in granted} :
        /\ <<m, e, n>> \in granted
        /\ [k \in Maps |-> Stored(k)'] = [[k \in Maps |-> Stored(k)] EXCEPT ![m] = <<e, n>>]
        /\ UNCHANGED <<topology.owner, topology.epoch, granted>>
  BY DEF Ownership!Store, Stored
<1>2. e \in Nat
  BY <1>1 DEF PromiseInv
<1>3. Stored(m)' = <<e, n>> /\ \A k \in Maps \ {m} : Stored(k)' = Stored(k)
  <2>1. \A k \in Maps : Stored(k)' = [[j \in Maps |-> Stored(j)] EXCEPT ![m] = <<e, n>>][k]
    BY <1>1, Zenon
  <2>2. QED
    BY <2>1
<1>4. /\ checkpoint'[m].epoch = e /\ checkpoint'[m].node = n
      /\ \A k \in Maps \ {m} : /\ checkpoint'[k].epoch = checkpoint[k].epoch
                               /\ checkpoint'[k].node = checkpoint[k].node
  BY <1>3 DEF Stored
<1>5. QED
  BY <1>1, <1>2, <1>4 DEF PromiseInv

\* Durable state was stored by a node, in an epoch that this node was granted.
StoredUnderGrant ==
    \A m \in Maps :
        checkpoint[m].epoch > 0 => <<m, checkpoint[m].epoch, checkpoint[m].node>> \in granted

\* MapOwnership is worth implementing: from it alone it follows that no epoch
\* of a map is granted twice and that nothing is stored without a grant, for the
\* scripts of storage/store.go and for whatever else implements it.
THEOREM OwnershipIsExclusive ==
  ImplementsOwnership => []OneOwnerPerEpoch /\ []StoredUnderGrant
<1>1. Ownership!OwnershipInit => PromiseInv
  <2> SUFFICES ASSUME Ownership!OwnershipInit
               PROVE  PromiseInv
    OBVIOUS
  <2>1. /\ topology.epoch = [m \in Maps |-> 0] /\ granted = {}
        /\ [m \in Maps |-> Stored(m)] = [m \in Maps |-> <<0, NoNode>>]
    BY DEF Ownership!OwnershipInit, Stored
  <2>2. \A m \in Maps : Stored(m) = <<0, NoNode>>
    BY <2>1, Zenon
  <2>3. \A m \in Maps : checkpoint[m].epoch = 0
    BY <2>2 DEF Stored
  <2>4. QED
    BY <2>1, <2>3 DEF PromiseInv
<1>2. PromiseInv /\ [Ownership!OwnershipNext]_(Ownership!ownershipVars) => PromiseInv'
  <2> SUFFICES ASSUME PromiseInv,
                      Ownership!OwnershipNext \/ UNCHANGED Ownership!ownershipVars
               PROVE  PromiseInv'
    OBVIOUS
  <2>1. CASE Ownership!OwnershipNext
    BY <2>1, Handover_Promise, Stored_Promise DEF Ownership!OwnershipNext
  <2>2. CASE UNCHANGED Ownership!ownershipVars
    <3>1. /\ UNCHANGED <<topology.owner, topology.epoch, granted>>
          /\ [m \in Maps |-> Stored(m)'] = [m \in Maps |-> Stored(m)]
      BY <2>2 DEF Ownership!ownershipVars, Stored
    <3>2. \A m \in Maps : Stored(m)' = Stored(m)
      BY <3>1, Zenon
    <3>3. \A m \in Maps : /\ checkpoint'[m].epoch = checkpoint[m].epoch
                          /\ checkpoint'[m].node = checkpoint[m].node
      BY <3>2 DEF Stored
    <3>4. QED
      BY <3>1, <3>3 DEF PromiseInv
  <2>3. QED
    BY <2>1, <2>2
<1>3. PromiseInv => OneOwnerPerEpoch /\ StoredUnderGrant
  BY DEF PromiseInv, OneOwnerPerEpoch, StoredUnderGrant
<1>4. QED
  BY <1>1, <1>2, <1>3, PTL DEF ImplementsOwnership, Ownership!OwnershipSpec
=============================================================================
