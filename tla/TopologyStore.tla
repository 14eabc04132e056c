---------------------------- MODULE TopologyStore ----------------------------
(***************************************************************************)
(* The Redis side of map ownership: storage/store.go, storage/topology.go. *)
(*                                                                         *)
(* The topology says who owns each map and under which epoch; one fence    *)
(* per map repeats that for the nodes; checkpoints carry the node and the  *)
(* epoch that wrote them; sessions say on which node a player is.  Every   *)
(* operation is one Redis command or one Lua script, so each is one step.  *)
(* The callers are arbitrary here: any coordinator with any expectation    *)
(* may submit any topology, any node may try to save any checkpoint.       *)
(***************************************************************************)
EXTENDS Naturals

CONSTANTS
    Maps, Nodes, Users,
    NoNode,        \* no owner recorded
    NoSession,     \* the player has no entry in global_sessions
    MaxVersion,    \* bound on topology versions submitted
    MaxEpoch,      \* bound on map epochs submitted
    MaxTermCount,  \* bound on the durable term counter
    MaxWorld,      \* bound on world versions saved in checkpoints
    MaxSession     \* bound on session versions saved by gateways

ASSUME NoNodeAssumption == NoNode \notin Nodes

ASSUME NoSessionAssumption ==
    NoSession \notin [map : Maps, node : Nodes, version : Nat]

ASSUME StoreBoundAssumption ==
    /\ MaxVersion \in Nat
    /\ MaxEpoch \in Nat
    /\ MaxTermCount \in Nat
    /\ MaxWorld \in Nat
    /\ MaxSession \in Nat

VARIABLES
    durableTerm,   \* battle:coordinator:leader:term
    topology,      \* battle:topology
    fence,         \* battle:map:fence:<map>
    checkpoint,    \* checkpoints hash
    session,       \* global_sessions hash
    granted        \* history: every <<map, epoch, owner>> ever committed

storeVars == <<durableTerm, topology, fence, checkpoint, session, granted>>

Topology ==
    [version : Nat, term : Nat,
     owner : [Maps -> Nodes \cup {NoNode}], epoch : [Maps -> Nat]]

\* The topology key does not exist.
NoTopology ==
    [version |-> 0, term |-> 0,
     owner |-> [m \in Maps |-> NoNode], epoch |-> [m \in Maps |-> 0]]

Fence == [owner : Nodes \cup {NoNode}, epoch : Nat]

NoFence == [owner |-> NoNode, epoch |-> 0]

Checkpoint == [node : Nodes \cup {NoNode}, epoch : Nat, version : Nat]

NoCheckpoint == [node |-> NoNode, epoch |-> 0, version |-> 0]

Session == [map : Maps, node : Nodes, version : Nat]

\* The type invariant of the stored state.
StoreTypeOK ==
    /\ durableTerm \in Nat
    /\ topology \in Topology
    /\ fence \in [Maps -> Fence]
    /\ checkpoint \in [Maps -> Checkpoint]
    /\ session \in [Users -> Session \cup {NoSession}]
    /\ granted \in SUBSET (Maps \X Nat \X Nodes)

StoreInit ==
    /\ durableTerm = 0
    /\ topology = NoTopology
    /\ fence = [m \in Maps |-> NoFence]
    /\ checkpoint = [m \in Maps |-> NoCheckpoint]
    /\ session = [u \in Users |-> NoSession]
    /\ granted = {}

-----------------------------------------------------------------------------
\* Topology.Validate: a version, and a positive epoch for every routed map.
Valid(next) ==
    /\ next.version > 0
    /\ \A m \in Maps : next.owner[m] # NoNode => next.epoch[m] > 0

\* Mutant: any positive leader term is let through.
TermFenceDropped(next) == next.term > 0

\* The Lua script accepts only the newest durable leader term.
TermFenceOpen(next) == durableTerm # 0 /\ next.term = durableTerm

TermNotBehindTopology(next) == next.term >= topology.term

\* Mutant: epochs may not go back, and nothing else is compared.
EpochsFreelyChosen(next) ==
    \/ topology.version = 0
    \/ \A m \in Maps : next.epoch[m] >= topology.epoch[m]

\* The Lua script's walk over both epoch tables: a new owner takes the next
\* epoch, an unchanged owner keeps its epoch, a map never disappears, and a
\* map that appears starts at epoch 1.  The first topology is not compared.
EpochsAdvance(next) ==
    \/ topology.version = 0
    \/ \A m \in Maps :
          IF topology.epoch[m] = 0
          THEN next.epoch[m] \in {0, 1}
          ELSE IF next.owner[m] # topology.owner[m]
               THEN next.epoch[m] = topology.epoch[m] + 1
               ELSE next.epoch[m] = topology.epoch[m]

\* Fences are written for the maps that have an owner entry.
FencesAfter(next) ==
    [m \in Maps |->
        IF next.owner[m] = NoNode
        THEN fence[m]
        ELSE [owner |-> next.owner[m], epoch |-> next.epoch[m]]]

\* Mutant: the sessions of the old owner move whatever map they are on.
SessionsAfterAnyMap(m, old, new) ==
    [u \in Users |->
        IF session[u] # NoSession /\ session[u].node = old
        THEN [session[u] EXCEPT !.node = new, !.version = @ + 1]
        ELSE session[u]]

\* Every session of map m on the old owner moves to the new one.
SessionsAfter(m, old, new) ==
    [u \in Users |->
        IF /\ session[u] # NoSession
           /\ session[u].map = m
           /\ session[u].node = old
        THEN [map |-> m, node |-> new, version |-> session[u].version + 1]
        ELSE session[u]]

\* What compareAndSaveTopology demands before it writes anything.
CommitAllowed(expected, next) ==
    /\ Valid(next)
    /\ next.version = expected + 1
    /\ TermFenceOpen(next)
    /\ topology.version = expected
    /\ TermNotBehindTopology(next)
    /\ EpochsAdvance(next)

CommitTopology(next) ==
    /\ topology' = next
    /\ fence' = FencesAfter(next)
    /\ granted' = granted \cup
          {<<m, next.epoch[m], next.owner[m]>> :
              m \in {k \in Maps : next.owner[k] # NoNode}}
    /\ UNCHANGED <<durableTerm, checkpoint>>

\* CompareAndSaveTopologyForLeader: the bootstrap's commit, no sessions.
CompareAndSaveTopology(expected, next) ==
    /\ CommitAllowed(expected, next)
    /\ CommitTopology(next)
    /\ UNCHANGED session

\* Mutant: the map may be without an owner afterwards.
MigratesFromOwner(m, next) == topology.owner[m] # NoNode

\* Sessions are not migrated from or to an empty node ID.
MigratesBetweenOwners(m, next) ==
    topology.owner[m] # NoNode /\ next.owner[m] # NoNode

\* CompareAndSaveTopologyAndMigrateSessionsForLeader: the failover's commit.
CompareAndSaveTopologyAndMigrateSessions(expected, next, m) ==
    /\ CommitAllowed(expected, next)
    /\ MigratesBetweenOwners(m, next)
    /\ CommitTopology(next)
    /\ session' = SessionsAfter(m, topology.owner[m], next.owner[m])

-----------------------------------------------------------------------------
\* Mutant: only the owner field of the fence is compared.
FenceAdmitsByOwner(n, m, e) == fence[m].owner = n

\* Mutant: only the epoch field of the fence is compared.
FenceAdmitsByEpoch(n, m, e) == fence[m].epoch = e /\ e > 0

\* Mutant: the fence is not compared at all.
FenceIgnored(n, m, e) == e > 0

\* Owner and epoch of a fence must both match; RequireMapFence reads the
\* same pair.
FenceAdmits(n, m, e) == fence[m].owner = n /\ fence[m].epoch = e

\* SaveCheckpointIfOwner: compare the fence and HSET in one script.
SaveCheckpointIfOwner(n, m, e, v) ==
    /\ FenceAdmits(n, m, e)
    /\ checkpoint' = [checkpoint EXCEPT ![m] =
                         [node |-> n, epoch |-> e, version |-> v]]
    /\ UNCHANGED <<durableTerm, topology, fence, session, granted>>

SaveGlobalSession(u, s) ==
    /\ session' = [session EXCEPT ![u] = s]
    /\ UNCHANGED <<durableTerm, topology, fence, checkpoint, granted>>

DeleteGlobalSession(u) ==
    /\ session' = [session EXCEPT ![u] = NoSession]
    /\ UNCHANGED <<durableTerm, topology, fence, checkpoint, granted>>

\* The elector's acquire script counts a new leader term.
IncrementTerm ==
    /\ durableTerm < MaxTermCount
    /\ durableTerm' = durableTerm + 1
    /\ UNCHANGED <<topology, fence, checkpoint, session, granted>>

-----------------------------------------------------------------------------
\* The topologies a caller may submit, within the bounds.  A caller whose
\* expected version is not the predecessor of the submitted one is refused
\* before Redis is asked.
Submissions ==
    [version : 1..MaxVersion, term : 1..MaxTermCount,
     owner : [Maps -> Nodes \cup {NoNode}], epoch : [Maps -> 0..MaxEpoch]]

StoreNext ==
    \/ \E next \in Submissions :
          \/ CompareAndSaveTopology(next.version - 1, next)
          \/ \E m \in Maps :
                CompareAndSaveTopologyAndMigrateSessions(next.version - 1, next, m)
    \/ \E n \in Nodes, m \in Maps, e \in 1..MaxEpoch, v \in 1..MaxWorld :
          SaveCheckpointIfOwner(n, m, e, v)
    \/ \E u \in Users :
          \/ \E s \in [map : Maps, node : Nodes, version : 1..MaxSession] :
                SaveGlobalSession(u, s)
          \/ DeleteGlobalSession(u)
    \/ IncrementTerm

StoreSpec == StoreInit /\ [][StoreNext]_storeVars

-----------------------------------------------------------------------------
(***************************************************************************)
(* However many coordinators race with whatever topologies, an epoch of a  *)
(* map is granted to one node only (the epoch walk in the commit script).  *)
(***************************************************************************)
OneOwnerPerEpoch ==
    \A m \in Maps : \A e \in {g[2] : g \in granted} : \A n, k \in Nodes :
        (<<m, e, n>> \in granted /\ <<m, e, k>> \in granted) => n = k

(***************************************************************************)
(* A stored checkpoint was written by the node that owned the map in the   *)
(* epoch it carries, and never by a node of a future epoch.                *)
(***************************************************************************)
CheckpointFromEpochOwner ==
    \A m \in Maps :
        checkpoint[m] # NoCheckpoint =>
            /\ <<m, checkpoint[m].epoch, checkpoint[m].node>> \in granted
            /\ checkpoint[m].epoch <= topology.epoch[m]

(***************************************************************************)
(* The fence of an owned map says exactly what the topology says, so a     *)
(* node that passes the fence is the routed owner of that moment.          *)
(***************************************************************************)
FenceFollowsTopology ==
    \A m \in Maps :
        topology.owner[m] # NoNode =>
            fence[m] = [owner |-> topology.owner[m], epoch |-> topology.epoch[m]]

(***************************************************************************)
(* store.go:310: an old owner that has not refreshed its topology cannot   *)
(* overwrite the snapshot of a newer epoch.                                *)
(***************************************************************************)
CheckpointEpochNeverRegresses ==
    [][\A m \in Maps : checkpoint'[m].epoch >= checkpoint[m].epoch]_storeVars

(***************************************************************************)
(* Session migration is all or nothing: if a commit moves one player off   *)
(* the old owner of a map, it moves every player of that map on that node  *)
(* and counts each session version up by one.                              *)
(***************************************************************************)
MigrationIsComplete ==
    [][topology' # topology =>
          \A u \in {w \in Users : session'[w] # session[w]} :
             LET m == session[u].map
                 old == session[u].node
             IN  \A w \in Users :
                    (session[w] # NoSession /\ session[w].map = m
                        /\ session[w].node = old)
                    => session'[w] = [map |-> m, node |-> topology'.owner[m],
                                      version |-> session[w].version + 1]]_storeVars

-----------------------------------------------------------------------------
\* The refinement mapping to the abstract promise.
Ownership == INSTANCE MapOwnership WITH
    owner <- topology.owner,
    epoch <- topology.epoch,
    stored <- [m \in Maps |-> <<checkpoint[m].epoch, checkpoint[m].node>>]

(***************************************************************************)
(* The scripts implement MapOwnership: handovers open new epochs and only  *)
(* granted owners store checkpoints.                                       *)
(***************************************************************************)
ImplementsOwnership == Ownership!OwnershipSpec
=============================================================================
