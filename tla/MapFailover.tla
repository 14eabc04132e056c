---------------------------- MODULE MapFailover ----------------------------
(***************************************************************************)
(* The control plane of the game maps: nodes that tick, serve player       *)
(* writes, drain and crash, and coordinators that discover them, watch     *)
(* their health and move maps between them.  Sources: node/node.go,        *)
(* node/authority.go, node/drain.go, cmd/node/main.go and coordinator/*.go *)
(* over the Redis scripts of TopologyStore and the terms of LeaderTerms.   *)
(*                                                                         *)
(* A node declares one map; bootstrap and Promote let it own no other.  A  *)
(* world is its version counter, which every mutation counts up.           *)
(***************************************************************************)
EXTENDS LeaderTerms

CONSTANTS
    Maps, Nodes, NoNode,
    MapOf,         \* MapOf[n]: the map that node n declares
    Drainable,     \* environment: the nodes an operator may drain
    Played,        \* environment: the nodes that receive player requests
    Watched,       \* environment: the nodes where a reader finds a player due
    Tasks,         \* bound: goroutines of the coordinators alive at once
    MaxEpoch,      \* bound: no failover is started from this epoch
    MaxWorld,      \* bound on world versions
    MaxFaults      \* bound on crashes, timeouts, errors and expiries

ASSUME NodeAssumption == Nodes \subseteq Nat /\ NoNode \notin Nodes

\* NoNode is also the store's NoSession here: there are no users.
ASSUME NoSessionRecord == NoNode \notin [map : Maps, node : Nodes, version : Nat]

ASSUME MapOfAssumption == MapOf \in [Nodes -> Maps]

ASSUME FailoverBoundAssumption ==
    MaxEpoch \in Nat /\ MaxWorld \in Nat /\ MaxFaults \in Nat /\ MaxTerm \in Nat

VARIABLES
    topology, fence, checkpoint, granted,   \* Redis: see TopologyStore
    registry,      \* Redis: registration leases of the nodes
    conn,          \* conn[c][n]: Coordinator.nodes of instance c
    task,          \* failover and bootstrap goroutines
    status,        \* status[n]: the node process
    drain,         \* drain[n]: NodeService.draining and where BeginDrain is
    cache,         \* cache[n]: topology of the node's authorityCache
    fresh,         \* fresh[n]: that cache is within its grace period
    world,         \* world[n]: version of the hosted world, 0 if not hosted
    tick,          \* tick[n]: the node's tickLoop
    write,         \* write[n]: epoch of a player write in progress, or 0
    faults         \* number of faults so far

redisVars == <<durableTerm, topology, fence, checkpoint, granted>>
coordVars == <<claim, leaderTerm, conn, task>>
nodeVars == <<status, drain, cache, fresh, world, tick, write>>
failoverVars == <<redisVars, coordVars, nodeVars, registry, faults>>

Store == INSTANCE TopologyStore WITH
    Users <- {}, NoSession <- NoNode, session <- [u \in {} |-> NoNode],
    MaxVersion <- MaxEpoch, MaxTermCount <- MaxTerm, MaxSession <- 0

-----------------------------------------------------------------------------
IdleTick == [pc |-> "idle", epoch |-> 0, detached |-> 0]

IdleTask == [pc |-> "idle", coord |-> NoNode, failed |-> NoNode,
             next |-> Store!NoTopology, standby |-> NoNode, version |-> 0]

TaskSteps == {"idle", "start", "select", "checkpoint", "promote", "install",
              "late", "prepared", "commit"}

Task == [pc : TaskSteps, coord : Coordinators \cup {NoNode},
         failed : Nodes \cup {NoNode}, next : Store!Topology,
         standby : Nodes \cup {NoNode}, version : Nat]

Tick == [pc : {"idle", "snapshot", "stepping", "saving"}, epoch : Nat, detached : Nat]

\* "done" and "stopping": BeginDrain returned without error, to /drain or to the
\* SIGTERM handler, which goes on to GracefulStop.
DrainSteps == {"none", "saving", "waiting", "failed", "done", "stopping"}

\* The type invariant of the control plane.
FailoverTypeOK ==
    /\ durableTerm \in Nat
    /\ claim \in [Coordinators -> Nat]
    /\ leaderTerm \in [Coordinators -> Nat]
    /\ topology \in Store!Topology
    /\ fence \in [Maps -> Store!Fence]
    /\ checkpoint \in [Maps -> Store!Checkpoint]
    /\ granted \in SUBSET (Maps \X Nat \X Nodes)
    /\ registry \in [Nodes -> {"absent", "ready", "draining"}]
    /\ conn \in [Coordinators -> [Nodes -> {"none", "healthy", "unhealthy"}]]
    /\ task \in [Tasks -> Task]
    /\ status \in [Nodes -> {"up", "down", "exited"}]
    /\ drain \in [Nodes -> DrainSteps]
    /\ cache \in [Nodes -> Store!Topology]
    /\ fresh \in [Nodes -> BOOLEAN]
    /\ world \in [Nodes -> Nat]
    /\ tick \in [Nodes -> Tick]
    /\ write \in [Nodes -> Nat]
    /\ faults \in Nat

FailoverInit ==
    /\ TermsInit
    /\ topology = Store!NoTopology
    /\ fence = [m \in Maps |-> Store!NoFence]
    /\ checkpoint = [m \in Maps |-> Store!NoCheckpoint]
    /\ granted = {}
    /\ registry = [n \in Nodes |-> "absent"]
    /\ conn = [c \in Coordinators |-> [n \in Nodes |-> "none"]]
    /\ task = [t \in Tasks |-> IdleTask]
    /\ status = [n \in Nodes |-> "up"]
    /\ drain = [n \in Nodes |-> "none"]
    /\ cache = [n \in Nodes |-> Store!NoTopology]
    /\ fresh = [n \in Nodes |-> FALSE]
    /\ world = [n \in Nodes |-> 0]
    /\ tick = [n \in Nodes |-> IdleTick]
    /\ write = [n \in Nodes |-> 0]
    /\ faults = 0

\* Something in the environment goes wrong, within the bound.
Fault == faults < MaxFaults /\ faults' = faults + 1

NoFault == UNCHANGED faults

-----------------------------------------------------------------------------
(* The node's authority over its map.                                      *)

IsDraining(n) == drain[n] # "none"

\* OwnedMapIDs: what the cached topology says, meaningful while it is fresh.
CachedOwner(n) ==
    /\ cache[n].owner[MapOf[n]] = n
    /\ cache[n].epoch[MapOf[n]] > 0

CachedEpoch(n) == cache[n].epoch[MapOf[n]]

\* authorityCache.Current and Require.
Current(n, e) == fresh[n] /\ CachedOwner(n) /\ CachedEpoch(n) = e

\* Mutant: a node that hosts the map may write to it.
AuthorityByHosting(n, e) == fresh[n] /\ world[n] > 0 /\ CachedEpoch(n) = e /\ e > 0

\* Mutant: authority by the cached topology alone.
AuthorityFromCache(n, e) == Current(n, e)

\* requireAuthority: the cache admits the epoch and so does the Redis fence.
RequireAuthority(n, e) == Current(n, e) /\ Store!FenceAdmits(n, MapOf[n], e)

\* ensureHostedMap: a new world, restored from whatever checkpoint is stored.
LoadedWorld(m) == IF checkpoint[m].version > 0 THEN checkpoint[m].version ELSE 1

-----------------------------------------------------------------------------
(* topologyRefreshLoop, tickLoop and player writes.                        *)

RefreshTopology(n) ==
    /\ status[n] = "up"
    /\ topology.version > 0
    /\ topology.version >= cache[n].version
    /\ cache' = [cache EXCEPT ![n] = topology]
    /\ fresh' = [fresh EXCEPT ![n] = TRUE]
    /\ NoFault
    /\ UNCHANGED <<redisVars, coordVars, registry, status, drain, world, tick,
                   write>>

\* The rest of refreshTopology: host every map the cache says is owned.
EnsureOwnedMaps(n) ==
    /\ status[n] = "up"
    /\ fresh[n] /\ CachedOwner(n)
    /\ world[n] = 0
    /\ world' = [world EXCEPT ![n] = LoadedWorld(MapOf[n])]
    /\ NoFault
    /\ UNCHANGED <<redisVars, coordVars, registry, status, drain, cache, fresh,
                   tick, write>>

\* Refreshing failed for longer than the grace period.
GraceExpires(n) ==
    /\ fresh[n]
    /\ Fault
    /\ fresh' = [fresh EXCEPT ![n] = FALSE]
    /\ UNCHANGED <<redisVars, coordVars, registry, status, drain, cache, world,
                   tick, write>>

\* A tick begins by copying the table of hosted worlds.
TickSnapshot(n) ==
    /\ status[n] = "up"
    /\ tick[n] = IdleTick
    /\ world[n] > 0
    /\ tick' = [tick EXCEPT ![n].pc = "snapshot"]
    /\ NoFault
    /\ UNCHANGED <<redisVars, coordVars, registry, status, drain, cache, fresh,
                   world, write>>

\* Current and beginWrite; without authority this tick does nothing.
TickBegin(n) ==
    /\ tick[n].pc = "snapshot"
    /\ drain[n] # "saving"
    /\ tick' = [tick EXCEPT ![n] =
                  IF ~IsDraining(n) /\ RequireAuthority(n, CachedEpoch(n))
                  THEN [@ EXCEPT !.pc = "stepping", !.epoch = CachedEpoch(n)]
                  ELSE IdleTick]
    /\ NoFault
    /\ UNCHANGED <<redisVars, coordVars, registry, status, drain, cache, fresh,
                   world, write>>

\* BackgroundStep: nothing changes, or the version counts up (by one here,
\* however much it was).
BackgroundStep(v) == {v, v + 1}

\* The world this tick works on: the copied one, even if it was replaced.
TickedWorld(n) == IF tick[n].detached > 0 THEN tick[n].detached ELSE world[n]

\* BackgroundStep, then the second authority check.  The world has advanced
\* even if the check ends the tick.
TickStep(n) ==
    /\ tick[n].pc = "stepping"
    /\ \E v \in BackgroundStep(TickedWorld(n)) :
          /\ v <= MaxWorld
          /\ world' = IF tick[n].detached > 0 THEN world
                                              ELSE [world EXCEPT ![n] = v]
          /\ tick' = [tick EXCEPT ![n] =
                        IF RequireAuthority(n, tick[n].epoch)
                        THEN [tick[n] EXCEPT
                                !.pc = "saving",
                                !.detached = IF tick[n].detached > 0 THEN v ELSE 0]
                        ELSE IdleTick]
    /\ NoFault
    /\ UNCHANGED <<redisVars, coordVars, registry, status, drain, cache, fresh,
                   write>>

\* CaptureCheckpoint and the fenced save, which Redis may refuse or lose.
TickSave(n) ==
    LET e == tick[n].epoch
    IN  /\ tick[n].pc = "saving"
        /\ \/ /\ Store!SaveCheckpointIfOwner(n, MapOf[n], e, TickedWorld(n))
              /\ NoFault
           \/ /\ ~Store!FenceAdmits(n, MapOf[n], e)
              /\ NoFault
              /\ UNCHANGED redisVars
           \/ Fault /\ UNCHANGED redisVars
        /\ tick' = [tick EXCEPT ![n] = IdleTick]
        /\ UNCHANGED <<coordVars, registry, status, drain, cache, fresh, world,
                       write>>

\* A player operation passes beginWrite and keeps drainMu until it returns.
WriteBegin(n) ==
    /\ n \in Played
    /\ status[n] = "up"
    /\ write[n] = 0
    /\ ~IsDraining(n)
    /\ RequireAuthority(n, CachedEpoch(n))
    /\ write' = [write EXCEPT ![n] = CachedEpoch(n)]
    /\ NoFault
    /\ UNCHANGED <<redisVars, coordVars, registry, status, drain, cache, fresh,
                   world, tick>>

\* Move, attack, heal, buy, ... on the world: refused, or the version counts up.
PlayerOperation(v) == {v, v + 1}

\* It changes the world in memory only; AddPlayer hosts the map on demand.
WriteFinish(n) ==
    /\ write[n] > 0
    /\ \E v \in IF world[n] > 0 THEN PlayerOperation(world[n])
                                ELSE {0, LoadedWorld(MapOf[n]) + 1} :
          v <= MaxWorld /\ world' = [world EXCEPT ![n] = v]
    /\ write' = [write EXCEPT ![n] = 0]
    /\ NoFault
    /\ UNCHANGED <<redisVars, coordVars, registry, status, drain, cache, fresh,
                   tick>>

\* Snapshot, Profile and flushLoop bring a downed player back whose time has
\* come.  They are reads to their callers: nobody asks for authority.
ReadWorld(n) ==
    /\ n \in Watched
    /\ status[n] = "up"
    /\ world[n] \in 1..(MaxWorld - 1)
    /\ world' = [world EXCEPT ![n] = @ + 1]
    /\ NoFault
    /\ UNCHANGED <<redisVars, coordVars, registry, status, drain, cache, fresh,
                   tick, write>>

-----------------------------------------------------------------------------
(* BeginDrain.                                                             *)

\* Mutant: BeginDrain without the exclusive lock.
DrainLockIgnored(n) == TRUE

\* drainMu.Lock waits for the tick and the writes that hold the read lock.
DrainLockFree(n) == tick[n].pc \notin {"stepping", "saving"} /\ write[n] = 0

BeginDrain(n) ==
    /\ n \in Drainable
    /\ status[n] = "up"
    /\ drain[n] = "none"
    /\ DrainLockFree(n)
    /\ drain' = [drain EXCEPT ![n] = "saving"]
    /\ NoFault
    /\ UNCHANGED <<redisVars, coordVars, registry, status, cache, fresh, world,
                   tick, write>>

\* saveFinalCheckpoints, under the lock.
SaveFinalCheckpoints(n) ==
    LET e == CachedEpoch(n)
        saves == fresh[n] /\ CachedOwner(n) /\ RequireAuthority(n, e) /\ world[n] > 0
        fails == ~fresh[n] \/ (CachedOwner(n) /\ ~RequireAuthority(n, e))
    IN  /\ drain[n] = "saving"
        /\ \/ /\ saves /\ NoFault
              /\ Store!SaveCheckpointIfOwner(n, MapOf[n], e, world[n])
              /\ drain' = [drain EXCEPT ![n] = "waiting"]
           \/ /\ saves /\ Fault
              /\ drain' = [drain EXCEPT ![n] = "failed"]
              /\ UNCHANGED redisVars
           \/ /\ ~saves /\ NoFault
              /\ drain' = [drain EXCEPT ![n] = IF fails THEN "failed" ELSE "waiting"]
              /\ UNCHANGED redisVars
        /\ UNCHANGED <<coordVars, registry, status, cache, fresh, world, tick,
                       write>>

\* BeginDrain called again: draining already, so no checkpoint is saved.
DrainAgain(n) ==
    /\ status[n] = "up"
    /\ drain[n] \in {"failed", "done"}
    /\ drain' = [drain EXCEPT ![n] = "waiting"]
    /\ NoFault
    /\ UNCHANGED <<redisVars, coordVars, registry, status, cache, fresh, world,
                   tick, write>>

\* The poll loop of BeginDrain: fail on a stale cache or at the deadline,
\* succeed when the cache shows no owned map.
DrainOutcomes(n) ==
    IF fresh[n] /\ ~CachedOwner(n) THEN {"done", "stopping"} ELSE {"failed"}

DrainPoll(n) ==
    /\ status[n] = "up"
    /\ drain[n] = "waiting"
    /\ IF fresh[n] /\ CachedOwner(n) THEN Fault ELSE NoFault
    /\ \E d \in DrainOutcomes(n) : drain' = [drain EXCEPT ![n] = d]
    /\ UNCHANGED <<redisVars, coordVars, registry, status, cache, fresh, world,
                   tick, write>>

-----------------------------------------------------------------------------
(* Node processes and their registration.                                  *)

LoseNodeMemory(n) ==
    /\ drain' = [drain EXCEPT ![n] = "none"]
    /\ cache' = [cache EXCEPT ![n] = Store!NoTopology]
    /\ fresh' = [fresh EXCEPT ![n] = FALSE]
    /\ world' = [world EXCEPT ![n] = 0]
    /\ tick' = [tick EXCEPT ![n] = IdleTick]
    /\ write' = [write EXCEPT ![n] = 0]

PromoteRunsOn(n) ==
    \E t \in Tasks : task[t].pc \in {"install", "late"} /\ task[t].standby = n

\* GracefulStop has let the running RPCs end and main returns.  The loops of the
\* node and its registration run until here; nobody looks at the cache again.
Exit(n) ==
    /\ status[n] = "up"
    /\ drain[n] = "stopping"
    /\ ~PromoteRunsOn(n)
    /\ status' = [status EXCEPT ![n] = "exited"]
    /\ LoseNodeMemory(n)
    /\ NoFault
    /\ UNCHANGED <<redisVars, coordVars, registry>>

CrashNode(n) ==
    /\ status[n] = "up"
    /\ Fault
    /\ status' = [status EXCEPT ![n] = "down"]
    /\ LoseNodeMemory(n)
    /\ task' = [t \in Tasks |->
                  IF task[t].pc \in {"install", "late"} /\ task[t].standby = n
                  THEN IdleTask ELSE task[t]]
    /\ UNCHANGED <<redisVars, claim, leaderTerm, conn, registry>>

\* Somebody starts the node again: nothing in the repository does.
RestartNode(n) ==
    /\ status[n] \in {"down", "exited"}
    /\ status' = [status EXCEPT ![n] = "up"]
    /\ NoFault
    /\ UNCHANGED <<redisVars, coordVars, registry, drain, cache, fresh, world,
                   tick, write>>

\* Mutant: the registration does not tell of the drain.
RegisterNodeReady(n) ==
    /\ status[n] = "up"
    /\ registry' = [registry EXCEPT ![n] = "ready"]
    /\ NoFault
    /\ UNCHANGED <<redisVars, coordVars, nodeVars>>

\* The registration heartbeat of cmd/node reports the draining flag as is.
RegisterNode(n) ==
    /\ status[n] = "up"
    /\ registry' = [registry EXCEPT ![n] =
                      IF IsDraining(n) THEN "draining" ELSE "ready"]
    /\ NoFault
    /\ UNCHANGED <<redisVars, coordVars, nodeVars>>

RegistrationExpires(n) ==
    /\ registry[n] # "absent"
    /\ IF status[n] = "up" THEN Fault ELSE NoFault
    /\ registry' = [registry EXCEPT ![n] = "absent"]
    /\ UNCHANGED <<redisVars, coordVars, nodeVars>>

-----------------------------------------------------------------------------
(* Coordinators: leadership, discovery, heartbeats.                        *)

ElectLeader(c) ==
    /\ CountTerm(c) \/ Believe(c)
    /\ NoFault
    /\ UNCHANGED <<topology, fence, checkpoint, granted, conn, task, nodeVars,
                   registry>>

\* Leadership is lost; connections and running goroutines are not.
LoseLeadership(c) ==
    /\ leaderTerm[c] > 0
    /\ Fault
    /\ Drop(c)
    /\ UNCHANGED <<topology, fence, checkpoint, granted, conn, task, nodeVars,
                   registry>>

\* What is left of a task whose coordinator gave up: a Promote that already
\* passed its checks on the node runs to its end there.
Abandoned(k) == IF k.pc \in {"install", "late"} THEN [k EXCEPT !.pc = "late"]
                                                ELSE IdleTask

\* The process of c ends and a new one starts.
RestartCoordinator(c) ==
    /\ Fault
    /\ Drop(c)
    /\ conn' = [conn EXCEPT ![c] = [n \in Nodes |-> "none"]]
    /\ task' = [t \in Tasks |->
                  IF task[t].coord = c THEN Abandoned(task[t]) ELSE task[t]]
    /\ UNCHANGED <<topology, fence, checkpoint, granted, nodeVars, registry>>

\* currentLeaderTerm.
Leads(c) == leaderTerm[c] > 0

\* The node answers a new RPC; GracefulStop has closed its listener otherwise.
Serving(n) == status[n] = "up" /\ drain[n] # "stopping"

\* discoverNodes and connectDiscoveredNode: the Ping succeeds.
ConnectNode(c, n) ==
    /\ Leads(c)
    /\ registry[n] = "ready"
    /\ conn[c][n] = "none"
    /\ Serving(n)
    /\ conn' = [conn EXCEPT ![c][n] = "healthy"]
    /\ NoFault
    /\ UNCHANGED <<redisVars, claim, leaderTerm, task, nodeVars, registry>>

Spawn(t, c, n) ==
    /\ task[t] = IdleTask
    /\ task' = [task EXCEPT ![t] = [IdleTask EXCEPT !.pc = "start", !.coord = c,
                                                    !.failed = n]]

\* heartbeatOnce and setNodeHealth: a Ping fails; only the change from
\* healthy to unhealthy starts a failover.
NodeUnhealthy(c, n, t) ==
    /\ Leads(c)
    /\ conn[c][n] = "healthy"
    /\ IF Serving(n) THEN Fault ELSE NoFault
    /\ conn' = [conn EXCEPT ![c][n] = "unhealthy"]
    /\ Spawn(t, c, n)
    /\ UNCHANGED <<redisVars, claim, leaderTerm, nodeVars, registry>>

NodeRecovers(c, n) ==
    /\ Leads(c)
    /\ conn[c][n] = "unhealthy"
    /\ Serving(n)
    /\ conn' = [conn EXCEPT ![c][n] = "healthy"]
    /\ NoFault
    /\ UNCHANGED <<redisVars, claim, leaderTerm, task, nodeVars, registry>>

\* reconcileDrainingNodes: one more goroutine per discovery round, whether or
\* not an earlier one is still running.
ReconcileDraining(c, n, t) ==
    /\ Leads(c)
    /\ registry[n] = "draining"
    /\ topology.owner[MapOf[n]] = n
    /\ Spawn(t, c, n)
    /\ NoFault
    /\ UNCHANGED <<redisVars, claim, leaderTerm, conn, nodeVars, registry>>

\* Nodes that are registered, not draining, connected and healthy.
Candidates(c, m) ==
    {n \in Nodes : MapOf[n] = m /\ registry[n] = "ready" /\ conn[c][n] = "healthy"}

LowestID(S) == CHOOSE n \in S : \A k \in S : n <= k

\* BuildInitialTopology: two candidates for every map, the lowest ID owns.
InitialTopology(c) ==
    [version |-> 1, term |-> leaderTerm[c],
     owner |-> [m \in Maps |-> LowestID(Candidates(c, m))],
     epoch |-> [m \in Maps |-> 1]]

Bootstrap(c, t) ==
    /\ Leads(c)
    /\ topology.version = 0
    /\ \A m \in Maps : \E n, k \in Candidates(c, m) : n # k
    /\ task[t] = IdleTask
    /\ task' = [task EXCEPT ![t] = [IdleTask EXCEPT !.pc = "commit", !.coord = c,
                                                    !.next = InitialTopology(c)]]
    /\ NoFault
    /\ UNCHANGED <<redisVars, claim, leaderTerm, conn, nodeVars, registry>>

-----------------------------------------------------------------------------
(* failoverNode and failoverMap, one step per call that leaves the process.*)

Continue(t, k) ==
    /\ task' = [task EXCEPT ![t] = k]
    /\ NoFault
    /\ UNCHANGED <<redisVars, claim, leaderTerm, conn, nodeVars, registry>>

\* The term and the topology are read; the task ends if n lost the map.
StartFailover(t) ==
    LET k == task[t]
        m == MapOf[k.failed]
    IN  /\ k.pc = "start"
        /\ Continue(t,
             IF /\ Leads(k.coord)
                /\ topology.owner[m] = k.failed
                /\ topology.epoch[m] \in 1..(MaxEpoch - 1)
             THEN [k EXCEPT !.pc = "select",
                            !.next = [topology EXCEPT
                                        !.version = @ + 1,
                                        !.term = leaderTerm[k.coord],
                                        !.epoch[m] = @ + 1]]
             ELSE IdleTask)

SelectStandby(t) ==
    LET k == task[t]
        m == MapOf[k.failed]
        standbys == Candidates(k.coord, m) \ {k.failed}
    IN  /\ k.pc = "select"
        /\ Continue(t,
             IF standbys = {} THEN IdleTask
             ELSE [k EXCEPT !.pc = "checkpoint",
                            !.standby = LowestID(standbys),
                            !.next.owner[m] = LowestID(standbys)])

\* Mutant: any checkpoint of the map will do.
CheckpointStored(k, cp) == cp.version > 0

\* The checkpoint must be the failed owner's, of the epoch that ends.
CheckpointUsable(k, cp) ==
    /\ cp.node = k.failed
    /\ cp.epoch + 1 = k.next.epoch[MapOf[k.failed]]
    /\ cp.version > 0

LoadCheckpoint(t) ==
    LET k == task[t]
        cp == checkpoint[MapOf[k.failed]]
    IN  /\ k.pc = "checkpoint"
        /\ Continue(t, IF CheckpointUsable(k, cp)
                       THEN [k EXCEPT !.pc = "promote", !.version = cp.version]
                       ELSE IdleTask)

\* Promote on the standby: RequirePromotionCandidate against its own cache.
PromoteCheck(t) ==
    LET k == task[t]
        s == k.standby
        m == MapOf[s]
    IN  /\ k.pc = "promote"
        /\ Continue(t, IF /\ status[s] = "up"
                          /\ ~IsDraining(s)
                          /\ fresh[s]
                          /\ cache[s].owner[m] \notin {NoNode, s}
                          /\ cache[s].epoch[m] > 0
                          /\ k.next.epoch[m] = cache[s].epoch[m] + 1
                       THEN [k EXCEPT !.pc = "install"]
                       ELSE IdleTask)

\* The rest of Promote: n.maps gets a new world made from the checkpoint.  A
\* tick that copied the table before goes on with the replaced world.
PromoteInstall(t) ==
    LET k == task[t]
        s == k.standby
    IN  /\ k.pc \in {"install", "late"}
        /\ world' = [world EXCEPT ![s] = k.version]
        /\ tick' = [tick EXCEPT ![s] =
                      IF @.pc # "idle" /\ @.detached = 0
                      THEN [@ EXCEPT !.detached = world[s]] ELSE @]
        /\ task' = [task EXCEPT ![t] =
                      IF k.pc = "install" THEN [k EXCEPT !.pc = "prepared"]
                                          ELSE IdleTask]
        /\ NoFault
        /\ UNCHANGED <<redisVars, claim, leaderTerm, conn, registry, status,
                       drain, cache, fresh, write>>

\* hasLeaderTerm: the local belief, once more before the commit.
HasLeaderTerm(c, e) == leaderTerm[c] = e /\ e > 0

CheckTerm(t) ==
    LET k == task[t]
    IN  /\ k.pc = "prepared"
        /\ Continue(t, IF HasLeaderTerm(k.coord, k.next.term)
                       THEN [k EXCEPT !.pc = "commit"] ELSE IdleTask)

\* The commit script, of a failover or of the bootstrap.  Refused or not,
\* the goroutine ends.
Commit(t) ==
    LET k == task[t]
        expected == k.next.version - 1
    IN  /\ k.pc = "commit"
        /\ \/ /\ k.failed = NoNode
              /\ Store!CompareAndSaveTopology(expected, k.next)
           \/ /\ k.failed # NoNode
              /\ Store!CompareAndSaveTopologyAndMigrateSessions(
                    expected, k.next, MapOf[k.failed])
           \/ /\ ~Store!CommitAllowed(expected, k.next)
              /\ UNCHANGED redisVars
        /\ task' = [task EXCEPT ![t] = IdleTask]
        /\ NoFault
        /\ UNCHANGED <<claim, leaderTerm, conn, nodeVars, registry>>

\* A call of the goroutine to Redis or to the node fails.
GiveUp(t) ==
    /\ task[t].pc \notin {"idle", "late"}
    /\ Fault
    /\ task' = [task EXCEPT ![t] = Abandoned(task[t])]
    /\ UNCHANGED <<redisVars, claim, leaderTerm, conn, nodeVars, registry>>

-----------------------------------------------------------------------------
NodeStep(n) ==
    \/ RefreshTopology(n) \/ EnsureOwnedMaps(n) \/ GraceExpires(n)
    \/ TickSnapshot(n) \/ TickBegin(n) \/ TickStep(n) \/ TickSave(n)
    \/ WriteBegin(n) \/ WriteFinish(n) \/ ReadWorld(n)
    \/ BeginDrain(n) \/ SaveFinalCheckpoints(n) \/ DrainAgain(n) \/ DrainPoll(n)
    \/ Exit(n) \/ CrashNode(n) \/ RestartNode(n)
    \/ RegisterNode(n) \/ RegistrationExpires(n)

CoordinatorStep(c) ==
    \/ ElectLeader(c) \/ LoseLeadership(c) \/ RestartCoordinator(c)
    \/ \E n \in Nodes : ConnectNode(c, n) \/ NodeRecovers(c, n)
    \/ \E t \in Tasks :
          \/ Bootstrap(c, t)
          \/ \E n \in Nodes : NodeUnhealthy(c, n, t) \/ ReconcileDraining(c, n, t)

TaskStep(t) ==
    \/ StartFailover(t) \/ SelectStandby(t) \/ LoadCheckpoint(t)
    \/ PromoteCheck(t) \/ PromoteInstall(t) \/ CheckTerm(t) \/ Commit(t)

FailoverNext ==
    \/ \E n \in Nodes : NodeStep(n)
    \/ \E c \in Coordinators : CoordinatorStep(c)
    \/ \E t \in Tasks : TaskStep(t) \/ GiveUp(t)

FailoverSpec == FailoverInit /\ [][FailoverNext]_failoverVars

(***************************************************************************)
(* Fairness: the timers of the code.  A node refreshes, ticks, registers   *)
(* and ends what it began; a coordinator campaigns, discovers and runs the *)
(* goroutines it started.  Nobody is obliged to drain, to play, to fail or *)
(* to start a node again that has gone.                                    *)
(***************************************************************************)
FailoverFairness ==
    /\ \A n \in Nodes :
          /\ WF_failoverVars(RefreshTopology(n))
          /\ WF_failoverVars(EnsureOwnedMaps(n))
          /\ WF_failoverVars(TickBegin(n) \/ TickStep(n) \/ TickSave(n))
          /\ WF_failoverVars(WriteFinish(n))
          /\ WF_failoverVars(SaveFinalCheckpoints(n))
          /\ WF_failoverVars(RegisterNode(n))
    /\ \A c \in Coordinators :
          /\ WF_failoverVars(ElectLeader(c))
          /\ \A n \in Nodes :
                /\ WF_failoverVars(ConnectNode(c, n))
                /\ WF_failoverVars(NodeRecovers(c, n))
                /\ SF_failoverVars(\E t \in Tasks : ReconcileDraining(c, n, t))
    /\ \A t \in Tasks : WF_failoverVars(TaskStep(t))

FairFailoverSpec == FailoverSpec /\ FailoverFairness

-----------------------------------------------------------------------------
(***************************************************************************)
(* A tick or a player write that was let in by beginWrite runs in an epoch *)
(* that was granted to this very node; so two nodes that are both inside a *)
(* write to one map are in different epochs.                               *)
(***************************************************************************)
WritersHoldTheirEpoch ==
    \A n \in Nodes :
        /\ write[n] > 0 => <<MapOf[n], write[n], n>> \in granted
        /\ tick[n].epoch > 0 => <<MapOf[n], tick[n].epoch, n>> \in granted

(***************************************************************************)
(* node.go:190: the local cache only names a candidate; at the moment a    *)
(* write or a tick is let in, the node is the owner Redis routes to, in    *)
(* the current epoch, however stale its cache is.                          *)
(***************************************************************************)
AdmittedOnlyByRoutedOwner ==
    [][\A n \in Nodes :
          LET m == MapOf[n]
              admits(e) == topology.owner[m] = n /\ topology.epoch[m] = e
          IN  /\ (write[n] = 0 /\ write'[n] > 0) => admits(write'[n])
              /\ (tick[n].epoch = 0 /\ tick'[n].epoch > 0)
                    => admits(tick'[n].epoch)]_failoverVars

(***************************************************************************)
(* store.go:429: a deposed leader that still believes in its term, passes  *)
(* hasLeaderTerm and only then reaches Redis commits nothing once a newer  *)
(* term was counted.                                                       *)
(***************************************************************************)
DeposedLeaderCommitsNothing ==
    [][topology' # topology => topology'.term = durableTerm]_failoverVars

(***************************************************************************)
(* A failover whose commit can still succeed has the durable checkpoint of *)
(* the owner it replaces, of the epoch it ends, to start from.             *)
(***************************************************************************)
CommittableHasOwnersCheckpoint ==
    \A t \in Tasks :
        LET k == task[t]
            m == MapOf[k.failed]
        IN  (/\ k.pc \in {"promote", "install", "prepared", "commit"}
             /\ k.failed # NoNode
             /\ topology.version + 1 = k.next.version)
            => /\ checkpoint[m].node = k.failed
               /\ checkpoint[m].epoch = topology.epoch[m]
               /\ topology.owner[m] = k.failed

(***************************************************************************)
(* Once BeginDrain holds the lock, the only checkpoint the node still      *)
(* stores is the final one: a tick or write let in before cannot add one   *)
(* later (drainMu and the draining flag).                                  *)
(***************************************************************************)
DrainedNodeStoresOnlyFinal ==
    [][\A n \in Nodes :
          (/\ IsDraining(n)
           /\ checkpoint'[MapOf[n]] # checkpoint[MapOf[n]]
           /\ checkpoint'[MapOf[n]].node = n)
          => drain[n] = "saving" /\ drain'[n] = "waiting"]_failoverVars

(***************************************************************************)
(* A drain that saved its final checkpoint is carried out: discovery comes *)
(* back to the node (coordinator/drain.go:37) until its map has moved,     *)
(* whatever failed in between, unless from some moment on no other node is *)
(* up and not draining.  Nobody has to restart a node that is gone, and a  *)
(* standby that comes back late still takes the map.  (Past the last epoch *)
(* or term the model looks no further.)                                    *)
(***************************************************************************)
DrainIsCarriedOut ==
    \A n \in Nodes :
        LET m == MapOf[n]
            saved == /\ drain[n] = "waiting"
                     /\ topology.owner[m] = n
                     /\ checkpoint[m].node = n
                     /\ checkpoint[m].epoch = topology.epoch[m]
        IN  saved ~> \/ topology.owner[m] # n
                     \/ drain[n] = "none"
                     \/ [](\A k \in Nodes \ {n} : status[k] # "up" \/ IsDraining(k))
                     \/ topology.epoch[m] = MaxEpoch
                     \/ \A c \in Coordinators : leaderTerm[c] # durableTerm

\* The refinement mapping to the abstract promise.
Ownership == INSTANCE MapOwnership WITH
    owner <- topology.owner,
    epoch <- topology.epoch,
    stored <- [m \in Maps |-> <<checkpoint[m].epoch, checkpoint[m].node>>]

(***************************************************************************)
(* Discovery, heartbeats, drains, failovers, crashes and two coordinators  *)
(* that both believe they lead implement MapOwnership.                     *)
(***************************************************************************)
FailoverImplementsOwnership == Ownership!OwnershipSpec

(***************************************************************************)
(* node/drain.go:28: a node must never stop its process while it owns a    *)
(* map.                                                                    *)
(***************************************************************************)
NeverExitsAsOwner ==
    \A n \in Nodes : status[n] = "exited" => topology.owner[MapOf[n]] # n

(***************************************************************************)
(* coordinator/drain.go:14: a draining node has already saved its fenced   *)
(* checkpoint, so its migration does not race with the final save.  When a *)
(* map leaves a draining owner, the world that was prepared on the new     *)
(* owner is at least as new as the one it replaces.                        *)
(***************************************************************************)
DrainMovesFinalState ==
    [][\A n \in Nodes :
          LET m == MapOf[n]
          IN  (/\ IsDraining(n)
               /\ topology.owner[m] = n
               /\ topology'.owner[m] # n
               /\ world[topology'.owner[m]] > 0)
              => world[topology'.owner[m]] >= world[n]]_failoverVars

(***************************************************************************)
(* coordinator/failover.go:51, node/authority.go:144: Promote prepares a   *)
(* world on a node that does not own the map yet, and grants nothing.  So  *)
(* the durable world of an epoch never goes back to an older version.      *)
(***************************************************************************)
EpochWorldNeverGoesBack ==
    [][\A m \in Maps :
          checkpoint'[m].epoch = checkpoint[m].epoch
              => checkpoint'[m].version >= checkpoint[m].version]_failoverVars
=============================================================================
