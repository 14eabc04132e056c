--------------------------- MODULE GatewayRouting ---------------------------
(***************************************************************************)
(* How one gateway follows the committed topology: cluster/                *)
(* topology_cache.go, cluster/routing.go, and newCluster, Start, Close,    *)
(* sessionNode, SnapshotFor and mapCacheLoop of cluster/cluster.go.        *)
(*                                                                         *)
(* loadTopology runs on several goroutines (the Pub/Sub notification, the  *)
(* poll), and mapCacheLoop and SnapshotFor on others.  Each of them gives  *)
(* up c.mu or mapCacheMu between its sections; every section is a step.    *)
(* A client that a section took out of the pool is closed with it: nobody  *)
(* else can find it any more, and a Snapshot it serves may fail anyway.    *)
(*                                                                         *)
(* The environment commits topologies and registers nodes; MapFailover     *)
(* says which ones.  A topology is known by its version.                   *)
(***************************************************************************)
EXTENDS Naturals, FiniteSets, FiniteSetsExt

CONSTANTS
    Maps, Nodes, Addrs,
    Registered,     \* where the nodes are registered when the gateway starts
    Loaders,        \* goroutines that call loadTopology
    Poller,         \* Start and topologySyncLoop; the others are eventLoop
    Clients,        \* connections that can be open at a time
    None,
    Plans,          \* Plans[v]: the assignments of owners that version v may have
    MaxTopology,    \* bound on topology versions
    MaxMoves        \* bound on changes of a registration

ASSUME RoutingBoundAssumption ==
    /\ MaxTopology \in Nat \ {0} /\ MaxMoves \in Nat
    /\ Clients \subseteq Nat /\ IsFiniteSet(Clients)
    /\ Poller \in Loaders

ASSUME RoutingPlanAssumption ==
    /\ Plans \in [1 .. MaxTopology -> SUBSET [Maps -> Nodes]]
    /\ Registered \in [Nodes -> Addrs \cup {None}]

ASSUME RoutingNoneAssumption == None \notin Nodes \cup Addrs \cup Clients

VARIABLES
    committed,      \* number of committed topologies
    owners,         \* owners[v][m]: owner of map m in topology v
    registry,       \* registry[n]: address of a node that is not draining
    moves,          \* number of registration changes
    notices,        \* topology events that eventLoop has not taken yet
    closed,         \* the gateway was closed
    version,        \* c.topology.Version, or 0: not loaded
    targets,        \* c.nodeTargets
    nodes,          \* c.nodes: the client of each node
    addrOf,         \* the address each client was opened for
    open,           \* clients that are open
    loader,         \* loader[l]: where loadTopology is
    cache,          \* c.mapCache: the topology its snapshot was asked under
    filler,         \* where mapCacheLoop is
    reader,         \* reader[m]: the label of a frame SnapshotFor is building
    late            \* history: the cache was filled after a newer topology

env == <<committed, owners, registry, moves, notices>>
pool == <<closed, targets, nodes, addrOf, open>>
view == <<cache, filler, reader, late>>
routingVars == <<env, version, pool, loader, view>>

Versions == 0 .. MaxTopology

Target == [Nodes -> Addrs \cup {None}]

Loader == [pc : {"idle", "apply", "registry", "reconcile", "dial", "install"},
           topology : Versions, targets : Target, node : Nodes \cup {None},
           client : Clients \cup {None}]

Filler == [pc : {"idle", "asked", "filling"}, version : Versions,
           hosts : [Maps -> Clients \cup {None}], got : SUBSET Maps]

NoTargets == [n \in Nodes |-> None]

IdleLoader == [pc |-> "idle", topology |-> 0, targets |-> NoTargets,
               node |-> None, client |-> None]

NoHosts == [m \in Maps |-> None]

IdleFiller == [pc |-> "idle", version |-> 0, hosts |-> NoHosts, got |-> {}]

\* The type invariant of the gateway.
RoutingTypeOK ==
    /\ committed \in Versions
    /\ owners \in [1 .. committed -> [Maps -> Nodes]]
    /\ registry \in Target
    /\ moves \in 0 .. MaxMoves
    /\ notices \in 0 .. committed
    /\ closed \in BOOLEAN
    /\ version \in 0 .. committed
    /\ targets \in Target
    /\ nodes \in [Nodes -> Clients \cup {None}]
    /\ addrOf \in [Clients -> Addrs \cup {None}]
    /\ open \subseteq Clients
    /\ loader \in [Loaders -> Loader]
    /\ cache \in [Maps -> Versions]
    /\ filler \in Filler
    /\ reader \in [Maps -> Versions]
    /\ late \in BOOLEAN

RoutingInit ==
    /\ committed = 0 /\ owners = [v \in 1 .. 0 |-> None]
    /\ registry = Registered /\ moves = 0 /\ notices = 0
    /\ closed = FALSE
    /\ version = 0
    /\ targets = NoTargets
    /\ nodes = NoTargets
    /\ addrOf = [k \in Clients |-> None]
    /\ open = {}
    /\ loader = [l \in Loaders |-> IdleLoader]
    /\ cache = [m \in Maps |-> 0]
    /\ filler = IdleFiller
    /\ reader = [m \in Maps |-> 0]
    /\ late = FALSE

-----------------------------------------------------------------------------
(* The environment.                                                        *)

\* The coordinator commits the next topology and publishes an event, which
\* may be lost.
Commit ==
    /\ committed < MaxTopology
    /\ committed' = committed + 1
    /\ \E o \in Plans[committed + 1] :
          owners' = [v \in 1 .. committed + 1 |->
                        IF v <= committed THEN owners[v] ELSE o]
    /\ notices' \in {notices, notices + 1}
    /\ UNCHANGED <<registry, moves, version, pool, loader, view>>

\* A node registers at an address, restarts at another one, drains or is gone.
Reregister(n) ==
    /\ moves < MaxMoves
    /\ moves' = moves + 1
    /\ \E a \in (Addrs \cup {None}) \ {registry[n]} :
          registry' = [registry EXCEPT ![n] = a]
    /\ UNCHANGED <<committed, owners, notices, version, pool, loader, view>>

-----------------------------------------------------------------------------
(* loadTopology and reconcileGatewayNodes on goroutine l.                  *)

At(l, pc) == loader[l].pc = pc

Sets(l, r) == loader' = [loader EXCEPT ![l] = r]

Owners(v) == IF v = 0 THEN {} ELSE {owners[v][m] : m \in Maps}

\* Mutant: registered nodes are connected whether they own a map or not.
RegisteredTargets(v) == registry

\* gatewayOwnerTargets: owners with an address that are not draining.
OwnerTargets(v) == [n \in Nodes |-> IF n \in Owners(v) THEN registry[n] ELSE None]

\* LoadTopology by goroutine l.  A Redis error or a missing topology ends the
\* call.  The goroutine stops when it sees stopCh, which may be later than
\* Close: it may load again in between.
LoadTopology(l) ==
    /\ At(l, "idle")
    /\ committed > 0
    /\ Sets(l, [IdleLoader EXCEPT !.pc = "apply", !.topology = committed])

\* Start, or the ticker of topologySyncLoop.
Poll ==
    /\ LoadTopology(Poller)
    /\ UNCHANGED <<env, version, pool, view>>

\* eventLoop takes a topology event.
TakeNotice(l) ==
    /\ l # Poller
    /\ notices > 0
    /\ notices' = notices - 1
    /\ LoadTopology(l)
    /\ UNCHANGED <<committed, owners, registry, moves, version, pool, view>>

Newer(v) == v > version

\* Mutant: the cache is kept when the topology changes.
KeptCache == cache

ClearedCache == [m \in Maps |-> 0]

\* applyTopologyLocked; the call goes on with what is active afterwards.
ApplyTopology(l) ==
    LET v == loader[l].topology
    IN  /\ At(l, "apply")
        /\ \/ Newer(v) /\ version' = v /\ cache' = ClearedCache /\ late' = FALSE
           \/ ~Newer(v) /\ UNCHANGED <<version, cache, late>>
        /\ Sets(l, [IdleLoader EXCEPT !.pc = "registry", !.topology = version'])
        /\ UNCHANGED <<env, pool, filler, reader>>

\* activeNodes answers ...
ReadRegistry(l) ==
    /\ At(l, "registry")
    /\ Sets(l, [loader[l] EXCEPT !.pc = "reconcile",
                                 !.targets = OwnerTargets(loader[l].topology)])
    /\ UNCHANGED <<env, version, pool, view>>

\* ... or fails, which ends the call.
RegistryFails(l) ==
    /\ At(l, "registry")
    /\ Sets(l, IdleLoader)
    /\ UNCHANGED <<env, version, pool, view>>

\* Mutant: a client stays until its node is no owner any more.
UnwantedOwners(t) == {n \in Nodes : nodes[n] # None /\ t[n] = None}

\* Nodes whose client is not for the address wanted now.
Unwanted(t) == {n \in Nodes : nodes[n] # None /\ t[n] # addrOf[nodes[n]]}

Closed(S) ==
    /\ open' = open \ S
    /\ addrOf' = [k \in Clients |-> IF k \in S THEN None ELSE addrOf[k]]

\* On to the next pending node, or done.
NextPending(pending) ==
    IF pending = NoTargets THEN IdleLoader
    ELSE [IdleLoader EXCEPT !.pc = "dial", !.targets = pending]

\* The section of reconcileGatewayNodes under c.mu, and Close of the clients
\* that are not wanted any more.
Reconcile(l) ==
    LET t == loader[l].targets
        gone == Unwanted(t)
        kept == [n \in Nodes |-> IF n \in gone THEN None ELSE nodes[n]]
    IN  /\ At(l, "reconcile")
        /\ \/ /\ closed \/ version # loader[l].topology
              /\ Sets(l, IdleLoader)
              /\ UNCHANGED <<targets, nodes, addrOf, open>>
           \/ /\ ~closed /\ version = loader[l].topology
              /\ targets' = t
              /\ nodes' = kept
              /\ Closed({nodes[n] : n \in gone})
              /\ Sets(l, NextPending([n \in Nodes |->
                             IF kept[n] = None THEN t[n] ELSE None]))
        /\ UNCHANGED <<env, version, closed, view>>

\* Nodes that this call still has to connect.
Pending(l) == {n \in Nodes : loader[l].targets[n] # None}

\* nodeFactory for a pending node, without the lock: a new client ...
Dial(l) ==
    LET k == Min(Clients \ open)
    IN  /\ At(l, "dial")
        /\ Clients \ open # {}
        /\ \E n \in Pending(l) :
              /\ Sets(l, [loader[l] EXCEPT !.pc = "install", !.node = n,
                                           !.client = k, !.targets[n] = None])
              /\ addrOf' = [addrOf EXCEPT ![k] = loader[l].targets[n]]
        /\ open' = open \cup {k}
        /\ UNCHANGED <<env, version, closed, targets, nodes, view>>

\* ... or an error.
DialFails(l) ==
    /\ At(l, "dial")
    /\ \E n \in Pending(l) :
          Sets(l, NextPending([loader[l].targets EXCEPT ![n] = None]))
    /\ UNCHANGED <<env, version, pool, view>>

\* Mutant: the new client is installed whatever happened meanwhile.
WantedAnyway(n, k) == nodes[n] = None

\* gatewayNodeStillWantedLocked, and no other goroutine was faster.
StillWanted(n, k) == ~closed /\ targets[n] = addrOf[k] /\ nodes[n] = None

\* Install the client under c.mu, or close it.
Install(l) ==
    LET n == loader[l].node
        k == loader[l].client
    IN  /\ At(l, "install")
        /\ \/ /\ StillWanted(n, k)
              /\ nodes' = [nodes EXCEPT ![n] = k]
              /\ UNCHANGED <<open, addrOf>>
           \/ /\ ~StillWanted(n, k)
              /\ Closed({k})
              /\ UNCHANGED nodes
        /\ Sets(l, NextPending(loader[l].targets))
        /\ UNCHANGED <<env, version, closed, targets, view>>

-----------------------------------------------------------------------------
(* Close.                                                                  *)

\* The section under c.mu, and Close of the clients it took.
CloseGateway ==
    /\ ~closed
    /\ closed' = TRUE
    /\ nodes' = NoTargets
    /\ targets' = NoTargets
    /\ Closed({nodes[n] : n \in Nodes})
    /\ UNCHANGED <<env, version, loader, view>>

-----------------------------------------------------------------------------
(* mapCacheLoop.                                                           *)

ClientOf(m) == IF version = 0 THEN None ELSE nodes[owners[version][m]]

\* Copy the owners, the version and the clients under c.mu.  A round that
\* starts after Close finds no client.
FillCopy ==
    /\ filler.pc = "idle"
    /\ ~closed
    /\ version > 0
    /\ filler' = [pc |-> "asked", version |-> version, got |-> {},
                  hosts |-> [m \in Maps |-> ClientOf(m)]]
    /\ UNCHANGED <<env, version, pool, loader, cache, reader, late>>

\* Maps whose owner can answer: its client is open and leads to it.
Answering == {m \in Maps : /\ filler.hosts[m] \in open
                           /\ addrOf[filler.hosts[m]]
                                = registry[owners[filler.version][m]]}

Asked == {m \in Maps : filler.hosts[m] # None}

VersionCurrent == filler.version = version

\* The snapshots in got have come by now; compare the versions under c.mu,
\* and give it up.
FillCheck(got) ==
    /\ filler.pc = "asked"
    /\ filler' = IF VersionCurrent
                 THEN [filler EXCEPT !.pc = "filling", !.got = got, !.hosts = NoHosts]
                 ELSE IdleFiller
    /\ UNCHANGED <<env, version, pool, loader, cache, reader, late>>

\* Any of the calls may have failed, or been answered before a client closed.
FillSome == \E got \in SUBSET Asked : FillCheck(got)

FillAll == FillCheck(Answering)

\* Fill the cache under mapCacheMu.
Fill ==
    /\ filler.pc = "filling"
    /\ cache' = [m \in Maps |-> IF m \in filler.got THEN filler.version ELSE cache[m]]
    /\ late' = (late \/ version # filler.version)
    /\ filler' = IdleFiller
    /\ UNCHANGED <<env, version, pool, loader, reader>>

-----------------------------------------------------------------------------
(* SnapshotFor a player on map m.                                          *)

\* sessionNode finds the owner's client, and the frame is labelled with the
\* version and epoch of the topology.  These are two sections; topologies
\* only advance, so the label is not older than the route.
LabelFrame(m) ==
    /\ reader[m] = 0
    /\ ClientOf(m) # None
    /\ reader' = [reader EXCEPT ![m] = version]
    /\ UNCHANGED <<env, version, pool, loader, cache, filler, late>>

\* The map's cached snapshot goes into the frame; without one the call fails.
ReadCache(m) ==
    /\ reader[m] # 0
    /\ reader' = [reader EXCEPT ![m] = 0]
    /\ UNCHANGED <<env, version, pool, loader, cache, filler, late>>

-----------------------------------------------------------------------------
LoaderStep(l) ==
    \/ ApplyTopology(l) \/ ReadRegistry(l) \/ RegistryFails(l) \/ Reconcile(l)
    \/ Dial(l) \/ DialFails(l) \/ Install(l)

FillerStep == FillCopy \/ FillSome \/ Fill

RoutingNext ==
    \/ Commit
    \/ \E n \in Nodes : Reregister(n)
    \/ Poll
    \/ \E l \in Loaders : TakeNotice(l) \/ LoaderStep(l)
    \/ CloseGateway
    \/ FillerStep
    \/ \E m \in Maps : LabelFrame(m) \/ ReadCache(m)

\* The poll's and the cache's tickers fire and their goroutines run on; the
\* registry, the nodes' addresses and their Snapshots answer now and then.
\* Nothing is assumed of eventLoop: every notification may be lost.
RoutingFairness ==
    /\ WF_routingVars(Poll)
    /\ WF_routingVars(LoaderStep(Poller))
    /\ SF_routingVars(ReadRegistry(Poller))
    /\ SF_routingVars(Dial(Poller))
    /\ WF_routingVars(FillerStep)
    /\ SF_routingVars(FillAll)

RoutingSpec == RoutingInit /\ [][RoutingNext]_routingVars

FairRoutingSpec == RoutingSpec /\ RoutingFairness

-----------------------------------------------------------------------------
Installed == {nodes[n] : n \in Nodes} \ {None}

Held(l) == {loader[l].client} \ {None}

(***************************************************************************)
(* Every open connection has exactly one place that will close it: the     *)
(* pool, or the one loadTopology that dialled it.  After Close the pool    *)
(* stays empty, so a client dialled meanwhile is closed and not leaked     *)
(* (routing.go:62).                                                        *)
(***************************************************************************)
ClientsAccountedFor ==
    /\ open = Installed \cup UNION {Held(l) : l \in Loaders}
    /\ \A n, p \in Nodes : n # p => nodes[n] = None \/ nodes[n] # nodes[p]
    /\ \A l \in Loaders :
          /\ Held(l) \cap Installed = {}
          /\ \A k \in Loaders \ {l} : Held(l) \cap Held(k) = {}
    /\ closed => Installed = {}

(***************************************************************************)
(* A client in the pool leads to the address that its node was last seen   *)
(* registered at (nodeTargets), also when two goroutines reconcile with    *)
(* registries read in one order and applied in the other.                  *)
(***************************************************************************)
ClientsLeadToTargets ==
    \A n \in Nodes : nodes[n] # None => addrOf[nodes[n]] = targets[n]

(***************************************************************************)
(* cluster.go:680: a frame shows a world asked for under the topology whose *)
(* version and epoch it carries, or a later one: the label is read in one  *)
(* section and the cache in another, and topologies come in between.  The  *)
(* exception is late: mapCacheLoop fills the cache after giving up the     *)
(* lock it compared the versions under, and a topology is applied then.    *)
(***************************************************************************)
FrameShowsItsTopology ==
    \A m \in Maps : reader[m] # 0 /\ cache[m] # 0 /\ ~late => cache[m] >= reader[m]

(***************************************************************************)
(* topologySyncLoop makes up for lost notifications, failed dials, failed  *)
(* reads of the registry and late fills: if the gateway stays open and in  *)
(* the end every owner is registered, then in the end the gateway routes   *)
(* by the committed topology, its pool holds exactly the owners at their   *)
(* registered addresses, and its cache shows their worlds.                 *)
(***************************************************************************)
OwnersRegistered ==
    /\ ~closed
    /\ committed > 0
    /\ \A n \in Owners(committed) : registry[n] # None

RoutingUpToDate ==
    /\ version = committed
    /\ \A n \in Nodes :
          IF n \in Owners(version)
          THEN nodes[n] # None /\ addrOf[nodes[n]] = registry[n]
          ELSE nodes[n] = None
    /\ \A m \in Maps : cache[m] = version

RoutingConverges == <>[]OwnersRegistered => <>[]RoutingUpToDate
=============================================================================
