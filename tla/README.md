# TLA+ models of warzone

warzone is a multiplayer map game. Players connect to **gateways**; each game
map runs in memory on one **node**; **coordinators** decide which node owns
which map; Redis holds everything they agree on, a SQL database the accounts.
This directory models the parts where these processes meet, checks them with
TLC and proves the core with TLAPS. `PROJECT.json` lists components, runs,
mutants, theorems, hazards and findings, and maps every definition to the code.
Paths below are relative to the Go module (`src/` of the repository).

## The system

| Part | State | Operations | Hard because |
|---|---|---|---|
| Leader election (`elector/redis.go`) | lease key with expiry, durable term counter, local belief | Campaign, renew, Resign | the belief outlives the lease; replies get lost |
| Topology store (`storage/`) | topology, one fence per map, checkpoints, sessions | one Lua script per commit and per fenced save | racing coordinators, stale owners |
| Coordinator (`coordinator/`) | connections and health of nodes, failover goroutines | discovery, heartbeat, failover, drain reconciliation, bootstrap | leadership is lost between any two calls; goroutines overlap |
| Node (`node/`, `cmd/node`) | cached topology, hosted worlds, draining flag | tick, player writes, Promote, BeginDrain, registration | authority is read before it is used; a world is replaced under a tick |
| World boss | HP key, state key, respawn lock | AttackBoss, restoreBossIfDue, ensureBoss | a kill is two writes; the lock expires by itself |
| Gateway stream (`cmd/gateway`, `cmd/client`) | control queue, pending state, channels; the client's current state | four goroutines per stream; the client's own check | back-pressure, shutdown, merging of states, two filters in a row |
| Player sessions (`cluster/cluster.go`, `gateway_errors.go`, `node/grpc_server.go`) | session in Redis, local copy, worlds, profile | Login, commands, SwitchMap, Logout | four places without a transaction, lost answers |
| Gateway routing (`cluster/routing.go`, `topology_cache.go`) | applied topology, targets, node clients, map cache | load and apply a topology, reconcile, dial, fill the cache, label frames, Close | two loops load and apply in different orders; dials outlive what they were for; the cache is filled after a check |
| World (`world/`) | players, NPCs, treasures, counters, version; profiles | player commands, tick, snapshot, checkpoint, restore | many routines place units; what a checkpoint or a profile leaves out |

How they interact: a coordinator that holds the lease carries its term into
every topology commit; the commit script compares the term, the version and the
epochs and writes topology, fences and sessions in one step; nodes poll the
topology and ask the fence again before every write; gateways poll the topology
and route by it; a node's registration in Redis is all a coordinator learns of
a drain.

## Modules

| Module | Models | Extends or instantiates |
|---|---|---|
| `LeaderTerms` | abstract: terms are counted, believed and dropped | |
| `LeaderElection` | the Redis elector | implements `LeaderTerms` |
| `MapOwnership` | abstract: handovers open new epochs, only granted owners store | |
| `TopologyStore` | the Redis scripts, for arbitrary callers | implements `MapOwnership` |
| `MapFailover` | nodes and coordinators | extends `LeaderTerms`, uses the actions of `TopologyStore`, implements `MapOwnership` |
| `Boss` | the world boss | |
| `GatewayStream` | one GameStream and its client | |
| `PlayerSessions` | one player on several gateways, and the answers it gets | |
| `GatewayRouting` | how one gateway follows the topology | |
| `World` | the rules of one map, and the profiles | |
| `MapLayouts` | the three built-in maps, drawn as the code draws them | used by `MCWorld` |
| `LeaderElectionProofs`, `TopologyStoreProofs`, `MapFailoverProofs`, `BossProofs`, `GatewayStreamProofs`, `PlayerSessionsProofs`, `GatewayRoutingProofs`, `WorldProofs` | theorems | each extends the module it is about; `MapFailoverProofs` instantiates `TopologyStoreProofs` |
| `MC*` | instances for TLC | |

### How the state and the actions correspond to the code

* **LeaderElection.** `lease`, `ttl`, `durableTerm` are the Redis keys; `leader`
  and `term` the fields of `RedisElector`; `phase` is where `leaderLoop` and
  `Campaign` are. The script of `acquire` is one step (`AcquireScript`);
  storing its result (`BecomeLeader`) is another, so the lease can be gone
  before the process believes in it. `AcquireError` and `RenewFails` include the
  case that the script ran and only the answer was lost. A token is random per
  process: after `Crash` the lease belongs to `LostToken`.
* **TopologyStore.** Every script is one action; its guards are the script's
  early returns, in `CommitAllowed` (`Valid`, version, `TermFenceOpen`,
  `EpochsAdvance`). The topology is total over the known maps: `NoNode` and
  epoch 0 stand for missing entries. `granted` is a history of committed
  `<<map, epoch, owner>>`. The unfenced `SaveTopology`,
  `CompareAndSaveTopology` and `SaveCheckpoint` have no caller in the control
  plane and are left out.
* **MapFailover.** A node is `status`, `drain`, `cache`/`fresh` (the authority
  cache and its grace period), `world` (the version of the hosted world, 0 if
  none), `tick` and `write` (operations in progress). A coordinator is its
  belief (`LeaderTerms`), `conn` and its goroutines `task`. `failoverMap` is one
  step per call that leaves the process: `StartFailover`, `SelectStandby`,
  `LoadCheckpoint`, `PromoteCheck`, `PromoteInstall`, `CheckTerm`, `Commit`;
  `GiveUp` is an error or timeout of any of them, after which a Promote that is
  already running on the node still completes (`Abandoned`). A tick is
  `TickSnapshot` (the table of worlds is copied), `TickBegin`, `TickStep`,
  `TickSave`; a Promote in between leaves the tick with a `detached` world.
  `drainMu` is the guard `DrainLockFree` and the `drain # "saving"` guards.
  `ReadWorld` is a read (Snapshot, Profile, flushLoop) that respawns a player:
  the code changes the world there without asking for authority. A drain is
  `BeginDrain`, `SaveFinalCheckpoints`, then `DrainPoll`, whose success is
  followed by the end of the process ("stopping") or not ("done"); `Exit` is the end of the process
  after GracefulStop, and in between the node goes on refreshing its cache,
  registering and answering the calls that are under way.
* **Boss.** `SeeBoss`, `Strike` (the HP script), `LoadForDeath`, `RecordDeath`
  are the calls of `AttackBoss`; `FindDue`, `LockRespawn`, `Recheck`, `Revive`
  those of `restoreBossIfDue`. `stalled` records that the lock or a lease ran
  out inside a write window, which the code does not guard against.
* **GatewayStream.** One variable per channel, mutex and goroutine. Each Go
  `select` is an action with one disjunct per ready case, so Go's random choice
  is a choice of the model. Frames are only their versions. A frame that is
  sent reaches `HandleServerEnvelope` of the client, where `ShouldApplyState`
  decides whether it becomes `shown`. The client starts with the state of
  Authenticated, any frame, which did not pass through the sender (`greeting`,
  until the client shows another).
* **PlayerSessions.** Each call of `Login`, a command, `SwitchMap` and `Logout`
  to Redis, the database or a node is a step; a node's answer is done, refused,
  or done with the answer lost. Move, Attack, Heal, BuyItem and AttackBoss
  differ only in what follows the node's answer, which `CommandAccepted`
  chooses; an AttackBoss whose Redis call fails is `CommandRefused` if the boss
  was not struck and `CommandUnanswered` if it may have been. Authenticate reads
  the profile one step before the session is looked for. A session that Redis
  cannot read is taken for none (`Unread`): the second login is let in, the
  switch goes on without moving the session, the Logout returns. A Logout whose
  delete fails keeps the stream open, with its `logoutOnce` used up (`spent`).
  `MapError` classifies errors for the client as `mapError` does;
  requests the gateway rejects before any call are left out. `trouble` records
  which faults have happened, so that a property says exactly which faults it
  survives: `overlap` (two logins passed the check), `staleProfile` (the profile
  was saved between its reading and the check), `unannounced` (an arrival that
  was done but not answered or not confirmed), `lostPlayer` (a rollback that
  failed), `lostBlow`, `unread` and `unsaved`. Worlds restored by a failover are not joined in.
* **GatewayRouting.** Every critical section of `c.mu` or `mapCacheMu` is a
  step, and so is every call that leaves the process. `loader[l]` is where a
  `loadTopology` is, on the poll loop or on the event loop; `open` and `addrOf`
  are the gRPC connections; `cache[m]` is the topology under which the cached
  snapshot of map m was asked for, which is all that matters of it. Commits and
  registrations come from the environment.
* **World.** `w.mu` makes an operation one step. `BackgroundStep`, which makes
  several random choices, is `TickBegin`, `TickSpawnNPC`, `TickTreasure`,
  `TickNPC` per NPC and `TickEnd` with the mutex held. `Refresh` is
  `refreshPlayerStateLocked`, which every operation calls first; a respawn time
  is `pending`, then `due` (`TimePasses`). Spawn cells come from the code's
  score. Profiles are saved and loaded where cluster.go does it
  (`SaveProfile`, `Authenticate`); NPC and treasure numbers are the code's
  counters, `len + 1` after a restore included.
* **MapLayouts.** `GreenMap`, `CaveMap` and `RuinsMap` are the sequences of
  `drawBorder`, `fillRect`, `drawH`, `drawV` and `carve` of `world/maps.go`, on
  the real 56 x 24 grid.

## What the runs check

| Run | Bounds | States | Shows |
|---|---|---|---|
| `election` | 3 coordinators, TTL 2, 4 terms | 16 k | at most one coordinator whose commits pass the term fence; a lease is lost to its owner or to time only; refinement of `LeaderTerms`; a leader emerges again |
| `store` | 2 maps, 2 nodes, 2 players, version and epoch up to 3, 1 term | 43 k | one owner per epoch, checkpoints of granted owners, no older epoch overwrites, complete session migration; refinement of `MapOwnership` |
| `failover` | from an empty cluster: 2 nodes, 1 coordinator, 1 goroutine, 1 fault, 2 epochs | 86 k | bootstrap, ticks, play, drain, exit, crash, restart: whoever changes a world holds its epoch, nothing is stored after a drain but the final checkpoint; refinement of `MapOwnership`; a saved drain is carried out if a standby is left, although nobody has to restart a node |
| `two_leaders` | from a running cluster: 2 coordinators, 2 goroutines, 2 faults, 3 epochs | 1.2 M | a deposed leader commits nothing; writes are admitted for the routed owner only; a failover that can still commit has the checkpoint of the owner it replaces |
| `boss` | 2 attackers, 2 coordinators, 2 HP, 3 lives, 1 lost killer, 2 faults | 144 k | one killer per life, damage and death stand, a recorded kill is followed by a new life |
| `stream` | queue of 1, 1 command, 1 error, 3 frames | 0.93 M | a graceful end delivers all accepted controls in order, no lost wake-up, the client shows what was sent last unless it was labelled under an older topology or is older than the state of Authenticated, all goroutines end |
| `sessions` | 2 streams, 2 maps, 2 faults, version up to 3 | 6.1 M | one world holds the player, session and copy find it, an answer tells what happened to the command, a higher session version orders maps |
| `world` | 2 players, 4 open cells, 1 NPC at least, 2 treasures, 6 versions, 1 restore | 725 k | units do not share cells, every change of the units shown raises the version, nothing vanishes from a world that was not restored, who was knocked down comes back; the three layouts are connected and their spawn and boss sites reachable |
| `routing` | 1 map, 2 nodes, 2 addresses, 2 loops, 3 connections, 2 topologies, 1 move | 665 k | no connection leaks, clients lead to the current targets, a frame shows the topology it names, routing and cache catch up |

Why the bounds are enough to be interesting: two nodes and two epochs let a map
move, and three let it move back; two goroutines overlap; a queue of one is
full after one frame; three frames allow an old, a newer and a
switched state, and any of them may be the client's first one (frames of more
topologies rest on the theorem); four cells are crowded by two
players, an NPC and treasures, so that placing a unit has to avoid others
(on a map without any free cell the code falls back to the spawn point, which
the real layouts, with hundreds of open cells, never need); two topologies and
one move let a node lose its map, change its address or both, while three
connections suffice for two loops;
two faults allow a failure during the recovery from another (`failover` has one;
with two, 526 k states, it passes as well but takes longer than the other runs).
`sessions` follows a second stream that was let in until the last fault and the
last version (`MCBound`). Version counters
are capped in the guards of the actions that count (`MaxTerm`, `MaxEpoch`,
`MaxWorld`, `MaxLives`, `MaxVersion`, `MaxTopology`, `MaxMoves`,
`MaxRestores`); environment events that could go on for
ever are counted by `faults`. `Drainable`, `Played` and `Watched` say which
nodes an operator drains, players use and readers watch. Coordinators and
goroutines are symmetric in `two_leaders`; node IDs are not (the code takes the
lowest). Deadlock is not checked where the bounds let the system stop.

`BossTypeOK`, `FailoverTypeOK`, `SessionTypeOK`, `StreamTypeOK`, `WorldTypeOK`
and `RoutingTypeOK` are proved, not run; the runs spend their time on the other
properties.

### Where the code and its comments disagree

Three runs end in a violation of what a comment, a message or an error says:

* `failover_drain_race`: the draining flag is registered before the final
  checkpoint is saved; the migration starts from the one before
  (`coordinator/drain.go:14`).
* `failed_login`: a login that fails after the session was saved cannot be
  retried, although its error is marked retryable (`cluster/cluster.go:500`,
  `cmd/gateway/gateway_errors.go:75`).
* `world_downed`: a player who is down in a checkpoint or in a saved profile is
  brought back without a respawn time and never gets up, while every command is
  answered with the seconds that are left (`world/world.go:185`).

The first starts from `SteadyInit`, a running cluster, to keep the trace short;
the second is a liveness property and stated under fairness.

### Known limits

Three more configurations are kept beside the runs. Each violates the property
it names, because of a window in the code that nothing guards. For the first two
a theorem narrows the window down:

* `MCFailoverExit.cfg` (module `MCMapFailover`, `NeverExitsAsOwner`): a draining
  standby stops although a Promote of its map is on its way, and the stopped
  process becomes owner (`node/drain.go:28`). The last poll lets a node that
  already is owner pass only if its cache is older than the handover
  (`DrainPassesAsOwnerOnlyUnseenTheorem`); the cache may still see the handover
  while GracefulStop waits, and the process ends all the same.
* `MCFailoverPromoteRace.cfg` (`MCMapFailover`, `EpochWorldNeverGoesBack`):
  Promote checks first and installs later; a second one replaces the world of
  the node that has become owner (`coordinator/failover.go:51`). Without such an
  install nothing takes the durable world of an epoch back
  (`EpochWorldNeverGoesBackTheorem`).
* `MCBossLostKiller.cfg` (`MCBoss`, `BossComesBack`): the kill and the record of
  the death are separate calls with ignored errors (`coordinator/boss.go:17`).

Limits that show as exceptions inside a checked property:

* `mapCacheLoop` may fill the cache after a newer topology was applied
  (`late` in `FrameShowsItsTopology`), although the comment at
  `cluster/cluster.go:680` says that the check before it rules this out. `RoutingConverges` shows that it does not last.
* `cmd/gateway/stream_sender.go:125` says the topology version is no ordering
  key for states, and the sender ignores it; the client
  (`cmd/client/ui.go:44`, with a test of its own) orders by it. A frame of a
  new map that was labelled before the last topology is sent and not shown:
  an exception in `ClientAppliesWhatIsSent`.
* The state of Authenticated does not pass through the sender
  (`cmd/gateway/gateway_handlers.go:37`). If the map has gone back to an older
  version since, the sender lets the first frames pass and the client drops them
  (`greeting` in `ClientAppliesWhatIsSent`).
* The countdown of a player who is down (`RespawnIn`, `world/world.go:445`)
  changes without a new version. Both filters let frames of an equal version
  pass, so it is shown; `VisibleChangeRaisesVersion` is about the units
  (`ShownUnits`).
* `LoadGlobalSession` answers "no session" to every Redis error
  (`storage/store.go:701`): a second login is let in, a switch is answered OK
  with the session still on the old map, a Logout leaves session and player
  behind (`unread`).
* `AttackBoss` returns the Redis error of a blow that may have been struck, and
  the player is told COMMAND_REJECTED (`node/node.go:541`, `lostBlow`).
* A Logout that cannot delete the hot session keeps the stream open, and no
  later Logout is tried (`cluster/cluster.go:235`, `spent`).
* A login that authenticates before another stream's Logout saves the profile
  goes to the map of the old profile (`staleProfile`).
* A drain whose final save fails leaves the node draining; no retry saves, and
  its map moves with the last checkpoint of a tick (`node/drain.go:39`).
* After a restore new NPCs and treasures may get the number of a living one and
  overwrite it (`restored` in `NothingVanishes`, `world/checkpoint.go:77`).
* `SwitchMap` says that it rolled back even when the rollback failed; the
  player is then in no world until the next login (`lostPlayer`).

### Fairness

Weak fairness stands for the tickers and for calls that return:
`topologyRefreshLoop`, `tickLoop`, the registration heartbeat, discovery, the
steps of a goroutine, Redis expiry. Strong fairness is used where a loop
retries and something else keeps interrupting it: `Acquire` and `BecomeLeader`
(Redis does not fail every attempt for ever), `ReconcileDraining` (discovery
comes round until a goroutine slot is free), `PumpEnds` (a Go select does not
prefer its ticker for ever), `LogoutLoad` and `LogoutAgain` (a player does not switch maps for
ever instead of leaving), `Refresh` (gateways poll Snapshot, which gets the
world's mutex again and again), `ReadRegistry`, `Dial` and `FillAll` (Redis and
a registered node answer now and then). In `GatewayRouting` nothing is assumed
of the event loop: convergence rests on the poll. Faults are bounded, so they stop in the end. Nobody
is obliged to drain, play, attack or fail, and nothing in the repository starts
a node again that has crashed or ended: `RestartNode` may happen and need not.
`ensureBoss` runs once per leadership and is not retried, so it has no fairness
of its own.

## What is proved

For every set of coordinators, maps, nodes, users, streams and cells and for all
bounds, from the named ASSUMEs only. Every proof module first states an
inductive invariant, has one lemma per action (or per part of the invariant that
an action can disturb), and derives the theorems from it. Every safety property
of the passing runs is a theorem, but for `LayoutsAreFit`; TLC checks the same
formulas on the small instances.

* `LeaderElectionProofs`: type correctness, `OneEffectiveLeader`,
  `LeaseHolderNotFenced`, `LeaseOnlyLostToOwnerOrTime`, and that the election
  implements `LeaderTerms`. `OneEffectiveLeader` is not inductive: the
  invariant adds that terms believed in and terms granted but not yet stored
  are at most the counter and pairwise different, and that whoever holds the
  lease in either way has the newest one.
* `TopologyStoreProofs`: type correctness, `OneOwnerPerEpoch`,
  `CheckpointFromEpochOwner`, `FenceFollowsTopology`,
  `CheckpointEpochNeverRegresses`, `MigrationIsComplete`, and that the scripts
  implement `MapOwnership`; and that `MapOwnership` alone implies
  `OneOwnerPerEpoch` and that nothing is stored without a grant, so that it
  is enough to implement it. The inductive invariant of the store adds that no grant is above
  the topology's epoch, that a grant of the current epoch names the current
  owner, that a map without an epoch has no owner, that every set fence repeats
  a grant, and that no checkpoint is newer than its fence. A commit preserves it
  because a changed owner takes exactly the next epoch, which nobody was
  granted.
* `MapFailoverProofs`: type correctness, `WritersHoldTheirEpoch`,
  `CommittableHasOwnersCheckpoint`, `AdmittedOnlyByRoutedOwner`,
  `DeposedLeaderCommitsNothing`, `DrainedNodeStoresOnlyFinal`, and that nodes and
  coordinators with all their faults implement `MapOwnership`. `RedisStep` says
  what Redis sees of a step: a commit of a prepared topology, a fenced save, or
  nothing. So the store's invariant carries over, by the lemmas of
  `TopologyStoreProofs` under `INSTANCE`; the model has no users, and
  `NoSessionRecord` lets `NoNode` stand for the missing session. What is added is
  what the processes know: a writer's epoch was granted to its node, a drain
  that has its lock leaves no writer, and a topology that a goroutine prepared
  agrees with the stored one, and has its owner's checkpoint, for as long as its
  commit can still succeed. See below for what follows from it.
* `BossProofs`: type correctness, `OneKillerPerLife`, `DeadBossHasRecorder`,
  `DamageAndDeathStand`. The invariant says which copies of the two keys are
  still true: the keys agree but for one killer on its way (`KeysAgree`,
  `OneKiller`), kills are counted once per life (`KillsCounted`), and at most one
  coordinator initialises or revives (`OneInitialiser`, `OneReviver`). A lock or
  lease that runs out inside a write ends that knowledge, so these parts are
  stated for runs without such a stall, as the properties are.
* `GatewayStreamProofs`: type correctness, `GracefulEndDeliversAll`,
  `PendingStateHasWaker`, `ClientAppliesWhatIsSent`. The invariant says who holds
  `controlMu` and who may still put (`LockInv`), that what was accepted is sent,
  carried by the writer or still queued, in this order (`DeliveryInv`), who will
  wake the writer, and that no state frame on its way is behind the one before
  it (`OrderInv`); the state of Authenticated comes before them all,
  and the sender does not know it, hence the exception `greeting`.
* `GatewayRoutingProofs`: type correctness, `ClientsAccountedFor`,
  `ClientsLeadToTargets`, `FrameShowsItsTopology`. Every client is in one place:
  in the pool, in the hands of the call that dialled it, or closed (`PlaceOf`,
  `CallFits`); and the versions in the cache, its filler and the frames are
  ordered (`VersionsOrdered`).
* `PlayerSessionsProofs`: type correctness, `OnePlace`, `SessionFindsPlayer`,
  `AnswerTellsOutcome`, `SessionVersionOrdersMaps`. Nothing reserves a player for
  a login, and the exclusion that the rest depends on is found in the invariant:
  while logins have not overlapped and no session was unread or unsaved, one
  stream at a time
  is busy with the player, because a stream that serves has a session
  (`AloneInv`). What such a stream may rely on is stated for each place its calls
  can be at (`Mine`), and `GhostInv` says that between two logins the player can
  only be where the profile leads the next one. `OneStreamAtATimeTheorem` states
  the exclusion for itself, and `OnlyFailuresOrphan` that a session which
  some stream serves is left to itself by nothing but a login that fails at its
  first snapshot (the run `failed_login`), a Logout in which Redis fails to read
  or delete it, and a stream that goes on after such a Logout and then switches
  maps (`SpentInv` says where such a stream can be). The properties exclude what
  the code does not survive: `unread` and `unsaved` everywhere, `staleProfile`
  where the player is, `lostBlow` what the answer says.
* `WorldProofs`: type correctness, `OneUnitPerCell`,
  `VisibleChangeRaisesVersion` (of the units shown, not of the countdown of those
  who are down), `NothingVanishes`. Each operation touches one
  player or one NPC (`PlayerPlaced`, `NPCPlaced`), who leaves, stays or comes to
  a free cell, and nobody gets up where he lies; numbers are new as long as
  nothing was restored (`NumbersInv`); a checkpoint keeps who was where
  (`SpreadInv`). `OneUnitPerCell` has a hypothesis, `RoomForAll`: more open cells
  than players and `MinNPCs` together. Without it the code has no cell to offer
  and puts the player on the spawn cell (`world/world.go:523`). The three maps of
  `maps.go` have 934, 996 and 1033 open cells. `LivingAreUp`: the living have
  hit points and no respawn time, whatever profile or checkpoint they came
  from. `OnlyReturningStrands`: a player who is down loses his respawn time by a
  login or a restore only (the run `world_downed`).

### The control plane, further

`MapFailoverProofs` goes on from its invariant with theorems that no run states,
about what lies between the components:

* The chain of the election. `LeaderElection` implements `LeaderTerms`, which
  implies that a term has one leader (`OneLeaderPerTermTheorem`);
  `MapFailover` takes its steps on terms from there, so two coordinators never
  carry topologies of one term to Redis, although goroutines outlive their
  leaders (`OneCoordinatorPerTermTheorem`). The invariant
  (`TaskTermsInv`) follows the term from the leader who reads it to the prepared
  topology, which outlasts it.
* Caches. Every cached topology was stored once (`CachesInv`), so that two
  caches, however stale, agree on who owns a map in an epoch
  (`CachesAgreeOnEpochsTheorem`), and a drain that reports success to an owner
  has polled a cache older than the handover to it
  (`DrainPassesAsOwnerOnlyUnseenTheorem`).
* Handovers. A map leaves its owner by the commit of a failover of that owner
  and no other map goes with it (`OnlyItsFailoverMovesAMapTheorem`), because the
  commit of a copied topology fails once anything else was committed
  (`CommitsInv`).
* Where the comments are wrong, what is missing. `HandoverTakesFinalTheorem`:
  if no failover has read the checkpoint before a drain's final save
  (`FinalSaveUndisturbed`, what `coordinator/drain.go:14` believes), a final save
  that succeeds stores the world of that moment, this stays stored until the
  node is gone or the map moves, and the map moves with it. Of a save that fails
  nothing is said. `EpochWorldNeverGoesBackTheorem`: if Promote
  installs a world only where the node still does not own the map and does not
  tick (`PromotesOnlyIdleStandbys`), the durable world of an epoch never goes
  back. Both hypotheses are about steps, not about constants: TLC explores the
  behaviours of `MCMapFailover` that satisfy them, with drains, promotions and
  handovers, finds the conclusions true there, and false without them.

Only model-checked: all liveness (`LeaderEmerges`, `DrainIsCarriedOut`,
`RecordedKillComesBack`, `StreamEnds`, `DownedPlayerComesBack`,
`RoutingConverges`), because the prover has no rules for fairness or ENABLED; and
`LayoutsAreFit`, which is a computation on three given maps, with a fixpoint over
their cells, and not a statement about all.

## Not modelled

Hot sessions, which nothing reads back; event texts and their buffers;
passwords; protobuf mapping and generated code (field by field copies);
configuration; the terminal UI, the admin tool, the benchmark and process
start-up. Not joined: the sessions of a player with a world that a failover
restores, and a gateway that dies with its players online; both would need
`MapFailover` and `PlayerSessions` in one instance, which is beyond TLC's reach
with the present detail. An acquire that is answered after Close resigned
delays the next leader by one TTL and is left out.

## Plan

What is left is a joined model of `PlayerSessions` and a world that a failover
restores, for the two hazards that need both (a gateway that dies with its
players online, a map version that goes back under a watching gateway), if it
can be kept within TLC's reach.
