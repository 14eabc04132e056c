------------------------ MODULE GatewayRoutingProofs ------------------------
(***************************************************************************)
(* Proofs about GatewayRouting, for any number of maps, nodes, addresses,  *)
(* goroutines, connections and topologies.                                 *)
(*                                                                         *)
(* Three groups of facts are inductive together with the types: where the  *)
(* clients are (in the pool, or in the hands of the call that dialled      *)
(* them), that a pooled client leads where its node is wanted, and how the *)
(* versions in the cache, its filler and the frames are ordered.           *)
(***************************************************************************)
EXTENDS GatewayRouting, WellFoundedInduction, TLAPS

\* A call of loadTopology works on a committed topology, and it holds a
\* client exactly between Dial and Install.
CallFits(r) ==
    /\ r \in Loader
    /\ r.topology <= committed
    /\ r.pc = "install" <=> r.client # None
    /\ r.pc = "install" => r.node # None

CallInv ==
    /\ \A l \in Loaders : CallFits(loader[l])
    /\ filler.version <= version

\* ClientsAccountedFor, client by client.
PlaceOf ==
    /\ \A k \in Clients :
          k \in open <=> \/ \E n \in Nodes : nodes[n] = k
                         \/ \E l \in Loaders : loader[l].client = k
    /\ \A n, p \in Nodes : nodes[n] # None /\ nodes[n] = nodes[p] => n = p
    /\ \A l \in Loaders, n \in Nodes :
          loader[l].client # None => loader[l].client # nodes[n]
    /\ \A l, k \in Loaders :
          loader[l].client # None /\ loader[l].client = loader[k].client => l = k
    /\ closed => \A n \in Nodes : nodes[n] = None

\* No frame is labelled with a topology that is not applied yet, and a cache
\* that was not filled late shows the applied topology or nothing.
VersionsOrdered ==
    /\ \A m \in Maps : reader[m] <= version
    /\ ~late => \A m \in Maps : cache[m] \in {0, version}

RoutingInv ==
    /\ RoutingTypeOK /\ CallInv
    /\ PlaceOf /\ ClientsLeadToTargets
    /\ VersionsOrdered

-----------------------------------------------------------------------------
\* Dial takes the smallest client that is not open: there is one.
LEMMA MinIsMember ==
  ASSUME NEW S \in SUBSET Nat, S # {}
  PROVE  Min(S) \in S
<1> DEFINE R == {ss \in Nat \X Nat : ss[1] < ss[2]}
<1>1. IsWellFoundedOn(R, Nat)
  BY NatLessThanWellFounded DEF OpToRel
<1>2. PICK x \in S : \A y \in S : <<y, x>> \notin R
  <2> HIDE DEF R
  <2>1. QED
    BY <1>1, WFMin
<1>3. ASSUME NEW y \in S
      PROVE  x <= y
  <2>1. ~(y < x)
    BY <1>2, <<y, x>> \in Nat \X Nat
  <2>2. QED
    BY <2>1
<1>4. QED
  BY <1>3 DEF Min

\* The initial state satisfies the inductive invariant.
LEMMA RoutingInit_Inv == RoutingInit => RoutingInv
<1> SUFFICES ASSUME RoutingInit
             PROVE  RoutingInv
  OBVIOUS
<1> USE RoutingBoundAssumption, RoutingPlanAssumption, RoutingNoneAssumption
    DEF RoutingInit, IdleLoader, IdleFiller, NoTargets, NoHosts
<1>1. RoutingTypeOK
  <2>1. closed \in BOOLEAN /\ late \in BOOLEAN
    BY Zenon
  <2>2. loader \in [Loaders -> Loader] /\ filler \in Filler
    BY DEF Loader, Filler, Versions, Target
  <2>3. QED
    BY <2>1, <2>2 DEF RoutingTypeOK, Versions, Target
<1>2. CallInv
  BY DEF CallInv, CallFits, Loader, Versions, Target
<1>3. PlaceOf /\ ClientsLeadToTargets
  BY DEF PlaceOf, ClientsLeadToTargets
<1>4. VersionsOrdered
  BY DEF VersionsOrdered
<1>5. QED
  BY <1>1, <1>2, <1>3, <1>4 DEF RoutingInv

\* The records that end a call or send it on fit, and hold no client.
LEMMA IdleLoaderFits ==
  ASSUME RoutingTypeOK
  PROVE  CallFits(IdleLoader) /\ IdleLoader.client = None
  BY RoutingBoundAssumption
  DEF RoutingTypeOK, CallFits, IdleLoader, Loader, Versions, Target, NoTargets

LEMMA LoadedFits ==
  ASSUME RoutingTypeOK, NEW v \in 0 .. committed, NEW pc \in {"apply", "registry"}
  PROVE  CallFits([IdleLoader EXCEPT !.pc = pc, !.topology = v])
<1>1. v \in Versions /\ v <= committed
  BY RoutingBoundAssumption DEF RoutingTypeOK, Versions
<1>2. QED
  BY <1>1, IdleLoaderFits DEF CallFits, Loader

LEMMA NextPendingFits ==
  ASSUME RoutingTypeOK, NEW t \in Target
  PROVE  CallFits(NextPending(t)) /\ NextPending(t).client = None
<1> DEFINE r == [IdleLoader EXCEPT !.pc = "dial", !.targets = t]
<1>1. CallFits(r) /\ r.client = None
  BY IdleLoaderFits DEF CallFits, Loader
<1>2. QED
  BY <1>1, IdleLoaderFits DEF NextPending

\* A call that goes on to a record that fits disturbs no other call.
LEMMA SetsFits ==
  ASSUME RoutingTypeOK, CallInv, NEW l \in Loaders, NEW r,
         CallFits(r), Sets(l, r), committed' = committed
  PROVE  /\ loader' \in [Loaders -> Loader]
         /\ loader'[l] = r
         /\ \A k \in Loaders \ {l} : loader'[k] = loader[k]
         /\ \A k \in Loaders : CallFits(loader[k])'
<1>1. /\ loader' \in [Loaders -> Loader]
      /\ loader'[l] = r
      /\ \A k \in Loaders \ {l} : loader'[k] = loader[k]
  BY DEF RoutingTypeOK, CallFits, Sets
<1>2. \A k \in Loaders : CallFits(loader[k])'
  BY <1>1 DEF CallInv, CallFits
<1>3. QED
  BY <1>1, <1>2

\* Every step keeps the types and the facts about the calls in progress.
LEMMA RoutingNext_Type ==
  RoutingTypeOK /\ CallInv /\ [RoutingNext]_routingVars => RoutingTypeOK' /\ CallInv'
<1> SUFFICES ASSUME RoutingTypeOK, CallInv, [RoutingNext]_routingVars
             PROVE  RoutingTypeOK' /\ CallInv'
  OBVIOUS
<1>1. CASE Commit
  BY <1>1, RoutingBoundAssumption, RoutingPlanAssumption
  DEF Commit, RoutingTypeOK, CallInv, CallFits, Loader, Versions, Target, env, pool, view
<1>2. ASSUME NEW n \in Nodes, Reregister(n)
      PROVE  RoutingTypeOK' /\ CallInv'
  BY <1>2, RoutingBoundAssumption, RoutingPlanAssumption
  DEF Reregister, RoutingTypeOK, CallInv, CallFits, Loader, Versions, Target, env, pool, view
<1>3. CASE Poll
  <2> DEFINE r == [IdleLoader EXCEPT !.pc = "apply", !.topology = committed]
  <2>1. CallFits(r)
    <3>1. committed \in 0 .. committed
      BY RoutingBoundAssumption DEF RoutingTypeOK, Versions
    <3>2. QED
      BY <3>1, LoadedFits
  <2>2. QED
    BY <1>3, <2>1, SetsFits, RoutingBoundAssumption
    DEF Poll, LoadTopology, RoutingTypeOK, CallInv, env, pool, view
<1>4. ASSUME NEW l \in Loaders, TakeNotice(l)
      PROVE  RoutingTypeOK' /\ CallInv'
  <2> DEFINE r == [IdleLoader EXCEPT !.pc = "apply", !.topology = committed]
  <2>1. CallFits(r)
    <3>1. committed \in 0 .. committed
      BY RoutingBoundAssumption DEF RoutingTypeOK, Versions
    <3>2. QED
      BY <3>1, LoadedFits
  <2>2. QED
    <3>1. notices' \in 0 .. committed
      BY <1>4, RoutingBoundAssumption DEF TakeNotice, RoutingTypeOK, Versions
    <3>2. /\ Sets(l, r)
          /\ UNCHANGED <<committed, owners, registry, moves, version, pool, view>>
      BY <1>4 DEF TakeNotice, LoadTopology
    <3>3. QED
      BY <2>1, <3>1, <3>2, SetsFits DEF RoutingTypeOK, CallInv, pool, view
<1>5. ASSUME NEW l \in Loaders, ApplyTopology(l)
      PROVE  RoutingTypeOK' /\ CallInv'
  <2> DEFINE r == [IdleLoader EXCEPT !.pc = "registry", !.topology = version']
  <2>1. /\ version' \in 0 .. committed /\ version <= version'
        /\ late' \in BOOLEAN /\ cache' \in [Maps -> Versions]
    <3>1. loader[l].topology \in 0 .. committed
      BY RoutingBoundAssumption DEF RoutingTypeOK, CallInv, CallFits, Loader, Versions
    <3>2. version' \in 0 .. committed /\ version <= version'
      BY <1>5, <3>1 DEF ApplyTopology, Newer, RoutingTypeOK
    <3>3. cache' \in [Maps -> Versions]
      BY <1>5, RoutingBoundAssumption
      DEF ApplyTopology, ClearedCache, RoutingTypeOK, Versions
    <3>4. late' \in BOOLEAN
      BY <1>5, Zenon DEF ApplyTopology, RoutingTypeOK
    <3>5. QED
      BY <3>2, <3>3, <3>4
  <2>2. CallFits(r)
    BY <2>1, LoadedFits
  <2>3. Sets(l, r) /\ UNCHANGED <<env, pool, filler, reader>>
    BY <1>5 DEF ApplyTopology
  <2>4. QED
    BY <2>1, <2>2, <2>3, SetsFits
    DEF RoutingTypeOK, CallInv, Filler, Versions, env, pool
<1>6. ASSUME NEW l \in Loaders, ReadRegistry(l)
      PROVE  RoutingTypeOK' /\ CallInv'
  <2> DEFINE r == [loader[l] EXCEPT !.pc = "reconcile",
                           !.targets = OwnerTargets(loader[l].topology)]
  <2>1. OwnerTargets(loader[l].topology) \in Target
    BY DEF OwnerTargets, RoutingTypeOK, Target
  <2>2. loader[l].pc # "install" /\ CallFits(loader[l])
    BY <1>6 DEF ReadRegistry, At, CallInv
  <2>3. CallFits(r)
    BY <2>1, <2>2 DEF CallFits, Loader
  <2>4. QED
    BY <1>6, <2>3, SetsFits DEF ReadRegistry, RoutingTypeOK, CallInv, env, pool, view
<1>7. ASSUME NEW l \in Loaders, RegistryFails(l)
      PROVE  RoutingTypeOK' /\ CallInv'
  BY <1>7, IdleLoaderFits, SetsFits
  DEF RegistryFails, RoutingTypeOK, CallInv, env, pool, view
<1>8. ASSUME NEW l \in Loaders, Reconcile(l)
      PROVE  RoutingTypeOK' /\ CallInv'
  <2> DEFINE t == loader[l].targets
             gone == Unwanted(t)
             kept == [n \in Nodes |-> IF n \in gone THEN None ELSE nodes[n]]
             rest == [n \in Nodes |-> IF kept[n] = None THEN t[n] ELSE None]
  <2>1. t \in Target /\ rest \in Target /\ kept \in [Nodes -> Clients \cup {None}]
    BY DEF RoutingTypeOK, Loader, Target
  <2>2. UNCHANGED <<env, version, closed, view>>
    BY <1>8 DEF Reconcile
  <2>3. /\ targets' \in Target /\ nodes' \in [Nodes -> Clients \cup {None}]
        /\ open' \subseteq Clients /\ addrOf' \in [Clients -> Addrs \cup {None}]
    BY <1>8, <2>1 DEF Reconcile, Closed, RoutingTypeOK
  <2>4. \/ Sets(l, IdleLoader)
        \/ Sets(l, NextPending(rest))
    BY <1>8 DEF Reconcile
  <2>5. /\ loader' \in [Loaders -> Loader]
        /\ \A k \in Loaders : CallFits(loader[k])'
    BY <2>1, <2>2, <2>4, IdleLoaderFits, NextPendingFits, SetsFits DEF env
  <2>6. QED
    BY <2>2, <2>3, <2>5 DEF RoutingTypeOK, CallInv, env, view
<1>9. ASSUME NEW l \in Loaders, Dial(l)
      PROVE  RoutingTypeOK' /\ CallInv'
  <2> DEFINE k == Min(Clients \ open)
  <2>1. k \in Clients
    BY <1>9, MinIsMember, RoutingBoundAssumption DEF Dial
  <2>2. PICK n \in Pending(l) :
          /\ Sets(l, [loader[l] EXCEPT !.pc = "install", !.node = n,
                                       !.client = k, !.targets[n] = None])
          /\ addrOf' = [addrOf EXCEPT ![k] = loader[l].targets[n]]
    BY <1>9 DEF Dial
  <2> DEFINE r == [loader[l] EXCEPT !.pc = "install", !.node = n,
                                    !.client = k, !.targets[n] = None]
  <2>3. n \in Nodes /\ loader[l] \in Loader /\ loader[l].targets \in Target
    BY DEF Pending, RoutingTypeOK, Loader
  <2>4. CallFits(r)
    BY <2>1, <2>3, RoutingNoneAssumption DEF CallInv, CallFits, Loader, Target
  <2>5. addrOf' \in [Clients -> Addrs \cup {None}]
    BY <2>1, <2>2, <2>3 DEF RoutingTypeOK, Target
  <2>6. /\ open' = open \cup {k}
        /\ UNCHANGED <<env, version, closed, targets, nodes, view>>
    BY <1>9 DEF Dial
  <2> HIDE DEF k
  <2>7. /\ loader' \in [Loaders -> Loader]
        /\ \A j \in Loaders : CallFits(loader[j])'
    <3>1. Sets(l, r) /\ committed' = committed
      BY <2>2, <2>6 DEF env
    <3> HIDE DEF r
    <3>2. QED
      BY <3>1, <2>4, SetsFits
  <2>8. QED
    BY <2>1, <2>5, <2>6, <2>7 DEF RoutingTypeOK, CallInv, env, view
<1>10. ASSUME NEW l \in Loaders, DialFails(l)
      PROVE  RoutingTypeOK' /\ CallInv'
  <2>1. PICK n \in Nodes :
          Sets(l, NextPending([loader[l].targets EXCEPT ![n] = None]))
    BY <1>10 DEF DialFails, Pending
  <2> DEFINE t == [loader[l].targets EXCEPT ![n] = None]
  <2>2. t \in Target
    BY DEF RoutingTypeOK, Loader, Target
  <2>3. Sets(l, NextPending(t)) /\ UNCHANGED <<env, version, pool, view>>
    BY <1>10, <2>1 DEF DialFails
  <2> HIDE DEF t
  <2>4. QED
    BY <2>2, <2>3, NextPendingFits, SetsFits
    DEF RoutingTypeOK, CallInv, env, pool, view
<1>11. ASSUME NEW l \in Loaders, Install(l)
      PROVE  RoutingTypeOK' /\ CallInv'
  <2> DEFINE n == loader[l].node
             k == loader[l].client
  <2>1. n \in Nodes /\ k \in Clients /\ loader[l].targets \in Target
    BY <1>11 DEF Install, At, RoutingTypeOK, CallInv, CallFits, Loader
  <2>2. /\ nodes' \in [Nodes -> Clients \cup {None}]
        /\ open' \subseteq Clients /\ addrOf' \in [Clients -> Addrs \cup {None}]
    BY <1>11, <2>1 DEF Install, Closed, RoutingTypeOK
  <2>3. /\ Sets(l, NextPending(loader[l].targets))
        /\ UNCHANGED <<env, version, closed, targets, view>>
    BY <1>11 DEF Install
  <2>4. QED
    BY <2>1, <2>2, <2>3, NextPendingFits, SetsFits
    DEF RoutingTypeOK, CallInv, env, view
<1>12. CASE CloseGateway
  BY <1>12, RoutingBoundAssumption, RoutingPlanAssumption
  DEF CloseGateway, Closed, NoTargets, RoutingTypeOK, CallInv, CallFits, Loader, Versions, Target, env, pool, view
<1>13. CASE FillCopy
  BY <1>13, RoutingBoundAssumption, RoutingPlanAssumption
  DEF FillCopy, ClientOf, Filler, RoutingTypeOK, CallInv, CallFits, Loader, Versions, Target, env, pool, view
<1>14. CASE FillSome
  <2>1. PICK got \in SUBSET Asked : FillCheck(got)
    BY <1>14 DEF FillSome
  <2>2. got \subseteq Maps
    BY DEF Asked
  <2>3. filler' \in Filler /\ filler'.version <= version
    <3>1. IdleFiller \in Filler /\ IdleFiller.version <= version
      BY RoutingBoundAssumption
      DEF RoutingTypeOK, Filler, IdleFiller, NoHosts, Versions
    <3> DEFINE f == [filler EXCEPT !.pc = "filling", !.got = got, !.hosts = NoHosts]
    <3>2. f \in Filler /\ f.version <= version
      BY <2>2 DEF RoutingTypeOK, CallInv, Filler, NoHosts
    <3>3. filler' = f \/ filler' = IdleFiller
      BY <2>1 DEF FillCheck
    <3>4. QED
      BY <3>1, <3>2, <3>3
  <2>4. UNCHANGED <<env, version, pool, loader, cache, reader, late>>
    BY <2>1 DEF FillCheck
  <2>5. QED
    BY <2>3, <2>4 DEF RoutingTypeOK, CallInv, CallFits, env, pool
<1>15. CASE Fill
  BY <1>15, RoutingBoundAssumption, RoutingPlanAssumption
  DEF Fill, Filler, IdleFiller, NoHosts, RoutingTypeOK, CallInv, CallFits, Loader, Versions, Target, env, pool, view
<1>16. ASSUME NEW m \in Maps, LabelFrame(m)
      PROVE  RoutingTypeOK' /\ CallInv'
  BY <1>16, RoutingBoundAssumption, RoutingPlanAssumption
  DEF LabelFrame, RoutingTypeOK, CallInv, CallFits, Loader, Versions, Target, env, pool, view
<1>17. ASSUME NEW m \in Maps, ReadCache(m)
      PROVE  RoutingTypeOK' /\ CallInv'
  BY <1>17, RoutingBoundAssumption, RoutingPlanAssumption
  DEF ReadCache, RoutingTypeOK, CallInv, CallFits, Loader, Versions, Target, env, pool, view
<1>18. CASE UNCHANGED routingVars
  BY <1>18 DEF routingVars, RoutingTypeOK, CallInv, CallFits, env, pool, view
<1>19. QED
  BY <1>1, <1>2, <1>3, <1>4, <1>5, <1>6, <1>7, <1>8, <1>9,
     <1>10, <1>11, <1>12, <1>13, <1>14, <1>15, <1>16, <1>17, <1>18
  DEF RoutingNext, LoaderStep, FillerStep

\* A step that moves no client keeps every client where it is.
LEMMA SamePlaces ==
  ASSUME PlaceOf, ClientsLeadToTargets, UNCHANGED pool,
         \A k \in Loaders : loader'[k].client = loader[k].client
  PROVE  PlaceOf' /\ ClientsLeadToTargets'
  BY DEF PlaceOf, ClientsLeadToTargets, pool

\* Every step keeps each open client in one place, which leads where its node
\* is wanted.
LEMMA RoutingNext_Place ==
  /\ RoutingTypeOK /\ CallInv /\ PlaceOf /\ ClientsLeadToTargets
  /\ [RoutingNext]_routingVars
  => PlaceOf' /\ ClientsLeadToTargets'
<1> SUFFICES ASSUME RoutingTypeOK, CallInv, PlaceOf, ClientsLeadToTargets,
                    [RoutingNext]_routingVars
             PROVE  PlaceOf' /\ ClientsLeadToTargets'
  OBVIOUS
<1>1. CASE Commit
  BY <1>1, SamePlaces DEF Commit, pool
<1>2. ASSUME NEW n \in Nodes, Reregister(n)
      PROVE  PlaceOf' /\ ClientsLeadToTargets'
  BY <1>2, SamePlaces DEF Reregister, pool
<1>3. CASE Poll
  <2>1. \A k \in Loaders : loader'[k].client = loader[k].client
    BY <1>3, RoutingBoundAssumption
    DEF Poll, LoadTopology, At, Sets, RoutingTypeOK, CallInv, CallFits, Loader,
        IdleLoader
  <2>2. QED
    BY <1>3, <2>1, SamePlaces DEF Poll, pool
<1>4. ASSUME NEW l \in Loaders, TakeNotice(l)
      PROVE  PlaceOf' /\ ClientsLeadToTargets'
  <2>1. \A k \in Loaders : loader'[k].client = loader[k].client
    BY <1>4, RoutingBoundAssumption
    DEF TakeNotice, LoadTopology, At, Sets, RoutingTypeOK, CallInv, CallFits, Loader,
        IdleLoader
  <2>2. QED
    BY <1>4, <2>1, SamePlaces DEF TakeNotice, pool
<1>5. ASSUME NEW l \in Loaders, ApplyTopology(l)
      PROVE  PlaceOf' /\ ClientsLeadToTargets'
  <2>1. \A k \in Loaders : loader'[k].client = loader[k].client
    BY <1>5 DEF ApplyTopology, At, Sets, RoutingTypeOK, CallInv, CallFits, Loader, IdleLoader
  <2>2. QED
    BY <1>5, <2>1, SamePlaces DEF ApplyTopology, pool
<1>6. ASSUME NEW l \in Loaders, ReadRegistry(l)
      PROVE  PlaceOf' /\ ClientsLeadToTargets'
  <2>1. \A k \in Loaders : loader'[k].client = loader[k].client
    BY <1>6 DEF ReadRegistry, At, Sets, RoutingTypeOK, CallInv, CallFits, Loader, IdleLoader
  <2>2. QED
    BY <1>6, <2>1, SamePlaces DEF ReadRegistry, pool
<1>7. ASSUME NEW l \in Loaders, RegistryFails(l)
      PROVE  PlaceOf' /\ ClientsLeadToTargets'
  <2>1. \A k \in Loaders : loader'[k].client = loader[k].client
    BY <1>7 DEF RegistryFails, At, Sets, RoutingTypeOK, CallInv, CallFits, Loader, IdleLoader
  <2>2. QED
    BY <1>7, <2>1, SamePlaces DEF RegistryFails, pool
<1>8. ASSUME NEW l \in Loaders, Reconcile(l)
      PROVE  PlaceOf' /\ ClientsLeadToTargets'
  <2>1. \A k \in Loaders : loader'[k].client = loader[k].client
    <3>1. PICK r : Sets(l, r) /\ (r = IdleLoader \/ \E t : r = NextPending(t))
      BY <1>8 DEF Reconcile
    <3>2. loader[l].client = None
      BY <1>8 DEF Reconcile, At, CallInv, CallFits
    <3>3. r.client = None
      <4>1. \A t : NextPending(t).client = None
        <5> TAKE t
        <5>1. CASE t = NoTargets
          BY <5>1 DEF NextPending, IdleLoader
        <5>2. CASE t # NoTargets
          BY <5>2 DEF NextPending, IdleLoader
        <5>3. QED
          BY <5>1, <5>2
      <4>2. QED
        BY <3>1, <4>1 DEF IdleLoader
    <3>4. QED
      BY <3>1, <3>2, <3>3 DEF Sets, RoutingTypeOK
  <2>2. CASE closed \/ version # loader[l].topology
    BY <1>8, <2>1, <2>2, SamePlaces DEF Reconcile, pool
  <2>3. CASE ~closed /\ version = loader[l].topology
    <3> DEFINE t == loader[l].targets
               gone == Unwanted(t)
    <3>1. /\ targets' = t /\ closed' = closed
          /\ nodes' = [n \in Nodes |-> IF n \in gone THEN None ELSE nodes[n]]
          /\ Closed({nodes[n] : n \in gone})
      BY <1>8, <2>3 DEF Reconcile
    <3>2. gone \subseteq Nodes /\ \A n \in gone : nodes[n] # None
      BY DEF Unwanted
    <3>3. \A n \in Nodes : n \notin gone /\ nodes[n] # None => t[n] = addrOf[nodes[n]]
      BY DEF Unwanted
    <3>4. PlaceOf'
      <4> HIDE DEF gone, t
      <4>1. QED
        BY <2>1, <2>3, <3>1, <3>2, RoutingNoneAssumption
        DEF PlaceOf, Closed, RoutingTypeOK
    <3>5. ClientsLeadToTargets'
      <4> HIDE DEF gone, t
      <4>1. QED
        BY <3>1, <3>2, <3>3, RoutingNoneAssumption
        DEF ClientsLeadToTargets, PlaceOf, Closed, RoutingTypeOK
    <3>6. QED
      BY <3>4, <3>5
  <2>4. QED
    BY <2>2, <2>3
<1>9. ASSUME NEW l \in Loaders, Dial(l)
      PROVE  PlaceOf' /\ ClientsLeadToTargets'
  <2> DEFINE k == Min(Clients \ open)
  <2>1. k \in Clients \ open
    BY <1>9, MinIsMember, RoutingBoundAssumption DEF Dial
  <2>2. PICK n \in Pending(l) :
          /\ Sets(l, [loader[l] EXCEPT !.pc = "install", !.node = n,
                                       !.client = k, !.targets[n] = None])
          /\ addrOf' = [addrOf EXCEPT ![k] = loader[l].targets[n]]
    BY <1>9 DEF Dial
  <2>3. open' = open \cup {k} /\ UNCHANGED <<closed, targets, nodes>>
    BY <1>9 DEF Dial
  <2> HIDE DEF k
  <2>4. /\ loader'[l].client = k
        /\ \A j \in Loaders \ {l} : loader'[j].client = loader[j].client
    BY <2>2 DEF Sets, RoutingTypeOK, Loader
  <2>5. loader[l].client = None
    BY <1>9 DEF Dial, At, CallInv, CallFits
  <2>6. \A p \in Nodes : nodes[p] # k
    BY <2>1 DEF PlaceOf
  <2>7. \A j \in Loaders : loader[j].client # k
    BY <2>1 DEF PlaceOf
  <2>8. PlaceOf'
    BY <2>1, <2>3, <2>4, <2>5, <2>6, <2>7, RoutingNoneAssumption DEF PlaceOf
  <2>9. ClientsLeadToTargets'
    BY <2>1, <2>2, <2>3, <2>6 DEF ClientsLeadToTargets, RoutingTypeOK
  <2>10. QED
    BY <2>8, <2>9
<1>10. ASSUME NEW l \in Loaders, DialFails(l)
      PROVE  PlaceOf' /\ ClientsLeadToTargets'
  <2>1. \A k \in Loaders : loader'[k].client = loader[k].client
    BY <1>10 DEF DialFails, At, Sets, NextPending, RoutingTypeOK, CallInv, CallFits,
             Loader, IdleLoader
  <2>2. QED
    BY <1>10, <2>1, SamePlaces DEF DialFails, pool
<1>11. ASSUME NEW l \in Loaders, Install(l)
      PROVE  PlaceOf' /\ ClientsLeadToTargets'
  <2> DEFINE n == loader[l].node
             k == loader[l].client
  <2>1. n \in Nodes /\ k \in Clients /\ k # None
    BY <1>11 DEF Install, At, RoutingTypeOK, CallInv, CallFits, Loader
  <2>2. /\ loader'[l].client = None
        /\ \A j \in Loaders \ {l} : loader'[j].client = loader[j].client
    BY <1>11 DEF Install, Sets, NextPending, IdleLoader, RoutingTypeOK, Loader
  <2>3. UNCHANGED <<closed, targets>>
    BY <1>11 DEF Install
  <2>4. CASE StillWanted(n, k)
    <3>1. nodes' = [nodes EXCEPT ![n] = k] /\ UNCHANGED <<open, addrOf>>
      BY <1>11, <2>4 DEF Install
    <3>2. ~closed /\ targets[n] = addrOf[k] /\ nodes[n] = None
      BY <2>4 DEF StillWanted
    <3> HIDE DEF n, k
    <3>3. \A p \in Nodes : nodes[p] # k
      BY <2>1 DEF PlaceOf, k
    <3>4. \A j \in Loaders \ {l} : loader[j].client # k
      BY <2>1 DEF PlaceOf, k
    <3>5. PlaceOf'
      BY <2>1, <2>2, <2>3, <3>1, <3>2, <3>3, <3>4, RoutingNoneAssumption
      DEF PlaceOf, RoutingTypeOK, k
    <3>6. ClientsLeadToTargets'
      BY <2>1, <2>3, <3>1, <3>2 DEF ClientsLeadToTargets, RoutingTypeOK
    <3>7. QED
      BY <3>5, <3>6
  <2>5. CASE ~StillWanted(n, k)
    <3>1. Closed({k}) /\ UNCHANGED nodes
      BY <1>11, <2>5 DEF Install
    <3>2. \A p \in Nodes : nodes[p] # k
      BY <2>1 DEF PlaceOf
    <3>3. \A j \in Loaders \ {l} : loader[j].client # k
      BY <2>1 DEF PlaceOf
    <3>4. PlaceOf'
      <4> HIDE DEF n, k
      <4>1. open' = open \ {k} /\ nodes' = nodes /\ closed' = closed
        BY <2>3, <3>1 DEF Closed
      <4>2. loader[l].client = k
        BY DEF k
      <4>3. QED
        BY <2>1, <2>2, <3>2, <3>3, <4>1, <4>2, RoutingNoneAssumption DEF PlaceOf
    <3>5. ClientsLeadToTargets'
      BY <2>1, <2>3, <3>1, <3>2, RoutingNoneAssumption
      DEF ClientsLeadToTargets, Closed, RoutingTypeOK
    <3>6. QED
      BY <3>4, <3>5
  <2>6. QED
    BY <2>4, <2>5
<1>12. CASE CloseGateway
  <2>1. \A n \in Nodes : nodes'[n] = None
    BY <1>12 DEF CloseGateway, NoTargets
  <2>2. \A k \in Clients : k \in open' <=> k \in open /\ \A n \in Nodes : nodes[n] # k
    BY <1>12 DEF CloseGateway, Closed
  <2>3. loader' = loader
    BY <1>12 DEF CloseGateway
  <2>4. PlaceOf'
    BY <2>1, <2>2, <2>3, RoutingNoneAssumption DEF PlaceOf
  <2>5. QED
    BY <2>1, <2>4 DEF ClientsLeadToTargets
<1>13. CASE FillCopy
  BY <1>13, SamePlaces DEF FillCopy, pool
<1>14. CASE FillSome
  BY <1>14, SamePlaces DEF FillSome, FillCheck, pool
<1>15. CASE Fill
  BY <1>15, SamePlaces DEF Fill, pool
<1>16. ASSUME NEW m \in Maps, LabelFrame(m)
      PROVE  PlaceOf' /\ ClientsLeadToTargets'
  BY <1>16, SamePlaces DEF LabelFrame, pool
<1>17. ASSUME NEW m \in Maps, ReadCache(m)
      PROVE  PlaceOf' /\ ClientsLeadToTargets'
  BY <1>17, SamePlaces DEF ReadCache, pool
<1>18. CASE UNCHANGED routingVars
  BY <1>18, SamePlaces DEF routingVars, pool
<1>19. QED
  BY <1>1, <1>2, <1>3, <1>4, <1>5, <1>6, <1>7, <1>8, <1>9,
     <1>10, <1>11, <1>12, <1>13, <1>14, <1>15, <1>16, <1>17, <1>18
  DEF RoutingNext, LoaderStep, FillerStep

\* Every step keeps the order of the versions.
LEMMA RoutingNext_Versions ==
  /\ RoutingTypeOK /\ CallInv /\ VersionsOrdered
  /\ [RoutingNext]_routingVars
  => VersionsOrdered'
<1> SUFFICES ASSUME RoutingTypeOK, CallInv, VersionsOrdered,
                    [RoutingNext]_routingVars
             PROVE  VersionsOrdered'
  OBVIOUS
<1> USE RoutingBoundAssumption
    DEF RoutingTypeOK, CallInv, CallFits, Loader, Filler, Versions, env, pool,
        view, VersionsOrdered
<1>1. CASE Commit
  BY <1>1 DEF Commit
<1>2. ASSUME NEW n \in Nodes, Reregister(n)
      PROVE  VersionsOrdered'
  BY <1>2 DEF Reregister
<1>3. CASE Poll
  BY <1>3 DEF Poll, LoadTopology, At, Sets
<1>4. ASSUME NEW l \in Loaders, TakeNotice(l)
      PROVE  VersionsOrdered'
  BY <1>4 DEF TakeNotice, LoadTopology, At, Sets
<1>5. ASSUME NEW l \in Loaders, ApplyTopology(l)
      PROVE  VersionsOrdered'
  BY <1>5 DEF ApplyTopology, At, Sets, Newer, ClearedCache
<1>6. ASSUME NEW l \in Loaders, ReadRegistry(l)
      PROVE  VersionsOrdered'
  BY <1>6 DEF ReadRegistry, At, Sets, OwnerTargets
<1>7. ASSUME NEW l \in Loaders, RegistryFails(l)
      PROVE  VersionsOrdered'
  BY <1>7 DEF RegistryFails, At, Sets
<1>8. ASSUME NEW l \in Loaders, Reconcile(l)
      PROVE  VersionsOrdered'
  BY <1>8 DEF Reconcile, At, Sets, Unwanted, NextPending, Closed
<1>9. ASSUME NEW l \in Loaders, Dial(l)
      PROVE  VersionsOrdered'
  BY <1>9 DEF Dial, At, Sets, Pending
<1>10. ASSUME NEW l \in Loaders, DialFails(l)
      PROVE  VersionsOrdered'
  BY <1>10 DEF DialFails, At, Sets, Pending, NextPending
<1>11. ASSUME NEW l \in Loaders, Install(l)
      PROVE  VersionsOrdered'
  BY <1>11 DEF Install, At, Sets, NextPending, StillWanted, Closed
<1>12. CASE CloseGateway
  BY <1>12 DEF CloseGateway, Closed
<1>13. CASE FillCopy
  BY <1>13 DEF FillCopy, ClientOf
<1>14. CASE FillSome
  BY <1>14 DEF FillSome, FillCheck, Asked, VersionCurrent
<1>15. CASE Fill
  BY <1>15 DEF Fill
<1>16. ASSUME NEW m \in Maps, LabelFrame(m)
      PROVE  VersionsOrdered'
  BY <1>16 DEF LabelFrame, ClientOf
<1>17. ASSUME NEW m \in Maps, ReadCache(m)
      PROVE  VersionsOrdered'
  BY <1>17 DEF ReadCache
<1>18. CASE UNCHANGED routingVars
  BY <1>18 DEF routingVars
<1>19. QED
  BY <1>1, <1>2, <1>3, <1>4, <1>5, <1>6, <1>7, <1>8, <1>9,
     <1>10, <1>11, <1>12, <1>13, <1>14, <1>15, <1>16, <1>17, <1>18
  DEF RoutingNext, LoaderStep, FillerStep

\* The invariant holds in every reachable state.
LEMMA RoutingInvariant == RoutingSpec => []RoutingInv
<1>1. RoutingInv /\ [RoutingNext]_routingVars => RoutingInv'
  BY RoutingNext_Type, RoutingNext_Place, RoutingNext_Versions DEF RoutingInv
<1>2. QED
  BY <1>1, RoutingInit_Inv, PTL DEF RoutingSpec

-----------------------------------------------------------------------------
\* Every record of the gateway keeps its shape, and no call works on a
\* topology that was not committed.
THEOREM RoutingTypeCorrect == RoutingSpec => []RoutingTypeOK
<1>1. RoutingInv => RoutingTypeOK
  BY DEF RoutingInv
<1>2. QED
  BY <1>1, RoutingInvariant, PTL

\* No connection is leaked and none is closed twice: every open client is in
\* the pool or held by the one loadTopology that dialled it, and a closed
\* gateway has an empty pool (reconcileGatewayNodes and Close).
THEOREM ClientsAccountedForTheorem == RoutingSpec => []ClientsAccountedFor
<1>1. RoutingInv => ClientsAccountedFor
  <2> SUFFICES ASSUME RoutingInv
               PROVE  ClientsAccountedFor
    OBVIOUS
  <2> USE RoutingNoneAssumption
      DEF RoutingInv, RoutingTypeOK, PlaceOf, Loader, Installed, Held
  <2>1. open = Installed \cup UNION {Held(l) : l \in Loaders}
    OBVIOUS
  <2>2. \A n, p \in Nodes : n # p => nodes[n] = None \/ nodes[n] # nodes[p]
    OBVIOUS
  <2>3. \A l \in Loaders :
          /\ Held(l) \cap Installed = {}
          /\ \A k \in Loaders \ {l} : Held(l) \cap Held(k) = {}
    OBVIOUS
  <2>4. closed => Installed = {}
    OBVIOUS
  <2>5. QED
    BY <2>1, <2>2, <2>3, <2>4 DEF ClientsAccountedFor
<1>2. QED
  BY <1>1, RoutingInvariant, PTL

\* A client in the pool leads to the address its node was last wanted at,
\* however two goroutines interleave their reads of the registry, their
\* dials and their sections under c.mu.
THEOREM ClientsLeadToTargetsTheorem == RoutingSpec => []ClientsLeadToTargets
<1>1. RoutingInv => ClientsLeadToTargets
  BY DEF RoutingInv
<1>2. QED
  BY <1>1, RoutingInvariant, PTL

\* A frame never shows a world older than the topology it is labelled with,
\* unless mapCacheLoop filled the cache late.
THEOREM FrameShowsItsTopologyTheorem == RoutingSpec => []FrameShowsItsTopology
<1>1. RoutingInv => FrameShowsItsTopology
  BY DEF RoutingInv, RoutingTypeOK, Versions, VersionsOrdered,
         FrameShowsItsTopology
<1>2. QED
  BY <1>1, RoutingInvariant, PTL
=============================================================================
