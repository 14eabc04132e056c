---------------------------- MODULE MapOwnership ----------------------------
(***************************************************************************)
(* What the control plane promises about a game map, without Redis,        *)
(* leases, scripts or nodes: a map passes from owner to owner, each        *)
(* handover opens a new epoch, and durable state is only ever stored on    *)
(* behalf of an owner within the epoch that was granted to it.             *)
(***************************************************************************)
EXTENDS Naturals

CONSTANTS Maps, Nodes, NoNode

VARIABLES
    owner,      \* owner[m]: the node that owns m, or NoNode
    epoch,      \* epoch[m]: the epoch of that ownership, 0 before the first
    granted,    \* every <<map, epoch, node>> ever granted
    stored      \* stored[m]: <<epoch, node>> of the newest durable checkpoint

ownershipVars == <<owner, epoch, granted, stored>>

OwnershipInit ==
    /\ owner = [m \in Maps |-> NoNode]
    /\ epoch = [m \in Maps |-> 0]
    /\ granted = {}
    /\ stored = [m \in Maps |-> <<0, NoNode>>]

\* One commit may move several maps.  A map whose owner changes enters the
\* next epoch; the very first commit may start from any epoch.
Handover ==
    /\ owner' \in [Maps -> Nodes \cup {NoNode}]
    /\ epoch' \in [Maps -> Nat]
    /\ \A m \in Maps :
          \/ epoch[m] = 0 /\ granted = {}
          \/ epoch'[m] = epoch[m] /\ owner'[m] = owner[m]
          \/ epoch'[m] = epoch[m] + 1 /\ (owner'[m] # owner[m] \/ epoch[m] = 0)
    /\ granted' = granted \cup
          {<<m, epoch'[m], owner'[m]>> : m \in {k \in Maps : owner'[k] # NoNode}}
    /\ UNCHANGED stored

\* A checkpoint is stored for a granted epoch, never for one older than the
\* epoch of the checkpoint it replaces.
Store(m) ==
    /\ \E n \in Nodes, e \in {g[2] : g \in granted} :
          /\ <<m, e, n>> \in granted
          /\ e >= stored[m][1]
          /\ stored' = [stored EXCEPT ![m] = <<e, n>>]
    /\ UNCHANGED <<owner, epoch, granted>>

OwnershipNext == Handover \/ \E m \in Maps : Store(m)

OwnershipSpec == OwnershipInit /\ [][OwnershipNext]_ownershipVars
=============================================================================
