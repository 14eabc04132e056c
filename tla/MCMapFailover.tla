--------------------------- MODULE MCMapFailover ---------------------------
(***************************************************************************)
(* TLC instance of MapFailover: one map that every node declares.  Node    *)
(* IDs are ordered by the code, so only coordinators and goroutines are    *)
(* interchangeable.                                                        *)
(***************************************************************************)
EXTENDS MapFailover, TLC

CONSTANTS TheMap

MCMapOf == [n \in Nodes |-> TheMap]

FirstTopology(owner) ==
    [version |-> 1, term |-> 1, owner |-> [m \in Maps |-> owner],
     epoch |-> [m \in Maps |-> 1]]

\* A state soon after start-up: one coordinator leads the first term and is
\* connected to every node, the lowest ID owns the map and has stored one
\* checkpoint, the others are standbys.
SteadyInit ==
    LET owner == LowestID(Nodes)
        first == FirstTopology(owner)
    IN  /\ durableTerm = 1
        /\ claim = [c \in Coordinators |-> 0]
        /\ \E c \in Coordinators :
              /\ leaderTerm = [d \in Coordinators |-> IF d = c THEN 1 ELSE 0]
              /\ conn = [d \in Coordinators |-> [n \in Nodes |->
                            IF d = c THEN "healthy" ELSE "none"]]
        /\ topology = first
        /\ fence = [m \in Maps |-> [owner |-> owner, epoch |-> 1]]
        /\ checkpoint = [m \in Maps |->
                            [node |-> owner, epoch |-> 1, version |-> 1]]
        /\ granted = {<<m, 1, owner>> : m \in Maps}
        /\ registry = [n \in Nodes |-> "ready"]
        /\ task = [t \in Tasks |-> IdleTask]
        /\ status = [n \in Nodes |-> "up"]
        /\ drain = [n \in Nodes |-> "none"]
        /\ cache = [n \in Nodes |-> first]
        /\ fresh = [n \in Nodes |-> TRUE]
        /\ world = [n \in Nodes |-> IF n = owner THEN 1 ELSE 0]
        /\ tick = [n \in Nodes |-> IdleTick]
        /\ write = [n \in Nodes |-> 0]
        /\ faults = 0

SteadySpec == SteadyInit /\ [][FailoverNext]_failoverVars

MCSymmetry == Permutations(Coordinators) \cup Permutations(Tasks)
=============================================================================
