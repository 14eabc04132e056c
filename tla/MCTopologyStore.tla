-------------------------- MODULE MCTopologyStore --------------------------
(***************************************************************************)
(* TLC instance of TopologyStore: maps, nodes and users are each           *)
(* interchangeable.                                                        *)
(***************************************************************************)
EXTENDS TopologyStore, TLC

MCSymmetry ==
    Permutations(Maps) \cup Permutations(Nodes) \cup Permutations(Users)
=============================================================================
