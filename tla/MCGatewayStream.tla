-------------------------- MODULE MCGatewayStream --------------------------
(***************************************************************************)
(* TLC instance of GatewayStream: two frames of one map, the first with an *)
(* older view of its world, and one after a switch to a map with a lower   *)
(* epoch.                                                                  *)
(***************************************************************************)
EXTENDS GatewayStream

Frame(map, session, topology, epoch, version) ==
    [map |-> map, session |-> session, topology |-> topology, epoch |-> epoch,
     version |-> version]

MCFrames ==
    {Frame("green", 1, 1, 2, 1), Frame("green", 1, 1, 2, 2), Frame("cave", 2, 1, 1, 1)}
=============================================================================
