-------------------------- MODULE MCGatewayRouting --------------------------
(***************************************************************************)
(* TLC instance of GatewayRouting: an eventLoop and a poll, two nodes that *)
(* are both registered when the gateway starts.  The nodes are alike, so   *)
(* the first topology names n1 and the second any of the two.              *)
(***************************************************************************)
EXTENDS GatewayRouting, TLC

CONSTANTS n1, n2, a1, a2

MCRegistered == n1 :> a1 @@ n2 :> a2

MCPlans == <<{[m \in Maps |-> n1]}, [Maps -> Nodes]>>
=============================================================================
