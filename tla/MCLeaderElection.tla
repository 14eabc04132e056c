------------------------- MODULE MCLeaderElection -------------------------
(***************************************************************************)
(* TLC instance of LeaderElection.  The instances are interchangeable, but *)
(* the run checks liveness too, so no symmetry is declared.                *)
(***************************************************************************)
EXTENDS LeaderElection
=============================================================================
