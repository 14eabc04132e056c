------------------------------- MODULE MCBoss -------------------------------
(***************************************************************************)
(* TLC instance of Boss.                                                   *)
(***************************************************************************)
EXTENDS Boss
=============================================================================
