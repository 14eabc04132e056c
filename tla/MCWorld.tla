------------------------------ MODULE MCWorld -------------------------------
(***************************************************************************)
(* TLC instance of World: an open field and rules scaled down so that two  *)
(* or three blows bring a unit down.                                       *)
(***************************************************************************)
EXTENDS World, MapLayouts

MCOpen == (0 .. 1) \X (0 .. 1)

MCSpawn == <<0, 0>>

(***************************************************************************)
(* On every map of maps.go, which a new world takes over before its        *)
(* bootstrap, the spawn cell and the boss's cell are open, a player can    *)
(* walk from the spawn to where he can strike the boss, and every open     *)
(* cell can be walked to, but for single cells with walls on all sides:    *)
(* the doors carved where two walls cross, (28, 4) of the cave and         *)
(* (12, 17) of the ruins, lead nowhere.                                    *)
(***************************************************************************)
LayoutsAreFit == mutex = "bootstrap" => \A map \in AvailableMaps : IsFit(map)
=============================================================================
