------------------------- MODULE MC_AHCIController -------------------------
(* Two PCI functions, two candidate ports each, and an uninitialised port  *)
(* count of up to one: every combination of class, S64A, PI and BIOS      *)
(* ownership is an initial state.                                          *)
EXTENDS AHCIController

MCNumDevs == 2
MCPortIdx == {0, 1}
MCGarbageMax == 1
=============================================================================
