---------------------------- MODULE MC_RunQueue ----------------------------
(* firstThread and three heap blocks for kmalloc to hand out.              *)
EXTENDS RunQueue

CONSTANTS b1, b2, b3

MCBlocks == {b1, b2, b3}
=============================================================================
