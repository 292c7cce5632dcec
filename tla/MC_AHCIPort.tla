---------------------------- MODULE MC_AHCIPort ----------------------------
(* Two kernel threads share one port; the 8-second bound is two ticks.     *)
EXTENDS AHCIPort

CONSTANTS t1, t2

MCThreads == {t1, t2}
MCTimeout == 2
=============================================================================
