---------------------------- MODULE MC_AHCIUnload ----------------------------
(* One kernel thread using the port while the module is unloaded; the     *)
(* 8-second bound is two ticks, as in MC_AHCIPort.                        *)
EXTENDS AHCIUnload

CONSTANTS t1

MCThreads == {t1}
MCTimeout == 2
=============================================================================
