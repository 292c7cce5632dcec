----------------------------- MODULE AHCIUnload -----------------------------
(***************************************************************************)
(* MODULE_FINI of sdahci.c (lines 202-228) composed with the issuing       *)
(* threads of one port (AHCIPort).  Its sdHangup call (line 215) is        *)
(* commented out, so nothing detaches the storage device or waits for the  *)
(* port semaphore: a thread may be inside ahciIssueCmd, or call it, while  *)
(* the unload releases the port and unmaps the registers.                  *)
(* portRelease (port.c) is not in this repository; spec section 5 says     *)
(* release runs the command engine stop first, which is what the           *)
(* commented-out ahciStopCmd of line 216 did: ST off, wait CR, FRE off,    *)
(* wait FR.  A register access after the unmap is a page fault in the      *)
(* kernel; the model lets no thread step after it.                         *)
(***************************************************************************)
EXTENDS AHCIPort

VARIABLE fini   \* where MODULE_FINI is in tearing this port down

uvars == <<vars, fini>>

FiniPCs == {"running", "stop", "stopWaitCR", "stopWaitFR", "unmap", "done"}

(* MODULE_FINI is called: the loop over the controllers reaches this port. *)
FiniStart ==
  /\ fini = "running"
  /\ fini' = "stop"
  /\ UNCHANGED vars

\* portRelease's engine stop, part 1: ST off; the HBA clears PxCI.
FiniStop ==
  /\ fini = "stop"
  /\ cmd' = [cmd EXCEPT !.st = FALSE]
  /\ ci' = (ci /\ ~cmd.st)
  /\ dev' = IF cmd.st /\ dev = "pending" THEN "aborted" ELSE dev
  /\ fini' = "stopWaitCR"
  /\ UNCHANGED <<isFatal, serr, tfd, sem, pc, elapsed, result>>

\* while (CR); FRE off.
FiniWaitCR ==
  /\ fini = "stopWaitCR"
  /\ ~cmd.cr
  /\ cmd' = [cmd EXCEPT !.fre = FALSE]
  /\ fini' = "stopWaitFR"
  /\ UNCHANGED <<ci, isFatal, serr, tfd, sem, pc, elapsed, result, dev>>

\* while (FR).
FiniWaitFR ==
  /\ fini = "stopWaitFR"
  /\ ~cmd.fr
  /\ fini' = "unmap"
  /\ UNCHANGED vars

\* Lines 219-223: unmap the registers, bus mastering off, release the PCI
\* device, free the controller.
FiniUnmap ==
  /\ fini = "unmap"
  /\ fini' = "done"
  /\ UNCHANGED vars

Unload == FiniStart \/ FiniStop \/ FiniWaitCR \/ FiniWaitFR \/ FiniUnmap

\* Threads and the hardware run as in AHCIPort until the registers are gone.
UInit == Init /\ fini = "running"

UNext ==
  \/ fini # "done" /\ \E t \in Threads : ThreadStep(t) /\ UNCHANGED fini
  \/ fini # "done" /\ \E t \in Threads : Tick(t) /\ UNCHANGED fini
  \/ fini # "done" /\ Hardware /\ UNCHANGED fini
  \/ Unload

USpec == UInit /\ [][UNext]_uvars

-----------------------------------------------------------------------------
(* A command submitted to the port still gets a truthful result when the   *)
(* module is unloaded meanwhile: spec section 5 allows no cancellation     *)
(* mid-command, and ahciIssueCmd returns 0 only if the drive completed     *)
(* the command without error.  The unload's engine stop clears PxCI under  *)
(* a polling thread, which takes a clear slot for a completed command.     *)
ResultFaithfulUnderUnload ==
  \A t \in Threads : pc[t] = "release" =>
    (result[t] = "ok" => dev = "ok")
=============================================================================
