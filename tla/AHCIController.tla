--------------------------- MODULE AHCIController ---------------------------
(***************************************************************************)
(* Driver registry and controller lifecycle of sdahci                      *)
(* (src/modules/sdahci/sdahci.c): MODULE_INIT enumerates PCI functions     *)
(* through ahciEnumerator, which links a record for every AHCI-class one   *)
(* after lastCtrl (the tail pointer); then ahciInit runs on each record    *)
(* in list order (map BAR5, 64-bit check, BIOS/OS handoff, bus             *)
(* mastering, HBA reset, portInit for each implemented port);              *)
(* MODULE_FINI pops every record, releases its ports, unmaps, disables     *)
(* bus mastering and releases the PCI device.                              *)
(*                                                                         *)
(* portInit and portRelease live in port.c, outside src/: they are taken   *)
(* from the spec (4.4) as "append the port, start its engine" and "stop    *)
(* the engine, free the port".                                             *)
(***************************************************************************)
EXTENDS Naturals, Sequences, SequencesExt, FiniteSets

CONSTANTS
  NumDevs,      \* PCI functions the PCI subsystem enumerates, in order 1..NumDevs
  PortIdx,      \* port numbers that may be implemented (0..31 in the code)
  GarbageMax    \* largest value an uninitialised numPorts is taken to hold

ASSUME NumDevs \in Nat \ {0}
ASSUME PortIdx \subseteq 0..31 /\ PortIdx # {}
ASSUME GarbageMax \in Nat

Devs == 1..NumDevs

NULL == 0     \* the null AHCIController pointer

VARIABLES
  hw,           \* per PCI function, fixed: [ahci, s64a |-> BOOLEAN, pi |-> SUBSET PortIdx]
  regs,         \* per function: BOHC.BOS, BOHC.OOS, GHC.HR, GHC.AE
  phase,        \* "enum", "init", "running", "fini", "done"
  enumIdx,      \* next function pciEnumDevices hands to ahciEnumerator
  firstCtrl,    \* head of the controller list, or NULL
  lastCtrl,     \* tail of the controller list, or NULL
  nextCtrl,     \* ctrl->next of every record
  numCtrlFound,
  ctrl,         \* the pointer of MODULE_INIT's for loop
  ctl,          \* per function: the AHCIController record and what it holds
  portEng,      \* [Devs \X PortIdx -> "none" | "started" | "stopped"]
  wild          \* portRelease was called on a pointer no portInit stored

vars == <<hw, regs, phase, enumIdx, firstCtrl, lastCtrl, nextCtrl, numCtrlFound,
          ctrl, ctl, portEng, wild>>

Steps == {"absent", "listed", "mapped", "handoff", "reset", "ports", "ready",
          "skipped", "freed"}

Implemented(c) == SetToSortSeq(hw[c].pi, <)

\* The list read from firstCtrl along next, at most NumDevs records.
RECURSIVE ListFrom(_, _)
ListFrom(p, k) ==
  IF p = NULL \/ k = 0 THEN <<>> ELSE <<p>> \o ListFrom(nextCtrl[p], k - 1)

CtrlList == ListFrom(firstCtrl, NumDevs)

Current == ctrl

-----------------------------------------------------------------------------
(* ahciEnumerator, called by pciEnumDevices for each PCI function          *)

\* Mutant: the else branch moves lastCtrl without linking the old tail.
EnumerateNoLink ==
  /\ phase = "enum"
  /\ enumIdx <= NumDevs
  /\ LET d == enumIdx IN
       IF hw[d].ahci
       THEN /\ nextCtrl' = [nextCtrl EXCEPT ![d] = NULL]
            /\ firstCtrl' = IF lastCtrl = NULL THEN d ELSE firstCtrl
            /\ lastCtrl' = d
            /\ numCtrlFound' = numCtrlFound + 1
            /\ \E garbage \in 0..GarbageMax :
                 ctl' = [ctl EXCEPT ![d].step = "listed", ![d].claimed = TRUE,
                                    ![d].numPorts = garbage]
       ELSE UNCHANGED <<firstCtrl, lastCtrl, nextCtrl, numCtrlFound, ctl>>
  /\ enumIdx' = enumIdx + 1
  /\ UNCHANGED <<hw, regs, phase, ctrl, portEng, wild>>

\* A match allocates an uninitialised record (NEW: numPorts holds whatever
\* the heap held), sets its next to NULL, links it after lastCtrl (or makes
\* it the whole list) and claims the device (return 1).
Enumerate ==
  /\ phase = "enum"
  /\ enumIdx <= NumDevs
  /\ LET d == enumIdx IN
       IF hw[d].ahci
       THEN /\ nextCtrl' = IF lastCtrl = NULL
                           THEN [nextCtrl EXCEPT ![d] = NULL]
                           ELSE [nextCtrl EXCEPT ![d] = NULL, ![lastCtrl] = d]
            /\ firstCtrl' = IF lastCtrl = NULL THEN d ELSE firstCtrl
            /\ lastCtrl' = d
            /\ numCtrlFound' = numCtrlFound + 1
            /\ \E garbage \in 0..GarbageMax :
                 ctl' = [ctl EXCEPT ![d].step = "listed", ![d].claimed = TRUE,
                                    ![d].numPorts = garbage]
       ELSE UNCHANGED <<firstCtrl, lastCtrl, nextCtrl, numCtrlFound, ctl>>
  /\ enumIdx' = enumIdx + 1
  /\ UNCHANGED <<hw, regs, phase, ctrl, portEng, wild>>

EnumDone ==
  /\ phase = "enum"
  /\ enumIdx > NumDevs
  /\ phase' = "init"
  /\ ctrl' = firstCtrl
  /\ UNCHANGED <<hw, regs, enumIdx, firstCtrl, lastCtrl, nextCtrl, numCtrlFound,
                 ctl, portEng, wild>>

-----------------------------------------------------------------------------
(* ahciInit(ctrl) for the ctrl of the loop over firstCtrl .. next       *)

\* ctrl->regs = mapPhysMemory(bar[5] & ~0xF, ...)
MapRegs ==
  /\ phase = "init" /\ ctrl # NULL
  /\ ctl[Current].step = "listed"
  /\ ctl' = [ctl EXCEPT ![Current].step = "mapped", ![Current].mapped = @ + 1]
  /\ UNCHANGED <<hw, regs, phase, enumIdx, firstCtrl, lastCtrl, nextCtrl, numCtrlFound, ctrl,
                 portEng, wild>>

\* No CAP.S64A: unmap and return (the record stays on the list).
\* Otherwise: ctrl->regs->bohc |= BOHC_OOS.
CheckS64A ==
  /\ phase = "init" /\ ctrl # NULL
  /\ ctl[Current].step = "mapped"
  /\ IF hw[Current].s64a
     THEN /\ regs' = [regs EXCEPT ![Current].oos = TRUE]
          /\ ctl' = [ctl EXCEPT ![Current].step = "handoff"]
          /\ UNCHANGED ctrl
     ELSE /\ ctl' = [ctl EXCEPT ![Current].step = "skipped",
                                ![Current].mapped = @ - 1]
          /\ ctrl' = nextCtrl[ctrl]
          /\ UNCHANGED regs
  /\ UNCHANGED <<hw, phase, enumIdx, firstCtrl, lastCtrl, nextCtrl, numCtrlFound, portEng, wild>>

\* Mutant: the handoff spin tests the bit the OS itself set.
HandoffWaitOOS ==
  /\ phase = "init" /\ ctrl # NULL
  /\ ctl[Current].step = "handoff"
  /\ ~regs[Current].oos
  /\ ctl' = [ctl EXCEPT ![Current].step = "reset", ![Current].busMaster = TRUE,
                        ![Current].numPorts = 0]
  /\ regs' = [regs EXCEPT ![Current].hr = TRUE, ![Current].ae = FALSE]
  /\ UNCHANGED <<hw, phase, enumIdx, firstCtrl, lastCtrl, nextCtrl, numCtrlFound, ctrl, portEng, wild>>

\* Mutant: the record's port count is not reset before the port loop.
HandoffNoCountReset ==
  /\ phase = "init" /\ ctrl # NULL
  /\ ctl[Current].step = "handoff"
  /\ ~regs[Current].bos
  /\ ctl' = [ctl EXCEPT ![Current].step = "reset", ![Current].busMaster = TRUE]
  /\ regs' = [regs EXCEPT ![Current].hr = TRUE, ![Current].ae = FALSE]
  /\ UNCHANGED <<hw, phase, enumIdx, firstCtrl, lastCtrl, nextCtrl, numCtrlFound, ctrl, portEng, wild>>

\* while (bohc & BOHC_BOS); pciSetBusMastering(1); numPorts = 0;
\* ghc = GHC_HR
Handoff ==
  /\ phase = "init" /\ ctrl # NULL
  /\ ctl[Current].step = "handoff"
  /\ ~regs[Current].bos
  /\ ctl' = [ctl EXCEPT ![Current].step = "reset", ![Current].busMaster = TRUE,
                        ![Current].numPorts = 0]
  /\ regs' = [regs EXCEPT ![Current].hr = TRUE, ![Current].ae = FALSE]
  /\ UNCHANGED <<hw, phase, enumIdx, firstCtrl, lastCtrl, nextCtrl, numCtrlFound, ctrl, portEng, wild>>

\* Mutant: no spin on GHC.HR before enabling AHCI mode.
ResetNoWait ==
  /\ phase = "init" /\ ctrl # NULL
  /\ ctl[Current].step = "reset"
  /\ regs' = [regs EXCEPT ![Current].ae = TRUE]
  /\ ctl' = [ctl EXCEPT ![Current].step = "ports"]
  /\ UNCHANGED <<hw, phase, enumIdx, firstCtrl, lastCtrl, nextCtrl, numCtrlFound, ctrl, portEng, wild>>

\* while (ghc & GHC_HR); ghc = GHC_AE
ResetDone ==
  /\ phase = "init" /\ ctrl # NULL
  /\ ctl[Current].step = "reset"
  /\ ~regs[Current].hr
  /\ regs' = [regs EXCEPT ![Current].ae = TRUE]
  /\ ctl' = [ctl EXCEPT ![Current].step = "ports"]
  /\ UNCHANGED <<hw, phase, enumIdx, firstCtrl, lastCtrl, nextCtrl, numCtrlFound, ctrl, portEng, wild>>

\* Mutant: the port number recorded one above the PI bit tested.
InitPortsShifted ==
  /\ phase = "init" /\ ctrl # NULL
  /\ ctl[Current].step = "ports"
  /\ ctl' = [ctl EXCEPT ![Current].step = "ready",
                        ![Current].ports = @ \o [k \in DOMAIN Implemented(Current) |->
                                                    Implemented(Current)[k] + 1],
                        ![Current].numPorts = @ + Cardinality(hw[Current].pi)]
  /\ portEng' = [p \in DOMAIN portEng |->
                   IF p[1] = Current /\ p[2] \in hw[Current].pi
                   THEN "started" ELSE portEng[p]]
  /\ ctrl' = nextCtrl[ctrl]
  /\ UNCHANGED <<hw, regs, phase, enumIdx, firstCtrl, lastCtrl, nextCtrl, numCtrlFound, wild>>

\* for (i = 0; i < 32; i++) if (pi & (1 << i)) portInit(ctrl, i);
\* portInit stores the port at ctrl->ports[ctrl->numPorts++] and starts it.
InitPorts ==
  /\ phase = "init" /\ ctrl # NULL
  /\ ctl[Current].step = "ports"
  /\ ctl' = [ctl EXCEPT ![Current].step = "ready",
                        ![Current].ports = @ \o Implemented(Current),
                        ![Current].numPorts = @ + Cardinality(hw[Current].pi)]
  /\ portEng' = [p \in DOMAIN portEng |->
                   IF p[1] = Current /\ p[2] \in hw[Current].pi
                   THEN "started" ELSE portEng[p]]
  /\ ctrl' = nextCtrl[ctrl]
  /\ UNCHANGED <<hw, regs, phase, enumIdx, firstCtrl, lastCtrl, nextCtrl, numCtrlFound, wild>>

\* The for loop over the list ends; MODULE_INIT returns MODINIT_OK.
InitDone ==
  /\ phase = "init"
  /\ ctrl = NULL
  /\ phase' = "running"
  /\ UNCHANGED <<hw, regs, enumIdx, firstCtrl, lastCtrl, nextCtrl, numCtrlFound, ctrl, ctl,
                 portEng, wild>>

-----------------------------------------------------------------------------
(* The firmware and the HBA                                                *)

\* The BIOS gives up ownership once the OS asked for it.
FirmwareRelease(d) ==
  /\ regs[d].oos /\ regs[d].bos
  /\ regs' = [regs EXCEPT ![d].bos = FALSE]
  /\ UNCHANGED <<hw, phase, enumIdx, firstCtrl, lastCtrl, nextCtrl, numCtrlFound, ctrl, ctl,
                 portEng, wild>>

\* The HBA finishes its reset and clears GHC.HR.
HbaResetDone(d) ==
  /\ regs[d].hr
  /\ regs' = [regs EXCEPT ![d].hr = FALSE]
  /\ UNCHANGED <<hw, phase, enumIdx, firstCtrl, lastCtrl, nextCtrl, numCtrlFound, ctrl, ctl,
                 portEng, wild>>

-----------------------------------------------------------------------------
(* MODULE_FINI                                                             *)

Unload ==
  /\ phase = "running"
  /\ phase' = "fini"
  /\ UNCHANGED <<hw, regs, enumIdx, firstCtrl, lastCtrl, nextCtrl, numCtrlFound, ctrl, ctl,
                 portEng, wild>>

\* The ports ctrl->ports[0 .. numPorts-1] that portRelease is called on;
\* an index past what portInit stored reads an uninitialised pointer.
Released(c, n) == {ctl[c].ports[k] : k \in 1..(IF n < Len(ctl[c].ports) THEN n ELSE Len(ctl[c].ports))}

\* Mutant: the release loop stops one port short.
FiniShort ==
  /\ phase = "fini"
  /\ firstCtrl # NULL
  /\ LET c == firstCtrl
         n == ctl[c].numPorts - 1 IN
       /\ portEng' = [p \in DOMAIN portEng |->
                        IF p[1] = c /\ p[2] \in Released(c, n)
                        THEN "stopped" ELSE portEng[p]]
       /\ wild' = (wild \/ n > Len(ctl[c].ports))
       /\ ctl' = [ctl EXCEPT ![c].mapped = @ - 1, ![c].busMaster = FALSE,
                             ![c].claimed = FALSE, ![c].step = "freed"]
  /\ firstCtrl' = nextCtrl[firstCtrl]
  /\ UNCHANGED <<hw, regs, phase, enumIdx, lastCtrl, nextCtrl, numCtrlFound, ctrl>>

\* ctrl = firstCtrl; firstCtrl = ctrl->next; portRelease each port;
\* unmapPhysMemory; pciSetBusMastering(0); pciReleaseDevice; kfree.
Fini ==
  /\ phase = "fini"
  /\ firstCtrl # NULL
  /\ LET c == firstCtrl
         n == ctl[c].numPorts IN
       /\ portEng' = [p \in DOMAIN portEng |->
                        IF p[1] = c /\ p[2] \in Released(c, n)
                        THEN "stopped" ELSE portEng[p]]
       /\ wild' = (wild \/ n > Len(ctl[c].ports))
       /\ ctl' = [ctl EXCEPT ![c].mapped = @ - 1, ![c].busMaster = FALSE,
                             ![c].claimed = FALSE, ![c].step = "freed"]
  /\ firstCtrl' = nextCtrl[firstCtrl]
  /\ UNCHANGED <<hw, regs, phase, enumIdx, lastCtrl, nextCtrl, numCtrlFound, ctrl>>

\* while (firstCtrl != NULL) ends; the module is gone.
FiniDone ==
  /\ phase = "fini"
  /\ firstCtrl = NULL
  /\ phase' = "done"
  /\ UNCHANGED <<hw, regs, enumIdx, firstCtrl, lastCtrl, nextCtrl, numCtrlFound, ctrl, ctl,
                 portEng, wild>>

-----------------------------------------------------------------------------

\* Any mix of PCI functions, capabilities and implemented ports; the BIOS
\* may or may not own each controller when the module loads.
Init ==
  /\ hw \in [Devs -> [ahci : BOOLEAN, s64a : BOOLEAN, pi : SUBSET PortIdx]]
  /\ regs \in [Devs -> [bos : BOOLEAN, oos : {FALSE}, hr : {FALSE}, ae : {FALSE}]]
  /\ phase = "enum"
  /\ enumIdx = 1
  /\ firstCtrl = NULL /\ lastCtrl = NULL
  /\ nextCtrl = [d \in Devs |-> NULL]
  /\ numCtrlFound = 0
  /\ ctrl = NULL
  /\ ctl = [d \in Devs |-> [step |-> "absent", mapped |-> 0, numPorts |-> 0,
                            ports |-> <<>>, busMaster |-> FALSE, claimed |-> FALSE]]
  /\ portEng = [p \in Devs \X PortIdx |-> "none"]
  /\ wild = FALSE

Next ==
  \/ Enumerate \/ EnumDone
  \/ MapRegs \/ CheckS64A \/ Handoff \/ ResetDone \/ InitPorts \/ InitDone
  \/ \E d \in Devs : FirmwareRelease(d) \/ HbaResetDone(d)
  \/ Unload \/ Fini \/ FiniDone

\* MODULE_INIT runs to the end on the loading thread; the BIOS hands over and
\* the HBA completes its reset in bounded time (the code spins on both with
\* no deadline, so it relies on this).  Unloading is up to the user.
Fairness ==
  /\ WF_vars(Enumerate \/ EnumDone \/ MapRegs \/ CheckS64A \/ Handoff
             \/ ResetDone \/ InitPorts \/ InitDone)
  /\ \A d \in Devs : WF_vars(FirmwareRelease(d)) /\ WF_vars(HbaResetDone(d))
  /\ WF_vars(Fini \/ FiniDone)

Spec == Init /\ [][Next]_vars /\ Fairness

-----------------------------------------------------------------------------
(* Properties                                                              *)

TypeOK ==
  /\ hw \in [Devs -> [ahci : BOOLEAN, s64a : BOOLEAN, pi : SUBSET PortIdx]]
  /\ regs \in [Devs -> [bos : BOOLEAN, oos : BOOLEAN, hr : BOOLEAN, ae : BOOLEAN]]
  /\ phase \in {"enum", "init", "running", "fini", "done"}
  /\ enumIdx \in 1..NumDevs + 1
  /\ {firstCtrl, lastCtrl, ctrl} \subseteq Devs \cup {NULL}
  /\ nextCtrl \in [Devs -> Devs \cup {NULL}]
  /\ numCtrlFound \in 0..NumDevs
  /\ \A d \in Devs : /\ ctl[d].step \in Steps
                     /\ ctl[d].ports \in Seq(PortIdx)
                     /\ ctl[d].busMaster \in BOOLEAN /\ ctl[d].claimed \in BOOLEAN
  /\ portEng \in [Devs \X PortIdx -> {"none", "started", "stopped"}]
  /\ wild \in BOOLEAN

\* The list that ahciEnumerator builds through firstCtrl, lastCtrl and the
\* next pointers holds exactly the AHCI-class functions, each once, in the
\* order the PCI subsystem enumerated them, with lastCtrl at its tail and
\* numCtrlFound counting them, once pciEnumDevices has returned and until
\* unload starts; MODULE_FINI then pops it from the head, so the list is
\* always a suffix of that order and ends in NULL.
Discovered == SelectSeq([i \in Devs |-> i], LAMBDA d : hw[d].ahci)

RegistryInDiscoveryOrder ==
  /\ phase \in {"init", "running"} =>
       /\ CtrlList = Discovered
       /\ numCtrlFound = Len(CtrlList)
       /\ lastCtrl = IF CtrlList = <<>> THEN NULL ELSE Last(CtrlList)
  /\ phase \in {"init", "running", "fini", "done"} =>
       /\ IsSuffix(CtrlList, Discovered)
       /\ CtrlList # <<>> => nextCtrl[Last(CtrlList)] = NULL

\* A controller that finished ahciInit owns exactly one started port record
\* per bit of PI, in ctrl->ports[0 .. numPorts-1]: numPorts was reset before
\* the port loop although NEW left it uninitialised.
PortsMatchImplemented ==
  \A d \in Devs : ctl[d].step = "ready" =>
    /\ ctl[d].numPorts = Len(ctl[d].ports)
    /\ ToSet(ctl[d].ports) = hw[d].pi
    /\ \A i \in hw[d].pi : portEng[d, i] = "started"

\* No port engine is started before the BIOS has handed the controller over
\* and the HBA reset has completed with AHCI mode enabled.
NoPortBeforeHandoffAndReset ==
  \A d \in Devs, i \in PortIdx : portEng[d, i] # "none" =>
    /\ regs[d].oos /\ ~regs[d].bos /\ ~regs[d].hr /\ regs[d].ae

\* After MODULE_FINI every controller that ahciInit brought up has been
\* torn down completely: all its ports stopped, its registers unmapped, bus
\* mastering off and the PCI device released.
UnloadReleasesInitialised ==
  phase = "done" =>
    \A d \in Devs : hw[d].ahci /\ hw[d].s64a =>
      /\ ctl[d].mapped = 0 /\ ~ctl[d].busMaster /\ ~ctl[d].claimed
      /\ \A i \in hw[d].pi : portEng[d, i] = "stopped"

\* MODULE_INIT returns: every handoff and reset spin ends.
ModuleInitCompletes == phase = "enum" ~> phase = "running"

\* MODULE_FINI only undoes what MODULE_INIT did: it never unmaps registers
\* that are not mapped and never passes portRelease a port portInit did not
\* create.
FiniReleasesOnlyAcquired ==
  /\ \A d \in Devs : ctl[d].mapped >= 0
  /\ ~wild

=============================================================================
