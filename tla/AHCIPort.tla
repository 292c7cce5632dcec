------------------------------ MODULE AHCIPort ------------------------------
(***************************************************************************)
(* One AHCI port of the sdahci driver (src/modules/sdahci/sdahci.c):       *)
(* command engine control (ahciStopCmd, ahciStartCmd) and the polling      *)
(* command issuance protocol (ahciIssueCmd), run by kernel threads that    *)
(* serialise on the port's semaphore, against an HBA and drive that set    *)
(* and clear the read-only register bits on their own.                     *)
(*                                                                         *)
(* Registers are abstracted to the bits the code tests:                    *)
(*   cmd.st, cmd.fre  PxCMD.ST / PxCMD.FRE (written by software)           *)
(*   cmd.cr, cmd.fr   PxCMD.CR / PxCMD.FR  (reported by the HBA)           *)
(*   ci               bit 0 of PxCI (slot 0 outstanding)                   *)
(*   isFatal          PxIS & IS_ERR_FATAL                                  *)
(*   serr             PxSERR # 0                                           *)
(*   tfd.bsy, tfd.err PxTFD & (STS_BSY|STS_DRQ), PxTFD & STS_ERR           *)
(* Wall-clock time is the per-thread count of ticks since startTime; the   *)
(* 8-second bound is Timeout ticks, compared with > as the code does.      *)
(***************************************************************************)
EXTENDS Naturals, FiniteSets

CONSTANTS
  Threads,   \* kernel threads issuing commands to this port
  Timeout,   \* ticks standing for 8*NANO_PER_SEC
  NULL       \* no semaphore holder

ASSUME Threads # {} /\ NULL \notin Threads
ASSUME Timeout \in Nat \ {0}

VARIABLES
  cmd,       \* [st, fre, cr, fr |-> BOOLEAN]
  ci,        \* PxCI bit 0
  isFatal,   \* fatal error class in PxIS
  serr,      \* PxSERR non-zero
  tfd,       \* [bsy, err |-> BOOLEAN]
  sem,       \* holder of the port semaphore, or NULL
  pc,        \* control point of each thread
  elapsed,   \* getNanotime() - startTime of each thread, in ticks, capped
  result,    \* value the last ahciIssueCmd returned: "none", "ok", "eio"
  dev        \* history: what the drive did with the current command

vars == <<cmd, ci, isFatal, serr, tfd, sem, pc, elapsed, result, dev>>

PCs == {"idle", "issue", "poll", "drain", "stop", "stopWaitCR", "stopWaitFR",
        "startWaitCR", "clearSerr", "release"}

DevStates == {"idle", "pending", "ok", "err", "fatal", "aborted"}

\* Mutant: the 8-second comparison off by one tick.
TimedOutLate(t) == elapsed[t] > Timeout + 1

TimedOut(t) == elapsed[t] > Timeout

-----------------------------------------------------------------------------
(* Caller side: the port semaphore held across one ahciIssueCmd.           *)

Acquire(t) ==
  /\ pc[t] = "idle"
  /\ sem = NULL
  /\ sem' = t
  /\ pc' = [pc EXCEPT ![t] = "issue"]
  /\ result' = [result EXCEPT ![t] = "none"]
  /\ UNCHANGED <<cmd, ci, isFatal, serr, tfd, elapsed, dev>>

Release(t) ==
  /\ pc[t] = "release"
  /\ sem' = NULL
  /\ pc' = [pc EXCEPT ![t] = "idle"]
  /\ UNCHANGED <<cmd, ci, isFatal, serr, tfd, elapsed, result, dev>>

-----------------------------------------------------------------------------
(* ahciIssueCmd                                                            *)

\* Mutant: submission without acknowledging the stale PxIS first.
IssueKeepingStatus(t) ==
  /\ pc[t] = "issue"
  /\ elapsed' = [elapsed EXCEPT ![t] = 0]
  /\ ci' = TRUE
  /\ dev' = "pending"
  /\ pc' = [pc EXCEPT ![t] = "poll"]
  /\ UNCHANGED <<cmd, isFatal, serr, tfd, sem, result>>

\* startTime = getNanotime(); port->is = port->is; port->ci = 1;
Issue(t) ==
  /\ pc[t] = "issue"
  /\ elapsed' = [elapsed EXCEPT ![t] = 0]
  /\ isFatal' = FALSE
  /\ ci' = TRUE
  /\ dev' = "pending"
  /\ pc' = [pc EXCEPT ![t] = "poll"]
  /\ UNCHANGED <<cmd, serr, tfd, sem, result>>

\* One pass of the while(1) loop that leaves it: the timeout test first,
\* then the fatal-error test, then completion; any other pass is a stutter.
Poll(t) ==
  /\ pc[t] = "poll"
  /\ \/ /\ TimedOut(t)
        /\ pc' = [pc EXCEPT ![t] = "stop"]
     \/ /\ ~TimedOut(t) /\ isFatal
        /\ pc' = [pc EXCEPT ![t] = "stop"]
     \/ /\ ~TimedOut(t) /\ ~isFatal /\ ~ci
        /\ pc' = [pc EXCEPT ![t] = "drain"]
  /\ UNCHANGED <<cmd, ci, isFatal, serr, tfd, sem, elapsed, result, dev>>

\* Mutant: the busy/DRQ drain without the 8-second bound.
DrainUnbounded(t) ==
  /\ pc[t] = "drain"
  /\ ~tfd.bsy
  /\ result' = [result EXCEPT ![t] = IF tfd.err THEN "eio" ELSE "ok"]
  /\ pc' = [pc EXCEPT ![t] = "release"]
  /\ UNCHANGED <<cmd, ci, isFatal, serr, tfd, sem, elapsed, dev>>

\* Mutant: the STS_ERR test after the drain left out.
DrainIgnoresErr(t) ==
  /\ pc[t] = "drain"
  /\ \/ /\ tfd.bsy /\ TimedOut(t)
        /\ pc' = [pc EXCEPT ![t] = "stop"]
        /\ UNCHANGED result
     \/ /\ ~tfd.bsy
        /\ result' = [result EXCEPT ![t] = "ok"]
        /\ pc' = [pc EXCEPT ![t] = "release"]
  /\ UNCHANGED <<cmd, ci, isFatal, serr, tfd, sem, elapsed, dev>>

\* while (port->tfd & busy) { timeout test }; then the STS_ERR test.
Drain(t) ==
  /\ pc[t] = "drain"
  /\ \/ /\ tfd.bsy /\ TimedOut(t)
        /\ pc' = [pc EXCEPT ![t] = "stop"]
        /\ UNCHANGED result
     \/ /\ ~tfd.bsy
        /\ result' = [result EXCEPT ![t] = IF tfd.err THEN "eio" ELSE "ok"]
        /\ pc' = [pc EXCEPT ![t] = "release"]
  /\ UNCHANGED <<cmd, ci, isFatal, serr, tfd, sem, elapsed, dev>>

-----------------------------------------------------------------------------
(* Recovery: ahciStopCmd; ahciStartCmd; port->serr = port->serr; EIO       *)

\* ahciStopCmd: port->cmd &= ~CMD_ST.  Writing ST from 1 to 0 makes the HBA
\* clear PxCI, which aborts the outstanding command.
StopCmd(t) ==
  /\ pc[t] = "stop"
  /\ cmd' = [cmd EXCEPT !.st = FALSE]
  /\ ci' = (ci /\ ~cmd.st)
  /\ dev' = IF cmd.st /\ dev = "pending" THEN "aborted" ELSE dev
  /\ pc' = [pc EXCEPT ![t] = "stopWaitCR"]
  /\ UNCHANGED <<isFatal, serr, tfd, sem, elapsed, result>>

\* while (port->cmd & CMD_CR); port->cmd &= ~CMD_FRE
StopWaitCR(t) ==
  /\ pc[t] = "stopWaitCR"
  /\ ~cmd.cr
  /\ cmd' = [cmd EXCEPT !.fre = FALSE]
  /\ pc' = [pc EXCEPT ![t] = "stopWaitFR"]
  /\ UNCHANGED <<ci, isFatal, serr, tfd, sem, elapsed, result, dev>>

\* while (port->cmd & CMD_FR);
StopWaitFR(t) ==
  /\ pc[t] = "stopWaitFR"
  /\ ~cmd.fr
  /\ pc' = [pc EXCEPT ![t] = "startWaitCR"]
  /\ UNCHANGED <<cmd, ci, isFatal, serr, tfd, sem, elapsed, result, dev>>

\* Mutant: ahciStartCmd that sets FRE but forgets ST.
StartCmdNoST(t) ==
  /\ pc[t] = "startWaitCR"
  /\ ~cmd.cr
  /\ cmd' = [cmd EXCEPT !.fre = TRUE]
  /\ pc' = [pc EXCEPT ![t] = "clearSerr"]
  /\ UNCHANGED <<ci, isFatal, serr, tfd, sem, elapsed, result, dev>>

\* ahciStartCmd: while (port->cmd & CMD_CR); cmd |= CMD_FRE; cmd |= CMD_ST
StartCmd(t) ==
  /\ pc[t] = "startWaitCR"
  /\ ~cmd.cr
  /\ cmd' = [cmd EXCEPT !.fre = TRUE, !.st = TRUE]
  /\ pc' = [pc EXCEPT ![t] = "clearSerr"]
  /\ UNCHANGED <<ci, isFatal, serr, tfd, sem, elapsed, result, dev>>

\* Mutant: recovery that returns EIO without the PxSERR write-back.
ClearSerrSkipped(t) ==
  /\ pc[t] = "clearSerr"
  /\ result' = [result EXCEPT ![t] = "eio"]
  /\ pc' = [pc EXCEPT ![t] = "release"]
  /\ UNCHANGED <<cmd, ci, isFatal, serr, tfd, sem, elapsed, dev>>

\* port->serr = port->serr (write-1-to-clear); return EIO
ClearSerr(t) ==
  /\ pc[t] = "clearSerr"
  /\ serr' = FALSE
  /\ result' = [result EXCEPT ![t] = "eio"]
  /\ pc' = [pc EXCEPT ![t] = "release"]
  /\ UNCHANGED <<cmd, ci, isFatal, tfd, sem, elapsed, dev>>

\* The monotonic clock advances while a thread is timing a wait.
Tick(t) ==
  /\ pc[t] \in {"poll", "drain"}
  /\ ~TimedOut(t)
  /\ elapsed' = [elapsed EXCEPT ![t] = @ + 1]
  /\ UNCHANGED <<cmd, ci, isFatal, serr, tfd, sem, pc, result, dev>>

-----------------------------------------------------------------------------
(* The HBA and the drive.                                                  *)

\* CR follows ST.
HbaRun ==
  /\ cmd.st /\ ~cmd.cr
  /\ cmd' = [cmd EXCEPT !.cr = TRUE]
  /\ UNCHANGED <<ci, isFatal, serr, tfd, sem, pc, elapsed, result, dev>>

HbaHalt ==
  /\ ~cmd.st /\ cmd.cr
  /\ cmd' = [cmd EXCEPT !.cr = FALSE]
  /\ UNCHANGED <<ci, isFatal, serr, tfd, sem, pc, elapsed, result, dev>>

\* FR follows FRE.
HbaFis ==
  /\ cmd.fre # cmd.fr
  /\ cmd' = [cmd EXCEPT !.fr = cmd.fre]
  /\ UNCHANGED <<ci, isFatal, serr, tfd, sem, pc, elapsed, result, dev>>

\* The drive finishes the command, possibly still busy, possibly in error.
DevComplete ==
  /\ ci /\ cmd.cr /\ dev = "pending"
  /\ ci' = FALSE
  /\ \E bsy, err \in BOOLEAN :
       /\ tfd' = [bsy |-> bsy, err |-> err]
       /\ dev' = IF err THEN "err" ELSE "ok"
  /\ UNCHANGED <<cmd, isFatal, serr, sem, pc, elapsed, result>>

\* BSY/DRQ drop some time after completion (or never: a hung drive).
DevReady ==
  /\ tfd.bsy
  /\ tfd' = [tfd EXCEPT !.bsy = FALSE]
  /\ UNCHANGED <<cmd, ci, isFatal, serr, sem, pc, elapsed, result, dev>>

\* A fatal error while the command runs; the slot stays issued.
HbaFatal ==
  /\ ci /\ cmd.cr /\ dev = "pending"
  /\ isFatal' = TRUE
  /\ serr' = TRUE
  /\ dev' = "fatal"
  /\ UNCHANGED <<cmd, ci, tfd, sem, pc, elapsed, result>>

-----------------------------------------------------------------------------

\* After portInit: engine started and running, no command outstanding.
Init ==
  /\ cmd = [st |-> TRUE, fre |-> TRUE, cr |-> TRUE, fr |-> TRUE]
  /\ ci = FALSE
  /\ isFatal = FALSE
  /\ serr = FALSE
  /\ tfd = [bsy |-> FALSE, err |-> FALSE]
  /\ sem = NULL
  /\ pc = [t \in Threads |-> "idle"]
  /\ elapsed = [t \in Threads |-> 0]
  /\ result = [t \in Threads |-> "none"]
  /\ dev = "idle"

ThreadStep(t) ==
  \/ Acquire(t) \/ Issue(t) \/ Poll(t) \/ Drain(t)
  \/ StopCmd(t) \/ StopWaitCR(t) \/ StopWaitFR(t) \/ StartCmd(t)
  \/ ClearSerr(t) \/ Release(t)

Hardware == HbaRun \/ HbaHalt \/ HbaFis \/ DevComplete \/ DevReady \/ HbaFatal

Next ==
  \/ \E t \in Threads : ThreadStep(t) \/ Tick(t)
  \/ Hardware

\* The kernel is preemptive, so a spinning thread keeps getting the CPU; the
\* clock keeps running; the HBA reflects ST and FRE in CR and FR within its
\* own latency (sdahci.c relies on this with unbounded spins).  Nothing
\* forces the drive to complete a command or to drop BSY.
Fairness ==
  /\ \A t \in Threads :
       /\ WF_vars(Issue(t) \/ Poll(t) \/ Drain(t) \/ StopCmd(t))
       /\ WF_vars(StopWaitCR(t) \/ StopWaitFR(t) \/ StartCmd(t))
       /\ WF_vars(ClearSerr(t) \/ Release(t))
       /\ WF_vars(Tick(t))
  /\ WF_vars(HbaRun) /\ WF_vars(HbaHalt) /\ WF_vars(HbaFis)

Spec == Init /\ [][Next]_vars /\ Fairness

-----------------------------------------------------------------------------
(* Properties                                                              *)

TypeOK ==
  /\ cmd \in [st : BOOLEAN, fre : BOOLEAN, cr : BOOLEAN, fr : BOOLEAN]
  /\ ci \in BOOLEAN /\ isFatal \in BOOLEAN /\ serr \in BOOLEAN
  /\ tfd \in [bsy : BOOLEAN, err : BOOLEAN]
  /\ sem \in Threads \cup {NULL}
  /\ pc \in [Threads -> PCs]
  /\ elapsed \in [Threads -> 0..Timeout + 1]
  /\ result \in [Threads -> {"none", "ok", "eio"}]
  /\ dev \in DevStates

\* A command is only ever submitted (ahciIssueCmd's port->ci = 1) to a port
\* whose command engine is started: the recovery path of the previous
\* command must have run ahciStartCmd to completion first.
NoIssueToStoppedEngine ==
  \A t \in Threads : pc[t] = "issue" => cmd.st /\ cmd.fre

\* When ahciIssueCmd returns after a timeout or a fatal error, the recovery
\* has run the stop/start cycle and the SERR write-back, so the next caller
\* finds the engine started and PxSERR cleared.  On the success path the
\* code never clears SERR (lines 116-121); the model's HBA sets SERR only
\* with a fatal error, so there ~serr is an assumption about the HBA.
PortCleanOnReturn ==
  \A t \in Threads : pc[t] = "release" => cmd.st /\ cmd.fre /\ ~serr

\* The value ahciIssueCmd returns tells the truth about the command it
\* submitted: success only if the drive completed it without error, and EIO
\* only if the drive failed it, the HBA raised a fatal error for it, or the
\* 8-second bound expired.  A stale PxIS, PxCI or PxTFD from an earlier
\* command, or another thread's recovery, would break this.
ResultFaithful ==
  \A t \in Threads : pc[t] = "release" =>
    /\ result[t] = "ok" => dev = "ok"
    /\ result[t] = "eio" => dev \in {"err", "fatal"} \/ TimedOut(t)

\* Every submitted command returns, even when the drive never completes it
\* or never drops BSY: both waits of ahciIssueCmd are bounded.
IssueTerminates ==
  \A t \in Threads : pc[t] = "issue" ~> pc[t] = "release"

-----------------------------------------------------------------------------
(* Refinement of the caller's view, AHCICommand.  A thread between the     *)
(* submission and the return is "submitted"; the drive's outcome is the    *)
(* history variable dev once the holder has submitted.                     *)

Status(t) ==
  CASE pc[t] = "idle"    -> "idle"
    [] pc[t] = "issue"   -> "acquired"
    [] pc[t] = "release" -> "returned"
    [] OTHER             -> "submitted"

Abs == INSTANCE AHCICommand WITH
         owner   <- sem,
         status  <- [t \in Threads |-> Status(t)],
         outcome <- IF sem = NULL \/ pc[sem] = "issue" THEN "idle" ELSE dev,
         result  <- result

\* ahciIssueCmd under the port semaphore implements the caller's contract:
\* one holder at a time, a result that claims success only when the drive
\* succeeded, and a return and release for every submission.
Refinement == Abs!Spec

=============================================================================
