----------------------------- MODULE AHCICommand -----------------------------
(***************************************************************************)
(* What one port of the sdahci driver promises its callers (spec §4.3,    *)
(* §5), with registers, polling and recovery abstracted away: threads take *)
(* the port one at a time, submit one command, and get back a result that  *)
(* does not claim more than the drive did.  The drive settles the command  *)
(* as ok, err or fatal, or never; the driver may abandon it (aborted).     *)
(* "eio" may be returned whatever the drive did, because the 8-second      *)
(* bound can expire after the drive finished; "ok" only if it succeeded.   *)
(* AHCIPort refines this module.                                           *)
(***************************************************************************)
CONSTANTS Threads, NULL

VARIABLES
  owner,     \* the thread using the port, or NULL
  status,    \* per thread: "idle", "acquired", "submitted", "returned"
  outcome,   \* what the drive did with the command in flight
  result     \* per thread: what the last call returned

avars == <<owner, status, outcome, result>>

Init ==
  /\ owner = NULL
  /\ status = [t \in Threads |-> "idle"]
  /\ outcome = "idle"
  /\ result = [t \in Threads |-> "none"]

Acquire(t) ==
  /\ owner = NULL
  /\ owner' = t
  /\ status' = [status EXCEPT ![t] = "acquired"]
  /\ result' = [result EXCEPT ![t] = "none"]
  /\ UNCHANGED outcome

Submit(t) ==
  /\ status[t] = "acquired"
  /\ status' = [status EXCEPT ![t] = "submitted"]
  /\ outcome' = "pending"
  /\ UNCHANGED <<owner, result>>

Settle ==
  /\ outcome = "pending"
  /\ outcome' \in {"ok", "err", "fatal", "aborted"}
  /\ UNCHANGED <<owner, status, result>>

Return(t) ==
  /\ status[t] = "submitted"
  /\ outcome # "pending"
  /\ \E r \in {"ok", "eio"} :
       /\ r = "ok" => outcome = "ok"
       /\ result' = [result EXCEPT ![t] = r]
  /\ status' = [status EXCEPT ![t] = "returned"]
  /\ UNCHANGED <<owner, outcome>>

Release(t) ==
  /\ status[t] = "returned"
  /\ owner' = NULL
  /\ status' = [status EXCEPT ![t] = "idle"]
  /\ outcome' = "idle"
  /\ UNCHANGED result

Next ==
  \/ \E t \in Threads : Acquire(t) \/ Submit(t) \/ Return(t) \/ Release(t)
  \/ Settle

(* A thread that holds the port goes on to return and to release it; the  *)
(* drive alone may leave a command pending, and then the driver aborts it. *)
Spec ==
  /\ Init /\ [][Next]_avars
  /\ \A t \in Threads :
       WF_avars(Submit(t)) /\ WF_avars(Return(t)) /\ WF_avars(Release(t))
  /\ WF_avars(Settle /\ outcome' = "aborted")
=============================================================================
