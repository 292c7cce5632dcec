----------------------------- MODULE RoundRobin -----------------------------
(***************************************************************************)
(* What the scheduler of sched.c promises, without the linked list or the  *)
(* heap: the runnable threads form a cyclic order, the CPU moves along it  *)
(* one thread per tick, a newly created thread is placed right after its   *)
(* creator (so it runs next), and a thread that exits is dropped from the  *)
(* order and the CPU resumes at the thread that followed it.  The order is *)
(* written as a sequence that starts at firstThread.                       *)
(***************************************************************************)
EXTENDS Naturals, SequencesExt

CONSTANTS First, Blocks, NULL

VARIABLES
  order,    \* the runnable threads in round-robin order, First first
  running,  \* the thread that has the CPU
  resume    \* after an exit: the thread that followed the exited one

avars == <<order, running, resume>>

Pos(t) == CHOOSE i \in 1..Len(order) : order[i] = t

\* The thread after t in the cyclic order.
Succ(t) == order[(Pos(t) % Len(order)) + 1]

AInit ==
  /\ order = <<First>>
  /\ running = First
  /\ resume = NULL

\* The running thread creates thread b, which goes right after it.
Spawn(b) ==
  /\ running \in ToSet(order)
  /\ b \notin ToSet(order)
  /\ order' = InsertAt(order, Pos(running) + 1, b)
  /\ UNCHANGED <<running, resume>>

\* The running thread, never First, exits.
Leave ==
  /\ running \in ToSet(order)
  /\ running # First
  /\ resume' = Succ(running)
  /\ order' = Remove(order, running)
  /\ UNCHANGED running

\* A tick: the CPU goes to the next thread, or to where an exit left it.
Switch ==
  IF running \in ToSet(order)
  THEN /\ running' = Succ(running)
       /\ UNCHANGED <<order, resume>>
  ELSE /\ running' = resume
       /\ resume' = NULL
       /\ UNCHANGED order

ANext == Switch \/ Leave \/ \E b \in Blocks : Spawn(b)

ASpec == AInit /\ [][ANext]_avars /\ WF_avars(Switch)
=============================================================================
