------------------------------ MODULE RunQueue ------------------------------
(***************************************************************************)
(* The kernel's round-robin run queue (src/src/sched.c): a circular doubly *)
(* linked list of Thread records headed by the static firstThread, the     *)
(* pointer currentThread, and the three operations on it:                  *)
(*   switchTask          the timer interrupt's context switch;             *)
(*   CreateKernelThread  kmalloc a Thread and link it after the caller;    *)
(*   kernelThreadExit    unlink and kfree the caller, then halt.           *)
(* Threads are model values: First is firstThread, the others are heap     *)
(* blocks that kmalloc may hand out.  pc[t] is where thread t is inside    *)
(* these functions; "free" marks a block the heap may hand out.  The heap  *)
(* lock of acquireHeap/releaseHeap, which kmalloc and kfree also take, is  *)
(* heap.  Registers, stacks and names are data the list does not depend on *)
(* and are left out; the stack kmalloc of line 136 is folded into the      *)
(* Thread kmalloc of line 135, and kfree's of lines 112-113 into one.      *)
(* The callers of CreateKernelThread are outside this repository, so any   *)
(* running thread may call it; any thread but firstThread may return from  *)
(* its entry into kernelThreadExit (the return address of line 151).       *)
(***************************************************************************)
EXTENDS Naturals, FiniteSets, Sequences

CONSTANTS
  First,     \* the static firstThread
  Blocks,    \* heap blocks a Thread may be allocated in
  NULL       \* no heap lock holder

ASSUME First \notin Blocks /\ NULL \notin Blocks \cup {First}

Thr == {First} \cup Blocks

VARIABLES
  next,      \* Thread.next of every record (kept when the record is freed)
  prev,      \* Thread.prev
  current,   \* currentThread
  pc,        \* control point of each thread, or "free"
  heap,      \* holder of the heap lock, or NULL
  newThr     \* the local `thread' of a CreateKernelThread in progress

vars == <<next, prev, current, pc, heap, newThr>>

PCs == {"free", "unlinked", "run", "c_lock", "c_pick", "c_link",
        "x_lock", "x_body", "halted", "hung"}

Allocated(t) == pc[t] \notin {"free", "halted"}

\* The threads reachable from firstThread along next, as dumpRunqueue walks.
RECURSIVE Walk(_, _)
Walk(t, seen) == IF t \in seen THEN seen ELSE Walk(next[t], seen \cup {t})

Ring == Walk(First, {})

-----------------------------------------------------------------------------
(* initSched (lines 56-82): firstThread alone in the ring, and running.    *)

Init ==
  /\ next = [t \in Thr |-> First]
  /\ prev = [t \in Thr |-> First]
  /\ current = First
  /\ pc = [t \in Thr |-> IF t = First THEN "run" ELSE "free"]
  /\ heap = NULL
  /\ newThr = [t \in Thr |-> NULL]

(* switchTask (lines 84-94), on every timer interrupt.  It saves the       *)
(* registers into currentThread (line 87) and follows its next (line 90),  *)
(* whether or not that record has been freed.  A halted thread never runs  *)
(* again, so its block is the heap's from here on.  Interrupts are off in  *)
(* a hung kfree, so no tick comes.                                         *)
switchTask ==
  /\ pc[current] # "hung"
  /\ current' = next[current]
  /\ pc' = IF pc[current] = "halted" THEN [pc EXCEPT ![current] = "free"]
                                     ELSE pc
  /\ UNCHANGED <<next, prev, heap, newThr>>

(* CreateKernelThread (lines 120-162).  kmalloc takes the heap lock, may   *)
(* be preempted holding it, then hands out a free block and releases it.   *)
CreateStart(t) ==
  /\ pc[t] = "run"
  /\ pc' = [pc EXCEPT ![t] = "c_lock"]
  /\ UNCHANGED <<next, prev, current, heap, newThr>>

KmallocLock(t) ==
  /\ pc[t] = "c_lock"
  /\ heap = NULL
  /\ heap' = t
  /\ pc' = [pc EXCEPT ![t] = "c_pick"]
  /\ UNCHANGED <<next, prev, current, newThr>>

\* Mutant: kmalloc returns NULL when the heap is exhausted, and line 136
\* onwards use it unchecked.
KmallocPickNull(t) ==
  /\ pc[t] = "c_pick"
  /\ IF \E b \in Blocks : pc[b] = "free"
     THEN \E b \in Blocks :
            /\ pc[b] = "free"
            /\ newThr' = [newThr EXCEPT ![t] = b]
            /\ pc' = [pc EXCEPT ![t] = "c_link", ![b] = "unlinked"]
     ELSE /\ newThr' = [newThr EXCEPT ![t] = NULL]
          /\ pc' = [pc EXCEPT ![t] = "c_link"]
  /\ heap' = NULL
  /\ UNCHANGED <<next, prev, current>>

\* Blocks bounds the heap: with none free the caller waits.
KmallocPick(t) ==
  /\ pc[t] = "c_pick"
  /\ \E b \in Blocks :
       /\ pc[b] = "free"
       /\ newThr' = [newThr EXCEPT ![t] = b]
       /\ pc' = [pc EXCEPT ![t] = "c_link", ![b] = "unlinked"]
  /\ heap' = NULL
  /\ UNCHANGED <<next, prev, current>>

\* Lines 154-161, between cli and sti: insert after currentThread.
\* Mutant: line 158 done before line 156, so the thread links to itself.
LinkSwapped(t) ==
  LET th == newThr[t] IN
  /\ pc[t] = "c_link"
  /\ prev' = [prev EXCEPT ![next[t]] = th, ![th] = t]
  /\ next' = [next EXCEPT ![t] = th, ![th] = th]
  /\ pc' = [pc EXCEPT ![t] = "run", ![th] = "run"]
  /\ newThr' = [newThr EXCEPT ![t] = NULL]
  /\ UNCHANGED <<current, heap>>

\* Mutant: the new thread spliced in before its creator instead of after.
LinkBefore(t) ==
  LET th == newThr[t] IN
  /\ pc[t] = "c_link"
  /\ prev' = [prev EXCEPT ![t] = th, ![th] = prev[t]]
  /\ next' = [next EXCEPT ![prev[t]] = th, ![th] = t]
  /\ pc' = [pc EXCEPT ![t] = "run", ![th] = "run"]
  /\ newThr' = [newThr EXCEPT ![t] = NULL]
  /\ UNCHANGED <<current, heap>>

Link(t) ==
  LET th == newThr[t] IN
  /\ pc[t] = "c_link"
  /\ prev' = [prev EXCEPT ![next[t]] = th, ![th] = t]
  /\ next' = [next EXCEPT ![th] = next[t], ![t] = th]
  /\ pc' = [pc EXCEPT ![t] = "run", ![th] = "run"]
  /\ newThr' = [newThr EXCEPT ![t] = NULL]
  /\ UNCHANGED <<current, heap>>

(* kernelThreadExit (lines 96-118), entered when the entry returns.  The   *)
(* panic of lines 99-102 is unreachable: firstThread's entry never returns.*)
ExitStart(t) ==
  /\ pc[t] = "run"
  /\ t # First
  /\ pc' = [pc EXCEPT ![t] = "x_lock"]
  /\ UNCHANGED <<next, prev, current, heap, newThr>>

\* Mutant: the acquireHeap of line 106 left out.
ExitLockSkipped(t) ==
  /\ pc[t] = "x_lock"
  /\ pc' = [pc EXCEPT ![t] = "x_body"]
  /\ UNCHANGED <<next, prev, current, heap, newThr>>

\* Line 106: acquireHeap, so that nobody holds the heap once cli is done.
ExitLock(t) ==
  /\ pc[t] = "x_lock"
  /\ heap = NULL
  /\ heap' = t
  /\ pc' = [pc EXCEPT ![t] = "x_body"]
  /\ UNCHANGED <<next, prev, current, newThr>>

\* Mutant: line 110 left out, so the successor keeps a stale prev.
ExitBodyNoPrev(t) ==
  /\ pc[t] = "x_body"
  /\ next' = [next EXCEPT ![prev[t]] = next[t]]
  /\ pc' = [pc EXCEPT ![t] = "halted"]
  /\ heap' = NULL
  /\ UNCHANGED <<prev, current, newThr>>

(* Lines 107-117, with interrupts off: cli, releaseHeap, unlink, kfree the *)
(* stack and the record, sti; hlt.  kfree takes the heap lock; if another  *)
(* thread holds it, it spins with interrupts off and the system hangs.     *)
ExitBody(t) ==
  /\ pc[t] = "x_body"
  /\ LET h == IF heap = t THEN NULL ELSE heap IN
     IF h = NULL
     THEN /\ next' = [next EXCEPT ![prev[t]] = next[t]]
          /\ prev' = [prev EXCEPT ![next[t]] = prev[t]]
          /\ pc' = [pc EXCEPT ![t] = "halted"]
          /\ heap' = NULL
     ELSE /\ pc' = [pc EXCEPT ![t] = "hung"]
          /\ heap' = h
          /\ UNCHANGED <<next, prev>>
  /\ UNCHANGED <<current, newThr>>

-----------------------------------------------------------------------------
(* Only currentThread executes; the timer may interrupt it at any point.   *)
Next ==
  \/ switchTask
  \/ CreateStart(current)
  \/ KmallocLock(current)
  \/ KmallocPick(current)
  \/ Link(current)
  \/ ExitStart(current)
  \/ ExitLock(current)
  \/ ExitBody(current)

(* The timer interrupt fires periodically, so switchTask is weakly fair.   *)
Spec == Init /\ [][Next]_vars /\ WF_vars(switchTask)

-----------------------------------------------------------------------------
TypeOK ==
  /\ next \in [Thr -> Thr]
  /\ prev \in [Thr -> Thr]
  /\ current \in Thr
  /\ pc \in [Thr -> PCs]
  /\ heap \in Thr \cup {NULL}
  /\ newThr \in [Thr -> Blocks \cup {NULL}]

(* The list that CreateKernelThread and kernelThreadExit edit stays a      *)
(* doubly linked ring: the threads reachable from firstThread are exactly  *)
(* the allocated, linked ones, and prev is the inverse of next on them.    *)
RingWellFormed ==
  /\ Ring = {t \in Thr : Allocated(t) /\ pc[t] # "unlinked"}
  /\ \A t \in Ring : prev[next[t]] = t

(* kernelThreadExit frees its own record before the tick that leaves it:   *)
(* switchTask never writes into (line 87) or reads next from (line 90) a  *)
(* freed Thread.                                                           *)
NoUseAfterFree == [][switchTask => Allocated(current)]_vars

(* kfree in kernelThreadExit runs with interrupts off; the acquireHeap     *)
(* before the cli makes sure no preempted thread holds the heap lock then, *)
(* so the system never spins forever with interrupts off.                  *)
NoHangWithInterruptsOff == \A t \in Thr : pc[t] # "hung"

(* Round robin: once threads stop being created, every thread in the run  *)
(* queue is eventually switched to, unless it leaves the queue first.  A   *)
(* thread that creates a successor (inserted right after it, line 158) and *)
(* exits within each time slice can keep the others waiting for ever, so   *)
(* the code gives no guarantee without the premise.                        *)
CreationStops == <>[][\A t \in Thr : ~Link(t)]_vars

EveryThreadScheduled ==
  CreationStops =>
    \A t \in Thr : t \in Ring ~> (current = t \/ t \notin Ring)
-----------------------------------------------------------------------------
(* Refinement.  The run queue read from firstThread along next, at most    *)
(* one lap, is the abstract order; currentThread is the running thread;    *)
(* a halted currentThread still points, through its kept next, at the     *)
(* thread that followed it, which is where the next tick resumes.          *)
RECURSIVE Chain(_, _)
Chain(t, k) ==
  IF k = 0 \/ next[t] = First THEN <<t>> ELSE <<t>> \o Chain(next[t], k - 1)

RR == INSTANCE RoundRobin
        WITH order   <- Chain(First, Cardinality(Thr)),
             running <- current,
             resume  <- IF pc[current] = "halted" THEN next[current] ELSE NULL

(* The linked list implements round robin: every step of switchTask,       *)
(* CreateKernelThread and kernelThreadExit is a tick that moves to the     *)
(* next thread, an insertion right after the creator (lines 154-161), or   *)
(* the removal of the exiting thread with the CPU resuming at its          *)
(* successor (lines 107-117 then line 90), or leaves the order unchanged.  *)
Refinement == RR!ASpec
=============================================================================
