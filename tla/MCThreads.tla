----------------------------- MODULE MCThreads -----------------------------
(***************************************************************************)
(* Threads and interrupt handlers: the scheduler with two threads besides  *)
(* main and the idle thread, an interrupt queue with three threads, and a  *)
(* disk with two.  They share no state, so one of them moves in each       *)
(* behaviour.                                                              *)
(***************************************************************************)
EXTENDS Threads, Intq, Ide

VARIABLE moving

vars == <<moving, threadVars, intqVars, ideVars>>

KernelInit ==
  /\ moving \in {"scheduler", "queue", "disk"}
  /\ Init /\ IntqInit /\ IdeInit
  /\ moving # "scheduler" => priority[initial_thread] = PRI_MAX
  /\ moving # "queue" => input

Scheduler == moving = "scheduler" /\ Next /\ UNCHANGED <<moving, intqVars, ideVars>>
Queue == moving = "queue" /\ IntqNext /\ UNCHANGED <<moving, threadVars, ideVars>>
Disk == moving = "disk" /\ IdeNext /\ UNCHANGED <<moving, threadVars, intqVars>>

\* The assertion in wait has stopped the kernel, or nobody goes on with the
\* disk; that a request does not stop is what DiskAnswers says.
Stopped == (panic \/ moving = "disk") /\ UNCHANGED vars

KernelNext == Scheduler \/ Queue \/ Disk \/ Stopped

\* The timer interrupts for ever, the disk answers, its interrupts are taken,
\* since no function keeps them off for ever, and a thread that can go on with
\* its request does so.
KernelFairness ==
  /\ WF_threadVars(moving = "scheduler" /\ thread_tick)
  /\ WF_ideVars(moving = "disk" /\ DeviceStep)
  /\ WF_ideVars(moving = "disk" /\ interrupt_handler)
  /\ \A u \in User : WF_ideVars(moving = "disk" /\ IdeStep(u))

KernelSpec == KernelInit /\ [][KernelNext]_vars /\ KernelFairness

=============================================================================
