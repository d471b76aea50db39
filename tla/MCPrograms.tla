----------------------------- MODULE MCPrograms -----------------------------
(***************************************************************************)
(* User programs: main and two processes that start, wait for and outlive  *)
(* each other, the memory of two processes, and the port of the console    *)
(* they use.  The three models share no state, so one of them moves in     *)
(* each behaviour.                                                         *)
(***************************************************************************)
EXTENDS Process, Paging, Serial

CONSTANTS p, x

VARIABLE moving

vars == <<moving, procVars, pagingVars, serialVars>>

ProgramsInit ==
  /\ moving \in {"processes", "memory", "port"}
  /\ ProcInit /\ PagingInit /\ SerialInit

Processes ==
  /\ moving = "processes" /\ ProcNext
  /\ UNCHANGED <<moving, pagingVars, serialVars>>

\* The processes are alike and so are the programs: p is the first to start,
\* and x the first to be run.
Memories ==
  /\ moving = "memory" /\ PagingNext
  /\ starts' = 1 => \A q \in Proc : program'[q] \in {IF q = p THEN x ELSE NIL, NIL}
  /\ UNCHANGED <<moving, procVars, serialVars>>

Console ==
  /\ moving = "port" /\ SerialNext
  /\ UNCHANGED <<moving, procVars, pagingVars>>

ProgramsNext == Processes \/ Memories \/ Console

\* A process that can go on after a wait, or is in the middle of an access,
\* gets the processor in the end; the UART sends what it has, and its interrupts are taken,
\* since no function keeps them off for ever.
ProgramsFairness ==
  /\ \A t \in Tid : WF_procVars(moving = "processes" /\ wait_sema_down(t))
  /\ \A q \in Proc : WF_pagingVars(moving = "memory" /\ PagingStep(q))
  /\ WF_serialVars(moving = "port" /\ Transmit)
  /\ WF_serialVars(moving = "port" /\ serial_interrupt)

ProgramsSpec == ProgramsInit /\ [][ProgramsNext]_vars /\ ProgramsFairness

=============================================================================
