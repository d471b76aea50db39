----------------------------- MODULE MCWaiting ------------------------------
(***************************************************************************)
(* Threads that wait for time and threads that wait for a condition: the   *)
(* timer with one thread besides main and the idle thread, and a condition *)
(* variable with four threads of three priorities.  They share no state,   *)
(* so one of them moves in each behaviour.                                 *)
(***************************************************************************)
EXTENDS Timer, Condvar, TLC

CONSTANTS p, q, r, s

MCPrio == p :> 1 @@ q :> 2 @@ r :> 2 @@ s :> 3

VARIABLE moving

vars == <<moving, timerVars, condVars>>

WaitingInit ==
  /\ moving \in {"timer", "condition"}
  /\ TimerInit /\ CondInit
  /\ moving # "timer" => priority[initial_thread] = PRI_MAX

Sleepers == moving = "timer" /\ TimerNext /\ UNCHANGED <<moving, condVars>>
Waiters == moving = "condition" /\ CondNext /\ UNCHANGED <<moving, timerVars>>

WaitingNext == Sleepers \/ Waiters

\* The timer interrupts for ever, and a thread in a broadcast gets the
\* processor again and again.
WaitingFairness ==
  /\ WF_timerVars(moving = "timer" /\ Defined /\ timer_interrupt)
  /\ \A t \in Member :
       /\ WF_condVars(moving = "condition" /\ cond_signal_up(t))
       /\ WF_condVars(moving = "condition" /\ at[t] = "cb" /\ cond_broadcast(t))

WaitingSpec == WaitingInit /\ [][WaitingNext]_vars /\ WaitingFairness

=============================================================================
