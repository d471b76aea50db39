-------------------------- MODULE ThreadLifecycle --------------------------
(***************************************************************************)
(* What the thread system promises its clients, with no run queue and no   *)
(* priorities: one thread runs; it can create, wake, block, yield and      *)
(* exit; the processor goes to some ready thread, and to the idle thread   *)
(* only when no other thread is ready.                                     *)
(***************************************************************************)
CONSTANTS
  Thread,          \* the pages a struct thread can live in
  idle_thread,     \* the idle thread
  initial_thread   \* the thread running main()

VARIABLES
  status,          \* status[t]: life-cycle state, "FREE" when t is no thread
  current          \* the running thread

lifeVars == <<status, current>>

\* The initial thread runs and has created some of the others.
Init ==
  /\ current = initial_thread
  /\ status \in [Thread -> {"RUNNING", "READY", "FREE"}]
  /\ \A t \in Thread : status[t] = "RUNNING" <=> t = initial_thread
  /\ status[idle_thread] = "READY"

\* The processor is given away in state st of the threads.
Dispatch(st) ==
  LET Ready == {t \in Thread \ {idle_thread} : st[t] = "READY"}
  IN  /\ current' \in IF Ready = {} THEN {idle_thread} ELSE Ready
      /\ status' = [st EXCEPT ![current'] = "RUNNING"]

Create(t) ==
  /\ status[t] = "FREE"
  /\ status' = [status EXCEPT ![t] = "BLOCKED"]
  /\ UNCHANGED current

Wake(t) ==
  /\ t # idle_thread
  /\ status[t] = "BLOCKED"
  /\ status' = [status EXCEPT ![t] = "READY"]
  /\ UNCHANGED current

Block == Dispatch([status EXCEPT ![current] = "BLOCKED"])

Yield == Dispatch([status EXCEPT ![current] = "READY"])

\* An interrupt handler wakes t and asks for the interrupted thread to yield.
WakeAndYield(t) ==
  /\ t # idle_thread
  /\ status[t] = "BLOCKED"
  /\ Dispatch([status EXCEPT ![t] = "READY", ![current] = "READY"])

Exit ==
  /\ current # idle_thread
  /\ Dispatch([status EXCEPT
       ![current] = IF current = initial_thread THEN "DYING" ELSE "FREE"])

Next ==
  \/ \E t \in Thread : Create(t) \/ Wake(t) \/ WakeAndYield(t)
  \/ Block
  \/ Yield
  \/ Exit

Spec == Init /\ [][Next]_lifeVars

=============================================================================
