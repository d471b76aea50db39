------------------------------ MODULE Condvar ------------------------------
(***************************************************************************)
(* A condition variable and its lock (the cond functions of synch.c).      *)
(*                                                                         *)
(* Synch models locks and the scheduler; here the lock is taken in one     *)
(* step when it is free, and any thread that is not asleep may run next.   *)
(* The cond functions run with interrupts on, and only the holder of the   *)
(* lock touches the list of waiters.  A waiter is named by its thread: it  *)
(* is the semaphore_elem on the thread's stack.  at[t] is one of           *)
(*    "out"         not in the monitor                                     *)
(*    "in"          holding the lock                                       *)
(*    "cw_release"  in cond_wait, the waiter is on the list                *)
(*    "cw_down"     before or in sema_down (&waiter.semaphore)             *)
(*    "cw_acquire"  before lock_acquire                                    *)
(*    "cs_up"       in cond_signal, the list is sorted                     *)
(*    "cb"          in the loop of cond_broadcast                          *)
(*    "cb_up"       in the cond_signal it calls, the list is sorted        *)
(***************************************************************************)
EXTENDS Lists

CONSTANTS
  Member,    \* the threads
  NOBODY,    \* no thread
  Prio       \* Prio[t]: the priority of thread t

ASSUME CondvarAssumption ==
  /\ NOBODY \notin Member \cup {"list_front", "list_pop_front"}
  /\ Prio \in [Member -> Nat]

VARIABLES
  at,
  holder,    \* holder of the lock, or NOBODY
  waiters,   \* the list of waiters of the condition variable
  value,     \* value[t]: value of the semaphore of t's waiter
  asleep,    \* the threads on the wait list of their waiter's semaphore
  panic      \* the assertion that stopped the kernel, or NOBODY

condVars == <<at, holder, waiters, value, asleep, panic>>

\* lock_init, cond_init
CondInit ==
  /\ at = [t \in Member |-> "out"]
  /\ holder = NOBODY
  /\ waiters = <<>>
  /\ value = [t \in Member |-> 0]
  /\ asleep = {}
  /\ panic = NOBODY

At(t, label) == panic = NOBODY /\ t \notin asleep /\ at[t] = label

MoveTo(t, label) == at' = [at EXCEPT ![t] = label]

-----------------------------------------------------------------------------

lock_acquire(t) ==
  /\ At(t, "out")
  /\ holder = NOBODY
  /\ holder' = t
  /\ MoveTo(t, "in")
  /\ UNCHANGED <<waiters, value, asleep, panic>>

lock_release(t) ==
  /\ At(t, "in")
  /\ holder' = NOBODY
  /\ MoveTo(t, "out")
  /\ UNCHANGED <<waiters, value, asleep, panic>>

\* cond_wait: the waiter joins the list.
cond_wait(t) ==
  /\ At(t, "in")
  /\ value' = [value EXCEPT ![t] = 0]
  /\ waiters' = Append(waiters, t)
  /\ MoveTo(t, "cw_release")
  /\ UNCHANGED <<holder, asleep, panic>>

\* cond_wait: lock_release.
cond_wait_release(t) ==
  /\ At(t, "cw_release")
  /\ holder' = NOBODY
  /\ MoveTo(t, "cw_down")
  /\ UNCHANGED <<waiters, value, asleep, panic>>

\* cond_wait: one turn of the loop of sema_down.
cond_wait_down(t) ==
  /\ At(t, "cw_down")
  /\ IF value[t] = 0
       THEN /\ asleep' = asleep \cup {t}
            /\ UNCHANGED <<at, value>>
       ELSE /\ value' = [value EXCEPT ![t] = @ - 1]
            /\ MoveTo(t, "cw_acquire")
            /\ UNCHANGED asleep
  /\ UNCHANGED <<holder, waiters, panic>>

\* cond_wait: lock_acquire.
cond_wait_acquire(t) ==
  /\ At(t, "cw_acquire")
  /\ holder = NOBODY
  /\ holder' = t
  /\ MoveTo(t, "in")
  /\ UNCHANGED <<waiters, value, asleep, panic>>

\* Mutant: the waiters stay in the order in which they came.
Sorted_fifo == waiters

\* The list of waiters once condvar_desc_sort has sorted it.
Sorted == list_sort(waiters, Prio)

\* The section of cond_signal that sorts the waiters.  A comparison takes the
\* front of the wait list of each semaphore: it must not be empty.
sort_waiters(t, label) ==
  IF Len(waiters) >= 2 /\ ~ Range(waiters) \subseteq asleep
    THEN /\ panic' = "list_front"
         /\ UNCHANGED <<at, waiters>>
    ELSE /\ waiters' = Sorted
         /\ MoveTo(t, label)
         /\ UNCHANGED panic

cond_signal(t) ==
  /\ At(t, "in")
  /\ sort_waiters(t, "cs_up")
  /\ UNCHANGED <<holder, value, asleep>>

\* Mutant: a waiter that is not asleep yet gets no unit.
wake_asleep(u) ==
  /\ value' = IF u \in asleep THEN [value EXCEPT ![u] = @ + 1] ELSE value
  /\ asleep' = asleep \ {u}

\* sema_up on the semaphore of u's waiter.
wake(u) ==
  /\ value' = [value EXCEPT ![u] = @ + 1]
  /\ asleep' = asleep \ {u}

\* cond_signal: list_pop_front and sema_up; an empty list has no front.
cond_signal_up(t) ==
  /\ At(t, "cs_up") \/ At(t, "cb_up")
  /\ IF waiters = <<>>
       THEN /\ panic' = "list_pop_front"
            /\ UNCHANGED <<at, waiters, value, asleep>>
       ELSE /\ waiters' = Tail(waiters)
            /\ wake(Head(waiters))
            /\ MoveTo(t, IF at[t] = "cb_up" THEN "cb" ELSE "in")
            /\ UNCHANGED panic
  /\ UNCHANGED holder

\* Mutant: cond_broadcast signals once.
cond_broadcast_once(t) ==
  /\ At(t, "in") \/ At(t, "cb")
  /\ IF waiters = <<>> \/ at[t] = "cb"
       THEN /\ MoveTo(t, "in")
            /\ UNCHANGED <<waiters, panic>>
       ELSE sort_waiters(t, "cb_up")
  /\ UNCHANGED <<holder, value, asleep>>

\* cond_broadcast: a turn of its loop, or its end.
cond_broadcast(t) ==
  /\ At(t, "in") \/ At(t, "cb")
  /\ IF waiters = <<>>
       THEN /\ MoveTo(t, "in")
            /\ UNCHANGED <<waiters, panic>>
       ELSE sort_waiters(t, "cb_up")
  /\ UNCHANGED <<holder, value, asleep>>

CondNext ==
  \E t \in Member :
    \/ lock_acquire(t)
    \/ lock_release(t)
    \/ cond_wait(t)
    \/ cond_wait_release(t)
    \/ cond_wait_down(t)
    \/ cond_wait_acquire(t)
    \/ cond_signal(t)
    \/ cond_signal_up(t)
    \/ cond_broadcast(t)

CondSpec == CondInit /\ [][CondNext]_condVars

-----------------------------------------------------------------------------
(* Properties.                                                              *)

\* The type of the state.
CondTypeOK ==
  /\ at \in [Member -> {"out", "in", "cw_release", "cw_down", "cw_acquire",
                        "cs_up", "cb", "cb_up"}]
  /\ holder \in Member \cup {NOBODY}
  /\ waiters \in Seq(Member)
  /\ value \in [Member -> 0..1]
  /\ asleep \subseteq Member

\* A thread sleeps in cond_wait only while its waiter is on the list, where a
\* signal finds it, and every waiter on the list is one of a thread that has
\* not been signalled: a signal that comes between the release of the lock and
\* the sema_down is not lost.
\* This comes with the types of the state (CondTypeOK).
NoLostSignal ==
  /\ CondTypeOK
  /\ IsInjective(waiters)
  /\ asleep \subseteq Range(waiters)
  /\ \A t \in Member :
       t \in Range(waiters) <=>
         at[t] = "cw_release" \/ (at[t] = "cw_down" /\ value[t] = 0)

\* The condition variable implements a Mesa monitor: no signal is lost or
\* wakes two threads or the wrong one, and nobody is in the monitor beside the
\* owner.  What it does not keep is in the specification of the monitor: the
\* kernel stops in a signal without waiters or, when one of them is not asleep
\* yet, with several; it never does in a signal with one waiter.
MonitorOf == INSTANCE Monitor WITH
  Thread <- Member, NULL <- NOBODY,
  owner <- holder,
  waiting <- {t \in Range(waiters) : at[t] # "cw_release"},
  signalled <- {t \in Member : \/ at[t] = "cw_acquire"
                               \/ at[t] = "cw_down" /\ t \notin Range(waiters)},
  stopped <- panic # NOBODY

MonitorSpec == MonitorOf!Spec

\* A broadcast in progress ends, and then nobody waits that waited before: it
\* releases every waiter unless the kernel stops.
BroadcastEnds ==
  \A t \in Member :
    (at[t] = "cb") ~> ((at[t] = "in" /\ waiters = <<>>) \/ panic # NOBODY)

\* "If any threads are waiting on COND ..., then this function signals one of
\* them": with no thread waiting cond_signal does nothing, and with several it
\* signals one; no signal ends in a failed assertion.
SignalReturns == panic = NOBODY

=============================================================================
