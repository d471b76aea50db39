------------------------------ MODULE Monitor ------------------------------
(***************************************************************************)
(* What a lock and its condition variable promise: a Mesa-style monitor.   *)
(* Waiting gives up the lock and joins the waiters in one step; a signal   *)
(* lets one waiter go on, one of the highest priority; a thread let go     *)
(* returns when it gets the lock.  The promise is only made to signals     *)
(* with one waiter: a signal with none stops the kernel, and one with      *)
(* several may, in place of waking one of them.                            *)
(***************************************************************************)
EXTENDS Integers

CONSTANTS
  Thread,
  NULL,
  Prio        \* Prio[t]: the priority of thread t

VARIABLES
  owner,      \* the thread in the monitor, or NULL
  waiting,    \* the threads that wait for the condition
  signalled,  \* the threads that were let go and have not returned
  stopped     \* whether the kernel has stopped

monitorVars == <<owner, waiting, signalled, stopped>>

Init == owner = NULL /\ waiting = {} /\ signalled = {} /\ stopped = FALSE

Enter(t) ==
  /\ owner = NULL
  /\ t \notin waiting \cup signalled
  /\ owner' = t
  /\ UNCHANGED <<waiting, signalled, stopped>>

Leave(t) ==
  /\ owner = t
  /\ owner' = NULL
  /\ UNCHANGED <<waiting, signalled, stopped>>

Wait(t) ==
  /\ owner = t
  /\ owner' = NULL
  /\ waiting' = waiting \cup {t}
  /\ UNCHANGED <<signalled, stopped>>

Signal(t, u) ==
  /\ owner = t
  /\ u \in waiting
  /\ \A v \in waiting : Prio[u] >= Prio[v]
  /\ waiting' = waiting \ {u}
  /\ signalled' = signalled \cup {u}
  /\ UNCHANGED <<owner, stopped>>

\* A signal without exactly one waiter stops the kernel, from within the
\* monitor and for good.
Stop(t) ==
  /\ owner = t
  /\ \A u \in Thread : waiting # {u}
  /\ stopped' = TRUE
  /\ UNCHANGED <<owner, waiting, signalled>>

Return(t) ==
  /\ owner = NULL
  /\ t \in signalled
  /\ owner' = t
  /\ signalled' = signalled \ {t}
  /\ UNCHANGED <<waiting, stopped>>

Next ==
  /\ ~ stopped
  /\ \E t \in Thread : \/ Enter(t) \/ Leave(t) \/ Wait(t) \/ Return(t)
                       \/ \E u \in Thread : Signal(t, u)
                       \/ Stop(t)

Spec == Init /\ [][Next]_monitorVars

=============================================================================
