--------------------------- MODULE CondvarProofs ---------------------------
(***************************************************************************)
(* The condition variable for every set of threads and all priorities: a   *)
(* signal is never lost, and the implementation is a Mesa monitor.         *)
(***************************************************************************)
EXTENDS Condvar, ListsProofs

\* The labels of a thread that holds the lock.
Holding == {"in", "cw_release", "cs_up", "cb", "cb_up"}

\* Only the holder of the lock is between lock_acquire and lock_release, so
\* the list of waiters is its own and stays sorted up to the list_pop_front.
\* A semaphore has its unit, and its thread sleeps, only in sema_down.
CondInv ==
  /\ NoLostSignal
  /\ \A t \in Member : holder = t <=> at[t] \in Holding
  /\ \A t \in asleep : at[t] = "cw_down"
  /\ \A t \in Member : value[t] = 1 => at[t] = "cw_down"
  /\ \A t \in Member : at[t] \in {"cs_up", "cb_up"} => Descending(waiters, Prio)

\* cond_init leaves nobody on the list and the lock free.
LEMMA CondInvInit == CondInit => CondInv
<1> SUFFICES ASSUME CondInit PROVE CondInv
  OBVIOUS
<1>1. Range(<<>>) = {} /\ IsInjective(<<>>) /\ <<>> \in Seq(Member)
  BY DEF Range, IsInjective
<1>2. NOBODY \notin Member
  BY CondvarAssumption
<1> QED
  BY <1>1, <1>2 DEF CondInit, CondInv, NoLostSignal, CondTypeOK, Holding

\* Facts about the state that the steps below share.
LEMMA CondFacts ==
  ASSUME CondInv, NEW t \in Member
  PROVE  /\ waiters \in Seq(Member) /\ IsInjective(waiters)
         /\ t # NOBODY
         /\ at[t] \in Holding =>
              \A u \in Member : at[u] \in Holding => u = t
  BY CondvarAssumption DEF CondInv, NoLostSignal, CondTypeOK

\* sort_waiters orders the list and changes nothing else about it.
LEMMA SortedWaiters ==
  ASSUME CondInv
  PROVE  /\ Sorted \in Seq(Member)
         /\ Range(Sorted) = Range(waiters)
         /\ IsInjective(Sorted)
         /\ Descending(Sorted, Prio)
<1>1. waiters \in Seq(Member) /\ IsInjective(waiters)
  BY DEF CondInv, NoLostSignal, CondTypeOK
<1>2. Prio \in [Member -> Int]
  BY CondvarAssumption
<1> QED
  BY <1>1, <1>2, SortProperties DEF Sorted

\* No step of the lock or of the condition variable breaks the invariant.
LEMMA CondInvStep == CondInv /\ [CondNext]_condVars => CondInv'
<1> SUFFICES ASSUME CondInv, [CondNext]_condVars PROVE CondInv'
  OBVIOUS
<1> USE DEF CondInv, NoLostSignal, CondTypeOK, Holding, At, MoveTo
<1>1. NOBODY \notin Member
  BY CondvarAssumption
<1>2. ASSUME NEW t \in Member, lock_acquire(t) PROVE CondInv'
  BY <1>1, <1>2 DEF lock_acquire
<1>3. ASSUME NEW t \in Member, lock_release(t) PROVE CondInv'
  BY <1>1, <1>3 DEF lock_release
<1>4. ASSUME NEW t \in Member, cond_wait(t) PROVE CondInv'
  <2>1. t \notin Range(waiters)
    BY <1>4 DEF cond_wait
  <2>2. /\ waiters' \in Seq(Member) /\ IsInjective(waiters')
        /\ Range(waiters') = Range(waiters) \cup {t}
    BY <1>4, <2>1, PushBack DEF cond_wait
  <2> QED
    BY <1>1, <1>4, <2>2 DEF cond_wait
<1>5. ASSUME NEW t \in Member, cond_wait_release(t) PROVE CondInv'
  BY <1>1, <1>5 DEF cond_wait_release
<1>6. ASSUME NEW t \in Member, cond_wait_down(t) PROVE CondInv'
  BY <1>1, <1>6 DEF cond_wait_down
<1>7. ASSUME NEW t \in Member, cond_wait_acquire(t) PROVE CondInv'
  BY <1>1, <1>7 DEF cond_wait_acquire
<1>8. ASSUME NEW t \in Member, NEW label \in {"cs_up", "cb_up"},
             at[t] \in {"in", "cb"}, sort_waiters(t, label),
             UNCHANGED <<holder, value, asleep>>
      PROVE  CondInv'
  <2>1. CASE UNCHANGED <<at, waiters>>
    BY <1>8, <2>1
  <2>2. CASE waiters' = Sorted /\ at' = [at EXCEPT ![t] = label]
    <3>1. /\ waiters' \in Seq(Member) /\ IsInjective(waiters')
          /\ Range(waiters') = Range(waiters) /\ Descending(waiters', Prio)
      BY <2>2, SortedWaiters
    <3> QED
      BY <1>8, <2>2, <3>1
  <2> QED
    BY <1>8, <2>1, <2>2 DEF sort_waiters
<1>9. ASSUME NEW t \in Member, cond_signal(t) PROVE CondInv'
  BY <1>8, <1>9 DEF cond_signal
<1>10. ASSUME NEW t \in Member, cond_signal_up(t) PROVE CondInv'
  <2>1. CASE waiters = <<>>
    BY <1>10, <2>1 DEF cond_signal_up
  <2>2. CASE waiters # <<>>
    <3> DEFINE u == Head(waiters)
    <3>1. /\ u \in Member /\ u \in Range(waiters)
          /\ waiters' \in Seq(Member) /\ IsInjective(waiters')
          /\ Range(waiters') = Range(waiters) \ {u}
      <4>1. waiters' = Tail(waiters)
        BY <1>10, <2>2 DEF cond_signal_up
      <4> QED
        BY <2>2, <4>1, PopFront, Zenon
    <3>2. at[t] \in {"cs_up", "cb_up"} /\ at' = [at EXCEPT ![t] = at'[t]]
          /\ at'[t] \in {"in", "cb"} /\ holder' = holder
      BY <1>10, <2>2 DEF cond_signal_up
    <3>3. value' = [value EXCEPT ![u] = value[u] + 1] /\ asleep' = asleep \ {u}
      BY <1>10, <2>2 DEF cond_signal_up, wake
    <3>4. at[u] = "cw_down" /\ value[u] = 0 /\ u # t
      BY <3>1, <3>2, CondFacts
    <3> QED
      BY <3>1, <3>2, <3>3, <3>4, <1>1
  <2> QED
    BY <2>1, <2>2
<1>11. ASSUME NEW t \in Member, cond_broadcast(t) PROVE CondInv'
  <2>1. CASE waiters = <<>>
    BY <1>11, <2>1 DEF cond_broadcast
  <2>2. CASE waiters # <<>>
    BY <1>8, <1>11, <2>2 DEF cond_broadcast
  <2> QED
    BY <2>1, <2>2
<1>12. CASE UNCHANGED condVars
  BY <1>12 DEF condVars
<1> QED
  BY <1>2, <1>3, <1>4, <1>5, <1>6, <1>7, <1>9, <1>10, <1>11, <1>12 DEF CondNext

\* A thread sleeps in cond_wait only where a signal finds it, and a signal
\* between the release of the lock and the sema_down is kept (cond_wait,
\* cond_signal).
THEOREM NoLostSignalCorrect == CondSpec => []NoLostSignal
<1>1. CondInit => CondInv
  BY CondInvInit
<1>2. CondInv /\ [CondNext]_condVars => CondInv'
  BY CondInvStep
<1>3. CondInv => NoLostSignal
  BY DEF CondInv
<1> QED
  BY <1>1, <1>2, <1>3, PTL DEF CondSpec

-----------------------------------------------------------------------------
(* The refinement.                                                          *)

\* Every step of the lock and of the condition variable is a step of the
\* monitor or changes nothing the monitor has: waiting takes effect with the
\* release of the lock, a signal with the list_pop_front.
LEMMA MonitorStep ==
  CondInv /\ [CondNext]_condVars => [MonitorOf!Next]_(MonitorOf!monitorVars)
<1> SUFFICES ASSUME CondInv, [CondNext]_condVars
             PROVE  [MonitorOf!Next]_(MonitorOf!monitorVars)
  OBVIOUS
<1> DEFINE W == {t \in Range(waiters) : at[t] # "cw_release"}
           S == {t \in Member : \/ at[t] = "cw_acquire"
                                \/ at[t] = "cw_down" /\ t \notin Range(waiters)}
           Stutter == UNCHANGED <<holder, W, S, panic>>
<1> USE DEF CondInv, NoLostSignal, CondTypeOK, Holding, At, MoveTo
<1>0. Range(waiters) \subseteq Member
  BY DEF Range
<1>1. NOBODY \notin Member
  BY CondvarAssumption
<1>2. ASSUME NEW t \in Member, lock_acquire(t) PROVE MonitorOf!Enter(t)
  BY <1>0, <1>1, <1>2 DEF lock_acquire, MonitorOf!Enter
<1>3. ASSUME NEW t \in Member, lock_release(t) PROVE MonitorOf!Leave(t)
  BY <1>0, <1>1, <1>3 DEF lock_release, MonitorOf!Leave
<1>4. ASSUME NEW t \in Member, cond_wait(t) PROVE Stutter
  <2>1. Range(waiters') = Range(waiters) \cup {t}
    BY <1>4, PushBack DEF cond_wait
  <2> QED
    BY <1>0, <1>4, <2>1 DEF cond_wait
<1>5. ASSUME NEW t \in Member, cond_wait_release(t) PROVE MonitorOf!Wait(t)
  BY <1>0, <1>1, <1>5 DEF cond_wait_release, MonitorOf!Wait
<1>6. ASSUME NEW t \in Member, cond_wait_down(t) PROVE Stutter
  BY <1>0, <1>6 DEF cond_wait_down
<1>7. ASSUME NEW t \in Member, cond_wait_acquire(t) PROVE MonitorOf!Return(t)
  BY <1>0, <1>1, <1>7 DEF cond_wait_acquire, MonitorOf!Return
<1>8. ASSUME NEW t \in Member, NEW label \in {"cs_up", "cb_up"},
             at[t] \in {"in", "cb"}, panic = NOBODY, sort_waiters(t, label),
             UNCHANGED <<holder, value, asleep>>
      PROVE  Stutter \/ MonitorOf!Stop(t)
  <2>1. holder = t /\ \A u \in Member : at[u] # "cw_release"
    BY <1>8, CondFacts
  <2>2. W = Range(waiters)
    BY <1>0, <2>1
  <2>3. CASE panic' = "list_front" /\ UNCHANGED <<at, waiters>> /\ Len(waiters) >= 2
    <3>1. waiters[1] # waiters[2] /\ waiters[1] \in W /\ waiters[2] \in W
      BY <2>2, <2>3 DEF Range, IsInjective
    <3>2. \A u \in Member : W # {u}
      BY <3>1
    <3> QED
      BY <1>8, <2>1, <2>3, <3>2, CondvarAssumption DEF MonitorOf!Stop
  <2>4. CASE waiters' = Sorted /\ at' = [at EXCEPT ![t] = label] /\ UNCHANGED panic
    <3>1. Range(waiters') = Range(waiters)
      BY <2>4, SortedWaiters
    <3> QED
      BY <1>0, <1>8, <2>4, <3>1
  <2> QED
    BY <1>8, <2>3, <2>4 DEF sort_waiters
<1>9. ASSUME NEW t \in Member, cond_signal(t) PROVE Stutter \/ MonitorOf!Stop(t)
  BY <1>8, <1>9 DEF cond_signal
<1>10. ASSUME NEW t \in Member, cond_signal_up(t)
       PROVE  MonitorOf!Stop(t) \/ \E u \in Member : MonitorOf!Signal(t, u)
  <2>1. CASE waiters = <<>>
    <3>1. W = {} /\ \A u \in Member : W # {u}
      BY <2>1 DEF Range
    <3>2. holder = t
      BY <1>10, CondFacts DEF cond_signal_up
    <3> QED
      BY <1>10, <2>1, <3>1, <3>2, CondvarAssumption DEF cond_signal_up, MonitorOf!Stop
  <2>2. CASE waiters # <<>>
    <3> DEFINE u == Head(waiters)
    <3>1. waiters' = Tail(waiters)
      BY <1>10, <2>2 DEF cond_signal_up
    <3>2. /\ u \in Member /\ u \in Range(waiters)
          /\ Range(waiters') = Range(waiters) \ {u}
      BY <2>2, <3>1, PopFront, Zenon
    <3>3. at[t] \in {"cs_up", "cb_up"} /\ at' = [at EXCEPT ![t] = at'[t]]
          /\ at'[t] \in {"in", "cb"} /\ holder' = holder
      BY <1>10, <2>2 DEF cond_signal_up
    <3>4. at[u] = "cw_down" /\ u # t
      BY <3>2, <3>3, CondFacts
    <3>5. \A v \in W : Prio[u] >= Prio[v]
      <4>1. Descending(waiters, Prio)
        BY <3>3
      <4>2. \A v \in Range(Tail(waiters)) : Prio[u] >= Prio[v]
        BY <2>2, <4>1, PopFrontDescending, Zenon
      <4>3. Prio[u] >= Prio[u]
        BY <3>2, CondvarAssumption
      <4> QED
        BY <3>1, <3>2, <4>2, <4>3
    <3>6. W' = W \ {u} /\ S' = S \cup {u}
      BY <1>0, <3>2, <3>3, <3>4
    <3>7. holder = t /\ holder' = holder /\ u \in W
      BY <3>2, <3>3, <3>4
    <3>8. panic' = panic
      BY <1>10, <2>2 DEF cond_signal_up
    <3> HIDE DEF u, W, S
    <3> QED
      BY <3>2, <3>5, <3>6, <3>7, <3>8 DEF MonitorOf!Signal, W, S
  <2> QED
    BY <2>1, <2>2
<1>11. ASSUME NEW t \in Member, cond_broadcast(t) PROVE Stutter \/ MonitorOf!Stop(t)
  <2>1. CASE waiters = <<>>
    BY <1>0, <1>11, <2>1 DEF cond_broadcast
  <2>2. CASE waiters # <<>>
    BY <1>8, <1>11, <2>2 DEF cond_broadcast
  <2> QED
    BY <2>1, <2>2
<1>12. CASE UNCHANGED condVars
  BY <1>12 DEF condVars, MonitorOf!monitorVars
<1>13. Stutter => UNCHANGED MonitorOf!monitorVars
  BY DEF MonitorOf!monitorVars
<1>14. CondNext => panic = NOBODY
  BY DEF CondNext, lock_acquire, lock_release, cond_wait, cond_wait_release,
         cond_wait_down, cond_wait_acquire, cond_signal, cond_signal_up, cond_broadcast
<1> HIDE DEF Stutter
<1> QED
  BY <1>2, <1>3, <1>4, <1>5, <1>6, <1>7, <1>9, <1>10, <1>11, <1>12, <1>13, <1>14
     DEF CondNext, MonitorOf!Next

\* The condition variable and its lock implement the monitor of Monitor: the
\* lock excludes, waiting gives it up, and each signal lets a waiter of the
\* highest priority go on, unless the kernel stops, which it does not in a signal
\* with one waiter (cond_wait, cond_signal, cond_broadcast).
THEOREM ImplementsMonitor == CondSpec => MonitorSpec
<1>1. CondInit => MonitorOf!Init
  BY DEF CondInit, MonitorOf!Init, Range
<1>2. CondInit => CondInv
  BY CondInvInit
<1>3. CondInv /\ [CondNext]_condVars => CondInv'
  BY CondInvStep
<1>4. CondInv /\ [CondNext]_condVars => [MonitorOf!Next]_(MonitorOf!monitorVars)
  BY MonitorStep
<1> QED
  BY <1>1, <1>2, <1>3, <1>4, PTL DEF CondSpec, MonitorSpec, MonitorOf!Spec

=============================================================================
