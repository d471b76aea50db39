------------------------------- MODULE Timer -------------------------------
(***************************************************************************)
(* Sleeping threads and the timer interrupt (devices/timer.c), on top of   *)
(* the scheduler of Threads.                                               *)
(*                                                                         *)
(* timer_sleep runs with interrupts on between its sections; besides the   *)
(* labels of Threads, pc[t] is one of:                                     *)
(*    "ts_insert"  the start time is read                                  *)
(*    "ts_check"   to_sleep is on blocked_threads                          *)
(*    "ts_down"    before or in sema_down (&to_sleep.sema)                 *)
(*                                                                         *)
(* The time is not counted from boot: elapsed[t] is timer_elapsed (start)  *)
(* for the start of t, and it stops counting at MaxSleep, the longest      *)
(* sleep, which no comparison of the code can tell from a later time.      *)
(***************************************************************************)
EXTENDS Threads

CONSTANT MaxSleep   \* the longest sleep asked for, in ticks

ASSUME TimerAssumption == MaxSleep \in Nat \ {0}

VARIABLES
  blocked_threads,  \* the threads whose to_sleep is on the list
  asked,            \* the argument of timer_sleep, 0 when t is not in it
  ticks,            \* ticks[t]: to_sleep.ticks of t
  sema,             \* sema[t]: value of to_sleep.sema of t
  elapsed,          \* elapsed[t]: ticks since t read the start time
  slept             \* slept[t]: ticks since t joined blocked_threads

timerVars == <<threadVars, blocked_threads, asked, ticks, sema, elapsed, slept>>

InSleep == {"ts_insert", "ts_check", "ts_down"}

\* timer_init, and the state in which thread_start returns.
TimerInit ==
  /\ Init
  /\ blocked_threads = <<>>
  /\ asked = [t \in Thread |-> 0]
  /\ ticks = [t \in Thread |-> 0]
  /\ sema = [t \in Thread |-> 0]
  /\ elapsed = [t \in Thread |-> 0]
  /\ slept = [t \in Thread |-> 0]

\* A to_sleep is on the list although its function has returned: its memory
\* holds something else, and what the kernel does from here on is undefined.
Dangling(t) ==
  t \in Range(blocked_threads) /\ (status[t] = "FREE" \/ pc[t] \notin InSleep)

Defined == \A t \in Thread : ~ Dangling(t)

-----------------------------------------------------------------------------

\* timer_sleep (n) up to the section that inserts to_sleep.
timer_sleep(n) ==
  /\ Running("run")
  /\ n > 0
  /\ asked' = [asked EXCEPT ![current] = n]
  /\ ticks' = [ticks EXCEPT ![current] = n]
  /\ sema' = [sema EXCEPT ![current] = 0]
  /\ elapsed' = [elapsed EXCEPT ![current] = 0]
  /\ pc' = [pc EXCEPT ![current] = "ts_insert"]
  /\ UNCHANGED <<status, current, ready_list, all_list, priority,
                 base_priority, donor_threads, thread_ticks, new,
                 blocked_threads, slept>>

\* ticks_less_func orders the list: fewer ticks come first.
ticks_less_func == [t \in Thread |-> - ticks[t]]

\* timer_sleep: to_sleep joins blocked_threads.
timer_sleep_insert ==
  /\ Running("ts_insert")
  /\ blocked_threads' =
       list_insert_ordered(blocked_threads, current, ticks_less_func)
  /\ slept' = [slept EXCEPT ![current] = 0]
  /\ pc' = [pc EXCEPT ![current] = "ts_check"]
  /\ UNCHANGED <<status, current, ready_list, all_list, priority,
                 base_priority, donor_threads, thread_ticks, new, asked, ticks,
                 sema, elapsed>>

\* Leaving timer_sleep: its local variables are gone.
Return ==
  /\ pc' = [pc EXCEPT ![current] = "run"]
  /\ asked' = [asked EXCEPT ![current] = 0]
  /\ ticks' = [ticks EXCEPT ![current] = 0]
  /\ elapsed' = [elapsed EXCEPT ![current] = 0]
  /\ slept' = [slept EXCEPT ![current] = 0]

\* Mutant: a sleep that has one tick left is not slept.
timer_sleep_check_early ==
  /\ Running("ts_check")
  /\ IF elapsed[current] + 1 < asked[current]
       THEN /\ pc' = [pc EXCEPT ![current] = "ts_down"]
            /\ UNCHANGED <<asked, ticks, sema, elapsed, slept>>
       ELSE /\ Return
            /\ sema' = [sema EXCEPT ![current] = 0]
  /\ UNCHANGED <<status, current, ready_list, all_list, priority,
                 base_priority, donor_threads, thread_ticks, new,
                 blocked_threads>>

\* timer_sleep: if (timer_elapsed (start) < ticks).
timer_sleep_check ==
  /\ Running("ts_check")
  /\ IF elapsed[current] < asked[current]
       THEN /\ pc' = [pc EXCEPT ![current] = "ts_down"]
            /\ UNCHANGED <<asked, ticks, sema, elapsed, slept>>
       ELSE /\ Return
            /\ sema' = [sema EXCEPT ![current] = 0]
  /\ UNCHANGED <<status, current, ready_list, all_list, priority,
                 base_priority, donor_threads, thread_ticks, new,
                 blocked_threads>>

\* timer_sleep: one turn of the loop of sema_down (&to_sleep.sema).
timer_sleep_down ==
  /\ Running("ts_down")
  /\ IF sema[current] = 0
       THEN /\ thread_block
            /\ UNCHANGED <<pc, sema, asked, ticks, elapsed, slept>>
       ELSE /\ sema' = [sema EXCEPT ![current] = @ - 1]
            /\ Return
            /\ UNCHANGED <<status, current, ready_list, thread_ticks>>
  /\ UNCHANGED <<all_list, priority, base_priority, donor_threads, new,
                 blocked_threads>>

\* Mutant: an element that follows a removed one is skipped.
DueSkipping(left) ==
  {blocked_threads[i] : i \in {j \in 1..Len(blocked_threads) :
                                 /\ left[blocked_threads[j]] = 0
                                 /\ j = 1 \/ left[blocked_threads[j - 1]] # 0}}

\* The sleepers that the loop over blocked_threads in timer_interrupt takes
\* off the list: those with no ticks left.
Due(left) == {t \in Range(blocked_threads) : left[t] = 0}

\* The run queue once the threads of s have joined it one after the other.
AllUnblocked(rl, s) ==
  LET queue[i \in 0..Len(s)] == IF i = 0 THEN rl ELSE Unblocked(queue[i - 1], s[i])
  IN  queue[Len(s)]

\* The semaphores once timer_interrupt has raised those of due.
Raised(due) == [t \in Thread |-> IF t \in due THEN sema[t] + 1 ELSE sema[t]]

\* timer_interrupt: the tick of the scheduler, one tick off every sleeper,
\* a sema_up for each sleeper that is due, and the yield on return that
\* thread_tick or a sema_up asks for.
timer_interrupt ==
  LET left == [t \in Thread |->
                 IF t \in Range(blocked_threads) /\ ticks[t] > 0
                   THEN ticks[t] - 1 ELSE ticks[t]]
      due == Due(left)
      woken == list_keep(blocked_threads, {t \in due : status[t] = "BLOCKED"})
      Tick(count) == [t \in Thread |->
                        IF pc[t] \in InSleep /\ count[t] < MaxSleep
                          THEN count[t] + 1 ELSE count[t]]
  IN  /\ ticks' = left
      /\ blocked_threads' = list_keep(blocked_threads, Thread \ due)
      /\ sema' = Raised(due)
      /\ IF due # {} \/ thread_ticks + 1 >= TIME_SLICE
           THEN \E rl \in {AllUnblocked(ready_list, woken)} :
                  yield_from([t \in Thread |-> IF t \in Range(woken)
                                                 THEN "READY" ELSE status[t]],
                             rl, priority)
           ELSE /\ thread_ticks' = thread_ticks + 1
                /\ UNCHANGED <<status, current, ready_list>>
      /\ elapsed' = Tick(elapsed)
      /\ slept' = [t \in Thread |-> IF t \in Range(blocked_threads)
                                      THEN Tick(slept)[t] ELSE slept[t]]
      /\ pc' = Interrupted
      /\ UNCHANGED <<all_list, priority, base_priority, donor_threads, new,
                     asked>>

\* A step of Threads.
OfThreads(A) ==
  A /\ UNCHANGED <<blocked_threads, asked, ticks, sema, elapsed, slept>>

TimerNext ==
  \/ \E n \in 1..MaxSleep : Defined /\ timer_sleep(n)
  \/ Defined /\ timer_sleep_insert
  \/ Defined /\ timer_sleep_check
  \/ Defined /\ timer_sleep_down
  \/ Defined /\ timer_interrupt
  \/ \E t \in Thread, p \in Priority : Defined /\ OfThreads(thread_create(t, p))
  \/ Defined /\ OfThreads(thread_create_unblock)
  \/ Defined /\ OfThreads(thread_create_check)
  \/ Defined /\ OfThreads(Yield)
  \/ Defined /\ OfThreads(thread_exit)
  \/ Defined /\ OfThreads(idle)

TimerSpec == TimerInit /\ [][TimerNext]_timerVars

-----------------------------------------------------------------------------
(* Properties.                                                              *)

\* The type of the state.
TimerTypeOK ==
  /\ status \in [Thread -> Status]
  /\ current \in Thread
  /\ ready_list \in Seq(Thread)
  /\ thread_ticks \in 0..(TIME_SLICE - 1)
  /\ pc \in [Thread -> {"run", "tc_unblock", "tc_check", "hlt"} \cup InSleep]
  /\ blocked_threads \in Seq(Thread)
  /\ asked \in [Thread -> 0..MaxSleep]
  /\ ticks \in [Thread -> 0..MaxSleep]
  /\ sema \in [Thread -> 0..1]
  /\ elapsed \in [Thread -> 0..MaxSleep]
  /\ slept \in [Thread -> 0..MaxSleep]

\* timer_sleep (n) returns only when n ticks have passed since it was called.
NeverEarly ==
  [][\A t \in Thread :
       pc[t] \in {"ts_check", "ts_down"} /\ pc'[t] = "run"
         => elapsed[t] >= asked[t]]_timerVars

\* A thread asleep in timer_sleep (n) is on blocked_threads, once, and has
\* been there for fewer than n ticks: the interrupt that ends its time wakes
\* it, whoever else is due at the same tick.
\* This comes with the types of the state (TimerTypeOK).
NoOversleep ==
  /\ TimerTypeOK
  /\ IsInjective(blocked_threads)
  /\ \A t \in Thread :
       status[t] = "BLOCKED" /\ pc[t] = "ts_down"
         => t \in Range(blocked_threads) /\ slept[t] < asked[t]

\* A sleeper of the highest priority gets the processor again: timer_interrupt
\* wakes it, and the threads of its priority take turns.
Wakes ==
  \A t \in Thread :
    (status[t] = "BLOCKED" /\ pc[t] = "ts_down" /\ priority[t] = PRI_MAX)
      ~> (current = t \/ ~ Defined)

\* blocked_threads is "a list of all sleeping threads" (timer.c).
SleepList == Defined

=============================================================================
