------------------------------ MODULE Threads ------------------------------
(***************************************************************************)
(* Kernel threads and the priority scheduler (threads/thread.c, without    *)
(* the -mlfqs option).                                                     *)
(*                                                                         *)
(* There is one processor, so the steps are the sections of code that run  *)
(* with interrupts off; an interrupt can arrive between any two of them.   *)
(* A function that turns interrupts on half-way is several steps, and      *)
(* pc[t] says where thread t is in such a function:                        *)
(*    "run"         in none of them,                                       *)
(*    "tc_unblock"  in thread_create, before thread_unblock (t),           *)
(*    "tc_check"    in thread_create, before the comparison of priorities, *)
(*    "hlt"         the idle thread, halted until an interrupt.            *)
(* thread_block and thread_unblock are called by the synchronisation       *)
(* primitives; here any running thread may block and any blocked thread    *)
(* may be woken, by a thread or by an interrupt handler.                   *)
(***************************************************************************)
EXTENDS Lists

CONSTANTS
  Thread,           \* the pages that can hold a struct thread
  idle_thread,      \* the idle thread
  initial_thread,   \* the thread running main()
  NULL,             \* the null pointer
  PRI_MIN, PRI_MAX, \* the range of priorities
  TIME_SLICE        \* timer ticks a thread may run before it must yield

ASSUME ThreadsAssumption ==
  /\ idle_thread \in Thread
  /\ initial_thread \in Thread
  /\ idle_thread # initial_thread
  /\ NULL \notin Thread
  /\ PRI_MIN \in Nat /\ PRI_MAX \in Nat /\ PRI_MIN <= PRI_MAX
  /\ TIME_SLICE \in Nat \ {0}

VARIABLES
  status,         \* "FREE" when the page holds no thread
  current,        \* the running thread
  ready_list,
  all_list,
  priority,       \* effective priority
  base_priority,
  donor_threads,  \* list of the threads that donated their priority
  thread_ticks,   \* timer ticks since the last yield
  pc,
  new             \* new[c]: the thread c is creating (t of thread_create)

threadVars == <<status, current, ready_list, all_list, priority,
                base_priority, donor_threads, thread_ticks, pc, new>>

Priority == PRI_MIN..PRI_MAX

Status == {"FREE", "RUNNING", "READY", "BLOCKED", "DYING"}

-----------------------------------------------------------------------------

\* The state in which thread_start returns: main runs, and the idle thread
\* has set idle_thread, woken main and yielded to it.
Init ==
  /\ current = initial_thread
  /\ status = [t \in Thread |-> CASE t = initial_thread -> "RUNNING"
                                  [] t = idle_thread -> "READY"
                                  [] OTHER -> "FREE"]
  /\ ready_list = <<>>
  /\ all_list = <<initial_thread, idle_thread>>
  /\ \E p \in Priority :
       priority = [t \in Thread |-> IF t = initial_thread THEN p ELSE PRI_MIN]
  /\ base_priority = priority
  /\ donor_threads = [t \in Thread |-> <<>>]
  /\ thread_ticks = 0
  /\ pc = [t \in Thread |-> "run"]
  /\ new = [t \in Thread |-> NULL]

-----------------------------------------------------------------------------
(* The sections of thread.c that the steps of all clients are made of.      *)

\* Mutant: a run queue of one thread is taken for an empty one.
next_thread_to_run_one(rl) == IF Len(rl) <= 1 THEN idle_thread ELSE Head(rl)

\* next_thread_to_run, for the run queue rl.
next_thread_to_run(rl) == IF rl = <<>> THEN idle_thread ELSE Head(rl)

\* schedule and thread_schedule_tail: st and rl are the states of the threads
\* and the run queue when the running thread has changed its own status.
schedule(st, rl) ==
  /\ current' = next_thread_to_run(rl)
  /\ ready_list' = IF rl = <<>> THEN rl ELSE Tail(rl)
  /\ status' = [st EXCEPT ![next_thread_to_run(rl)] = "RUNNING"]
  /\ thread_ticks' = 0

\* thread_block
thread_block == schedule([status EXCEPT ![current] = "BLOCKED"], ready_list)

\* The run queue once thread_unblock (t) has put t on rl.
Unblocked(rl, t) == list_insert_ordered(rl, t, priority)

\* thread_unblock.  The guard is its assertion.
thread_unblock(t) ==
  /\ status[t] = "BLOCKED"
  /\ ready_list' = Unblocked(ready_list, t)
  /\ status' = [status EXCEPT ![t] = "READY"]
  /\ UNCHANGED <<current, thread_ticks>>

\* Mutant: the idle thread joins the run queue.
yield_from_idle(st, rl, prio) ==
  schedule([st EXCEPT ![current] = "READY"],
           list_insert_ordered(rl, current, prio))

\* Mutant: a thread that yields goes to the end of the run queue.
yield_from_fifo(st, rl, prio) ==
  schedule([st EXCEPT ![current] = "READY"],
           IF current = idle_thread THEN rl ELSE Append(rl, current))

\* Mutant: a thread that yields goes before the threads of its priority.
yield_from_front(st, rl, prio) ==
  LET before == SelectSeq(rl, LAMBDA t : prio[t] > prio[current])
      behind == SelectSeq(rl, LAMBDA t : prio[t] <= prio[current])
  IN  schedule([st EXCEPT ![current] = "READY"],
               IF current = idle_thread THEN rl ELSE before \o <<current>> \o behind)

\* thread_yield when the threads are in state st, the run queue is rl and
\* the priorities are prio.  The idle thread becomes ready without joining
\* the run queue.
yield_from(st, rl, prio) ==
  schedule([st EXCEPT ![current] = "READY"],
           IF current = idle_thread
             THEN rl
             ELSE list_insert_ordered(rl, current, prio))

\* thread_yield
thread_yield == yield_from(status, ready_list, priority)

\* Mutant: the idle thread halts again without looking at the run queue.
InterruptedStays == pc

\* The pc of an interrupted thread: an interrupt ends the idle thread's hlt.
Interrupted == [pc EXCEPT ![current] = IF @ = "hlt" THEN "run" ELSE @]

-----------------------------------------------------------------------------
(* The steps.                                                               *)

Running(label) ==
  /\ current # idle_thread
  /\ pc[current] = label

\* thread_create up to thread_unblock: page t becomes a blocked thread of
\* priority p.
thread_create(t, p) ==
  /\ Running("run")
  /\ status[t] = "FREE"
  /\ status' = [status EXCEPT ![t] = "BLOCKED"]
  /\ priority' = [priority EXCEPT ![t] = p]
  /\ base_priority' = [base_priority EXCEPT ![t] = p]
  /\ donor_threads' = [donor_threads EXCEPT ![t] = <<>>]
  /\ all_list' = Append(all_list, t)
  /\ pc' = [pc EXCEPT ![current] = "tc_unblock", ![t] = "run"]
  /\ new' = [new EXCEPT ![current] = t]
  /\ UNCHANGED <<current, ready_list, thread_ticks>>

\* thread_create: "Add to run queue".
thread_create_unblock ==
  /\ Running("tc_unblock")
  /\ thread_unblock(new[current])
  /\ pc' = [pc EXCEPT ![current] = "tc_check"]
  /\ UNCHANGED <<all_list, priority, base_priority, donor_threads, new>>

\* thread_create: yield to the new thread if its priority is higher.  By now
\* it may have run and exited; what is read from its page is then arbitrary.
thread_create_check ==
  /\ Running("tc_check")
  /\ pc' = [pc EXCEPT ![current] = "run"]
  /\ new' = [new EXCEPT ![current] = NULL]
  /\ UNCHANGED <<all_list, priority, base_priority, donor_threads>>
  /\ \E higher \in IF status[new[current]] = "FREE"
                     THEN BOOLEAN
                     ELSE {priority[new[current]] > priority[current]} :
       IF higher THEN thread_yield
       ELSE UNCHANGED <<status, current, ready_list, thread_ticks>>

\* thread_set_priority.  The front of an empty run queue is not a thread:
\* the priority compared with is then arbitrary.
thread_set_priority(p) ==
  LET donee == donor_threads[current] # <<>>
      prio == [priority EXCEPT ![current] = IF donee /\ @ >= p THEN @ ELSE p]
  IN  /\ Running("run")
      /\ priority' = prio
      /\ base_priority' = [base_priority EXCEPT ![current] = p]
      /\ donor_threads' =
           [donor_threads EXCEPT ![current] =
              IF donee /\ priority[current] < p THEN <<>> ELSE @]
      /\ \E lower \in IF ready_list = <<>>
                        THEN BOOLEAN
                        ELSE {prio[Head(ready_list)] > prio[current]} :
           IF lower THEN yield_from(status, ready_list, prio)
           ELSE UNCHANGED <<status, current, ready_list, thread_ticks>>
      /\ UNCHANGED <<all_list, pc, new>>

\* thread_yield, called by a thread.
Yield ==
  /\ Running("run")
  /\ thread_yield
  /\ UNCHANGED <<all_list, priority, base_priority, donor_threads, pc, new>>

\* thread_block, called by a thread that waits for some event.
Block ==
  /\ Running("run")
  /\ thread_block
  /\ UNCHANGED <<all_list, priority, base_priority, donor_threads, pc, new>>

\* t waits for an event: it is blocked, and not because it is being created.
Waiting(t) ==
  /\ t # idle_thread
  /\ status[t] = "BLOCKED"
  /\ \A c \in Thread : ~ (pc[c] = "tc_unblock" /\ new[c] = t)

\* thread_unblock, called by a thread for a thread that waits.
Wake(t) ==
  /\ Running("run")
  /\ Waiting(t)
  /\ thread_unblock(t)
  /\ UNCHANGED <<all_list, priority, base_priority, donor_threads, pc, new>>

\* Mutant: thread_exit leaves the thread on all_list.
thread_exit_listed ==
  /\ Running("run")
  /\ schedule([status EXCEPT
                 ![current] = IF current = initial_thread
                                THEN "DYING" ELSE "FREE"],
              ready_list)
  /\ UNCHANGED <<all_list, priority, base_priority, donor_threads, pc, new>>

\* thread_exit.  The next thread to run frees the page, unless it is the
\* initial thread's.
thread_exit ==
  /\ Running("run")
  /\ all_list' = list_remove(all_list, current)
  /\ schedule([status EXCEPT
                 ![current] = IF current = initial_thread
                                THEN "DYING" ELSE "FREE"],
              ready_list)
  /\ UNCHANGED <<priority, base_priority, donor_threads, pc, new>>

\* One turn of the idle thread's loop, up to and including its sti and hlt.
idle ==
  /\ current = idle_thread
  /\ pc[current] = "run"
  /\ thread_block
  /\ pc' = [pc EXCEPT ![current] = "hlt"]
  /\ UNCHANGED <<all_list, priority, base_priority, donor_threads, new>>

\* Mutant: the time slice is one tick too long.
thread_tick_late ==
  /\ IF thread_ticks + 1 > TIME_SLICE
       THEN thread_yield
       ELSE /\ thread_ticks' = thread_ticks + 1
            /\ UNCHANGED <<status, current, ready_list>>
  /\ pc' = Interrupted
  /\ UNCHANGED <<all_list, priority, base_priority, donor_threads, new>>

\* thread_tick, called by the timer interrupt handler, and the yield on
\* return from the interrupt when the time slice is over.
thread_tick ==
  /\ IF thread_ticks + 1 >= TIME_SLICE
       THEN thread_yield
       ELSE /\ thread_ticks' = thread_ticks + 1
            /\ UNCHANGED <<status, current, ready_list>>
  /\ pc' = Interrupted
  /\ UNCHANGED <<all_list, priority, base_priority, donor_threads, new>>

\* A device's interrupt handler wakes t; the interrupted thread goes on.
InterruptWake(t) ==
  /\ Waiting(t)
  /\ thread_unblock(t)
  /\ pc' = Interrupted
  /\ UNCHANGED <<all_list, priority, base_priority, donor_threads, new>>

\* A device's interrupt handler wakes t and calls intr_yield_on_return.
InterruptWakeYield(t) ==
  /\ Waiting(t)
  /\ yield_from([status EXCEPT ![t] = "READY"], Unblocked(ready_list, t),
                priority)
  /\ pc' = Interrupted
  /\ UNCHANGED <<all_list, priority, base_priority, donor_threads, new>>

Next ==
  \/ \E t \in Thread, p \in Priority : thread_create(t, p)
  \/ thread_create_unblock
  \/ thread_create_check
  \/ \E p \in Priority : thread_set_priority(p)
  \/ Yield
  \/ Block
  \/ \E t \in Thread : Wake(t)
  \/ thread_exit
  \/ idle
  \/ thread_tick
  \/ \E t \in Thread : InterruptWake(t) \/ InterruptWakeYield(t)

Spec == Init /\ [][Next]_threadVars

\* The timer interrupts forever.
FairSpec == Spec /\ WF_threadVars(thread_tick)

-----------------------------------------------------------------------------
(* Properties.                                                              *)

\* The type of the state.
TypeOK ==
  /\ status \in [Thread -> Status]
  /\ current \in Thread
  /\ ready_list \in Seq(Thread)
  /\ all_list \in Seq(Thread)
  /\ priority \in [Thread -> Priority]
  /\ base_priority \in [Thread -> Priority]
  /\ donor_threads \in [Thread -> Seq(Thread)]
  /\ thread_ticks \in 0..(TIME_SLICE - 1)
  /\ pc \in [Thread -> {"run", "tc_unblock", "tc_check", "hlt"}]
  /\ new \in [Thread -> Thread \cup {NULL}]

\* The running thread, and no other, has status RUNNING, so the assertion of
\* thread_current holds; the run queue holds each READY thread once, and
\* nothing else, except that the idle thread is never on it.
RunQueue ==
  /\ \A t \in Thread : status[t] = "RUNNING" <=> t = current
  /\ \A t \in Thread :
       t \in Range(ready_list) <=> status[t] = "READY" /\ t # idle_thread
  /\ IsInjective(ready_list)

\* all_list holds each live thread once: thread_foreach and thread_by_tid
\* never reach the page of a thread that has exited.
AllList ==
  /\ \A t \in Thread :
       t \in Range(all_list) <=> status[t] \notin {"FREE", "DYING"}
  /\ IsInjective(all_list)

\* While the idle thread is halted no thread is ready: no wake-up falls
\* between its enabling of interrupts and its hlt.
NoMissedWakeup ==
  current = idle_thread /\ pc[idle_thread] = "hlt" => ready_list = <<>>

\* The run queue is in descending order of effective priority.
ReadySorted == Descending(ready_list, priority)

\* next_thread_to_run takes "the thread with the highest effective priority":
\* when the processor changes hands, no ready thread is left behind that has
\* a higher priority than the thread that gets it.
PicksHighest ==
  [][current' # current =>
       \A t \in Thread \ {idle_thread} :
         status'[t] = "READY" => priority'[current'] >= priority'[t]
                                 /\ current' # idle_thread]_threadVars

\* A ready thread of the highest priority gets the processor: threads of
\* equal priority take turns, because every time slice ends.
Top(t) ==
  \A u \in Thread : status[u] # "FREE" => priority[t] >= priority[u]

RoundRobin ==
  \A t \in Thread \ {idle_thread} :
    (status[t] = "READY" /\ Top(t)) ~> (status[t] # "READY" \/ ~ Top(t))

\* The threads go through the life cycle of ThreadLifecycle.
Lifecycle == INSTANCE ThreadLifecycle
LifecycleSpec == Lifecycle!Spec

=============================================================================
