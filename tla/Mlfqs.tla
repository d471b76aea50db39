------------------------------- MODULE Mlfqs --------------------------------
(***************************************************************************)
(* The multi-level feedback queue scheduler (threads/thread.c with the     *)
(* -mlfqs option) over the state of Threads.  Besides the run queue, which *)
(* is in the order of base_priority here, a READY thread is on the queue   *)
(* of its priority; priorities are recomputed from recent_cpu and nice.    *)
(*                                                                         *)
(* thread_set_nice runs with interrupts on.  Besides the labels of         *)
(* Threads, pc[t] is one of                                                *)
(*    "sn_compute"  the new nice value is stored                           *)
(*    "sn_store"    update_priority has computed computed[t]               *)
(*    "sn_check"    update_priority has returned                           *)
(* Locks donate priorities in this mode too.  This module has the stores   *)
(* that raise and restore a priority; which thread is a donee and of whom  *)
(* is left to Synch, so any thread may be one here.                        *)
(***************************************************************************)
EXTENDS Threads, SequencesExt

CONSTANTS
  TIMER_FREQ,   \* timer ticks per second
  Q,            \* fraction bits of a fixed-point number
  PRI_DEFAULT,
  Nice,         \* the nice values that threads ask for
  Asked,        \* the priorities that threads ask for
  MaxTicks,     \* bound: timer ticks
  MaxChanges    \* bound: changes of a priority that threads ask for

ASSUME MlfqsAssumption ==
  /\ TIMER_FREQ \in Nat \ {0} /\ Q \in Nat /\ MaxTicks \in Nat /\ MaxChanges \in Nat
  /\ Nice \subseteq -20..20
  /\ PRI_DEFAULT \in Priority /\ Asked \subseteq Priority

VARIABLES
  nice,
  recent_cpu,
  load_avg,
  timer_ticks,
  priority_levels,   \* priority_levels[p]: READY threads, by priority
  highest_priority,
  computed,          \* computed[t]: local variable priority of update_priority
  donated,           \* READY threads whose priority a donation has raised
                     \*   since they joined their queue
  changes            \* the changes of a priority so far

mlfqsVars == <<threadVars, nice, recent_cpu, load_avg, timer_ticks,
               priority_levels, highest_priority, computed, donated, changes>>

-----------------------------------------------------------------------------
(* Fixed-point arithmetic (threads/fixed-point.h).                          *)

F == 2^Q

\* The division of C truncates.
Quotient(x, y) == IF x >= 0 THEN x \div y ELSE - ((- x) \div y)

MUL(x, y) == Quotient(x * y, F)
DIV(x, y) == Quotient(x * F, y)

-----------------------------------------------------------------------------
(* The formulas.                                                            *)

\* What update_priority computes for a thread.
PriorityOf(cpu, n) ==
  LET p == Quotient(PRI_MAX * F - Quotient(cpu, 4) - 2 * n * F, F)
  IN  IF p > PRI_MAX THEN PRI_MAX ELSE IF p < PRI_MIN THEN PRI_MIN ELSE p

\* update_recent_cpu, for load average load.
RecentCpu(cpu, n, load) == MUL(DIV(2 * load, 2 * load + F), cpu) + n * F

\* update_load_avg, and count_ready_threads.
LoadAvg ==
  LET ready == Len(ready_list) + (IF current = idle_thread THEN 0 ELSE 1)
  IN  MUL(Quotient(59 * F, 60), load_avg) + Quotient(F, 60) * ready

Larger(p, q) == IF p > q THEN p ELSE q

-----------------------------------------------------------------------------
(* The queues.                                                              *)

Removed(levels, t) == [p \in Priority |-> SelectSeq(levels[p], LAMBDA u : u # t)]

\* list_push_back on the queue of t's priority.
Queued(levels, t, prio) == [levels EXCEPT ![prio[t]] = Append(@, t)]

\* Mutant: a thread of another queue than the highest is taken.
next_of_levels_front(rl, levels, highest) == Head(rl)

\* next_thread_to_run for a run queue rl that is not empty:
\* highest_non_empty_level counts down from highest.
next_of_levels(rl, levels, highest) ==
  LET Filled == {p \in Priority : p <= highest /\ levels[p] # <<>>}
  IN  Head(levels[CHOOSE p \in Filled : \A q \in Filled : q <= p])

\* schedule and thread_schedule_tail.
schedule_levels(st, rl, levels, highest) ==
  LET next == IF rl = <<>> THEN idle_thread ELSE next_of_levels(rl, levels, highest)
  IN  /\ current' = next
      /\ ready_list' = SelectSeq(rl, LAMBDA u : u # next)
      /\ priority_levels' = Removed(levels, next)
      /\ highest_priority' = highest
      /\ status' = [st EXCEPT ![next] = "RUNNING"]
      /\ thread_ticks' = 0
      /\ donated' = donated \ {next}

\* thread_yield, when the queues and the priorities are these.
yield_levels(levels, highest, prio, base) ==
  LET st == [status EXCEPT ![current] = "READY"]
  IN  IF current = idle_thread
        THEN schedule_levels(st, ready_list, levels, highest)
        ELSE schedule_levels(st, list_insert_ordered(ready_list, current, base),
                             Queued(levels, current, prio),
                             Larger(highest, prio[current]))

\* thread_yield.
yield_now == yield_levels(priority_levels, highest_priority, priority, base_priority)

\* thread_block.
block_levels(st) == schedule_levels(st, ready_list, priority_levels, highest_priority)

\* thread_unblock.
unblock_levels(t) ==
  /\ status[t] = "BLOCKED"
  /\ ready_list' = list_insert_ordered(ready_list, t, base_priority)
  /\ priority_levels' = Queued(priority_levels, t, priority)
  /\ highest_priority' = Larger(highest_priority, priority[t])
  /\ status' = [status EXCEPT ![t] = "READY"]
  /\ UNCHANGED <<current, thread_ticks, donated>>

\* The running thread goes on.
Stay == UNCHANGED <<status, current, ready_list, thread_ticks, priority_levels, donated>>

statistics == <<nice, recent_cpu, load_avg, timer_ticks>>

-----------------------------------------------------------------------------
(* update_priority for the threads of all_list.  m has the priorities, the  *)
(* queues, the highest priority and the donated threads.                    *)

Mode == [prio |-> priority, levels |-> priority_levels, highest |-> highest_priority,
         donated |-> donated]

\* Mutant: a READY thread keeps its place.
Recomputed_unmoved(m, t, cpu) ==
  LET p == PriorityOf(cpu[t], nice[t])
  IN  IF t = idle_thread THEN m
      ELSE [m EXCEPT !.prio[t] = p, !.highest = Larger(@, p)]

\* Mutant: threads that are not READY join a queue too.
Recomputed_always(m, t, cpu) ==
  LET p == PriorityOf(cpu[t], nice[t])
  IN  IF t = idle_thread THEN m
      ELSE [prio |-> [m.prio EXCEPT ![t] = p],
            levels |-> [Removed(m.levels, t) EXCEPT ![p] = Append(@, t)],
            highest |-> Larger(m.highest, p),
            donated |-> m.donated \ {t}]

\* update_priority of t: a READY thread whose priority changes changes queue.
Recomputed(m, t, cpu) ==
  LET p == PriorityOf(cpu[t], nice[t])
      moves == status[t] = "READY" /\ p # m.prio[t]
  IN  IF t = idle_thread THEN m
      ELSE [prio |-> [m.prio EXCEPT ![t] = p],
            levels |-> IF moves
                         THEN [Removed(m.levels, t) EXCEPT ![p] = Append(@, t)]
                         ELSE m.levels,
            highest |-> Larger(m.highest, p),
            donated |-> IF moves THEN m.donated \ {t} ELSE m.donated]

-----------------------------------------------------------------------------
(* The steps.                                                               *)

\* The state in which thread_start returns.  init_thread has computed the
\* priority of the initial thread and then set it to PRI_DEFAULT.
MlfqsInit ==
  /\ Init
  /\ priority[initial_thread] = PRI_DEFAULT
  /\ nice = [t \in Thread |-> 0]
  /\ recent_cpu = [t \in Thread |-> 0]
  /\ load_avg = 0
  /\ timer_ticks = 0
  /\ priority_levels = [p \in Priority |-> <<>>]
  /\ highest_priority = PriorityOf(0, 0)
  /\ computed = [t \in Thread |-> 0]
  /\ donated = {}
  /\ changes = 0

\* thread_create up to thread_unblock: the new thread inherits nice and
\* recent_cpu, and has the priority asked for.
create(t, p) ==
  /\ thread_create(t, p)
  /\ nice' = [nice EXCEPT ![t] = nice[current]]
  /\ recent_cpu' = [recent_cpu EXCEPT ![t] = recent_cpu[current]]
  /\ highest_priority' =
       Larger(highest_priority, PriorityOf(recent_cpu[current], nice[current]))
  /\ UNCHANGED <<load_avg, timer_ticks, priority_levels, computed, donated>>

create_unblock ==
  /\ Running("tc_unblock")
  /\ unblock_levels(new[current])
  /\ pc' = [pc EXCEPT ![current] = "tc_check"]
  /\ UNCHANGED <<all_list, priority, base_priority, donor_threads, new, statistics, computed>>

\* thread_create: base priorities are compared; the page may be free again.
create_check ==
  /\ Running("tc_check")
  /\ \E higher \in IF status[new[current]] = "FREE"
                     THEN BOOLEAN
                     ELSE {base_priority[new[current]] > base_priority[current]} :
       IF higher THEN yield_now ELSE Stay /\ UNCHANGED highest_priority
  /\ pc' = [pc EXCEPT ![current] = "run"]
  /\ new' = [new EXCEPT ![current] = NULL]
  /\ UNCHANGED <<all_list, priority, base_priority, donor_threads, statistics, computed>>

\* thread_set_priority works in this mode too.
set_priority(p, donee) ==
  LET prio == [priority EXCEPT ![current] = IF donee /\ @ >= p THEN @ ELSE p]
      base == [base_priority EXCEPT ![current] = p]
  IN  /\ Running("run")
      /\ priority' = prio /\ base_priority' = base
      /\ \E lower \in IF ready_list = <<>>
                        THEN BOOLEAN
                        ELSE {prio[Head(ready_list)] > prio[current]} :
           IF lower THEN yield_levels(priority_levels, highest_priority, prio, base)
           ELSE Stay /\ UNCHANGED highest_priority
      /\ UNCHANGED <<all_list, donor_threads, pc, new, statistics, computed>>

\* thread_set_nice stores the nice value.
thread_set_nice(n) ==
  /\ Running("run")
  /\ nice' = [nice EXCEPT ![current] = n]
  /\ pc' = [pc EXCEPT ![current] = "sn_compute"]
  /\ Stay
  /\ UNCHANGED <<all_list, priority, base_priority, donor_threads, new, recent_cpu,
                 load_avg, timer_ticks, highest_priority, computed>>

\* thread_set_nice: update_priority computes the priority.
set_nice_compute ==
  /\ Running("sn_compute")
  /\ computed' = [computed EXCEPT ![current] =
                    PriorityOf(recent_cpu[current], nice[current])]
  /\ pc' = [pc EXCEPT ![current] = "sn_store"]
  /\ Stay
  /\ UNCHANGED <<all_list, priority, base_priority, donor_threads, new, statistics,
                 highest_priority>>

\* thread_set_nice: update_priority stores it, maybe after a tick; the thread
\* runs, so it is on no queue.
set_nice_store ==
  /\ Running("sn_store")
  /\ priority' = [priority EXCEPT ![current] = computed[current]]
  /\ highest_priority' = Larger(highest_priority, computed[current])
  /\ computed' = [computed EXCEPT ![current] = 0]
  /\ pc' = [pc EXCEPT ![current] = "sn_check"]
  /\ Stay
  /\ UNCHANGED <<all_list, base_priority, donor_threads, new, statistics>>

\* thread_set_nice: the thread yields unless its priority is the highest.
set_nice_check ==
  /\ Running("sn_check")
  /\ IF priority[current] < highest_priority
       THEN yield_now
       ELSE Stay /\ UNCHANGED highest_priority
  /\ pc' = [pc EXCEPT ![current] = "run"]
  /\ UNCHANGED <<all_list, priority, base_priority, donor_threads, new, statistics, computed>>

\* lock_acquire raises the priority of the owner t of a lock.
donate(t) ==
  /\ Running("run")
  /\ t \in Range(all_list) \ {current, idle_thread}
  /\ priority[current] > priority[t]
  /\ priority' = [priority EXCEPT ![t] = priority[current]]
  /\ donated' = IF status[t] = "READY" THEN donated \cup {t} ELSE donated
  /\ UNCHANGED <<status, current, ready_list, all_list, base_priority, donor_threads,
                 thread_ticks, pc, new, statistics, priority_levels, highest_priority,
                 computed>>

\* lock_release of a donee: the priority is that of its first donor, or its own.
restore(p) ==
  /\ Running("run")
  /\ p \in {base_priority[current]} \cup
          {priority[t] : t \in {u \in Range(all_list) : status[u] \in {"BLOCKED", "READY"}}}
  /\ priority' = [priority EXCEPT ![current] = p]
  /\ Stay
  /\ UNCHANGED <<all_list, base_priority, donor_threads, pc, new, statistics,
                 highest_priority, computed>>

\* thread_yield, thread_block and thread_exit, called by a thread.
yield ==
  /\ Running("run")
  /\ yield_now
  /\ UNCHANGED <<all_list, priority, base_priority, donor_threads, pc, new, statistics, computed>>

block ==
  /\ Running("run")
  /\ block_levels([status EXCEPT ![current] = "BLOCKED"])
  /\ UNCHANGED <<all_list, priority, base_priority, donor_threads, pc, new, statistics, computed>>

\* Nothing reads the fields of a thread that is gone: they have one value.
exit ==
  /\ Running("run")
  /\ all_list' = list_remove(all_list, current)
  /\ block_levels([status EXCEPT ![current] = IF current = initial_thread
                                                THEN "DYING" ELSE "FREE"])
  /\ priority' = [priority EXCEPT ![current] = PRI_MIN]
  /\ base_priority' = [base_priority EXCEPT ![current] = PRI_MIN]
  /\ nice' = [nice EXCEPT ![current] = 0]
  /\ recent_cpu' = [recent_cpu EXCEPT ![current] = 0]
  /\ UNCHANGED <<donor_threads, pc, new, load_avg, timer_ticks, computed>>

\* thread_unblock, called by a thread or, for an interrupted one, by a handler.
wake(t) ==
  /\ Waiting(t)
  /\ unblock_levels(t)
  /\ pc' = Interrupted
  /\ UNCHANGED <<all_list, priority, base_priority, donor_threads, new, statistics, computed>>

idle_turn ==
  /\ current = idle_thread
  /\ pc[current] = "run"
  /\ block_levels([status EXCEPT ![current] = "BLOCKED"])
  /\ pc' = [pc EXCEPT ![current] = "hlt"]
  /\ UNCHANGED <<all_list, priority, base_priority, donor_threads, new, statistics, computed>>

\* thread_tick: the running thread is charged, once a second the load average
\* and every recent_cpu are updated, every fourth tick the priorities; then the
\* yield on return when the time slice is over.
tick ==
  LET charged == IF current = idle_thread THEN recent_cpu
                 ELSE [recent_cpu EXCEPT ![current] = @ + F]
      second == timer_ticks' % TIMER_FREQ = 0
      cpu == IF second
               THEN [t \in Thread |->
                       IF t \in Range(all_list) \ {idle_thread}
                         THEN RecentCpu(charged[t], nice[t], LoadAvg)
                         ELSE charged[t]]
               ELSE charged
      Update(m, t) == Recomputed(m, t, cpu)
      m == IF timer_ticks' % TIME_SLICE = 0
             THEN FoldLeft(Update, Mode, all_list)
             ELSE Mode
  IN  /\ timer_ticks < MaxTicks
      /\ timer_ticks' = timer_ticks + 1
      /\ recent_cpu' = cpu
      /\ load_avg' = IF second THEN LoadAvg ELSE load_avg
      /\ priority' = m.prio
      /\ IF thread_ticks + 1 >= TIME_SLICE
           THEN yield_levels(m.levels, m.highest, m.prio, base_priority)
           ELSE /\ thread_ticks' = thread_ticks + 1
                /\ priority_levels' = m.levels
                /\ highest_priority' = m.highest
                /\ donated' = m.donated
                /\ UNCHANGED <<status, current, ready_list>>
      /\ pc' = Interrupted
      /\ UNCHANGED <<all_list, base_priority, donor_threads, new, nice, computed>>

\* One more change of a priority.
Change(A) == A /\ changes < MaxChanges /\ changes' = changes + 1

MlfqsNext ==
  \/ \E t \in Thread, p \in Asked : create(t, p) /\ UNCHANGED changes
  \/ create_unblock /\ UNCHANGED changes
  \/ create_check /\ UNCHANGED changes
  \/ \E p \in Asked, donee \in BOOLEAN : Change(set_priority(p, donee))
  \/ \E n \in Nice : Change(thread_set_nice(n))
  \/ set_nice_compute /\ UNCHANGED changes
  \/ set_nice_store /\ UNCHANGED changes
  \/ set_nice_check /\ UNCHANGED changes
  \/ \E t \in Thread : Change(donate(t))
  \/ \E p \in Priority : Change(restore(p))
  \/ yield /\ UNCHANGED changes
  \/ block /\ UNCHANGED changes
  \/ exit /\ UNCHANGED changes
  \/ \E t \in Thread : wake(t) /\ UNCHANGED changes
  \/ idle_turn /\ UNCHANGED changes
  \/ tick /\ UNCHANGED changes

MlfqsSpec == MlfqsInit /\ [][MlfqsNext]_mlfqsVars

-----------------------------------------------------------------------------
(* Properties.                                                              *)

\* The type of the state.
MlfqsTypeOK ==
  /\ status \in [Thread -> Status]
  /\ priority \in [Thread -> Priority]
  /\ highest_priority \in Priority
  /\ priority_levels \in [Priority -> Seq(Thread)]
  /\ load_avg \in 0..(F * Cardinality(Thread))

\* The two structures that hold the READY threads agree: a thread on the run
\* queue is on one of the priority queues, once, and no other thread is; and
\* the search that starts at highest_priority comes to it.
\* This comes with the types of the state (MlfqsTypeOK) and
\* the run queue of Threads (RunQueue).
QueuesAgree ==
  /\ MlfqsTypeOK /\ RunQueue
  /\ \A t \in Thread :
       Cardinality({x \in Priority \X (1..Cardinality(Thread)) :
                      /\ x[2] \in DOMAIN priority_levels[x[1]]
                      /\ priority_levels[x[1]][x[2]] = t})
         = IF t \in Range(ready_list) THEN 1 ELSE 0
  /\ \A p \in Priority : priority_levels[p] # <<>> => p <= highest_priority

\* A READY thread is on the queue of its priority, although priorities change
\* while it waits, unless a donation has changed its priority since.
LevelsMatch ==
  \A t \in Thread \ {idle_thread} :
    status[t] = "READY" /\ t \notin donated => t \in Range(priority_levels[priority[t]])

\* When the processor changes hands and no READY thread has a donated priority,
\* the thread that gets it has the highest priority of the READY ones.
PicksHighestLevel ==
  [][current' # current /\ donated \cup donated' = {} =>
       \A t \in Thread \ {idle_thread} :
         status'[t] = "READY" => priority'[current'] >= priority'[t]]_mlfqsVars

=============================================================================
