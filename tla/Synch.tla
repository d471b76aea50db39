------------------------------- MODULE Synch -------------------------------
(***************************************************************************)
(* Semaphores and locks with priority donation (threads/synch.c), on top   *)
(* of the scheduler of Threads.                                            *)
(*                                                                         *)
(* A lock is identified with its semaphore.  The semaphore operations are  *)
(* sections with interrupts off.  lock_acquire and lock_release run with   *)
(* interrupts on: every statement that reads or writes state other threads *)
(* can change is a step of its own, one turn of the loop over the donors   *)
(* and the insertion of a donor included, and a thread can lose the        *)
(* processor in between.                                                   *)
(* Besides the labels of Threads, pc[t] is one of:                         *)
(*    "down"       waiting in sema_down (arg[t])                           *)
(*    "up_check"   in sema_up, after the section with interrupts off       *)
(*    "la_donate"  in lock_acquire (arg[t]), lock_owner is not null        *)
(*    "la_raise", "la_insert", "la_wait"  in its first donation            *)
(*    "la_next"    about to read the next lock, "la_nest" and "la_nraise"  *)
(*                 in its loop over nested donations                       *)
(*    "la_down"    before or in its sema_down                              *)
(*    "la_got"     after it, "la_hold" before the holder is set            *)
(*    "lr_donors"  in lock_release (arg[t]), the holder is null            *)
(*    "lr_walk"    in its loop over the donors                             *)
(*    "lr_first"   after it, "lr_prio" before the priority is set          *)
(*    "lr_up"      before its sema_up                                      *)
(* Threads are created by Threads; here the threads in Created exist.      *)
(***************************************************************************)
EXTENDS Threads

CONSTANTS
  Lock,             \* the locks
  Sema,             \* the semaphores that are not part of a lock
  DeviceSema,       \* those of them that interrupt handlers up too
  Uses,             \* the locks and semaphores that each thread's code may
                    \*   use: functions from threads to sets of them
  MaxValue,         \* bound on the value of each semaphore in Sema
  Settable,         \* the priorities each thread's code passes to
                    \*   thread_set_priority
  Exiting,          \* the threads that may exit
  Created,          \* the threads main has created, in order
  InitialPriority,  \* their priorities and main's
  Address           \* the address of each thread's page and of all_list.head

ASSUME SynchAssumption ==
  /\ Lock \cap Sema = {}
  /\ NULL \notin Lock \cup Sema
  /\ DeviceSema \subseteq Sema
  /\ Uses \subseteq [Thread -> SUBSET (Lock \cup Sema)]
  /\ MaxValue \in [Sema -> Nat]
  /\ Settable \in [Thread -> SUBSET Priority]
  /\ Exiting \subseteq Thread
  /\ Created \in Seq(Thread \ {initial_thread, idle_thread})
  /\ IsInjective(Created)
  /\ InitialPriority \in [Thread -> Priority]
  /\ \A t \in Thread : InitialPriority[initial_thread] >= InitialPriority[t]
  /\ Address \in [Thread \cup {NULL} -> Nat]
  /\ IsFiniteSet(Thread)

Semaphore == Lock \cup Sema

VARIABLES
  value,         \* value of each semaphore
  waiters,       \* its waiting threads
  holder,        \* holder of each lock, or NULL
  waiting_lock,  \* the lock a donor waits for, or NULL
  arg,           \* lock or semaphore of the call in progress, or NULL
  lock_owner,    \* local variables of lock_acquire, (waiting_elem)
  nested_lock,   \*   lock_release and (woken) sema_up: NULL when they are
  waiting_elem,  \*   not going to be read
  woken,
  fault,         \* the kernel exception that stopped the machine, or NULL
  uses           \* the element of Uses that the threads' code follows

schedVars == <<status, current, ready_list, thread_ticks>>
prioVars == <<priority, base_priority, donor_threads>>
semaVars == <<value, waiters>>
lockVars == <<holder, waiting_lock>>
localVars == <<arg, lock_owner, nested_lock, waiting_elem, woken>>
synchVars == <<semaVars, lockVars, localVars, fault>>
vars == <<threadVars, synchVars, uses>>

\* The state after thread_start when main has created the threads of Created
\* and still runs, since none of them has a higher priority.
SynchInit ==
  /\ current = initial_thread
  /\ status = [t \in Thread |-> CASE t = initial_thread -> "RUNNING"
                                  [] t = idle_thread -> "READY"
                                  [] t \in Range(Created) -> "READY"
                                  [] OTHER -> "FREE"]
  /\ ready_list = list_sort(Created, InitialPriority)
  /\ all_list = <<initial_thread, idle_thread>> \o Created
  /\ priority = InitialPriority
  /\ base_priority = InitialPriority
  /\ donor_threads = [t \in Thread |-> <<>>]
  /\ thread_ticks = 0
  /\ pc = [t \in Thread |-> "run"]
  /\ new = [t \in Thread |-> NULL]
  /\ value = [s \in Semaphore |-> IF s \in Lock THEN 1 ELSE 0]
  /\ waiters = [s \in Semaphore |-> <<>>]
  /\ holder = [l \in Lock |-> NULL]
  /\ waiting_lock = [t \in Thread |-> NULL]
  /\ arg = [t \in Thread |-> NULL]
  /\ lock_owner = [t \in Thread |-> NULL]
  /\ nested_lock = [t \in Thread |-> NULL]
  /\ waiting_elem = [t \in Thread |-> NULL]
  /\ woken = [t \in Thread |-> NULL]
  /\ fault = NULL
  /\ uses \in Uses

-----------------------------------------------------------------------------
(* Semaphores.                                                              *)

\* The running thread is at label; a kernel exception stops the machine.
At(label) == fault = NULL /\ Running(label)

Goto(label) == pc' = [pc EXCEPT ![current] = label]

\* Mutant: sema_down works on a copy of the semaphore.
down_copy(s, loop, done) ==
  \/ /\ value[s] = 0
     /\ waiters' = [waiters EXCEPT ![s] =
                      list_insert_ordered(@, current, priority)]
     /\ thread_block
     /\ Goto(loop)
     /\ UNCHANGED value
  \/ /\ value[s] > 0
     /\ Goto(done)
     /\ UNCHANGED <<value, waiters, schedVars>>

\* One turn of the loop of sema_down (s): the running thread sleeps, to
\* continue at label loop, or takes the semaphore and continues at done.
down(s, loop, done) ==
  \/ /\ value[s] = 0
     /\ waiters' = [waiters EXCEPT ![s] =
                      list_insert_ordered(@, current, priority)]
     /\ thread_block
     /\ Goto(loop)
     /\ UNCHANGED value
  \/ /\ value[s] > 0
     /\ value' = [value EXCEPT ![s] = @ - 1]
     /\ Goto(done)
     /\ UNCHANGED <<waiters, schedVars>>

\* Mutant: the woken thread stays on the wait list.
up_front(s) ==
  /\ value' = [value EXCEPT ![s] = @ + 1]
  /\ IF waiters[s] = <<>>
       THEN /\ UNCHANGED <<waiters, schedVars, woken>>
            /\ Goto("run")
       ELSE LET sorted == list_sort(waiters[s], priority)
            IN  /\ waiters' = [waiters EXCEPT ![s] = sorted]
                /\ thread_unblock(Head(sorted))
                /\ woken' = [woken EXCEPT ![current] = Head(sorted)]
                /\ Goto("up_check")

\* Mutant: a thread is woken only when the value was 0.
up_if_zero(s) ==
  /\ value' = [value EXCEPT ![s] = @ + 1]
  /\ IF waiters[s] = <<>> \/ value[s] > 0
       THEN /\ UNCHANGED <<waiters, schedVars, woken>>
            /\ Goto("run")
       ELSE LET sorted == list_sort(waiters[s], priority)
            IN  /\ waiters' = [waiters EXCEPT ![s] = Tail(sorted)]
                /\ thread_unblock(Head(sorted))
                /\ woken' = [woken EXCEPT ![current] = Head(sorted)]
                /\ Goto("up_check")

\* The section of sema_up (s) with interrupts off.
up(s) ==
  /\ value' = [value EXCEPT ![s] = @ + 1]
  /\ IF waiters[s] = <<>>
       THEN /\ UNCHANGED <<waiters, schedVars, woken>>
            /\ Goto("run")
       ELSE LET sorted == list_sort(waiters[s], priority)
            IN  /\ waiters' = [waiters EXCEPT ![s] = Tail(sorted)]
                /\ thread_unblock(Head(sorted))
                /\ woken' = [woken EXCEPT ![current] = Head(sorted)]
                /\ Goto("up_check")

sema_down(s) ==
  /\ At("run") \/ (At("down") /\ arg[current] = s)
  /\ down(s, "down", "run")
  /\ arg' = [arg EXCEPT ![current] = IF value[s] = 0 THEN s ELSE NULL]
  /\ UNCHANGED <<all_list, new, prioVars, lockVars, lock_owner, nested_lock,
                 waiting_elem, woken, fault>>

sema_try_down(s) ==
  /\ At("run")
  /\ value[s] > 0
  /\ value' = [value EXCEPT ![s] = @ - 1]
  /\ UNCHANGED <<threadVars, waiters, lockVars, localVars, fault>>

sema_up(s) ==
  /\ At("run")
  /\ value[s] < MaxValue[s]
  /\ up(s)
  /\ UNCHANGED <<all_list, new, prioVars, lockVars, arg, lock_owner,
                 nested_lock, waiting_elem, fault>>

\* The end of sema_up: yield to the woken thread if its priority is higher.
\* By now it may have run and exited: what is read from its page is then
\* arbitrary.
sema_up_check ==
  /\ At("up_check")
  /\ \E higher \in IF status[woken[current]] = "FREE"
                     THEN BOOLEAN
                     ELSE {priority[woken[current]] > priority[current]} :
       IF higher THEN thread_yield ELSE UNCHANGED schedVars
  /\ Goto("run")
  /\ woken' = [woken EXCEPT ![current] = NULL]
  /\ UNCHANGED <<all_list, new, prioVars, semaVars, lockVars, arg, lock_owner,
                 nested_lock, waiting_elem, fault>>

\* sema_up (s) in an interrupt handler: it always asks for a yield on return.
sema_up_interrupt(s) ==
  /\ fault = NULL
  /\ value[s] < MaxValue[s]
  /\ value' = [value EXCEPT ![s] = @ + 1]
  /\ IF waiters[s] = <<>>
       THEN /\ thread_yield
            /\ UNCHANGED waiters
       ELSE LET sorted == list_sort(waiters[s], priority)
                t == Head(sorted)
            IN  /\ waiters' = [waiters EXCEPT ![s] = Tail(sorted)]
                /\ status[t] = "BLOCKED"
                /\ yield_from([status EXCEPT ![t] = "READY"],
                              Unblocked(ready_list, t), priority)
  /\ pc' = Interrupted
  /\ UNCHANGED <<all_list, new, prioVars, lockVars, localVars, fault>>

-----------------------------------------------------------------------------
(* Locks.                                                                   *)

\* lock_acquire up to the reading of the holder.
lock_acquire(l) ==
  /\ At("run")
  /\ holder[l] # current
  /\ arg' = [arg EXCEPT ![current] = l]
  /\ lock_owner' = [lock_owner EXCEPT ![current] = holder[l]]
  /\ Goto(IF holder[l] = NULL THEN "la_down" ELSE "la_donate")
  /\ UNCHANGED <<schedVars, all_list, new, prioVars, semaVars, lockVars,
                 nested_lock, waiting_elem, woken, fault>>

\* The list of donors is kept in the order of the wrong key: the comparison
\* takes a donor_elem for an elem and compares the allelem.prev pointers.
allelem_prev ==
  [t \in Thread |->
     LET Before == {i \in 1..(Len(all_list) - 1) : all_list[i + 1] = t}
     IN  Address[IF Before = {} THEN NULL ELSE all_list[CHOOSE i \in Before : TRUE]]]

\* The memory of t has been freed.
Freed(t) == status[t] = "FREE"

\* c's donor_elem is on some list of donors.
IsDonor(c) == \E o \in Thread : c \in Range(donor_threads[o])

Raise(what) ==
  /\ fault' = what
  /\ UNCHANGED <<threadVars, semaVars, lockVars, localVars>>

\* lock_acquire: does the current thread have to donate its priority to the
\* owner read before?
lock_acquire_donate ==
  LET c == current
      o == lock_owner[c]
  IN  /\ At("la_donate")
      /\ \/ /\ Freed(o)
            /\ Raise("owner freed")
         \/ /\ ~ Freed(o)
            /\ priority[c] <= priority[o]
            /\ Goto("la_down")
            /\ lock_owner' = [lock_owner EXCEPT ![c] = NULL]
            /\ UNCHANGED <<schedVars, all_list, new, prioVars, semaVars,
                           lockVars, arg, nested_lock, waiting_elem, woken,
                           fault>>
         \/ /\ ~ Freed(o)
            /\ priority[c] > priority[o]
            /\ Goto("la_raise")
            /\ UNCHANGED <<schedVars, all_list, new, prioVars, synchVars>>

\* lock_acquire: the priority is donated to the owner.
lock_acquire_raise ==
  LET c == current
      o == lock_owner[c]
  IN  /\ At("la_raise")
      /\ \/ Freed(o) /\ Raise("owner freed")
         \/ /\ ~ Freed(o)
            /\ priority' = [priority EXCEPT ![o] = priority[c]]
            /\ Goto("la_insert")
            /\ UNCHANGED <<schedVars, all_list, new, base_priority,
                           donor_threads, synchVars>>

\* lock_acquire: the current thread joins the donors of the owner.
lock_acquire_insert ==
  LET c == current
      o == lock_owner[c]
  IN  /\ At("la_insert")
      /\ \/ /\ Freed(o)
            /\ Raise("owner freed")
         \/ /\ ~ Freed(o)
            /\ IsDonor(c) \/ \E d \in Range(donor_threads[o]) : Freed(d)
            /\ Raise("donor list corrupt")
         \/ /\ ~ Freed(o)
            /\ ~ IsDonor(c)
            /\ \A d \in Range(donor_threads[o]) : ~ Freed(d)
            /\ donor_threads' = [donor_threads EXCEPT ![o] =
                                   list_insert_ordered(@, c, allelem_prev)]
            /\ Goto("la_wait")
            /\ UNCHANGED <<schedVars, all_list, new, priority, base_priority,
                           synchVars>>

\* lock_acquire: waiting_lock is set, ...
lock_acquire_wait ==
  /\ At("la_wait")
  /\ waiting_lock' = [waiting_lock EXCEPT ![current] = arg[current]]
  /\ Goto("la_next")
  /\ UNCHANGED <<schedVars, all_list, new, prioVars, semaVars, holder,
                 localVars, fault>>

\* ... and the lock that lock_owner waits for is read, before the loop over
\* nested donations and at the end of each turn.
lock_acquire_next ==
  LET c == current
      o == lock_owner[c]
  IN  /\ At("la_next")
      /\ \/ Freed(o) /\ Raise("owner freed")
         \/ /\ ~ Freed(o)
            /\ nested_lock' = [nested_lock EXCEPT ![c] = waiting_lock[o]]
            /\ lock_owner' = [lock_owner EXCEPT ![c] = NULL]
            /\ Goto("la_nest")
            /\ UNCHANGED <<schedVars, all_list, new, prioVars, semaVars,
                           lockVars, arg, waiting_elem, woken, fault>>

\* lock_acquire: the test of the loop and the reading of the next holder.
lock_acquire_nest ==
  LET c == current
      n == nested_lock[c]
  IN  /\ At("la_nest")
      /\ \/ /\ n = NULL
            /\ Goto("la_down")
            /\ UNCHANGED <<lock_owner, nested_lock>>
         \/ /\ n # NULL
            /\ lock_owner' = [lock_owner EXCEPT ![c] = holder[n]]
            /\ nested_lock' = [nested_lock EXCEPT ![c] = NULL]
            /\ Goto("la_nraise")
      /\ UNCHANGED <<schedVars, all_list, new, prioVars, semaVars, lockVars,
                     arg, waiting_elem, woken, fault>>

\* lock_acquire: the priority is donated to that holder.
lock_acquire_nraise ==
  LET c == current
      o == lock_owner[c]
  IN  /\ At("la_nraise")
      /\ \/ o = NULL /\ Raise("null holder")
         \/ o # NULL /\ Freed(o) /\ Raise("owner freed")
         \/ /\ o # NULL /\ ~ Freed(o)
            /\ priority' = [priority EXCEPT ![o] = priority[c]]
            /\ Goto("la_next")
            /\ UNCHANGED <<schedVars, all_list, new, base_priority,
                           donor_threads, synchVars>>

lock_acquire_down ==
  /\ At("la_down")
  /\ down(arg[current], "la_down", "la_got")
  /\ UNCHANGED <<all_list, new, prioVars, lockVars, localVars, fault>>

lock_acquire_got ==
  /\ At("la_got")
  /\ waiting_lock' = [waiting_lock EXCEPT ![current] = NULL]
  /\ Goto("la_hold")
  /\ UNCHANGED <<schedVars, all_list, new, prioVars, semaVars, holder,
                 localVars, fault>>

lock_acquire_hold ==
  /\ At("la_hold")
  /\ holder' = [holder EXCEPT ![arg[current]] = current]
  /\ arg' = [arg EXCEPT ![current] = NULL]
  /\ Goto("run")
  /\ UNCHANGED <<schedVars, all_list, new, prioVars, semaVars, waiting_lock,
                 lock_owner, nested_lock, waiting_elem, woken, fault>>

\* lock_release up to the clearing of the holder.
lock_release(l) ==
  /\ At("run")
  /\ holder[l] = current
  /\ holder' = [holder EXCEPT ![l] = NULL]
  /\ arg' = [arg EXCEPT ![current] = l]
  /\ Goto("lr_donors")
  /\ UNCHANGED <<schedVars, all_list, new, prioVars, semaVars, waiting_lock,
                 lock_owner, nested_lock, waiting_elem, woken, fault>>

\* list_begin of the donors of c and list_next of one of them, NULL at the
\* end of the list.
list_begin(c) == IF donor_threads[c] = <<>> THEN NULL ELSE Head(donor_threads[c])
list_next(c, d) ==
  LET After == {i \in 2..Len(donor_threads[c]) : donor_threads[c][i - 1] = d}
  IN  IF After = {} THEN NULL ELSE donor_threads[c][CHOOSE i \in After : TRUE]

\* lock_release: is the thread a donee?
lock_release_donors ==
  LET c == current
  IN  /\ At("lr_donors")
      /\ waiting_elem' = [waiting_elem EXCEPT ![c] = list_begin(c)]
      /\ Goto(IF donor_threads[c] = <<>> THEN "lr_up" ELSE "lr_walk")
      /\ UNCHANGED <<schedVars, all_list, new, prioVars, semaVars, lockVars,
                     arg, lock_owner, nested_lock, woken, fault>>

\* lock_release: one turn of the loop over the donors: a donor that waits for
\* the lock is forgotten.
lock_release_walk ==
  LET c == current
      d == waiting_elem[c]
  IN  /\ At("lr_walk")
      /\ \/ Freed(d) /\ Raise("donor list corrupt")
         \/ /\ ~ Freed(d)
            /\ donor_threads' = [donor_threads EXCEPT ![c] =
                                   IF waiting_lock[d] = arg[c]
                                     THEN list_remove(@, d) ELSE @]
            /\ waiting_elem' = [waiting_elem EXCEPT ![c] = list_next(c, d)]
            /\ Goto(IF list_next(c, d) = NULL THEN "lr_first" ELSE "lr_walk")
            /\ UNCHANGED <<schedVars, all_list, new, priority, base_priority,
                           semaVars, lockVars, arg, lock_owner, nested_lock,
                           woken, fault>>

\* lock_release: the first donor that is left, if any.
lock_release_first ==
  LET c == current
  IN  /\ At("lr_first")
      /\ waiting_elem' = [waiting_elem EXCEPT ![c] = list_begin(c)]
      /\ Goto("lr_prio")
      /\ UNCHANGED <<schedVars, all_list, new, prioVars, semaVars, lockVars,
                     arg, lock_owner, nested_lock, woken, fault>>

\* lock_release: the priority becomes that of the first donor, or the base
\* priority.
lock_release_prio ==
  LET c == current
      d == waiting_elem[c]
  IN  /\ At("lr_prio")
      /\ \/ d # NULL /\ Freed(d) /\ Raise("donor list corrupt")
         \/ /\ ~ (d # NULL /\ Freed(d))
            /\ priority' = [priority EXCEPT ![c] =
                              IF d = NULL THEN base_priority[c] ELSE priority[d]]
            /\ waiting_elem' = [waiting_elem EXCEPT ![c] = NULL]
            /\ Goto("lr_up")
            /\ UNCHANGED <<schedVars, all_list, new, base_priority,
                           donor_threads, semaVars, lockVars, arg, lock_owner,
                           nested_lock, woken, fault>>

lock_release_up ==
  /\ At("lr_up")
  /\ up(arg[current])
  /\ arg' = [arg EXCEPT ![current] = NULL]
  /\ UNCHANGED <<all_list, new, prioVars, lockVars, lock_owner, nested_lock,
                 waiting_elem, fault>>

-----------------------------------------------------------------------------

\* A thread leaves only when it has released its locks.
Exit ==
  /\ current \in Exiting
  /\ \A l \in Lock : holder[l] # current
  /\ thread_exit

\* A step of Threads.
Sched(A) == fault = NULL /\ A /\ UNCHANGED synchVars

\* Devices up the semaphores that threads wait on.
SynchStep ==
  \/ \E s \in Sema \cap uses[current] : sema_down(s) \/ sema_try_down(s)
  \/ \E s \in Sema \cap uses[current] : sema_up(s)
  \/ sema_up_check
  \/ \E s \in DeviceSema \cap UNION Range(uses) : sema_up_interrupt(s)
  \/ \E l \in Lock \cap uses[current] : lock_acquire(l) \/ lock_release(l)
  \/ lock_acquire_donate
  \/ lock_acquire_raise
  \/ lock_acquire_insert
  \/ lock_acquire_wait
  \/ lock_acquire_next
  \/ lock_acquire_nest
  \/ lock_acquire_nraise
  \/ lock_acquire_down
  \/ lock_acquire_got
  \/ lock_acquire_hold
  \/ lock_release_donors
  \/ lock_release_walk
  \/ lock_release_first
  \/ lock_release_prio
  \/ lock_release_up
  \/ \E p \in Settable[current] : Sched(thread_set_priority(p))
  \/ Sched(Yield)
  \/ Sched(idle)
  \/ Sched(thread_tick)
  \/ Sched(Exit)

SynchNext == SynchStep /\ UNCHANGED uses

SynchSpec == SynchInit /\ [][SynchNext]_vars

-----------------------------------------------------------------------------
(* Properties.                                                              *)

\* The type of the state.
SynchTypeOK ==
  /\ status \in [Thread -> Status]
  /\ current \in Thread
  /\ ready_list \in Seq(Thread)
  /\ all_list \in Seq(Thread)
  /\ priority \in [Thread -> Priority]
  /\ base_priority \in [Thread -> Priority]
  /\ donor_threads \in [Thread -> Seq(Thread)]
  /\ thread_ticks \in 0..(TIME_SLICE - 1)
  /\ pc \in [Thread -> {"run", "hlt", "down", "up_check", "la_donate",
                        "la_raise", "la_insert", "la_wait", "la_next",
                        "la_nest", "la_nraise", "la_down", "la_got", "la_hold",
                        "lr_donors", "lr_walk", "lr_first", "lr_prio",
                        "lr_up"}]
  /\ value \in [Semaphore -> Nat]
  /\ waiters \in [Semaphore -> Seq(Thread)]
  /\ holder \in [Lock -> Thread \cup {NULL}]
  /\ waiting_lock \in [Thread -> Lock \cup {NULL}]
  /\ arg \in [Thread -> Semaphore \cup {NULL}]
  /\ lock_owner \in [Thread -> Thread \cup {NULL}]
  /\ nested_lock \in [Thread -> Lock \cup {NULL}]
  /\ waiting_elem \in [Thread -> Thread \cup {NULL}]
  /\ woken \in [Thread -> Thread \cup {NULL}]

\* elem "can be an element in the run queue, or it can be an element in a
\* semaphore wait list ... only because they are mutually exclusive": every
\* blocked thread is on the wait list of the one semaphore it is downing,
\* once, and no other thread is on a wait list.
\* This comes with the types of the state (SynchTypeOK) and
\* the run queue of Threads (RunQueue).
WaitLists ==
  /\ SynchTypeOK /\ RunQueue
  /\ \A s \in Semaphore : IsInjective(waiters[s])
  /\ \A s \in Semaphore, t \in Thread :
       t \in Range(waiters[s]) <=>
         /\ t # idle_thread
         /\ status[t] = "BLOCKED"
         /\ arg[t] = s
         /\ pc[t] \in {"down", "la_down"}
  /\ \A t \in Thread \ {idle_thread} :
       status[t] = "BLOCKED" => pc[t] \in {"down", "la_down"}

\* t has taken the semaphore of l and not given it back.
Owns(t, l) ==
  \/ holder[l] = t
  \/ /\ arg[t] = l
     /\ pc[t] \in {"la_got", "la_hold", "lr_donors", "lr_walk", "lr_first",
                   "lr_prio", "lr_up"}

\* A lock "can be held by at most a single thread at any given time", from
\* the sema_down of lock_acquire to the sema_up of lock_release, and a release
\* never leaves a second unit behind: the semaphore of the lock and the threads
\* that have it make one unit together.
MutualExclusion ==
  \A l \in Lock : value[l] + Cardinality({t \in Thread : Owns(t, l)}) = 1

\* The awake threads in sema_down (s).
Awake(s) ==
  {t \in Thread : /\ pc[t] \in {"down", "la_down"} /\ arg[t] = s
                  /\ status[t] \in {"READY", "RUNNING"}}

\* While threads sleep on a semaphore, there is an awake thread inside
\* sema_down for each unit of its value: a wake-up is never lost, even when
\* another thread takes the unit before the woken thread gets to run.
NoLostWakeup ==
  \A s \in Semaphore :
    waiters[s] # <<>> => value[s] <= Cardinality(Awake(s))

\* "Kernel code shouldn't throw exceptions" (userprog/exception.c).
NoFault == fault = NULL

=============================================================================
