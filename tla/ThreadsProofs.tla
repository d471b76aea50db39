--------------------------- MODULE ThreadsProofs ---------------------------
(***************************************************************************)
(* The invariants of Threads for every set of threads, range of priorities *)
(* and time slice, and the proof that Threads implements ThreadLifecycle.  *)
(***************************************************************************)
EXTENDS Threads, ListsProofs

\* RunQueue for states st, running thread cur (NULL for none) and queue rl.
Queue(st, cur, rl) ==
  /\ \A t \in Thread : st[t] = "RUNNING" <=> t = cur
  /\ \A t \in Thread :
       t \in Range(rl) <=> st[t] = "READY" /\ t # idle_thread
  /\ IsInjective(rl)

\* A thread that is being created stays blocked, and is created once.
Creation ==
  /\ \A c \in Thread :
       pc[c] = "tc_unblock" => /\ new[c] \in Thread \ {idle_thread}
                               /\ status[new[c]] = "BLOCKED"
  /\ \A c, d \in Thread :
       pc[c] = "tc_unblock" /\ pc[d] = "tc_unblock" /\ new[c] = new[d] => c = d
  /\ \A c \in Thread : pc[c] = "tc_check" => new[c] \in Thread

IdleLives == status[idle_thread] \notin {"FREE", "DYING"}

\* The part of the state that the scheduler's sections change.
SchedOK ==
  /\ status \in [Thread -> Status]
  /\ current \in Thread
  /\ ready_list \in Seq(Thread)
  /\ thread_ticks \in 0..(TIME_SLICE - 1)
  /\ RunQueue

\* The inductive invariant.
Core == TypeOK /\ RunQueue /\ Creation /\ IdleLives

-----------------------------------------------------------------------------
(* The sections of the scheduler.                                           *)

\* schedule takes the processor from a thread that no longer runs to the
\* front of the run queue, or to the idle thread if it is empty.
LEMMA ScheduleStep ==
  ASSUME NEW st \in [Thread -> Status], NEW rl \in Seq(Thread),
         Queue(st, NULL, rl), schedule(st, rl)
  PROVE  /\ SchedOK'
         /\ status' = [st EXCEPT ![current'] = "RUNNING"]
         /\ \/ rl = <<>> /\ current' = idle_thread /\ ready_list' = <<>>
            \/ /\ rl # <<>> /\ current' = Head(rl) /\ ready_list' = Tail(rl)
               /\ st[current'] = "READY" /\ current' # idle_thread
<1>1. NULL \notin Thread /\ idle_thread \in Thread /\ TIME_SLICE \in Nat \ {0}
  BY ThreadsAssumption
<1>2. /\ status' = [st EXCEPT ![current'] = "RUNNING"]
      /\ thread_ticks' = 0
  BY DEF schedule
<1>3. thread_ticks' \in 0..(TIME_SLICE - 1)
  BY <1>1, <1>2
<1>4. CASE rl = <<>>
  <2>1. current' = idle_thread /\ ready_list' = <<>>
    BY <1>4 DEF schedule, next_thread_to_run
  <2>2. Range(<<>>) = {} /\ IsInjective(<<>>) /\ <<>> \in Seq(Thread)
    BY DEF Range, IsInjective
  <2>3. status' \in [Thread -> Status]
    BY <1>1, <1>2, <2>1 DEF Status
  <2>4. RunQueue'
    BY <1>1, <1>2, <1>4, <2>1, <2>2 DEF RunQueue, Queue, Status
  <2> QED BY <1>1, <1>2, <1>3, <1>4, <2>1, <2>2, <2>3, <2>4 DEF SchedOK
<1>5. CASE rl # <<>>
  <2>1. current' = Head(rl) /\ ready_list' = Tail(rl)
    BY <1>5 DEF schedule, next_thread_to_run
  <2>2. /\ Head(rl) \in Thread /\ Head(rl) \in Range(rl)
        /\ Tail(rl) \in Seq(Thread)
        /\ Range(Tail(rl)) = Range(rl) \ {Head(rl)}
        /\ IsInjective(Tail(rl))
    BY <1>5, PopFront DEF Queue
  <2>3. st[current'] = "READY" /\ current' # idle_thread
    BY <2>1, <2>2 DEF Queue
  <2>4. status' \in [Thread -> Status]
    BY <1>2, <2>1, <2>2 DEF Status
  <2>5. RunQueue'
    <3>1. \A t \in Thread :
            status'[t] = IF t = current' THEN "RUNNING" ELSE st[t]
      BY <1>2, <2>1, <2>2
    <3>2. \A t \in Thread : st[t] # "RUNNING"
      BY <1>1 DEF Queue
    <3>3. \A t \in Thread : t \in Range(ready_list') <=>
                              t \in Range(rl) /\ t # current'
      BY <2>1, <2>2
    <3>4. IsInjective(ready_list')
      BY <2>1, <2>2
    <3> QED BY <3>1, <3>2, <3>3, <3>4, <2>3 DEF RunQueue, Queue
  <2> QED BY <1>2, <1>3, <1>5, <2>1, <2>2, <2>3, <2>4, <2>5 DEF SchedOK
<1> QED
  BY <1>4, <1>5

\* thread_unblock puts a blocked thread on the run queue.
LEMMA UnblockQueue ==
  ASSUME NEW st \in [Thread -> Status], NEW cur, NEW rl \in Seq(Thread),
         NEW t \in Thread \ {idle_thread},
         Queue(st, cur, rl), st[t] = "BLOCKED"
  PROVE  /\ Unblocked(rl, t) \in Seq(Thread)
         /\ Queue([st EXCEPT ![t] = "READY"], cur, Unblocked(rl, t))
<1>1. t \notin Range(rl)
  BY DEF Queue
<1>2. /\ Unblocked(rl, t) \in Seq(Thread)
      /\ Range(Unblocked(rl, t)) = Range(rl) \cup {t}
      /\ IsInjective(Unblocked(rl, t))
  BY <1>1, InsertOrderedRange DEF Unblocked, Queue
<1> QED
  BY <1>2 DEF Queue

\* thread_yield gives the processor away and leaves the running thread ready.
LEMMA YieldStep ==
  ASSUME NEW st \in [Thread -> Status], NEW rl \in Seq(Thread), NEW prio,
         current \in Thread, Queue(st, current, rl), yield_from(st, rl, prio)
  PROVE  /\ SchedOK'
         /\ status' = [[st EXCEPT ![current] = "READY"]
                          EXCEPT ![current'] = "RUNNING"]
         /\ current' = idle_thread => ready_list' = <<>>
         /\ current' # idle_thread => \/ current' = current
                                      \/ st[current'] = "READY"
<1> DEFINE st2 == [st EXCEPT ![current] = "READY"]
           rl2 == IF current = idle_thread THEN rl
                  ELSE list_insert_ordered(rl, current, prio)
<1>1. NULL \notin Thread /\ idle_thread \in Thread
  BY ThreadsAssumption
<1>2. st2 \in [Thread -> Status]
  BY DEF Status
<1>3. current \notin Range(rl)
  BY DEF Queue
<1>4. /\ rl2 \in Seq(Thread)
      /\ Range(rl2) = IF current = idle_thread THEN Range(rl)
                      ELSE Range(rl) \cup {current}
      /\ IsInjective(rl2)
  <2>1. IsInjective(rl)
    BY DEF Queue
  <2>2. /\ list_insert_ordered(rl, current, prio) \in Seq(Thread)
        /\ Range(list_insert_ordered(rl, current, prio))
             = Range(rl) \cup {current}
        /\ IsInjective(list_insert_ordered(rl, current, prio))
    BY <1>3, <2>1, InsertOrderedRange
  <2> QED BY <2>1, <2>2, Zenon
<1>5. schedule(st2, rl2)
  BY DEF yield_from
<1>6. \A t \in Thread : st2[t] = IF t = current THEN "READY" ELSE st[t]
  OBVIOUS
<1> HIDE DEF st2, rl2
<1>7. Queue(st2, NULL, rl2)
  BY <1>1, <1>4, <1>6 DEF Queue
<1>8. /\ SchedOK'
      /\ status' = [st2 EXCEPT ![current'] = "RUNNING"]
      /\ \/ rl2 = <<>> /\ current' = idle_thread /\ ready_list' = <<>>
         \/ /\ rl2 # <<>> /\ current' = Head(rl2) /\ ready_list' = Tail(rl2)
            /\ st2[current'] = "READY" /\ current' # idle_thread
  BY <1>2, <1>4, <1>5, <1>7, ScheduleStep, SMTT(20)
<1>9. current' \in Thread
  BY <1>8 DEF SchedOK
<1> QED
  BY <1>6, <1>8, <1>9 DEF st2

\* The run queue invariant is an instance of Queue.
LEMMA RunQueueIsQueue == RunQueue <=> Queue(status, current, ready_list)
  BY DEF RunQueue, Queue

-----------------------------------------------------------------------------
(* The inductive invariant.                                                 *)

\* When thread_start returns, the run queue is empty and nothing is being
\* created.
LEMMA CoreInit == Init => Core
<1> SUFFICES ASSUME Init PROVE Core
  OBVIOUS
<1> USE ThreadsAssumption
<1>1. Range(<<>>) = {} /\ IsInjective(<<>>)
  BY DEF Range, IsInjective
<1>2. status \in [Thread -> Status] /\ current \in Thread
  BY DEF Init, Status
<1>3. priority \in [Thread -> Priority] /\ base_priority \in [Thread -> Priority]
  <2>1. PICK p \in Priority : priority =
          [t \in Thread |-> IF t = initial_thread THEN p ELSE PRI_MIN]
    BY DEF Init
  <2>2. PRI_MIN \in Priority
    BY DEF Priority
  <2> QED BY <2>1, <2>2 DEF Init
<1>4. TypeOK
  BY <1>2, <1>3 DEF Init, TypeOK
<1>5. RunQueue
  BY <1>1 DEF Init, RunQueue
<1>6. Creation /\ IdleLives
  BY DEF Init, Creation, IdleLives
<1> QED
  BY <1>4, <1>5, <1>6 DEF Core

\* Every section of thread.c keeps the types, the run queue and the
\* threads under creation right.
LEMMA CoreStep ==
  ASSUME Core, AllList, [Next]_threadVars
  PROVE  Core'
<1>0. /\ idle_thread \in Thread /\ initial_thread \in Thread
      /\ idle_thread # initial_thread /\ NULL \notin Thread
      /\ TIME_SLICE \in Nat \ {0}
  BY ThreadsAssumption
<1>1. /\ TypeOK /\ RunQueue /\ Creation /\ IdleLives
      /\ Queue(status, current, ready_list)
  BY RunQueueIsQueue DEF Core
<1>2. /\ status \in [Thread -> Status] /\ current \in Thread
      /\ ready_list \in Seq(Thread) /\ pc \in [Thread -> {"run", "tc_unblock", "tc_check", "hlt"}]
      /\ new \in [Thread -> Thread \cup {NULL}]
      /\ status[current] = "RUNNING"
  BY <1>1 DEF TypeOK, RunQueue
\* What remains to be shown of a step that changes nothing else.
<1>3. ASSUME SchedOK',
             UNCHANGED <<all_list, priority, base_priority, donor_threads>>,
             pc' \in [Thread -> {"run", "tc_unblock", "tc_check", "hlt"}],
             new' \in [Thread -> Thread \cup {NULL}],
             Creation', IdleLives'
      PROVE  Core'
  BY <1>1, <1>3 DEF Core, TypeOK, SchedOK
\* Blocked threads that are being created stay blocked.
<1>4. ASSUME \A t \in Thread \ {idle_thread} :
               (\E c \in Thread : pc[c] = "tc_unblock" /\ new[c] = t)
                 => status'[t] = status[t],
             pc' = pc \/ pc' = Interrupted,
             new' = new
      PROVE  Creation'
  BY <1>1, <1>2, <1>4 DEF Creation, Interrupted
<1>5. ASSUME NEW t \in Thread, NEW p \in Priority, thread_create(t, p)
      PROVE  Core'
  <2>1. current # idle_thread /\ status[t] = "FREE" /\ t # current
    BY <1>2, <1>5 DEF thread_create, Running
  <2>2. t # idle_thread
    BY <1>1, <2>1 DEF IdleLives
  <2>3. /\ status' = [status EXCEPT ![t] = "BLOCKED"]
        /\ current' = current /\ ready_list' = ready_list
        /\ thread_ticks' = thread_ticks
        /\ pc' = [pc EXCEPT ![current] = "tc_unblock", ![t] = "run"]
        /\ new' = [new EXCEPT ![current] = t]
    BY <1>5 DEF thread_create
  <2>4. RunQueue'
    BY <1>1, <1>2, <2>1, <2>3 DEF RunQueue
  <2>5. TypeOK'
    <3>1. all_list' \in Seq(Thread)
      BY <1>1, <1>5, PushBack DEF thread_create, TypeOK
    <3>2. donor_threads' \in [Thread -> Seq(Thread)]
      BY <1>1, <1>5 DEF thread_create, TypeOK
    <3>3. /\ priority' \in [Thread -> Priority]
          /\ base_priority' \in [Thread -> Priority]
      BY <1>1, <1>5 DEF thread_create, TypeOK
    <3>4. status' \in [Thread -> Status]
      BY <1>2, <2>3 DEF Status
    <3>5. /\ pc' \in [Thread -> {"run", "tc_unblock", "tc_check", "hlt"}]
          /\ new' \in [Thread -> Thread \cup {NULL}]
      BY <1>2, <2>3
    <3> QED BY <1>1, <1>2, <2>3, <3>1, <3>2, <3>3, <3>4, <3>5, Zenon DEF TypeOK
  <2>6. IdleLives'
    BY <1>0, <1>1, <1>2, <2>2, <2>3 DEF IdleLives
  <2>7. Creation'
    <3>1. \A c \in Thread : pc[c] = "tc_unblock" => new[c] # t
      BY <1>1, <2>1 DEF Creation
    <3>2. \A c \in Thread : c # current /\ c # t => pc'[c] = pc[c] /\ new'[c] = new[c]
      BY <1>2, <2>3
    <3>3. pc'[current] = "tc_unblock" /\ new'[current] = t /\ pc'[t] = "run"
      BY <1>2, <2>1, <2>3
    <3>4. \A u \in Thread : status'[u] = IF u = t THEN "BLOCKED" ELSE status[u]
      BY <1>2, <2>3
    <3> QED BY <1>1, <1>2, <2>2, <3>1, <3>2, <3>3, <3>4, SMTT(20) DEF Creation
  <2> QED BY <2>4, <2>5, <2>6, <2>7 DEF Core
<1>6. CASE thread_create_unblock
  <2> DEFINE t == new[current]
  <2>1. /\ current # idle_thread /\ pc[current] = "tc_unblock"
        /\ t \in Thread \ {idle_thread} /\ status[t] = "BLOCKED" /\ t # current
    BY <1>1, <1>2, <1>6 DEF thread_create_unblock, Running, Creation
  <2>2. /\ status' = [status EXCEPT ![t] = "READY"]
        /\ ready_list' = Unblocked(ready_list, t)
        /\ current' = current /\ thread_ticks' = thread_ticks /\ new' = new
        /\ pc' = [pc EXCEPT ![current] = "tc_check"]
        /\ UNCHANGED <<all_list, priority, base_priority, donor_threads>>
    BY <1>6 DEF thread_create_unblock, thread_unblock
  <2> HIDE DEF t
  <2>3. /\ ready_list' \in Seq(Thread)
        /\ Queue(status', current', ready_list')
    BY <1>1, <1>2, <2>1, <2>2, UnblockQueue, Zenon
  <2>4. SchedOK'
    <3>1. status' \in [Thread -> Status]
      BY <1>2, <2>2, Zenon DEF Status
    <3>2. RunQueue'
      BY <2>3 DEF RunQueue, Queue
    <3> QED BY <1>1, <1>2, <2>2, <2>3, <3>1, <3>2 DEF SchedOK, TypeOK
  <2>5. Creation'
    <3>1. \A u \in Thread : status'[u] = IF u = t THEN "READY" ELSE status[u]
      BY <1>2, <2>2
    <3>2. \A c \in Thread : pc'[c] = IF c = current THEN "tc_check" ELSE pc[c]
      BY <1>2, <2>2
    <3> QED BY <1>1, <1>2, <2>1, <2>2, <3>1, <3>2 DEF Creation, t
  <2>6. IdleLives'
    BY <1>0, <1>1, <1>2, <2>1, <2>2 DEF IdleLives
  <2>7. pc' \in [Thread -> {"run", "tc_unblock", "tc_check", "hlt"}]
    BY <1>2, <2>2
  <2> QED BY <1>2, <1>3, <2>2, <2>4, <2>5, <2>6, <2>7, SMTT(20)
\* A yield keeps the invariant of the scheduler.
<1>7. ASSUME NEW prio, yield_from(status, ready_list, prio)
      PROVE  /\ SchedOK' /\ IdleLives'
             /\ \A t \in Thread \ {idle_thread} :
                  status[t] = "BLOCKED" => status'[t] = "BLOCKED"
  <2>1. /\ SchedOK'
        /\ status' = [[status EXCEPT ![current] = "READY"]
                         EXCEPT ![current'] = "RUNNING"]
        /\ current' # idle_thread => \/ current' = current
                                     \/ status[current'] = "READY"
    BY <1>1, <1>2, <1>7, YieldStep
  <2>2. \A t \in Thread : status'[t] = IF t = current' THEN "RUNNING"
                                        ELSE IF t = current THEN "READY"
                                        ELSE status[t]
    BY <1>2, <2>1
  <2> QED BY <1>0, <1>1, <1>2, <2>1, <2>2 DEF IdleLives
<1>8. ASSUME UNCHANGED <<status, current, ready_list, thread_ticks>>
      PROVE  SchedOK' /\ IdleLives'
  BY <1>1, <1>8 DEF SchedOK, TypeOK, RunQueue, IdleLives
\* So does a block.
<1>9. ASSUME thread_block
      PROVE  /\ SchedOK' /\ IdleLives'
             /\ \A t \in Thread \ {idle_thread} :
                  status[t] = "BLOCKED" => status'[t] = "BLOCKED"
  <2> DEFINE st == [status EXCEPT ![current] = "BLOCKED"]
  <2>1. st \in [Thread -> Status]
    BY <1>2 DEF Status
  <2>2. Queue(st, NULL, ready_list)
    BY <1>0, <1>1, <1>2 DEF Queue
  <2>3. schedule(st, ready_list)
    BY <1>9 DEF thread_block
  <2>4. \A t \in Thread : st[t] = IF t = current THEN "BLOCKED" ELSE status[t]
    BY <1>2
  <2> HIDE DEF st
  <2>5. /\ SchedOK'
        /\ status' = [st EXCEPT ![current'] = "RUNNING"]
        /\ current' = idle_thread \/ st[current'] = "READY"
    BY <1>2, <2>1, <2>2, <2>3, ScheduleStep
  <2>6. \A t \in Thread : status'[t] = IF t = current' THEN "RUNNING" ELSE st[t]
    BY <2>1, <2>5
  <2> QED BY <1>0, <1>1, <1>2, <2>4, <2>5, <2>6 DEF IdleLives
<1>10. CASE thread_create_check
  <2>1. /\ pc' = [pc EXCEPT ![current] = "run"]
        /\ new' = [new EXCEPT ![current] = NULL]
        /\ UNCHANGED <<all_list, priority, base_priority, donor_threads>>
        /\ \/ yield_from(status, ready_list, priority)
           \/ UNCHANGED <<status, current, ready_list, thread_ticks>>
    BY <1>10 DEF thread_create_check, thread_yield
  <2>2. /\ SchedOK' /\ IdleLives'
        /\ \A t \in Thread \ {idle_thread} :
             status[t] = "BLOCKED" => status'[t] = "BLOCKED"
    BY <2>1, <1>7, <1>8
  <2>3. /\ pc' \in [Thread -> {"run", "tc_unblock", "tc_check", "hlt"}]
        /\ new' \in [Thread -> Thread \cup {NULL}]
        /\ \A c \in Thread : pc'[c] = IF c = current THEN "run" ELSE pc[c]
        /\ \A c \in Thread : c # current => new'[c] = new[c]
    BY <1>2, <2>1
  <2>4. Creation'
    BY <1>1, <1>2, <2>2, <2>3 DEF Creation
  <2> QED BY <1>3, <2>1, <2>2, <2>3, <2>4
<1>11. ASSUME NEW p \in Priority, thread_set_priority(p)
       PROVE  Core'
  <2>1. /\ UNCHANGED <<all_list, pc, new>>
        /\ \/ \E prio : yield_from(status, ready_list, prio)
           \/ UNCHANGED <<status, current, ready_list, thread_ticks>>
    BY <1>11 DEF thread_set_priority
  <2>2. /\ SchedOK' /\ IdleLives'
        /\ \A t \in Thread \ {idle_thread} :
             status[t] = "BLOCKED" => status'[t] = "BLOCKED"
    BY <2>1, <1>7, <1>8
  <2>3. Creation'
    BY <1>1, <1>2, <2>1, <2>2 DEF Creation
  <2>4. /\ priority' \in [Thread -> Priority]
        /\ base_priority' \in [Thread -> Priority]
    BY <1>1, <1>2, <1>11 DEF thread_set_priority, TypeOK
  <2>5. donor_threads' \in [Thread -> Seq(Thread)]
    <3>1. <<>> \in Seq(Thread)
      OBVIOUS
    <3> QED BY <1>1, <1>2, <1>11, <3>1 DEF thread_set_priority, TypeOK
  <2> QED BY <1>1, <2>1, <2>2, <2>3, <2>4, <2>5 DEF Core, TypeOK, SchedOK
<1>12. CASE Yield
  <2>1. yield_from(status, ready_list, priority)
    BY <1>12 DEF Yield, thread_yield
  <2> QED BY <1>1, <1>2, <1>3, <1>4, <1>7, <1>12, <2>1, SMTT(20) DEF Yield, Creation
<1>13. CASE Block
  <2>1. thread_block
    BY <1>13 DEF Block
  <2> QED BY <1>1, <1>2, <1>3, <1>4, <1>9, <1>13, <2>1, SMTT(20) DEF Block, Creation
<1>14. CASE idle
  <2>1. thread_block /\ pc' = [pc EXCEPT ![current] = "hlt"] /\ new' = new
        /\ UNCHANGED <<all_list, priority, base_priority, donor_threads>>
    BY <1>14 DEF idle
  <2>2. /\ SchedOK' /\ IdleLives'
        /\ \A t \in Thread \ {idle_thread} :
             status[t] = "BLOCKED" => status'[t] = "BLOCKED"
    BY <1>9, <2>1
  <2>3. /\ pc' \in [Thread -> {"run", "tc_unblock", "tc_check", "hlt"}]
        /\ \A c \in Thread : pc'[c] = IF c = current THEN "hlt" ELSE pc[c]
    BY <1>2, <2>1
  <2>4. Creation'
    BY <1>1, <1>2, <2>1, <2>2, <2>3, SMTT(20) DEF Creation
  <2> QED BY <1>2, <1>3, <2>1, <2>2, <2>3, <2>4, SMTT(20)
<1>15. pc' = Interrupted =>
         /\ pc' \in [Thread -> {"run", "tc_unblock", "tc_check", "hlt"}]
         /\ \A c \in Thread : pc'[c] \in {"tc_unblock", "tc_check"} => pc'[c] = pc[c]
  BY <1>2 DEF Interrupted
\* Waking a thread that waits.
<1>16. ASSUME NEW t \in Thread, Waiting(t), thread_unblock(t)
       PROVE  /\ SchedOK' /\ IdleLives'
              /\ \A u \in Thread : u # t => status'[u] = status[u]
  <2>1. t # idle_thread /\ status[t] = "BLOCKED" /\ t # current
    BY <1>2, <1>16 DEF Waiting
  <2>2. /\ status' = [status EXCEPT ![t] = "READY"]
        /\ ready_list' = Unblocked(ready_list, t)
        /\ current' = current /\ thread_ticks' = thread_ticks
    BY <1>16 DEF thread_unblock
  <2>3. /\ ready_list' \in Seq(Thread)
        /\ Queue(status', current', ready_list')
    BY <1>1, <1>2, <2>1, <2>2, UnblockQueue, Zenon
  <2>4. status' \in [Thread -> Status] /\ RunQueue'
    BY <1>2, <2>2, <2>3 DEF Status, RunQueue, Queue
  <2> QED
    BY <1>0, <1>1, <1>2, <2>1, <2>2, <2>3, <2>4, SMTT(20) DEF SchedOK, TypeOK, IdleLives
<1>17. ASSUME NEW t \in Thread, Waiting(t)
       PROVE  \A c \in Thread : ~ (pc[c] = "tc_unblock" /\ new[c] = t)
  BY <1>17 DEF Waiting
<1>18. ASSUME NEW t \in Thread, Wake(t)
       PROVE  Core'
  <2>1. /\ Waiting(t) /\ thread_unblock(t) /\ pc' = pc /\ new' = new
        /\ UNCHANGED <<all_list, priority, base_priority, donor_threads>>
    BY <1>18 DEF Wake
  <2>2. Creation'
    BY <1>4, <1>16, <1>17, <2>1
  <2> QED BY <1>2, <1>3, <1>16, <2>1, <2>2
<1>19. ASSUME NEW t \in Thread, InterruptWake(t)
       PROVE  Core'
  <2>1. /\ Waiting(t) /\ thread_unblock(t) /\ pc' = Interrupted /\ new' = new
        /\ UNCHANGED <<all_list, priority, base_priority, donor_threads>>
    BY <1>19 DEF InterruptWake
  <2>2. Creation'
    BY <1>4, <1>16, <1>17, <2>1, SMTT(20)
  <2> QED BY <1>2, <1>3, <1>15, <1>16, <2>1, <2>2, SMTT(20)
<1>20. ASSUME NEW t \in Thread, InterruptWakeYield(t)
       PROVE  Core'
  <2> DEFINE st == [status EXCEPT ![t] = "READY"]
             rl == Unblocked(ready_list, t)
  <2>1. /\ Waiting(t) /\ yield_from(st, rl, priority)
        /\ pc' = Interrupted /\ new' = new
        /\ UNCHANGED <<all_list, priority, base_priority, donor_threads>>
    BY <1>20 DEF InterruptWakeYield
  <2>2. t # idle_thread /\ status[t] = "BLOCKED" /\ t # current
    BY <1>2, <2>1 DEF Waiting
  <2>3. rl \in Seq(Thread) /\ Queue(st, current, rl)
    BY <1>1, <1>2, <2>2, UnblockQueue, Zenon
  <2>4. /\ st \in [Thread -> Status]
        /\ \A u \in Thread : st[u] = IF u = t THEN "READY" ELSE status[u]
    BY <1>2 DEF Status
  <2> HIDE DEF st, rl
  <2>5. /\ SchedOK'
        /\ status' = [[st EXCEPT ![current] = "READY"]
                         EXCEPT ![current'] = "RUNNING"]
        /\ current' # idle_thread => \/ current' = current
                                     \/ st[current'] = "READY"
    BY <1>2, <2>1, <2>3, <2>4, YieldStep, SMTT(20)
  <2>6. \A u \in Thread : status'[u] = IF u = current' THEN "RUNNING"
                                        ELSE IF u = current THEN "READY"
                                        ELSE st[u]
    BY <2>4, <2>5
  <2>7. IdleLives'
    BY <1>0, <1>1, <2>2, <2>4, <2>6, SMTT(20) DEF IdleLives
  <2>8. Creation'
    <3>1. \A u \in Thread \ {idle_thread} :
            status[u] = "BLOCKED" /\ u # t => status'[u] = "BLOCKED"
      BY <1>2, <2>4, <2>5, <2>6
    <3> QED BY <1>1, <1>4, <1>17, <2>1, <3>1, SMTT(20) DEF Creation
  <2> QED BY <1>2, <1>3, <1>15, <2>1, <2>5, <2>7, <2>8, SMTT(20)
<1>21. CASE thread_tick
  <2>1. /\ pc' = Interrupted /\ new' = new
        /\ UNCHANGED <<all_list, priority, base_priority, donor_threads>>
        /\ \/ yield_from(status, ready_list, priority)
           \/ /\ ~ (thread_ticks + 1 >= TIME_SLICE)
              /\ thread_ticks' = thread_ticks + 1
              /\ UNCHANGED <<status, current, ready_list>>
    BY <1>21 DEF thread_tick, thread_yield
  <2>2. CASE yield_from(status, ready_list, priority)
    <3>1. Creation'
      BY <1>1, <1>4, <1>7, <2>1, <2>2, SMTT(20) DEF Creation
    <3> QED BY <1>2, <1>3, <1>7, <1>15, <2>1, <2>2, <3>1, SMTT(20)
  <2>3. CASE /\ ~ (thread_ticks + 1 >= TIME_SLICE)
             /\ thread_ticks' = thread_ticks + 1
             /\ UNCHANGED <<status, current, ready_list>>
    <3>1. thread_ticks' \in 0..(TIME_SLICE - 1)
      BY <1>0, <1>1, <2>3, SMTT(20) DEF TypeOK
    <3>2. SchedOK' /\ IdleLives'
      BY <1>1, <1>2, <2>3, <3>1, SMTT(20) DEF SchedOK, RunQueue, IdleLives
    <3>3. Creation'
      BY <1>4, <2>1, <2>3, SMTT(20)
    <3> QED BY <1>2, <1>3, <1>15, <2>1, <3>2, <3>3, SMTT(20)
  <2> QED BY <2>1, <2>2, <2>3
<1>22. CASE thread_exit
  <2> DEFINE st == [status EXCEPT ![current] =
                      IF current = initial_thread THEN "DYING" ELSE "FREE"]
  <2>1. /\ current # idle_thread /\ pc[current] = "run"
        /\ schedule(st, ready_list)
        /\ all_list' = list_remove(all_list, current)
        /\ UNCHANGED <<priority, base_priority, donor_threads, pc, new>>
    BY <1>22 DEF thread_exit, Running
  <2>2. /\ st \in [Thread -> Status]
        /\ \A t \in Thread : t # current => st[t] = status[t]
        /\ st[current] \in {"DYING", "FREE"}
    BY <1>2 DEF Status
  <2> HIDE DEF st
  <2>3. Queue(st, NULL, ready_list)
    BY <1>0, <1>1, <1>2, <2>2, SMTT(20) DEF Queue
  <2>4. /\ SchedOK'
        /\ status' = [st EXCEPT ![current'] = "RUNNING"]
        /\ current' = idle_thread \/ st[current'] = "READY"
    BY <1>2, <2>1, <2>2, <2>3, ScheduleStep, SMTT(20)
  <2>5. \A t \in Thread : status'[t] = IF t = current' THEN "RUNNING" ELSE st[t]
    BY <2>2, <2>4
  <2>6. IdleLives'
    BY <1>0, <1>1, <2>1, <2>2, <2>5, SMTT(20) DEF IdleLives
  <2>7. Creation'
    BY <1>1, <1>2, <2>1, <2>2, <2>4, <2>5, SMTT(20) DEF Creation
  <2>8. all_list' \in Seq(Thread)
    <3>1. all_list \in Seq(Thread) /\ IsInjective(all_list)
      BY <1>1 DEF TypeOK, AllList
    <3>2. current \in Range(all_list)
      BY <1>2, SMTT(20) DEF AllList
    <3> QED BY <2>1, <3>1, <3>2, RemoveElement
  <2> QED BY <1>1, <2>1, <2>4, <2>6, <2>7, <2>8, SMTT(20) DEF Core, TypeOK, SchedOK
<1>23. CASE UNCHANGED threadVars
  BY <1>1, <1>23
     DEF Core, TypeOK, RunQueue, Creation, IdleLives, threadVars
<1> QED
  BY SMTT(20), <1>5, <1>6, <1>10, <1>11, <1>12, <1>13, <1>14, <1>18, <1>19, <1>20,
     <1>21, <1>22, <1>23 DEF Next

-----------------------------------------------------------------------------
(* The list of all threads.                                                 *)

\* t is no thread, or no longer one.
Gone(st, t) == st[t] \in {"FREE", "DYING"}

\* Giving the processor away neither creates nor ends a thread.
LEMMA ScheduleGone ==
  ASSUME NEW st \in [Thread -> Status], NEW rl \in Seq(Thread),
         Queue(st, NULL, rl), schedule(st, rl), ~ Gone(st, idle_thread)
  PROVE  \A t \in Thread : Gone(status', t) <=> Gone(st, t)
<1>1. /\ status' = [st EXCEPT ![current'] = "RUNNING"]
      /\ current' = idle_thread \/ st[current'] = "READY"
      /\ current' \in Thread
  BY ScheduleStep DEF SchedOK
<1>2. \A t \in Thread : status'[t] = IF t = current' THEN "RUNNING" ELSE st[t]
  BY <1>1
<1> QED
  BY <1>1, <1>2 DEF Gone

\* thread_yield neither creates nor ends a thread.
LEMMA YieldGone ==
  ASSUME NEW st \in [Thread -> Status], NEW rl \in Seq(Thread), NEW prio,
         current \in Thread, Queue(st, current, rl), yield_from(st, rl, prio),
         ~ Gone(st, idle_thread)
  PROVE  \A t \in Thread : Gone(status', t) <=> Gone(st, t)
<1>1. /\ status' = [[st EXCEPT ![current] = "READY"]
                       EXCEPT ![current'] = "RUNNING"]
      /\ current' # idle_thread => current' = current \/ st[current'] = "READY"
      /\ current' \in Thread
  BY YieldStep DEF SchedOK
<1>2. \A t \in Thread : status'[t] = IF t = current' THEN "RUNNING"
                                     ELSE IF t = current THEN "READY" ELSE st[t]
  BY <1>1
<1>3. st[current] = "RUNNING"
  BY DEF Queue
<1> QED
  BY <1>1, <1>2, <1>3 DEF Gone

\* thread_create enters the new thread in all_list, thread_exit removes the
\* running one, and nothing else changes who is alive.
LEMMA AllListStep ==
  ASSUME Core, AllList, [Next]_threadVars
  PROVE  AllList'
<1>0. /\ idle_thread \in Thread /\ initial_thread \in Thread
      /\ idle_thread # initial_thread /\ NULL \notin Thread
  BY ThreadsAssumption
<1>1. /\ status \in [Thread -> Status] /\ current \in Thread
      /\ ready_list \in Seq(Thread) /\ all_list \in Seq(Thread)
      /\ status[current] = "RUNNING" /\ ~ Gone(status, idle_thread)
      /\ Queue(status, current, ready_list)
  BY RunQueueIsQueue DEF Core, TypeOK, RunQueue, IdleLives, Gone
\* Most steps leave the list and the lives of all threads alone.
<1>2. ASSUME all_list' = all_list,
             \A t \in Thread : Gone(status', t) <=> Gone(status, t)
      PROVE  AllList'
  BY <1>2 DEF AllList, Gone
<1>3. ASSUME NEW prio, yield_from(status, ready_list, prio)
      PROVE  \A t \in Thread : Gone(status', t) <=> Gone(status, t)
  BY <1>1, <1>3, YieldGone
<1>4. ASSUME thread_block
      PROVE  \A t \in Thread : Gone(status', t) <=> Gone(status, t)
  <2> DEFINE st == [status EXCEPT ![current] = "BLOCKED"]
  <2>1. /\ st \in [Thread -> Status] /\ schedule(st, ready_list)
        /\ \A t \in Thread : st[t] = IF t = current THEN "BLOCKED" ELSE status[t]
    BY <1>1, <1>4 DEF Status, thread_block
  <2> HIDE DEF st
  <2>2. Queue(st, NULL, ready_list) /\ ~ Gone(st, idle_thread)
    BY <1>0, <1>1, <2>1 DEF Queue, Gone
  <2>3. \A t \in Thread : Gone(status', t) <=> Gone(st, t)
    BY <1>1, <2>1, <2>2, ScheduleGone
  <2> QED BY <1>1, <2>1, <2>3 DEF Gone
<1>5. ASSUME NEW t \in Thread, thread_unblock(t)
      PROVE  \A u \in Thread : Gone(status', u) <=> Gone(status, u)
  <2>1. \A u \in Thread : status'[u] = IF u = t THEN "READY" ELSE status[u]
    BY <1>1, <1>5 DEF thread_unblock
  <2> QED BY <1>5, <2>1 DEF Gone, thread_unblock
<1>6. ASSUME NEW t \in Thread, NEW p \in Priority, thread_create(t, p)
      PROVE  AllList'
  <2>1. /\ all_list' = Append(all_list, t) /\ status[t] = "FREE"
        /\ \A u \in Thread : status'[u] = IF u = t THEN "BLOCKED" ELSE status[u]
    BY <1>1, <1>6 DEF thread_create
  <2>2. t \notin Range(all_list)
    BY <2>1 DEF AllList
  <2>3. /\ Range(all_list') = Range(all_list) \cup {t}
        /\ IsInjective(all_list')
    BY <1>1, <2>1, <2>2, PushBack, SMTT(20) DEF AllList
  <2> QED BY <2>1, <2>3 DEF AllList
<1>7. CASE thread_exit
  <2> DEFINE st == [status EXCEPT ![current] =
                      IF current = initial_thread THEN "DYING" ELSE "FREE"]
  <2>1. /\ st \in [Thread -> Status] /\ schedule(st, ready_list)
        /\ all_list' = list_remove(all_list, current) /\ current # idle_thread
        /\ \A t \in Thread : t # current => st[t] = status[t]
        /\ Gone(st, current)
    BY <1>1, <1>7 DEF thread_exit, Running, Status, Gone
  <2> HIDE DEF st
  <2>2. Queue(st, NULL, ready_list) /\ ~ Gone(st, idle_thread)
    BY <1>0, <1>1, <2>1 DEF Queue, Gone
  <2>3. \A t \in Thread : Gone(status', t) <=> Gone(st, t)
    BY <1>1, <2>1, <2>2, ScheduleGone
  <2>4. current \in Range(all_list) /\ IsInjective(all_list)
    BY <1>1 DEF AllList
  <2>5. /\ Range(all_list') = Range(all_list) \ {current}
        /\ IsInjective(all_list')
    BY <1>1, <2>1, <2>4, RemoveElement, SMTT(20)
  <2>6. \A t \in Thread : t \in Range(all_list') <=> ~ Gone(status', t)
    BY <2>1, <2>3, <2>5 DEF AllList, Gone
  <2> QED BY <2>5, <2>6 DEF AllList, Gone
<1>8. ASSUME NEW t \in Thread, InterruptWakeYield(t)
      PROVE  AllList'
  <2> DEFINE st == [status EXCEPT ![t] = "READY"]
             rl == Unblocked(ready_list, t)
  <2>1. /\ t # idle_thread /\ status[t] = "BLOCKED" /\ all_list' = all_list
        /\ yield_from(st, rl, priority)
    BY <1>8 DEF InterruptWakeYield, Waiting
  <2>2. rl \in Seq(Thread) /\ Queue(st, current, rl)
    BY <1>1, <2>1, UnblockQueue, Zenon
  <2>3. /\ st \in [Thread -> Status]
        /\ \A u \in Thread : st[u] = IF u = t THEN "READY" ELSE status[u]
    BY <1>1 DEF Status
  <2> HIDE DEF st, rl
  <2>4. \A u \in Thread : Gone(st, u) <=> Gone(status, u)
    BY <2>1, <2>3 DEF Gone
  <2>5. \A u \in Thread : Gone(status', u) <=> Gone(st, u)
    BY <1>0, <1>1, <2>1, <2>2, <2>3, <2>4, YieldGone, SMTT(20)
  <2> QED BY <1>2, <2>1, <2>4, <2>5, SMTT(20)
<1>9. CASE thread_create_unblock
  <2>1. new[current] \in Thread
    BY <1>1, <1>9 DEF thread_create_unblock, Running, Core, Creation
  <2> QED BY <1>2, <1>5, <1>9, <2>1, SMTT(20) DEF thread_create_unblock
<1>10. CASE thread_create_check
  BY <1>2, <1>3, <1>10 DEF thread_create_check, thread_yield
<1>11. ASSUME NEW p \in Priority, thread_set_priority(p)
       PROVE  AllList'
  <2>1. /\ all_list' = all_list
        /\ \/ \E prio : yield_from(status, ready_list, prio)
           \/ status' = status
    BY <1>11 DEF thread_set_priority
  <2> QED BY <1>2, <1>3, <2>1
<1>12. CASE Yield \/ Block \/ idle \/ thread_tick \/ UNCHANGED threadVars
  <2>1. /\ all_list' = all_list
        /\ \/ yield_from(status, ready_list, priority)
           \/ thread_block
           \/ status' = status
    BY <1>12 DEF Yield, Block, idle, thread_tick, thread_yield, threadVars
  <2> QED BY <1>2, <1>3, <1>4, <2>1, SMTT(20)
<1>13. ASSUME NEW t \in Thread, Wake(t) \/ InterruptWake(t)
       PROVE  AllList'
  BY <1>2, <1>5, <1>13 DEF Wake, InterruptWake
<1> QED
  BY <1>6, <1>7, <1>8, <1>9, <1>10, <1>11, <1>12, <1>13, SMTT(20) DEF Next

-----------------------------------------------------------------------------
(* The order of the run queue.                                              *)

\* Priorities can be compared.
LEMMA PriorityInt == Priority \subseteq Int
  BY ThreadsAssumption DEF Priority

\* Taking the front of a sorted run queue.
LEMMA ScheduleSorted ==
  ASSUME NEW st, NEW rl \in Seq(Thread), NEW prio, Descending(rl, prio),
         schedule(st, rl)
  PROVE  /\ Descending(ready_list', prio)
         /\ \A t \in Range(ready_list') : prio[current'] >= prio[t]
         /\ current' = idle_thread \/ rl # <<>>
<1>1. CASE rl = <<>>
  <2>1. ready_list' = <<>> /\ current' = idle_thread
    BY <1>1 DEF schedule, next_thread_to_run
  <2>2. Range(<<>>) = {} /\ Descending(<<>>, prio)
    BY DEF Range, Descending
  <2> QED BY <2>1, <2>2
<1>2. CASE rl # <<>>
  <2>1. ready_list' = Tail(rl) /\ current' = Head(rl)
    BY <1>2 DEF schedule, next_thread_to_run
  <2> QED BY <1>2, <2>1, PopFrontDescending
<1> QED
  BY <1>1, <1>2

\* So does a yield, which puts the running thread at its place first.
LEMMA YieldSorted ==
  ASSUME NEW st, NEW rl \in Seq(Thread), NEW prio \in [Thread -> Priority],
         Descending(rl, prio), current \in Thread, yield_from(st, rl, prio)
  PROVE  /\ Descending(ready_list', prio)
         /\ \A t \in Range(ready_list') : prio[current'] >= prio[t]
<1> DEFINE rl2 == IF current = idle_thread THEN rl
                  ELSE list_insert_ordered(rl, current, prio)
<1>1. prio \in [Thread -> Int]
  BY PriorityInt, Zenon
<1>2. /\ Descending(list_insert_ordered(rl, current, prio), prio)
      /\ list_insert_ordered(rl, current, prio) \in Seq(Thread)
  BY <1>1, InsertOrderedDescending, InsertOrderedRange
<1>3. rl2 \in Seq(Thread) /\ Descending(rl2, prio)
  BY <1>2
<1>4. schedule([st EXCEPT ![current] = "READY"], rl2)
  BY DEF yield_from
<1> HIDE DEF rl2
<1> QED
  BY <1>3, <1>4, ScheduleSorted

\* The run queue stays sorted, and its front gets the processor.
LEMMA SortedStep ==
  ASSUME Core, ReadySorted, [Next]_threadVars
  PROVE  /\ ReadySorted'
         /\ current' # current =>
              \A t \in Range(ready_list') : priority'[current'] >= priority'[t]
<1>1. /\ current \in Thread /\ ready_list \in Seq(Thread)
      /\ status \in [Thread -> Status]
      /\ priority \in [Thread -> Priority] /\ priority \in [Thread -> Int]
      /\ Descending(ready_list, priority)
      /\ current \notin Range(ready_list)
  BY PriorityInt, Zenon DEF Core, TypeOK, RunQueue, ReadySorted
<1> DEFINE Goal == /\ ReadySorted'
                   /\ current' # current =>
                        \A t \in Range(ready_list') :
                          priority'[current'] >= priority'[t]
<1>2. ASSUME NEW st, priority' = priority, schedule(st, ready_list)
      PROVE  Goal
  BY <1>1, <1>2, ScheduleSorted DEF ReadySorted
<1>3. ASSUME NEW st, NEW rl \in Seq(Thread), priority' \in [Thread -> Priority],
             Descending(rl, priority'), yield_from(st, rl, priority')
      PROVE  Goal
  BY <1>1, <1>3, YieldSorted, Zenon DEF ReadySorted
<1>4. ASSUME UNCHANGED <<current, ready_list, priority>>
      PROVE  Goal
  BY <1>1, <1>4 DEF ReadySorted
<1>5. ASSUME NEW t \in Thread
      PROVE  /\ Unblocked(ready_list, t) \in Seq(Thread)
             /\ Descending(Unblocked(ready_list, t), priority)
  BY <1>1, InsertOrderedDescending, InsertOrderedRange DEF Unblocked
<1>6. ASSUME NEW t \in Thread, thread_unblock(t), priority' = priority
      PROVE  Goal
  BY <1>5, <1>6 DEF thread_unblock, ReadySorted
<1>7. ASSUME NEW t \in Thread, NEW p \in Priority, thread_create(t, p)
      PROVE  Goal
  <2>1. /\ ready_list' = ready_list /\ current' = current
        /\ t \notin Range(ready_list)
        /\ \A u \in Thread : u # t => priority'[u] = priority[u]
    BY <1>1, <1>7 DEF thread_create, Core, RunQueue
  <2>2. \A u \in Range(ready_list) : u \in Thread
    BY <1>1, SeqDef DEF Range
  <2>3. \A u \in Range(ready_list) : priority'[u] = priority[u]
    BY <2>1, <2>2
  <2>4. Descending(ready_list, priority')
    BY <1>1, <2>3, DescendingSameKeys, SMTT(20)
  <2> QED BY <2>1, <2>4 DEF ReadySorted
<1>8. CASE thread_create_unblock
  <2>1. new[current] \in Thread
    BY <1>1, <1>8 DEF thread_create_unblock, Running, Core, Creation
  <2> QED BY <1>6, <1>8, <2>1 DEF thread_create_unblock
<1>9. ASSUME priority' = priority, thread_yield
      PROVE  Goal
  <2>1. yield_from(status, ready_list, priority') /\ Descending(ready_list, priority')
    BY <1>1, <1>9 DEF thread_yield
  <2> QED BY <1>1, <1>3, <1>9, <2>1
<1>10. CASE thread_create_check
  BY <1>4, <1>9, <1>10 DEF thread_create_check
<1>11. ASSUME NEW p \in Priority, thread_set_priority(p)
       PROVE  Goal
  <2>1. /\ \A u \in Thread : u # current => priority'[u] = priority[u]
        /\ priority' \in [Thread -> Priority]
        /\ \/ yield_from(status, ready_list, priority')
           \/ UNCHANGED <<current, ready_list>>
    BY <1>1, <1>11 DEF thread_set_priority
  <2>2. \A u \in Range(ready_list) : u \in Thread
    BY <1>1, SeqDef DEF Range
  <2>3. \A u \in Range(ready_list) : priority'[u] = priority[u]
    BY <1>1, <2>1, <2>2
  <2>4. Descending(ready_list, priority')
    BY <1>1, <2>3, DescendingSameKeys
  <2>5. CASE yield_from(status, ready_list, priority')
    BY <1>1, <1>3, <2>1, <2>4, <2>5, SMTT(20)
  <2>6. CASE UNCHANGED <<current, ready_list>>
    BY <2>4, <2>6 DEF ReadySorted
  <2> QED BY <2>1, <2>5, <2>6, SMTT(20)
<1>12. CASE Yield
  BY <1>9, <1>12 DEF Yield
<1>13. CASE Block \/ idle \/ thread_exit
  BY <1>2, <1>13 DEF Block, idle, thread_exit, thread_block
<1>14. CASE thread_tick
  BY <1>4, <1>9, <1>14 DEF thread_tick
<1>15. ASSUME NEW t \in Thread, Wake(t) \/ InterruptWake(t)
       PROVE  Goal
  BY <1>6, <1>15 DEF Wake, InterruptWake
<1>16. ASSUME NEW t \in Thread, InterruptWakeYield(t)
       PROVE  Goal
  <2>1. /\ priority' = priority
        /\ yield_from([status EXCEPT ![t] = "READY"], Unblocked(ready_list, t),
                      priority')
    BY <1>16 DEF InterruptWakeYield
  <2> QED BY <1>1, <1>3, <1>5, <2>1
<1>17. CASE UNCHANGED threadVars
  BY <1>4, <1>17 DEF threadVars
<1> QED
  BY <1>7, <1>8, <1>10, <1>11, <1>12, <1>13, <1>14, <1>15, <1>16, <1>17, SMTT(20)
     DEF Next

-----------------------------------------------------------------------------
(* The halted idle thread.                                                  *)

\* An interrupt ends the halt; the idle thread gets the processor back, still
\* halted or about to halt, only when the run queue is empty.
LEMMA HaltStep ==
  ASSUME Core, NoMissedWakeup, [Next]_threadVars
  PROVE  NoMissedWakeup'
<1>1. /\ current \in Thread /\ idle_thread \in Thread /\ NULL \notin Thread
      /\ ready_list \in Seq(Thread) /\ status \in [Thread -> Status]
      /\ Queue(status, current, ready_list)
      /\ pc \in [Thread -> {"run", "tc_unblock", "tc_check", "hlt"}]
  BY ThreadsAssumption, RunQueueIsQueue DEF Core, TypeOK
<1>2. ASSUME NEW st, NEW rl, schedule(st, rl), Queue(st, NULL, rl),
             rl \in Seq(Thread), st \in [Thread -> Status]
      PROVE  NoMissedWakeup'
  BY <1>2, ScheduleStep DEF NoMissedWakeup
<1>3. ASSUME NEW st \in [Thread -> Status], NEW rl \in Seq(Thread), NEW prio,
             Queue(st, current, rl), yield_from(st, rl, prio)
      PROVE  NoMissedWakeup'
  BY <1>1, <1>3, YieldStep DEF NoMissedWakeup
<1>4. ASSUME current # idle_thread, current' = current
      PROVE  NoMissedWakeup'
  BY <1>4 DEF NoMissedWakeup
<1>5. ASSUME pc' = Interrupted, current' = current
      PROVE  NoMissedWakeup'
  BY <1>1, <1>5 DEF NoMissedWakeup, Interrupted
<1>6. ASSUME thread_block
      PROVE  NoMissedWakeup'
  <2> DEFINE st == [status EXCEPT ![current] = "BLOCKED"]
  <2>1. /\ st \in [Thread -> Status] /\ Queue(st, NULL, ready_list)
        /\ schedule(st, ready_list)
    BY <1>1, <1>6 DEF thread_block, Queue, Status
  <2> HIDE DEF st
  <2> QED BY <1>1, <1>2, <2>1
<1>7. ASSUME NEW t \in Thread, NEW p \in Priority, thread_create(t, p)
      PROVE  NoMissedWakeup'
  BY <1>4, <1>7 DEF thread_create, Running
<1>8. CASE thread_create_unblock
  BY <1>4, <1>8 DEF thread_create_unblock, thread_unblock, Running
<1>9. CASE thread_create_check
  BY <1>1, <1>3, <1>4, <1>9 DEF thread_create_check, thread_yield, Running
<1>10. ASSUME NEW p \in Priority, thread_set_priority(p)
       PROVE  NoMissedWakeup'
  <2>1. \/ \E prio : yield_from(status, ready_list, prio)
        \/ current # idle_thread /\ current' = current
    BY <1>10 DEF thread_set_priority, Running
  <2> QED BY <1>1, <1>3, <1>4, <2>1
<1>11. CASE Yield
  BY <1>1, <1>3, <1>11 DEF Yield, thread_yield
<1>12. CASE Block \/ idle
  BY <1>6, <1>12 DEF Block, idle
<1>13. ASSUME NEW t \in Thread, Wake(t)
       PROVE  NoMissedWakeup'
  BY <1>4, <1>13, SMTT(20) DEF Wake, thread_unblock, Running
<1>14. CASE thread_exit
  <2> DEFINE st == [status EXCEPT ![current] =
                      IF current = initial_thread THEN "DYING" ELSE "FREE"]
  <2>1. /\ st \in [Thread -> Status] /\ Queue(st, NULL, ready_list)
        /\ schedule(st, ready_list)
    BY <1>1, <1>14 DEF thread_exit, Queue, Status
  <2> HIDE DEF st
  <2> QED BY <1>1, <1>2, <2>1
<1>15. CASE thread_tick
  <2>1. \/ yield_from(status, ready_list, priority)
        \/ pc' = Interrupted /\ current' = current
    BY <1>15 DEF thread_tick, thread_yield
  <2> QED BY <1>1, <1>3, <1>5, <2>1, SMTT(20)
<1>16. ASSUME NEW t \in Thread, InterruptWake(t)
       PROVE  NoMissedWakeup'
  BY <1>5, <1>16 DEF InterruptWake, thread_unblock
<1>17. ASSUME NEW t \in Thread, InterruptWakeYield(t)
       PROVE  NoMissedWakeup'
  <2> DEFINE st == [status EXCEPT ![t] = "READY"]
             rl == Unblocked(ready_list, t)
  <2>1. /\ t # idle_thread /\ status[t] = "BLOCKED"
        /\ yield_from(st, rl, priority)
    BY <1>17 DEF InterruptWakeYield, Waiting
  <2>2. /\ rl \in Seq(Thread) /\ Queue(st, current, rl)
        /\ st \in [Thread -> Status]
    BY <1>1, <2>1, UnblockQueue, Zenon DEF Status
  <2> HIDE DEF st, rl
  <2> QED BY <1>3, <2>1, <2>2
<1>18. CASE UNCHANGED threadVars
  BY <1>18 DEF threadVars, NoMissedWakeup
<1> QED
  BY SMTT(20), <1>7, <1>8, <1>9, <1>10, <1>11, <1>12, <1>13, <1>14, <1>15, <1>16,
     <1>17, <1>18 DEF Next

-----------------------------------------------------------------------------
(* The life cycle.                                                          *)

\* schedule gives the processor to a ready thread, or to the idle thread when
\* there is none: Dispatch of the life cycle.
LEMMA ScheduleDispatches ==
  ASSUME NEW st \in [Thread -> Status], NEW rl \in Seq(Thread),
         Queue(st, NULL, rl), schedule(st, rl)
  PROVE  Lifecycle!Dispatch(st)
<1> DEFINE Ready == {t \in Thread \ {idle_thread} : st[t] = "READY"}
<1>1. /\ status' = [st EXCEPT ![current'] = "RUNNING"]
      /\ \/ rl = <<>> /\ current' = idle_thread
         \/ st[current'] = "READY" /\ current' # idle_thread /\ current' \in Thread
  BY ScheduleStep DEF SchedOK
<1>2. rl = <<>> => Ready = {}
  <2>1. Range(<<>>) = {}
    BY DEF Range
  <2> QED BY <2>1 DEF Queue
<1>3. current' \in IF Ready = {} THEN {idle_thread} ELSE Ready
  BY <1>1, <1>2
<1> QED
  BY <1>1, <1>3 DEF Lifecycle!Dispatch

\* So does thread_yield, from the state in which the running thread is ready.
LEMMA YieldDispatches ==
  ASSUME NEW st \in [Thread -> Status], NEW rl \in Seq(Thread), NEW prio,
         current \in Thread, Queue(st, current, rl), yield_from(st, rl, prio)
  PROVE  Lifecycle!Dispatch([st EXCEPT ![current] = "READY"])
<1> DEFINE st2 == [st EXCEPT ![current] = "READY"]
           rl2 == IF current = idle_thread THEN rl
                  ELSE list_insert_ordered(rl, current, prio)
<1>1. NULL \notin Thread
  BY ThreadsAssumption
<1>2. current \notin Range(rl) /\ IsInjective(rl)
  BY DEF Queue
<1>3. /\ list_insert_ordered(rl, current, prio) \in Seq(Thread)
      /\ Range(list_insert_ordered(rl, current, prio)) = Range(rl) \cup {current}
      /\ IsInjective(list_insert_ordered(rl, current, prio))
  BY <1>2, InsertOrderedRange
<1>4. /\ rl2 \in Seq(Thread) /\ IsInjective(rl2)
      /\ Range(rl2) = IF current = idle_thread THEN Range(rl)
                      ELSE Range(rl) \cup {current}
  BY <1>2, <1>3, Zenon
<1>5. /\ st2 \in [Thread -> Status] /\ schedule(st2, rl2)
      /\ \A t \in Thread : st2[t] = IF t = current THEN "READY" ELSE st[t]
  BY DEF yield_from, Status
<1> HIDE DEF st2, rl2
<1>6. Queue(st2, NULL, rl2)
  BY <1>1, <1>4, <1>5 DEF Queue
<1>7. Lifecycle!Dispatch(st2)
  BY <1>4, <1>5, <1>6, ScheduleDispatches
<1> QED
  BY <1>7 DEF st2

\* The state in which thread_start returns is an initial state of the life
\* cycle.
LEMMA LifecycleInit == Init => Lifecycle!Init
  BY ThreadsAssumption DEF Init, Lifecycle!Init

\* Every step of the scheduler is a step of the life cycle, or changes nothing
\* that it speaks of.
LEMMA LifecycleStep ==
  ASSUME Core, [Next]_threadVars
  PROVE  [Lifecycle!Next]_(Lifecycle!lifeVars)
<1>1. /\ current \in Thread /\ idle_thread \in Thread /\ NULL \notin Thread
      /\ ready_list \in Seq(Thread) /\ status \in [Thread -> Status]
      /\ Queue(status, current, ready_list)
  BY ThreadsAssumption, RunQueueIsQueue DEF Core, TypeOK
<1> DEFINE Goal == [Lifecycle!Next]_(Lifecycle!lifeVars)
<1>2. ASSUME UNCHANGED <<status, current>>
      PROVE  Goal
  BY <1>2 DEF Lifecycle!lifeVars
<1>3. ASSUME NEW prio, yield_from(status, ready_list, prio)
      PROVE  Goal
  <2>1. Lifecycle!Yield
    BY <1>1, <1>3, YieldDispatches, Zenon DEF Lifecycle!Yield
  <2> QED BY <2>1 DEF Lifecycle!Next
<1>4. ASSUME thread_block
      PROVE  Goal
  <2> DEFINE st == [status EXCEPT ![current] = "BLOCKED"]
  <2>1. /\ st \in [Thread -> Status] /\ Queue(st, NULL, ready_list)
        /\ schedule(st, ready_list)
    BY <1>1, <1>4 DEF thread_block, Queue, Status
  <2> HIDE DEF st
  <2>2. Lifecycle!Dispatch(st)
    BY <1>1, <2>1, ScheduleDispatches
  <2>3. Lifecycle!Block
    BY <2>2 DEF Lifecycle!Block, st
  <2> QED BY <2>3 DEF Lifecycle!Next
<1>5. ASSUME NEW t \in Thread, t # idle_thread, thread_unblock(t)
      PROVE  Goal
  <2>1. Lifecycle!Wake(t)
    BY <1>5 DEF thread_unblock, Lifecycle!Wake
  <2> QED BY <2>1 DEF Lifecycle!Next
<1>6. ASSUME NEW t \in Thread, NEW p \in Priority, thread_create(t, p)
      PROVE  Goal
  <2>1. Lifecycle!Create(t)
    BY <1>6 DEF thread_create, Lifecycle!Create
  <2> QED BY <2>1 DEF Lifecycle!Next
<1>7. CASE thread_create_unblock
  <2>1. new[current] \in Thread \ {idle_thread}
    BY <1>1, <1>7, SMTT(20) DEF thread_create_unblock, Running, Core, Creation
  <2> QED BY <1>5, <1>7, <2>1, SMTT(20) DEF thread_create_unblock
<1>8. CASE thread_create_check
  BY <1>2, <1>3, <1>8 DEF thread_create_check, thread_yield
<1>9. ASSUME NEW p \in Priority, thread_set_priority(p)
      PROVE  Goal
  <2>1. \/ \E prio : yield_from(status, ready_list, prio)
        \/ UNCHANGED <<status, current>>
    BY <1>9 DEF thread_set_priority
  <2> QED BY <1>2, <1>3, <2>1
<1>10. CASE Yield \/ Block \/ idle \/ thread_tick
  <2>1. \/ yield_from(status, ready_list, priority)
        \/ thread_block
        \/ UNCHANGED <<status, current>>
    BY <1>10 DEF Yield, Block, idle, thread_tick, thread_yield
  <2> QED BY <1>2, <1>3, <1>4, <2>1, SMTT(20)
<1>11. ASSUME NEW t \in Thread, Wake(t) \/ InterruptWake(t)
       PROVE  Goal
  BY <1>5, <1>11 DEF Wake, InterruptWake, Waiting
<1>12. CASE thread_exit
  <2> DEFINE st == [status EXCEPT ![current] =
                      IF current = initial_thread THEN "DYING" ELSE "FREE"]
  <2>1. /\ st \in [Thread -> Status] /\ Queue(st, NULL, ready_list)
        /\ schedule(st, ready_list) /\ current # idle_thread
    BY <1>1, <1>12 DEF thread_exit, Queue, Status, Running
  <2> HIDE DEF st
  <2>2. Lifecycle!Dispatch(st)
    BY <1>1, <2>1, ScheduleDispatches
  <2>3. Lifecycle!Exit
    BY <2>1, <2>2 DEF Lifecycle!Exit, st
  <2> QED BY <2>3 DEF Lifecycle!Next
<1>13. ASSUME NEW t \in Thread, InterruptWakeYield(t)
       PROVE  Goal
  <2> DEFINE st == [status EXCEPT ![t] = "READY"]
             rl == Unblocked(ready_list, t)
  <2>1. /\ t # idle_thread /\ status[t] = "BLOCKED"
        /\ yield_from(st, rl, priority)
    BY <1>13 DEF InterruptWakeYield, Waiting
  <2>2. /\ rl \in Seq(Thread) /\ Queue(st, current, rl)
        /\ st \in [Thread -> Status]
    BY <1>1, <2>1, UnblockQueue, Zenon DEF Status
  <2> HIDE DEF st, rl
  <2>3. Lifecycle!Dispatch([st EXCEPT ![current] = "READY"])
    BY <1>1, <2>1, <2>2, YieldDispatches, Zenon
  <2>4. Lifecycle!WakeAndYield(t)
    BY <2>1, <2>3 DEF Lifecycle!WakeAndYield, st
  <2> QED BY <2>4 DEF Lifecycle!Next
<1>14. CASE UNCHANGED threadVars
  BY <1>2, <1>14 DEF threadVars
<1> QED
  BY <1>6, <1>7, <1>8, <1>9, <1>10, <1>11, <1>12, <1>13, <1>14, SMTT(20) DEF Next

-----------------------------------------------------------------------------
(* The theorems.                                                            *)

\* At the start the initial and the idle thread live and are listed.
LEMMA AllListInit == Init => AllList
<1> SUFFICES ASSUME Init PROVE AllList
  OBVIOUS
<1> DEFINE s == <<initial_thread, idle_thread>>
<1>1. Range(s) = {initial_thread, idle_thread}
  BY DEF Range
<1>2. IsInjective(s)
  BY ThreadsAssumption DEF IsInjective
<1> QED
  BY <1>1, <1>2, ThreadsAssumption DEF Init, AllList

\* At the start the run queue is empty and nobody halts.
LEMMA SortedInit == Init => ReadySorted /\ NoMissedWakeup
  BY DEF Init, ReadySorted, NoMissedWakeup, Descending

\* The inductive invariant holds in every reachable state: the base of all
\* the theorems below.
THEOREM CoreInvariant == Spec => [](Core /\ AllList)
<1>1. Init => Core /\ AllList
  BY CoreInit, AllListInit
<1>2. Core /\ AllList /\ [Next]_threadVars => (Core /\ AllList)'
  BY CoreStep, AllListStep
<1> QED
  BY <1>1, <1>2, PTL DEF Spec

\* Every variable of the scheduler keeps its type; in particular the ticks of
\* a time slice never exceed it (thread_tick).
THEOREM TypeCorrect == Spec => []TypeOK
<1>1. Core => TypeOK
  BY DEF Core
<1> QED
  BY <1>1, CoreInvariant, PTL

\* The run queue holds each READY thread but the idle one exactly once, and
\* exactly the running thread is RUNNING (schedule, thread_yield,
\* thread_unblock).
THEOREM RunQueueCorrect == Spec => []RunQueue
<1>1. Core => RunQueue
  BY DEF Core
<1> QED
  BY <1>1, CoreInvariant, PTL

\* all_list holds the live threads, each once (thread_create, thread_exit).
THEOREM AllListCorrect == Spec => []AllList
  BY CoreInvariant, PTL

\* The run queue is always sorted by effective priority.
THEOREM ReadySortedCorrect == Spec => []ReadySorted
<1>1. Init => ReadySorted
  BY SortedInit
<1>2. Core /\ ReadySorted /\ [Next]_threadVars => ReadySorted'
  BY SortedStep, SMTT(20)
<1> QED
  BY <1>1, <1>2, CoreInvariant, PTL DEF Spec

\* The idle thread never sleeps in its hlt while a thread is ready (idle).
THEOREM NoMissedWakeupCorrect == Spec => []NoMissedWakeup
<1>1. Init => NoMissedWakeup
  BY SortedInit
<1>2. Core /\ NoMissedWakeup /\ [Next]_threadVars => NoMissedWakeup'
  BY HaltStep
<1> QED
  BY <1>1, <1>2, CoreInvariant, PTL DEF Spec

\* When the processor changes hands it goes to a ready thread of the highest
\* effective priority (next_thread_to_run).
THEOREM PicksHighestCorrect == Spec => PicksHighest
<1> DEFINE A == current' # current =>
                  \A t \in Thread \ {idle_thread} :
                    status'[t] = "READY" => priority'[current'] >= priority'[t]
                                            /\ current' # idle_thread
<1>1. Core /\ AllList /\ ReadySorted /\ [Next]_threadVars => [A]_threadVars
  <2> SUFFICES ASSUME Core, AllList, ReadySorted, [Next]_threadVars,
                      current' # current, NEW t \in Thread \ {idle_thread},
                      status'[t] = "READY"
               PROVE  priority'[current'] >= priority'[t] /\ current' # idle_thread
    OBVIOUS
  <2>1. Core'
    BY CoreStep
  <2>2. t \in Range(ready_list')
    BY <2>1 DEF Core, RunQueue
  <2>3. priority'[current'] >= priority'[t]
    BY <2>2, SortedStep
  <2>4. current' # idle_thread
    <3>1. status \in [Thread -> Status]
      BY DEF Core, TypeOK
    <3>2. PICK st \in [Thread -> Status] : Lifecycle!Dispatch(st)
      BY <3>1, LifecycleStep, Zenon
         DEF Lifecycle!Next, Lifecycle!Create, Lifecycle!Wake, Lifecycle!Block,
             Lifecycle!Yield, Lifecycle!WakeAndYield, Lifecycle!Exit,
             Lifecycle!lifeVars, Status
    <3>3. status'[t] = IF t = current' THEN "RUNNING" ELSE st[t]
      BY <3>2 DEF Lifecycle!Dispatch
    <3>4. t \in {u \in Thread \ {idle_thread} : st[u] = "READY"}
      BY <3>3
    <3> QED BY <3>2, <3>4 DEF Lifecycle!Dispatch
  <2> QED BY <2>3, <2>4
<1> QED
  BY <1>1, CoreInvariant, ReadySortedCorrect, PTL DEF Spec, PicksHighest

\* The scheduler implements the thread life cycle of ThreadLifecycle.
THEOREM Implements == Spec => LifecycleSpec
<1>1. Init => Lifecycle!Init
  BY LifecycleInit
<1>2. Core /\ [Next]_threadVars => [Lifecycle!Next]_(Lifecycle!lifeVars)
  BY LifecycleStep
<1> QED
  BY <1>1, <1>2, CoreInvariant, PTL DEF Spec, LifecycleSpec, Lifecycle!Spec

=============================================================================
