------------------------------ MODULE Process ------------------------------
(***************************************************************************)
(* Processes: process_execute, start_process, process_wait and             *)
(* process_exit (userprog/process.c), with the records that a parent and   *)
(* its child share and the page directory the processor uses.              *)
(*                                                                         *)
(* All of this runs with interrupts on: a step is what a process does up   *)
(* to the next access to state that others change, and any other process   *)
(* may run in between.  A step of p begins, when another process ran       *)
(* before, with the switch to p, which activates the page directory of p   *)
(* (thread_schedule_tail).  pc[p] is one of:                               *)
(*    "unused"  tid not given out yet     "dead"     left all_list         *)
(*    "user"    runs the user program (or, for main, run_actions)          *)
(*    "create", "by_tid", "data", "ex_down", "ex_ret"  in process_execute  *)
(*    "start", "load", "loaded"                        in start_process    *)
(*    "pw_down", "pw_reap"                             in process_wait     *)
(*    "pe_children", "pe_data", "pe_up", "pe_null", "pe_activate",         *)
(*    "pe_destroy", "pe_die"                           in process_exit     *)
(*    "hang", and in process_exit "pe_hang": a kernel page fault, from     *)
(*              which page_fault returns so that it happens again, forever *)
(* The record of a process, its page directory and the process itself are  *)
(* all named by the tid.                                                   *)
(***************************************************************************)
EXTENDS Lists

CONSTANTS
  MaxTid,      \* bound on the tids given out
  ExitStatus,  \* the statuses programs pass to exit
  Creation,    \* what memory allows process_execute to do: some of
               \*   "ok", "no_page", "no_thread", "no_record"
  StrayWrite,  \* what the write through child_thread, which is not
               \*   initialized, does: "harmless", "hang" or either
  NULL

BAD_EXIT == -1
TID_ERROR == -1
main == 0      \* the initial thread

ASSUME ProcessAssumption ==
  /\ MaxTid \in Nat
  /\ ExitStatus \subseteq Int
  /\ Creation \subseteq {"ok", "no_page", "no_thread", "no_record"}
  /\ StrayWrite \subseteq {"harmless", "hang"}
  /\ NULL \notin Int

Tid == 0..MaxTid

VARIABLES
  pc,
  next_tid,
  child,      \* child[p]: the process that p's call is about, or TID_ERROR
  rest,       \* rest[p]: the records the loop of process_exit has yet to visit
  result,     \* result[p]: what the last system call of p returned, 0 once
              \*   p is exiting
  children,   \* children[p]: child_processes
  record,     \* record[p]: struct child_data of p
  ended,      \* ended[p]: "exited" or "killed", how p came to process_exit,
              \*   or "no": a history variable
  pagedir,    \* pagedir[p]: whether the page directory of p is set in p
  directory,  \* directory[p]: the memory of that page directory
  running,    \* the process that runs
  cr3         \* the active page directory, NULL for init_page_dir

procVars == <<pc, next_tid, child, rest, result, children, record, ended,
              pagedir, directory, running, cr3>>

Memory == {"none", "live", "freed"}

Alive(p) == pc[p] \notin {"unused", "dead"}

\* thread_start: main runs, it has no record and no page directory.
ProcInit ==
  /\ pc = [p \in Tid |-> IF p = main THEN "user" ELSE "unused"]
  /\ next_tid = 1
  /\ child = [p \in Tid |-> TID_ERROR]
  /\ rest = [p \in Tid |-> <<>>]
  /\ result = [p \in Tid |-> 0]
  /\ children = [p \in Tid |-> <<>>]
  /\ record = [p \in Tid |-> [mem |-> "none", finished |-> FALSE,
                              return_status |-> 0, wait_sema |-> 0]]
  /\ ended = [p \in Tid |-> "no"]
  /\ pagedir = [p \in Tid |-> FALSE]
  /\ directory = [p \in Tid |-> "none"]
  /\ running = main
  /\ cr3 = NULL

-----------------------------------------------------------------------------

Goto(p, label) == pc' = [pc EXCEPT ![p] = label]

\* The page directory in use while p makes a step.
Activated(p) == IF running = p THEN cr3
                ELSE IF pagedir[p] THEN p ELSE NULL

\* p runs and leaves its page directory alone.
Run(p) ==
  /\ running' = p
  /\ cr3' = Activated(p)
  /\ UNCHANGED <<pagedir, directory>>

Return(p, value) ==
  /\ Goto(p, "user")
  /\ result' = [result EXCEPT ![p] = value]

-----------------------------------------------------------------------------
(* process_execute.                                                         *)

\* process_execute up to the creation of the thread: a copy of the name is
\* made, if there is a page for it.
process_execute(p) ==
  /\ pc[p] = "user"
  /\ Run(p)
  /\ \/ /\ Creation \cap {"ok", "no_thread", "no_record"} # {}
        /\ next_tid <= MaxTid
        /\ Goto(p, "create")
        /\ UNCHANGED result
     \/ /\ "no_page" \in Creation
        /\ Return(p, TID_ERROR)
  /\ UNCHANGED <<next_tid, child, rest, children, record, ended>>

\* thread_create: the new thread, with its record if there is memory for it.
\* When there is no thread, process_execute goes on with TID_ERROR.
thread_create(p) ==
  /\ pc[p] = "create"
  /\ next_tid <= MaxTid
  /\ Run(p)
  /\ \/ \E made \in Creation \cap {"ok", "no_record"} :
          /\ pc' = [pc EXCEPT ![p] = "by_tid", ![next_tid] = "start"]
          /\ child' = [child EXCEPT ![p] = next_tid]
          /\ next_tid' = next_tid + 1
          /\ record' = IF made = "ok"
                         THEN [record EXCEPT ![next_tid].mem = "live"]
                         ELSE record
     \/ /\ "no_thread" \in Creation
        /\ Goto(p, "by_tid")
        /\ child' = [child EXCEPT ![p] = TID_ERROR]
        /\ UNCHANGED <<next_tid, record>>
  /\ UNCHANGED <<rest, result, children, ended>>

\* thread_by_tid: a thread that has left all_list is not found, and the null
\* pointer is then dereferenced.
thread_by_tid(p) ==
  /\ pc[p] = "by_tid"
  /\ Run(p)
  /\ Goto(p, IF child[p] \in Tid /\ Alive(child[p]) THEN "data" ELSE "hang")
  /\ UNCHANGED <<next_tid, child, rest, result, children, record, ended>>

\* process_execute: the record is read from the thread, which may have died
\* since it was found, and linked into child_processes.
process_execute_link(p) ==
  LET c == child[p]
  IN  /\ pc[p] = "data"
      /\ Run(p)
      /\ \/ /\ Alive(c) /\ record[c].mem # "none" /\ "harmless" \in StrayWrite
            /\ children' = [children EXCEPT ![p] = Append(@, c)]
            /\ Goto(p, "ex_down")
         \/ /\ ~ Alive(c) \/ record[c].mem = "none" \/ "hang" \in StrayWrite
            /\ Goto(p, "hang")
            /\ UNCHANGED children
      /\ UNCHANGED <<next_tid, child, rest, result, record, ended>>

\* sema_down (&wait_sema) of the child's record, in process_execute and in
\* process_wait.
wait_sema_down(p) ==
  LET c == child[p]
  IN  /\ pc[p] \in {"ex_down", "pw_down"}
      /\ record[c].wait_sema > 0
      /\ Run(p)
      /\ record' = [record EXCEPT ![c].wait_sema = @ - 1]
      /\ Goto(p, IF pc[p] = "ex_down" THEN "ex_ret" ELSE "pw_reap")
      /\ UNCHANGED <<next_tid, child, rest, result, children, ended>>

process_execute_return(p) ==
  LET c == child[p]
  IN  /\ pc[p] = "ex_ret"
      /\ Run(p)
      /\ Return(p, IF record[c].return_status = BAD_EXIT THEN BAD_EXIT ELSE c)
      /\ child' = [child EXCEPT ![p] = TID_ERROR]
      /\ UNCHANGED <<next_tid, rest, children, record, ended>>

-----------------------------------------------------------------------------
(* start_process.                                                           *)

\* load creates a page directory and activates it, or fails.
load_pagedir(p) ==
  /\ pc[p] = "start"
  /\ running' = p
  /\ \/ /\ Goto(p, "load")
        /\ pagedir' = [pagedir EXCEPT ![p] = TRUE]
        /\ directory' = [directory EXCEPT ![p] = "live"]
        /\ cr3' = p
     \/ /\ Goto(p, "loaded")
        /\ cr3' = Activated(p)
        /\ UNCHANGED <<pagedir, directory>>
  /\ UNCHANGED <<next_tid, child, rest, result, children, record, ended>>

\* The rest of load: the program is loaded, or it cannot be.  The parent of
\* a thread is never set, so nobody is told.
load(p) ==
  /\ pc[p] = "load"
  /\ Run(p)
  /\ \/ Goto(p, "user")
     \/ Goto(p, "loaded")
  /\ UNCHANGED <<next_tid, child, rest, result, children, record, ended>>

-----------------------------------------------------------------------------
(* process_wait.                                                            *)

\* process_wait (c) up to the test of finished.
process_wait(p, c) ==
  /\ pc[p] = "user"
  /\ Run(p)
  /\ \/ /\ c # TID_ERROR
        /\ \E i \in DOMAIN children[p] : children[p][i] = c
        /\ Goto(p, IF record[c].finished THEN "pw_reap" ELSE "pw_down")
        /\ child' = [child EXCEPT ![p] = c]
        /\ UNCHANGED result
     \/ /\ \A i \in DOMAIN children[p] : children[p][i] # c
        /\ Return(p, BAD_EXIT)
        /\ UNCHANGED child
  /\ UNCHANGED <<next_tid, rest, children, record, ended>>

\* Mutant: the record stays on the list.
process_wait_reap_listed(p) ==
  LET c == child[p]
  IN  /\ pc[p] = "pw_reap"
      /\ Run(p)
      /\ Return(p, record[c].return_status)
      /\ record' = [record EXCEPT ![c].mem = "freed"]
      /\ child' = [child EXCEPT ![p] = TID_ERROR]
      /\ UNCHANGED <<next_tid, rest, children, ended>>

\* Mutant: the status is read from the record after it was freed and filled.
process_wait_reap_late(p) ==
  LET c == child[p]
  IN  /\ pc[p] = "pw_reap"
      /\ Run(p)
      /\ Return(p, 204)
      /\ children' = [children EXCEPT ![p] = list_remove(@, c)]
      /\ record' = [record EXCEPT ![c].mem = "freed"]
      /\ child' = [child EXCEPT ![p] = TID_ERROR]
      /\ UNCHANGED <<next_tid, rest, ended>>

\* The end of process_wait: the record is taken off the list and freed.
process_wait_reap(p) ==
  LET c == child[p]
  IN  /\ pc[p] = "pw_reap"
      /\ Run(p)
      /\ Return(p, record[c].return_status)
      /\ children' = [children EXCEPT ![p] = list_remove(@, c)]
      /\ record' = [record EXCEPT ![c].mem = "freed"]
      /\ child' = [child EXCEPT ![p] = TID_ERROR]
      /\ UNCHANGED <<next_tid, rest, ended>>

-----------------------------------------------------------------------------
(* process_exit.                                                            *)

\* thread_exit enters process_exit, with the given status or the old one.
Leave(p, s, how) ==
  /\ Run(p)
  /\ Goto(p, "pe_children")
  /\ rest' = [rest EXCEPT ![p] = children[p]]
  /\ record' = [record EXCEPT ![p].return_status = s]
  /\ ended' = [ended EXCEPT ![p] = how]
  /\ result' = [result EXCEPT ![p] = 0]
  /\ UNCHANGED <<next_tid, child, children>>

\* A dereference of the null pointer in the kernel.
Hang(p) ==
  /\ Run(p)
  /\ Goto(p, "hang")
  /\ UNCHANGED <<next_tid, child, rest, result, children, record, ended>>

\* exit (status) by the program, or exit (BAD_EXIT) for a bad pointer it
\* passed to a system call.
exit(p, s) ==
  /\ pc[p] = "user"
  /\ \/ record[p].mem # "none" /\ Leave(p, s, "exited")
     \/ record[p].mem = "none" /\ Hang(p)

\* start_process: load has failed, exit (BAD_EXIT).
start_process_failed(p) ==
  /\ pc[p] = "loaded"
  /\ \/ record[p].mem # "none" /\ Leave(p, BAD_EXIT, "exited")
     \/ record[p].mem = "none" /\ Hang(p)

\* kill, after an exception in the program, and the end of main, call
\* thread_exit and leave the status as it is: 0.
kill(p) ==
  /\ pc[p] = "user"
  /\ Leave(p, record[p].return_status, "killed")

\* One turn of the loop over child_processes, or its end.
process_exit_child(p) ==
  /\ pc[p] = "pe_children"
  /\ Run(p)
  /\ \/ /\ rest[p] # <<>>
        /\ LET c == Head(rest[p])
           IN  record' = IF record[c].finished
                           THEN [record EXCEPT ![c].mem = "freed"]
                           ELSE [record EXCEPT ![c].finished = TRUE]
        /\ rest' = [rest EXCEPT ![p] = Tail(@)]
        /\ UNCHANGED pc
     \/ /\ rest[p] = <<>>
        /\ Goto(p, "pe_data")
        /\ UNCHANGED <<record, rest>>
  /\ UNCHANGED <<next_tid, child, result, children, ended>>

\* process_exit: the process's own record.  A process without one hangs.
process_exit_data(p) ==
  /\ pc[p] = "pe_data"
  /\ Run(p)
  /\ LET r == record[p]
     IN  \/ r.mem = "none" /\ Goto(p, "pe_hang") /\ UNCHANGED record
         \/ /\ r.mem # "none"
            /\ record' = IF r.finished THEN [record EXCEPT ![p].mem = "freed"]
                         ELSE [record EXCEPT ![p].finished = TRUE]
            /\ Goto(p, IF r.finished THEN "pe_null" ELSE "pe_up")
  /\ UNCHANGED <<next_tid, child, rest, result, children, ended>>

\* Mutant: the semaphore is not raised.
process_exit_up_silent(p) ==
  /\ pc[p] = "pe_up"
  /\ Run(p)
  /\ Goto(p, "pe_null")
  /\ UNCHANGED <<next_tid, child, rest, result, children, record, ended>>

\* process_exit: sema_up (&wait_sema).
process_exit_up(p) ==
  /\ pc[p] = "pe_up"
  /\ Run(p)
  /\ record' = [record EXCEPT ![p].wait_sema = @ + 1]
  /\ Goto(p, "pe_null")
  /\ UNCHANGED <<next_tid, child, rest, result, children, ended>>

\* Mutant: the page directory stays set in the process.
process_exit_null_kept(p) ==
  /\ pc[p] = "pe_null"
  /\ Run(p)
  /\ Goto(p, IF pagedir[p] THEN "pe_activate" ELSE "pe_die")
  /\ UNCHANGED <<next_tid, child, rest, result, children, record, ended>>

\* process_exit: cur->pagedir = NULL, ...
process_exit_null(p) ==
  /\ pc[p] = "pe_null"
  /\ running' = p
  /\ cr3' = Activated(p)
  /\ pagedir' = [pagedir EXCEPT ![p] = FALSE]
  /\ Goto(p, IF pagedir[p] THEN "pe_activate" ELSE "pe_die")
  /\ UNCHANGED <<next_tid, child, rest, result, children, record, directory, ended>>

\* ... pagedir_activate (NULL) ...
process_exit_activate(p) ==
  /\ pc[p] = "pe_activate"
  /\ running' = p
  /\ cr3' = NULL
  /\ Goto(p, "pe_destroy")
  /\ UNCHANGED <<next_tid, child, rest, result, children, record, pagedir,
                 directory, ended>>

\* ... and pagedir_destroy.
process_exit_destroy(p) ==
  /\ pc[p] = "pe_destroy"
  /\ running' = p
  /\ cr3' = Activated(p)
  /\ directory' = [directory EXCEPT ![p] = "freed"]
  /\ Goto(p, "pe_die")
  /\ UNCHANGED <<next_tid, child, rest, result, children, record, pagedir, ended>>

\* thread_exit: off all_list and off the processor for good.
thread_exit(p) ==
  /\ pc[p] = "pe_die"
  /\ Run(p)
  /\ Goto(p, "dead")
  /\ UNCHANGED <<next_tid, child, rest, result, children, record, ended>>

-----------------------------------------------------------------------------

\* What p does in the kernel once it has entered it.
Kernel(p) ==
  \/ thread_create(p)
  \/ thread_by_tid(p)
  \/ process_execute_link(p)
  \/ wait_sema_down(p)
  \/ process_execute_return(p)
  \/ load_pagedir(p)
  \/ load(p)
  \/ start_process_failed(p)
  \/ process_wait_reap(p)
  \/ process_exit_child(p)
  \/ process_exit_data(p)
  \/ process_exit_up(p)
  \/ process_exit_null(p)
  \/ process_exit_activate(p)
  \/ process_exit_destroy(p)
  \/ thread_exit(p)

ProcNext ==
  \E p \in Tid :
    \/ Kernel(p)
    \/ process_execute(p)
    \/ \E c \in Tid \cup {TID_ERROR} : process_wait(p, c)
    \/ \E s \in ExitStatus \cup {BAD_EXIT} : exit(p, s)
    \/ kill(p)

ProcSpec == ProcInit /\ [][ProcNext]_procVars

\* All processes have the same priority, so the scheduler gives every one
\* that can run in the kernel its turn.  Nothing is assumed of user programs.
FairProcSpec == ProcSpec /\ \A p \in Tid : WF_procVars(Kernel(p))

-----------------------------------------------------------------------------
(* Properties.                                                              *)

\* The type of the state.
ProcTypeOK ==
  /\ pc \in [Tid -> {"unused", "user", "create", "by_tid", "data", "ex_down",
                     "ex_ret", "start", "load", "loaded", "pw_down",
                     "pw_reap", "pe_children", "pe_data", "pe_up", "pe_null",
                     "pe_activate", "pe_destroy", "pe_die", "dead", "hang",
                     "pe_hang"}]
  /\ next_tid \in 1..(MaxTid + 1)
  /\ child \in [Tid -> Tid \cup {TID_ERROR}]
  /\ rest \in [Tid -> Seq(Tid)]
  /\ result \in [Tid -> Int]
  /\ children \in [Tid -> Seq(Tid)]
  /\ record \in [Tid -> [mem : Memory, finished : BOOLEAN,
                         return_status : Int, wait_sema : 0..1]]
  /\ ended \in [Tid -> {"no", "exited", "killed"}]
  /\ pagedir \in [Tid -> BOOLEAN]
  /\ directory \in [Tid -> Memory]
  /\ running \in Tid
  /\ cr3 \in Tid \cup {NULL}

\* The records that p's call or list still refers to.
Refers(p) ==
  CASE pc[p] \in {"user", "create", "by_tid", "data"} -> Range(children[p])
    [] pc[p] \in {"ex_down", "ex_ret", "pw_down", "pw_reap"} ->
         Range(children[p]) \cup {child[p]}
    [] pc[p] = "pe_children" -> Range(rest[p])
    [] OTHER -> {}

\* No record is read, written or freed after it was freed: what a parent can
\* reach through child_processes, or has in hand, is allocated, whatever the
\* order in which parent and child exit and wait; and the records of the
\* children of a process that is gone are freed.
\* This comes with the types of the state (ProcTypeOK).
RecordsAllocated ==
  /\ ProcTypeOK
  /\ \A p \in Tid : \A c \in Refers(p) : record[c].mem = "live"
  /\ \A p \in Tid : pc[p] \in {"user", "start", "load", "loaded", "pe_children",
                               "pe_data", "pe_up"}
                      => record[p].mem # "freed"
  /\ \A p \in Tid : pc[p] = "dead" =>
       \A c \in Range(children[p]) : record[c].mem = "freed"

\* "Correct ordering here is crucial": the page directory the processor uses
\* is never one that has been destroyed, whenever a process that is exiting
\* is interrupted and resumed.
ActiveDirectory == cr3 # NULL => directory[cr3] = "live"

\* p's call is about a child that has exited.
ChildGone(p) == child[p] \in Tid /\ pc[child[p]] = "dead"

\* A parent that waits for a child that has exited does not wait forever.
WaitEnds ==
  \A p \in Tid :
    (pc[p] \in {"ex_down", "pw_down"} /\ ChildGone(p))
      ~> pc[p] \notin {"ex_down", "pw_down"}

\* "The new thread may be scheduled (and may even exit) before
\* process_execute() returns": a call whose child has exited returns.
ExecReturns ==
  \A p \in Tid :
    (pc[p] \in {"by_tid", "data", "ex_down", "ex_ret"} /\ ChildGone(p))
      ~> pc[p] = "user"

\* What the kernel's state means to the processes (see Family): a child can
\* be waited for from when its record is linked until the record is freed.
Life == [p \in Tid |->
  CASE pc[p] = "unused" -> "unborn"
    [] pc[p] \in {"pe_children", "pe_data", "pe_up", "pe_null", "pe_activate",
                  "pe_destroy", "pe_die", "pe_hang", "dead"} -> ended[p]
    [] OTHER -> "alive"]
Code == [p \in Tid |-> record[p].return_status]
Kids == [p \in Tid |-> {c \in Range(children[p]) : record[c].mem = "live"}]
Claim == [c \in Tid |->
  IF record[c].mem = "freed" THEN "closed"
  ELSE IF \E p \in Tid : c \in Range(children[p]) THEN "open"
  ELSE "none"]

\* What a process is promised about its children: each can be waited for
\* once, after it has ended, and the wait returns the status it exited with,
\* or 0 if it was killed.
F == INSTANCE Family WITH
  Proc <- Tid, root <- main,
  ExitStatus <- ExitStatus \cup {BAD_EXIT}, KilledStatus <- 0,
  life <- Life, code <- Code, kids <- Kids, claim <- Claim, told <- result
ChildrenPromise == F!FamilySpec

\* The same promise with what process_wait says of a killed child: "If it was
\* terminated by the kernel (i.e. killed due to an exception), returns -1."
D == INSTANCE Family WITH
  Proc <- Tid, root <- main,
  ExitStatus <- ExitStatus \cup {BAD_EXIT}, KilledStatus <- -1,
  life <- Life, code <- Code, kids <- Kids, claim <- Claim, told <- result
KilledPromise == D!FamilySpec

=============================================================================
