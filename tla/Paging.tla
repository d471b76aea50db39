------------------------------- MODULE Paging -------------------------------
(***************************************************************************)
(* Virtual memory: the supplemental page table (vm/page.c), the frame      *)
(* table (vm/frame.c), swapping (vm/swap.c), page directories              *)
(* (userprog/pagedir.c) and page_fault (userprog/exception.c), with the    *)
(* parts of load and process_exit (userprog/process.c) that set them up    *)
(* and take them down.                                                     *)
(*                                                                         *)
(* A process makes accesses one after the other; an access that faults is  *)
(* made again when page_fault returns.  page_fault is one step: a parent   *)
(* sleeps in process_execute until its child's process_exit has closed the *)
(* child's files, so the only thing that goes on beside a process that     *)
(* runs is the end of process_exit of another one, which frees the pages   *)
(* one at a time.  stage[p] is                                             *)
(*    "absent"  there is no process p                                      *)
(*    "run"     p runs                                                     *)
(*    "access"  p makes the access access[p]                               *)
(*    "exit"    p is in pagedir_destroy                                    *)
(*    "hang"    p faults in swap_write again and again                     *)
(* The kernel pool is taken to have room for page tables and for struct    *)
(* page and struct frame, and an executable to be as long as its headers   *)
(* say.  A fault with no free page and no frame to evict, where            *)
(* list_pop_front would fail, needs as many processes as the pool has      *)
(* pages, each with nothing but its stack: it is left out (PageCnt).       *)
(***************************************************************************)
EXTENDS Integers, Sequences, FiniteSets, FiniteSetsExt

CONSTANTS
  Proc,       \* processes
  Program,    \* executables
  FilePage,   \* the user pages an executable fills
  ReadOnly,   \* those of them that are not writable
  GrowPage,   \* pages below the stack page that the stack can grow into
  OtherPage,  \* user pages that are neither
  PageCnt,    \* number of pages in the user pool, more than processes
  MaxStarts,  \* bound on the processes started
  NIL         \* the null pointer

\* The page of the initial stack, and kernel addresses.
Top == "top"
KernelPage == "kernel"

ASSUME PagingAssumption ==
  /\ ReadOnly \subseteq FilePage
  /\ FilePage \cap GrowPage = {} /\ OtherPage \cap (FilePage \cup GrowPage) = {}
  /\ {Top, KernelPage} \cap (FilePage \cup GrowPage \cup OtherPage) = {}
  /\ PageCnt \in Nat /\ MaxStarts \in Nat
  /\ PageCnt > Cardinality(Proc)
  /\ NIL \notin Nat \cup {"MMF", "MEM", "SWAP"}

Page == FilePage \cup GrowPage \cup OtherPage \cup {Top}
Frame == 1..PageCnt

VARIABLES
  stage,
  access,    \* access[p]: [page, write, user]
  program,   \* program[p]: the executable of p
  start,     \* start[p]: when p was started, counting processes
  starts,    \* number of processes started
  spt,       \* spt[p][v]: p_loc of the page, or NIL if it is not in spt
  page_dir,  \* page_dir[p][v]: the frame mapped at v, or NIL; in
             \*   pagedir_destroy, those that are still to be freed
  free,      \* the free pages of the user pool
  content,   \* content[f]: NIL for zeros, or <<executable, page>> for a page
             \*   last filled from an executable
  lru_queue, \* frames: [addr, proc, start, page]
  ft,        \* ft[v]: the frame that the table has for v, or NIL
  ft_lock    \* holder of ft_lock between steps, or NIL

pagingVars == <<stage, access, program, start, starts, spt, page_dir, free,
                content, lru_queue, ft, ft_lock>>

NoPages == [v \in Page |-> NIL]

PagingInit ==
  /\ stage = [p \in Proc |-> "absent"]
  /\ access = [p \in Proc |-> NIL]
  /\ program = [p \in Proc |-> NIL]
  /\ start = [p \in Proc |-> 0]
  /\ starts = 0
  /\ spt = [p \in Proc |-> NoPages]
  /\ page_dir = [p \in Proc |-> NoPages]
  /\ free = Frame
  /\ content = [f \in Frame |-> NIL]
  /\ lru_queue = <<>>
  /\ ft = NoPages
  /\ ft_lock = NIL

-----------------------------------------------------------------------------

\* palloc_get_page (PAL_USER): the first free page.
palloc_get_page == Min(free)

\* load: the pages of the executable are entered into the supplemental page
\* table, and setup_stack maps a page of zeros.  Without one load fails and
\* the process exits.
load_pages(p, x) ==
  /\ stage[p] = "absent"
  /\ starts < MaxStarts
  /\ free # {}
  /\ stage' = [stage EXCEPT ![p] = "run"]
  /\ program' = [program EXCEPT ![p] = x]
  /\ start' = [start EXCEPT ![p] = starts]
  /\ starts' = starts + 1
  /\ spt' = [spt EXCEPT ![p] = [v \in Page |->
                                  IF v \in FilePage THEN "MMF" ELSE NIL]]
  /\ page_dir' = [page_dir EXCEPT ![p] = [NoPages EXCEPT ![Top] = palloc_get_page]]
  /\ free' = free \ {palloc_get_page}
  /\ content' = [content EXCEPT ![palloc_get_page] = NIL]
  /\ UNCHANGED <<access, lru_queue, ft, ft_lock>>

\* An instruction of the program (user) or of a system call that accesses
\* page v.
touch(p, v, write, user) ==
  /\ stage[p] = "run"
  /\ \A q \in Proc : stage[q] # "access"
  /\ v = KernelPage => user
  /\ stage' = [stage EXCEPT ![p] = "access"]
  /\ access' = [access EXCEPT ![p] = [page |-> v, write |-> write, user |-> user]]
  /\ UNCHANGED <<program, start, starts, spt, page_dir, free, content, lru_queue,
                 ft, ft_lock>>

Present(p) == access[p].page \in Page /\ page_dir[p][access[p].page] # NIL
Protected(p) == access[p].write /\ access[p].page \in ReadOnly

\* The access is made.
complete(p) ==
  /\ stage[p] = "access"
  /\ Present(p) /\ ~ Protected(p)
  /\ stage' = [stage EXCEPT ![p] = "run"]
  /\ access' = [access EXCEPT ![p] = NIL]
  /\ UNCHANGED <<program, start, starts, spt, page_dir, free, content, lru_queue,
                 ft, ft_lock>>

-----------------------------------------------------------------------------
(* Process exit.                                                            *)

\* process_exit: the process makes no more accesses, and its parent may run.
process_exit(p) ==
  /\ stage' = [stage EXCEPT ![p] = "exit"]
  /\ access' = [access EXCEPT ![p] = NIL]
  /\ UNCHANGED <<program, start, starts, spt, page_dir, free, content,
                 lru_queue, ft, ft_lock>>

exit_pages(p) ==
  /\ stage[p] = "run"
  /\ process_exit(p)

\* Mutant: the page is not freed.
palloc_free_page_kept(f) == free

\* palloc_free_page
palloc_free_page(f) == free \cup {f}

\* One turn of the loop of pagedir_destroy, which frees a page p has mapped,
\* or its end.  The frames of the process stay in the frame table.
pagedir_destroy(p) ==
  /\ stage[p] = "exit"
  /\ \/ \E v \in Page :
          /\ page_dir[p][v] # NIL
          /\ free' = palloc_free_page(page_dir[p][v])
          /\ page_dir' = [page_dir EXCEPT ![p][v] = NIL]
          /\ UNCHANGED <<stage, program, start, spt>>
     \/ /\ page_dir[p] = NoPages
        /\ stage' = [stage EXCEPT ![p] = "absent"]
        /\ program' = [program EXCEPT ![p] = NIL]
        /\ start' = [start EXCEPT ![p] = 0]
        /\ spt' = [spt EXCEPT ![p] = NoPages]
        /\ UNCHANGED <<free, page_dir>>
  /\ UNCHANGED <<access, starts, content, lru_queue, ft, ft_lock>>

-----------------------------------------------------------------------------
(* page_fault.                                                              *)

\* ft_evict: the page of the oldest frame is marked as swapped out; then
\* swap_write dereferences swap_lock, which is null because nothing calls
\* swap_init, with ft_lock held.
ft_evict(p) ==
  /\ stage' = [stage EXCEPT ![p] = "hang"]
  /\ ft_lock' = p
  /\ lru_queue' = Tail(lru_queue)
  /\ LET e == Head(lru_queue)
     IN  spt' = IF stage[e.proc] # "absent" /\ start[e.proc] = e.start
                  THEN [spt EXCEPT ![e.proc][e.page] = "SWAP"]
                  ELSE spt
  /\ UNCHANGED <<access, program, start, starts, page_dir, free, content, ft>>

\* ft_add: a new frame for page v of p.  The table keeps the first frame of
\* a page number, whichever process it belongs to.
ft_add(p, v) ==
  LET frame == [addr |-> palloc_get_page, proc |-> p, start |-> start[p],
                page |-> v]
  IN  /\ free' = free \ {frame.addr}
      /\ lru_queue' = Append(lru_queue, frame)
      /\ ft' = [ft EXCEPT ![v] = IF @ = NIL THEN frame ELSE @]

\* Mutant: a page of the executable is mapped without being read.
spt_get_frame_unread(p, v) ==
  /\ ft_add(p, v)
  /\ UNCHANGED content
  /\ page_dir' = [page_dir EXCEPT ![p][v] = palloc_get_page]
  /\ spt' = [spt EXCEPT ![p][v] = "MEM"]

\* spt_get_frame: the page gets a frame, is read from the executable unless
\* it is in memory, and mapped.
spt_get_frame(p, v) ==
  /\ ft_add(p, v)
  /\ content' = IF spt[p][v] = "MMF"
                  THEN [content EXCEPT ![palloc_get_page] = <<program[p], v>>]
                  ELSE content
  /\ page_dir' = [page_dir EXCEPT ![p][v] = palloc_get_page]
  /\ spt' = [spt EXCEPT ![p][v] = "MEM"]

\* new_page_on_stack: a page with whatever its frame held is mapped.
new_page_on_stack(p, v) ==
  /\ ft_add(p, v)
  /\ page_dir' = [page_dir EXCEPT ![p][v] = palloc_get_page]
  /\ spt' = [spt EXCEPT ![p][v] = "MEM"]
  /\ UNCHANGED content

\* Mutant: only writes are dealt with.
Handled_write(p) ==
  access[p].user /\ access[p].page \in Page /\ ~ Present(p) /\ access[p].write

\* Whether page_fault deals with the fault at all: an access of the program
\* to a user page that is not present.
Handled(p) == access[p].user /\ access[p].page \in Page /\ ~ Present(p)

\* Whether it needs a frame for the page.
NeedsFrame(p) == spt[p][access[p].page] # NIL \/ access[p].page \in GrowPage

\* page_fault gives the page a frame.
page_fault_load(p) ==
  /\ stage[p] = "access"
  /\ Handled(p)
  /\ NeedsFrame(p)
  /\ ft_lock \in {NIL, p}
  /\ \/ /\ free # {}
        /\ IF spt[p][access[p].page] # NIL
             THEN spt_get_frame(p, access[p].page)
             ELSE new_page_on_stack(p, access[p].page)
        /\ UNCHANGED <<stage, access, program, start, starts, ft_lock>>
     \/ /\ free = {}
        /\ lru_queue # <<>>
        /\ ft_evict(p)

\* page_fault calls exit (BAD_EXIT).
page_fault_exit(p) ==
  /\ stage[p] = "access"
  /\ Handled(p)
  /\ ~ NeedsFrame(p)
  /\ process_exit(p)

\* page_fault returns without doing anything: the fault is the kernel's, at
\* a kernel address, or a write to a read-only page.
page_fault_ignore(p) ==
  /\ stage[p] = "access"
  /\ ~ Handled(p)
  /\ ~ Present(p) \/ Protected(p)
  /\ UNCHANGED pagingVars

PagingStep(p) ==
  complete(p) \/ page_fault_load(p) \/ page_fault_exit(p) \/ page_fault_ignore(p)

PagingNext ==
  \E p \in Proc :
    \/ \E x \in Program : load_pages(p, x)
    \/ \E v \in Page \cup {KernelPage}, write, user \in BOOLEAN :
         touch(p, v, write, user)
    \/ exit_pages(p)
    \/ pagedir_destroy(p)
    \/ PagingStep(p)

PagingSpec == PagingInit /\ [][PagingNext]_pagingVars

\* The processor goes on with a process that is in the middle of an access.
FairPagingSpec == PagingSpec /\ \A p \in Proc : WF_pagingVars(PagingStep(p))

-----------------------------------------------------------------------------
(* Properties.                                                              *)

FrameEntry == [addr : Frame, proc : Proc, start : 0..MaxStarts, page : Page]

\* The type of the state.
PagingTypeOK ==
  /\ stage \in [Proc -> {"absent", "run", "access", "exit", "hang"}]
  /\ access \in [Proc -> [page : Page \cup {KernelPage}, write : BOOLEAN,
                          user : BOOLEAN] \cup {NIL}]
  /\ program \in [Proc -> Program \cup {NIL}]
  /\ start \in [Proc -> 0..MaxStarts]
  /\ starts \in 0..MaxStarts
  /\ spt \in [Proc -> [Page -> {"MMF", "MEM", "SWAP", NIL}]]
  /\ page_dir \in [Proc -> [Page -> Frame \cup {NIL}]]
  /\ free \subseteq Frame
  /\ content \in [Frame -> (Program \X FilePage) \cup {NIL}]
  /\ lru_queue \in Seq(FrameEntry)
  /\ ft \in [Page -> FrameEntry \cup {NIL}]
  /\ ft_lock \in Proc \cup {NIL}

\* Every page of the user pool is either free or mapped at one place in one
\* process: no two processes share memory, none uses memory that was freed,
\* and all of it comes back when they exit.
\* This comes with the types of the state (PagingTypeOK).
PagesOwned ==
  /\ PagingTypeOK
  /\ \A f \in Frame :
       Cardinality({x \in Proc \X Page : page_dir[x[1]][x[2]] = f})
         = IF f \in free THEN 0 ELSE 1

\* A page of an executable that is mapped holds what the executable of that
\* process has there, although pages are filled by page faults in any order
\* and memory is reused.
PagesFilled ==
  \A p \in Proc : \A v \in FilePage :
    page_dir[p][v] # NIL => content[page_dir[p][v]] = <<program[p], v>>

\* An access of a program to a page that it may access is made in the end,
\* or the process exits, unless some process is in ft_evict: page_fault makes
\* progress and does not come back for the same page forever.
FaultsServed ==
  \A p \in Proc :
    (stage[p] = "access" /\ access[p].user /\ access[p].page \in Page /\ ~ Protected(p))
      ~> (stage[p] # "access" \/ \E q \in Proc : stage[q] = "hang")

=============================================================================
