# A TLA+ model of the PintOS kernel

The repository is a PintOS kernel: a small single-processor x86 operating
system (`src/src/`) with kernel threads, synchronisation, user processes,
virtual memory, a file system and drivers. This directory holds TLA+
specifications of its parts, TLC configurations that check them on small
instances, and proofs, checked by TLAPS, of the properties that matter most.

## How the kernel is modelled

There is one processor. Code that runs with interrupts off is atomic, so it is
one step of a specification. An interrupt can arrive between any two steps, and
a timer interrupt can take the processor away. A function that runs with
interrupts on is therefore several steps, cut wherever it reads or writes state
that other threads or interrupt handlers change. `pc[t]` says where thread `t`
is in such a function, and the other local variables of the function are
variables of the model, set to `NULL` when they are dead so that they do not
multiply states.

Memory that is read after it was freed, or a list element that is not there,
gives an arbitrary value: such a read is a choice over the outcomes (a
comparison becomes `\E b \in BOOLEAN`). A write through a dangling or null
pointer stops the machine: it sets `fault`, after which nothing happens.

## Inventory

| Part | Source | State | Operations | What is hard about it |
|---|---|---|---|---|
| Threads and scheduler | `threads/thread.c` | status, run queue, all_list, priorities, time slice | create, block, unblock, yield, exit, set_priority, tick, idle | preemption between any two sections, threads that exit before their creator looks at them, the halted idle thread |
| MLFQS | `threads/thread.c`, `fixed-point.h` | nice, recent_cpu, load_avg, highest_priority | set_nice, tick, update_* | unprotected updates, fixed-point overflow |
| Interrupts | `threads/interrupt.c` | level, in_external_intr, yield_on_return | intr_handler, enable, disable | they are what makes the interleavings |
| Semaphores | `threads/synch.c` | value, waiters | down, try_down, up | woken threads are not handed the unit; up from handlers |
| Locks, donation | `threads/synch.c` | holder, waiting_lock, donor_threads, priority | acquire, try_acquire, release | everything runs with interrupts on |
| Condition variables | `threads/synch.c` | waiters | wait, signal, broadcast | signal with no waiter; waiters not asleep yet |
| Lists, bitmaps, hash tables | `lib/kernel/` | linked lists, bit sets, buckets | insert, remove, sort, scan, rehash | order and stability, element in two lists |
| Timer | `devices/timer.c` | ticks, blocked_threads | sleep, interrupt | ticks between reading the time and queueing |
| Interrupt queues | `devices/intq.c`, `input.c`, `serial.c`, `kbd.c` | bounded buffer, waiting thread | getc, putc, interrupt handlers | full and empty at the same time as an interrupt |
| Page and block allocators | `threads/palloc.c`, `malloc.c` | pools, arenas, free lists | get, free, malloc, realloc, free | pages freed without the lock under which they are taken; an arena freed with its last block |
| Processes | `userprog/process.c` | child records, semaphores | execute, start, wait, exit | parent and child use one record, which one of them frees |
| System calls | `userprog/syscall.c` | descriptors, file system lock, mappings | the system calls | nested use of a non-recursive lock |
| Page faults, VM | `userprog/exception.c`, `vm/` | frame table, page table, swap map | load, evict, free, swap in and out | eviction against use, one frame in two tables |
| Page directories | `userprog/pagedir.c` | mapping | set, clear, accessed and dirty bits | |
| File system | `filesys/` | inodes, directories, free map | create, open, remove, read, write, close | removal while open, failure half-way through creation |
| Disks | `devices/ide.c`, `block.c`, `partition.c` | channel, expected interrupt | read, write, interrupt | late and spurious interrupts |
| Console | `lib/kernel/console.c` | lock depth | putchar, printf | recursion, use before initialisation and in panics |
| Boot, descriptor tables, other devices | `threads/init.c`, `userprog/gdt.c`, `tss.c`, `devices/pit.c` ... | hardware registers | run once | nothing to interleave with |
| C library | `lib/` | none | pure functions | |

## Modules

| Module | Models | Extends |
|---|---|---|
| `Lists` | the ordered operations of `list.c` on sequences | |
| `ThreadLifecycle` | what the thread system promises: the abstract life cycle | |
| `Threads` | the priority scheduler of `thread.c` | `Lists` |
| `Mlfqs` | the `-mlfqs` scheduler of `thread.c` with `fixed-point.h` | `Threads` |
| `Synch` | semaphores, locks and priority donation of `synch.c` | `Threads` |
| `Timer` | `timer_sleep` and `timer_interrupt` of `timer.c` | `Threads` |
| `Monitor` | what a condition variable promises: an abstract Mesa monitor | |
| `Condvar` | condition variables of `synch.c`, over a lock taken in one step | `Lists` |
| `Fifo` | what an interrupt queue promises: a bounded queue | |
| `Intq` | the interrupt queues of `intq.c` with the handlers that use them | |
| `Serial` | `serial.c` with its two queues, `input.c` and `kbd.c`, and the UART | |
| `BlockStore` | what a disk promises: requests that take effect at one moment | |
| `Ide` | a channel of `ide.c` with the disk on it | |
| `Family` | what a process is promised about its children | |
| `Process` | `process_execute`, `process_wait`, `process_exit` and start-up | |
| `Paging` | page faults, `vm/` and `pagedir.c` | |
| `Files` | `filesys/` and the descriptors of `syscall.c`, with crashes | |
| `Malloc` | `malloc.c` over the kernel pool of `palloc.c` and its bitmap | |
| `MCSynch`, `MCMlfqs`, `MCTimer`, `MCCondvar`, `MCProcess` | instances for TLC of one module | |
| `MCThreads`, `MCWaiting`, `MCPrograms`, `MCStorage` | instances for TLC of several modules that share no state; `moving` says which one a behaviour is about | |
| `ListsProofs`, `ThreadsProofs`, `CondvarProofs`, `DevicesProofs` | theorems and proofs | the modules they are about |

The modules fit together like this. `Synch`, `Timer` and `Mlfqs` run on the
scheduler of `Threads`. `Condvar` uses locks as `Synch` shows them to be
(`MutualExclusion`). `Serial` uses queues as `Intq` shows them to be
(`FifoSpec`, `SleepersKnown`). `Files` and `Paging` have the fault or the system
call of one process at a time, as `Process` has it: a parent sleeps in
`process_execute` until its child has exited (see there).

### Lists

A list is the sequence of its elements. `list_insert_ordered(s, x, key)` counts
the places the loop walks past (`Passed`), `list_sort` gives every element the
place that its rank in a stable descending sort has, and `list_remove` takes the
element out. `list_keep` is a loop over a list that removes the elements outside a
set, such as the sleepers in `timer_interrupt`. Every ordered list of threads compares `key(a) > key(b)`.

### Threads

`status`, `current`, `ready_list`, `all_list`, `priority`, `base_priority`,
`donor_threads` and `thread_ticks` are the fields and static variables of those
names. A thread is the page that holds it, so a new thread can reuse the page of
an old one (`"FREE"`). `schedule(st, rl)` stands for `schedule`,
`thread_schedule_tail` and `next_thread_to_run`; `yield_from` for `thread_yield`
in a given state; and each action is one section with interrupts off:

| Action | Code |
|---|---|
| `thread_create`, `thread_create_unblock`, `thread_create_check` | `thread_create`: set-up, making the thread ready, the comparison of priorities |
| `thread_set_priority`, `Yield`, `Block`, `Wake`, `thread_exit` | the functions of those names |
| `idle` | a turn of the idle thread's loop up to `sti; hlt` |
| `thread_tick` | the timer interrupt and the yield on its return |
| `InterruptWake`, `InterruptWakeYield` | a handler that wakes a thread, without and with a yield on return |

`Init` is the state in which `thread_start` returns, with any priority for the
initial thread.

### Mlfqs

With `-mlfqs` a READY thread is on `ready_list`, here in the order of
`base_priority`, and on the queue of its priority (`priority_levels`).
`PriorityOf`, `RecentCpu` and `LoadAvg` are the formulas of `update_priority`,
`update_recent_cpu` and `update_load_avg` in fixed point with `Q` fraction bits;
division rounds towards zero (`Quotient`). `Recomputed` is `update_priority` for
one thread: it stores the priority, moves a READY thread whose priority has
changed, and raises `highest_priority`. `tick` is the whole timer interrupt.
`thread_set_nice` runs with interrupts on and is cut at the store of `nice`, the
computation, the store of the priority and the test. Locks donate in this mode
too, and do not move the thread to another level: `donate` and `restore` change
the priority of any thread, and the history variable `donated` remembers which
READY threads have a priority that was not computed. `highest_priority` is
`PRI_MAX` from the start and never goes down, so `thread_set_nice` yields
whenever the priority is below `PRI_MAX`; the model does the same.

### Synch

A lock is its semaphore. `down` and `up` are the two semaphore sections. The two
lock functions run with interrupts on, and the thread can be preempted between
any two statements that read or write what others use, so each is a step:

| Steps | Code |
|---|---|
| `lock_acquire`, `_donate`, `_raise`, `_insert`, `_wait` | reading the holder, comparing with its priority, storing it, joining its donors, setting `waiting_lock` |
| `_next`, `_nest`, `_nraise` | the loop of the nested donation: reading `waiting_lock`, the holder of that lock, storing its priority |
| `_down`, `_got`, `_hold` | `sema_down`, clearing `waiting_lock`, storing the holder |
| `lock_release`, `_donors`, `_walk` | clearing the holder, the test and a turn of the loop over the donors |
| `_first`, `_prio`, `_up` | the test of the donors that are left, storing the priority, `sema_up` |

A turn of the loop over the donors reads `waiting_lock` and removes the donor in
one step: a donor that waits for this lock sleeps, or is about to, until the
`sema_up`. A race inside the pointer updates of a list is not modelled. The donors
are ordered by what `list_desc_prio_sort` really compares when it is given a
`donor_elem`: the addresses in `allelem.prev` (`allelem_prev`, with the constant
`Address`). Which locks and semaphores a thread uses is one of the assignments in
the constant `Uses`, chosen at the start (`uses`); threads exit only when they
hold no lock.

### Timer

`timer_sleep` is cut where interrupts are on: reading the start time, joining
`blocked_threads`, the test of the elapsed time, and `sema_down`.
`timer_interrupt` is one step with everything it does: the tick of the
scheduler, one tick off every sleeper, a `sema_up` for each that is due, and the
yield on return. The time is kept relative to each sleeper (`elapsed`) and stops
counting at `MaxSleep`, since the code only compares it with the argument, which
is at most that. An element that is still on the list after its function has
returned makes the state undefined (`Dangling`); nothing is said about steps
after that.

### Condvar

Each waiter is the `semaphore_elem` on its thread's stack and is named by the
thread. `cond_wait` is cut at the release of the lock, the `sema_down` and the
`lock_acquire`; `cond_signal` at the end of its section with interrupts off. A
failed assertion stops the kernel. `Monitor` says when it may (`Stop`): in a signal
without waiters, where it always does, and in one with several, but never in a
signal with one waiter. The comment of `cond_signal` promises more, which the run
`signal_panics` refutes. Any thread that is not asleep may run, so the
results hold for every scheduling; priorities (`Prio`) do not change. Donation
and the steps inside the lock functions are left to `Synch`.

### Intq

`intq_getc` and `intq_putc` run with interrupts off, so a step goes on until the
thread sleeps (in `wait` or for the lock) or `lock_release` may give the
processor away. With `input` the queue is the input buffer, which handlers fill
and threads read; without, it is the transmit queue, which threads fill and a
handler, or polling, empties. Handlers come at any time; what keeps some of them
away, the interrupt enable register, is in `Serial`.

### Serial

Every function runs with interrupts off and is one step. `mode` and `ier` are the
variables of the driver, `txq` and `buffer` the two queues, `thr` and `rbr` the
data registers of the UART, which is external: it sends the byte in `thr`
(`Transmit`), receives one into `rbr` (`Receive`) and interrupts while a condition
that `ier` enables holds (`Interrupting`). A byte that arrives while `rbr` is full
takes the place of the one there, which is lost (`overrun`); the driver does not
look at the overrun bit. `SerialOrder` says that no other byte is. The bytes of `serial_putc` and of the
line are numbered, so that `sent` and `got` show order and losses. A handler
takes one byte in each direction and comes again while there is more. A thread
that would sleep makes its step when it can be made.

### Ide

A thread takes the lock of the channel, selects the sector, issues the command,
and waits for the completion interrupt before (read) or after (write) it moves the
data; each is a step. The disk (`DeviceStep`) is external. `SpuriousInterrupt`
raises an interrupt no command has caused, up to `MaxSpurious` times: the code
accepts it, since `expecting_interrupt` is never cleared (`ide.c:413`). The disk
is taken to answer before the polling loops give up. The refinement of
`BlockStore` counts a write as done when the disk has its data, so it also covers
a write that a spurious interrupt lets return early. `Acknowledged`, which says
more, is about behaviours without one.

### Process

A step is what a process does between two accesses to state that others change;
it begins, if another process ran before, with the switch that activates its page
directory (`Run`, `Activated`). `record[c]` is the `child_data` of `c`: allocated,
live or freed memory, `wait_sema`, `finished` and `return_status`. Allocation may
fail at each point (`Creation`). `process_execute` stores through `child_thread`,
which it never sets (`process.c:73`): the store does nothing or faults
(`StrayWrite`). A fault inside the kernel returns to the instruction, because
`page_fault` does nothing about it, and so happens again forever (`"hang"`).
Nothing sets `parent`, so `start_process` never ups the semaphore and a parent
stays in `process_execute` until the child has exited. The programs that
`tests/vm/page-parallel.c` and `parallel-merge.c` mean to run at once run one after
the other, the branch of `process_wait` that sleeps is never taken, and no child
finds its record finished by its parent; the model has these branches as the code
has them. `ended` records whether a process exited or was killed: `kill` leaves
the status 0 in the record, which is what `ChildrenPromise` says of a killed child;
that `process_wait` promises -1 is the run `killed_status`.

### Paging

`spt`, `page_dir`, `ft`, `lru_queue` and `free` are the supplemental page table,
the page directory, the frame table, its queue and the user pool. A process makes
one access after another (`touch`, `complete`); an access that faults is made again
when `page_fault` has returned. `page_fault` is one step, because no two programs
run at once (see `Process`); but `process_exit` raises the semaphore of the record
before it destroys the page directory, so an exiting process (`stage` `"exit"`)
gives its pages back one by one while another starts and faults. The pages of a program are those of its file, its
stack (`"top"`, and `GrowPage` below it), and others. When the pool is empty
`ft_evict` marks a page as swapped out and then never comes back, since
`swap_write` dereferences `swap_lock`, which nothing initialises; the lock of the
frame table stays taken. There are more frames than processes: with an empty pool
and an empty queue `ft_evict` would fail its assertion (`frame.c:150`). An access
to kernel memory faults forever, because the test that would end the process is
commented out (`exception.c:157`). The kernel pool is taken to have room, and executables to
be as long as their headers say. New pages of the stack are not cleared by the
code, and nothing is said about what they hold.

### Files

The disk is the free map (`used`), the directory (`entry`) and the inodes
(`disk`). In memory there are the open inodes with their counts, the descriptors,
the running programs and the files that `mmap` reopened and never closes
(`mapped`). An operation is cut where it writes to the disk (`op.at`), and `crash`
may come at every cut: it forgets the memory and goes on from the disk. `wrote` has
the data sectors that the last step has written, and `lost` the used sectors
nobody owns: what a crash leaves, and the data of a new file whose name
cannot be added, which `filesys_create` does not release (it releases only the
sector of the inode, `filesys.c:55`). Memory may run out in `inode_create` and
`dir_add`, which then fail as on a full disk, and in `deny_write_to_exec`, whose
failure nobody notices: the program runs with `executable` null and its file can
change, so `RunningProgramUnchanged` is about the programs that could be
protected. An open or a remove that fails for lack of memory changes nothing. Left
out are lack of memory while `dir_add` searches the directory (its comment takes it to
be impossible, `directory.c:161`) and while released sectors are written to the free
map. `mmap` ends in a `lock_acquire` of `mmap_lock`, which nothing initialises, and
does not come back from it; the model lets the process stop there, as after any
other step, or go on. Lengths are in sectors.

### Malloc

Memory is addressed by bytes. `free_list`, `arena` and `used_map` are the free
lists of the descriptors, the arena headers in the pages, and the bits of the
pool; `held` has the blocks that callers have. `malloc`, `realloc` and `free` are
cut at the locks and, inside `palloc_get_multiple` and `palloc_free_multiple`, at
each position of the scan, the flip, the filling with `0xcc` (which ends the
arena header) and each bit that is cleared: the last two happen without the lock
of the pool. A failed assertion puts a thread in `"panic"`, which the type
invariant excludes. A block is freed at most once by its caller, and not while it
is being resized. Callers of `Process` and `Paging` see only that an allocation
fails or does not.

## Runs

| Run | Instance | Shows |
|---|---|---|
| `threads` | idle, main and two pages for threads, three priorities, slices of two ticks; three threads and a ring of four places; two threads, two sectors, one spurious interrupt | queues consistent, highest priority first, the idle thread never misses a wake-up, the life cycle is implemented, threads of the highest priority take turns; `Fifo` and `BlockStore` are implemented, no sleeper is forgotten, every request of the disk is answered |
| `synch` | three threads besides idle, with two locks taken in a chain or one that all want, two semaphores raised by threads and devices, one of them up to 2, a thread that lowers its priority | wait lists and run queue are disjoint and complete, a lock has one owner or one unit, no wake-up is lost |
| `mlfqs` | two threads besides main and idle, six priorities, two ticks, two changes of priority | both queue structures hold the same threads, a ready thread is on the level of its priority, the highest level runs first |
| `waiting` | sleeps of up to three ticks; four threads of three priorities on a condition variable | nobody leaves `timer_sleep` early or sleeps on, sleepers run again; no signal is lost, `Monitor` is implemented, a broadcast ends |
| `storage` | three names in a directory of two, two processes, seven sectors of which four are the file system's, files of up to two sectors, one mapping; two threads that hold up to two blocks, three pages of 14 bytes, blocks of 3 and 6 bytes and of two pages | open counts are right, no sector has two owners, none is lost without a crash or a name that cannot be added, a protected program does not change; blocks in use are disjoint from each other and from what the allocator writes, no page or block is lost |
| `programs` | main and two children; two processes, two programs, three frames; queues of two bytes and three bytes to send and receive | records are live while used and freed in the end, statuses are reported once, no destroyed page directory is used, a parent wakes up; pages have one owner and the right contents, faults are served; bytes are sent and received once and in order, and every byte is sent |

The bounds let the cases of the hazards happen: a page reused by a new thread,
three threads of which two are equal, a chain of two donations, two sleepers due
together and apart, a ring that wraps around full and empty, a directory and a disk that
fill up between two steps of a creation, a removed file that is open, a pool that
runs out of frames, frames that pass from one program to the next, arenas that fill,
empty and are given back while another thread scans for pages. Names, processes
and equal threads are interchangeable, so `storage` and `mlfqs` use symmetry; they
check no liveness. The type invariant of each module is a conjunct of the invariant
that its comment says (`TypeOK` of `Threads`, which is proved, stands by itself).

Deadlock is checked only in `threads`, where the scheduler cannot stop; that the
interrupt queue (a failed assertion) and the disk (no request) may is a step of
`MCThreads` (`Stopped`). Elsewhere
the system may stop: on a kernel exception, a failed assertion, a machine without further
requests, or at a bound.

The other runs each refute one statement that a comment or a test makes about
the code:

| Run | Statement | What the code does |
|---|---|---|
| `donation_fault` | kernel code throws no exceptions | a donation can go to a thread that has exited |
| `donated_ready` | the head of the ready list has the highest priority | a donation does not move the holder in the list |
| `sleep_dangling` | `blocked_threads` lists sleeping threads | `timer_sleep` can return with its element on the list |
| `exec_hangs` | a child may exit before `process_execute` returns | the parent then dereferences a null pointer and never returns |
| `signal_panics` | a signal wakes a waiter if there is one | with no waiter an assertion stops the kernel |
| `killed_status` | waiting for a killed process returns -1 | it returns 0 |

More things in the code disagree with what a reader would expect, and no run is
about them. They are in the model as the code has them, except the first:

- `lock_try_acquire` downs a copy of the semaphore (`synch.c:277`); it has no
  callers and is not modelled.
- The donors are not in order of priority, so a release can leave a thread below
  a donation it still has (`thread.c:912`), and only donors set `waiting_lock`
  (`synch.c:246`).
- `cond_signal` compares waiters that are not asleep yet by the front of an empty
  list (`synch.c:445`): an assertion stops the kernel (`panic`).
- A reader of an interrupt queue that slept for the lock goes on to `wait` without
  testing the queue again, so the assertion at `intq.c:91` can fail (`panic`).
- `filesys_create` loses the data of a file whose name cannot be added.
- Eviction never returns, and an access to kernel memory, which
  `tests/userprog/bad-read2.c` says ends the program, faults forever (see `Paging`).
- A program whose file could not be opened again runs unprotected
  (`syscall.c:691`), and `mmap` never returns (`syscall.c:549`).

Fairness. `RoundRobin` and `Wakes` assume only that the timer interrupts
forever (`WF` of `thread_tick` and `timer_interrupt`), which the hardware does
whenever interrupts are on, and no section keeps them off for good; nothing is
assumed about what threads do. `Wakes` is therefore about sleepers of the highest
priority. `BroadcastEnds`, `WaitEnds`, `ExecReturns`, `FaultsServed`
and `DiskAnswers` assume that a thread that is inside the kernel, or in the middle
of an access, and can go on runs again and again (for `WaitEnds` only the parent,
at the `sema_down`). The
scheduler grants that unless threads of higher priority run forever, and user
processes all have the default priority. `SerialFlows` and
`DiskAnswers` also assume that the hardware goes on (`Transmit`, `DeviceStep`) and
that a pending interrupt is taken, for which see above. Nobody is assumed to make a
request, to type, or to exit.

## Proofs

Every theorem holds for all values of the constants that satisfy the named
assumption of its module. Each component has one inductive invariant; TLC checked
it on the instances of the runs before it was proved, and the properties of the
runs and the refinements follow from it.

| Theorem (module) | Statement |
|---|---|
| `TypeCorrect`, `RunQueueCorrect`, `AllListCorrect`, `NoMissedWakeupCorrect`, `ReadySortedCorrect`, `PicksHighestCorrect` (`ThreadsProofs`) | the invariants of the run `threads`; without donation the run queue is sorted; its action property |
| `Implements` (`ThreadsProofs`) | `Threads` implements `ThreadLifecycle` |
| `NoLostSignalCorrect`, `ImplementsMonitor` (`CondvarProofs`) | no signal is lost; `Condvar` implements `Monitor` |
| `SleepersKnownCorrect`, `ImplementsFifo` (`DevicesProofs`) | no sleeper is forgotten; `Intq` implements `Fifo` |
| `AcknowledgedCorrect`, `ImplementsStore` (`DevicesProofs`) | a write that returned is on the disk; `Ide` implements `BlockStore` |

**Lists.** `ListsProofs` proves, for every sequence and key: ordered insertion,
push, pop, removal, filtering and sort keep exactly the right elements, keep them
distinct, and the ordered ones give and keep descending order. The other proofs
use lists only through these lemmas.

**Threads** (`ThreadsAssumption`: the idle and the initial thread are two threads,
`PRI_MIN <= PRI_MAX`, a positive time slice). The inductive invariant is
`Core /\ AllList`: the types, the run queue, that a thread under creation stays
blocked and has one creator (`Creation`; without it `thread_create_unblock` could
ready a thread that is not blocked), and that the idle thread lives. Three lemmas
about the sections of the scheduler (`ScheduleStep`, `UnblockQueue`, `YieldStep`)
carry all actions. Sortedness and the halted idle thread are inductive relative to
it, and the refinement follows from `ScheduleDispatches`.

**Condvar** (`CondvarAssumption`: priorities are numbers, `NOBODY` is no thread).
`CondInv` is `NoLostSignal` with: the holder is the one thread between
`lock_acquire` and `lock_release`; only threads in `sema_down` sleep or have a
unit; the list is sorted from the `list_sort` to the `list_pop_front` of
`cond_signal`, which runs with interrupts on again. The last is what makes the
signalled thread one of the highest priority, as `Monitor` says.

**Devices** (`IntqAssumption`: a ring of more than one place; `IdeAssumption`: there
are threads, sectors and contents). `IntqInv` adds to `SleepersKnown` that a thread
in `wait` holds the lock and that a writer keeps its byte. The refinement rests on
the arithmetic of positions modulo the size of the ring. `IdeInv` says that one
thread at a time has its turn on the channel, that the disk does what this thread
asked for (`Phases`), and that there are at most as many completions, present and to
come, as commands and spurious interrupts (`Completions`); the last is not a
property of any one step, and without it a later request could take the completion
of an earlier one in the absence of spurious interrupts.

### Only model-checked

- Liveness (`RoundRobin`, `Wakes`, `BroadcastEnds`, `WaitEnds`, `FaultsServed`,
  `SerialFlows`, `DiskAnswers`): the prover treats neither fairness nor `ENABLED`.
- `Mlfqs` (`QueuesAgree`, `LevelsMatch`, `PicksHighestLevel`): one tick recomputes
  the priority of every thread with a fold over `all_list`, and what a fold
  computes needs an induction over the list.
- `Timer` (`NoOversleep`, `NeverEarly`): `timer_interrupt` wakes the sleepers with a
  fold over `blocked_threads`, for the same reason.
- `Synch` (`WaitLists`, `MutualExclusion`, `NoLostWakeup`), `Process`
  (`RecordsAllocated`, `ActiveDirectory`, `ChildrenPromise`), `Paging`
  (`PagesOwned`, `PagesFilled`), `Files` (`OpenCounts`, `SectorsDisjoint`,
  `SectorsAccounted`, `RunningProgramUnchanged`), `Serial` (`SerialOrder`), `Malloc`
  (`BlocksDisjoint`, `MemoryAccounted`): no proof is kept here.

## Not modelled

- `com2/` and `com-gdb/`, the bulk of the repository's lines, are the headers of a
  cross compiler and a debugger. They are no part of the kernel, so the share
  of all lines that the models cover is small whatever is modelled of the kernel.
- Start-up and hardware set-up (`threads/init.c`, the loader, descriptor tables,
  the interrupt controller, `pit.c`, `rtc.c`, `speaker.c`, `shutdown.c`): code that
  runs once, with nothing to interleave with.
- The C library and the screen: sequential functions and output.
- The contents of allocated memory and the overflow test of `calloc`; the set-up of
  the two pools.
- `hash.c`: a table is changed under a lock or by one process. `Paging` uses the
  function it implements, including that an insertion keeps an entry with the same key.
- The swap table (`swap.c`): unreachable, see `Paging`. `munmap`: it works on a
  copy of a list head (`syscall.c:570`), and no program of the model calls it.
- The second disk of a channel, disk errors and partition tables; key codes; ELF
  headers and the arguments of a program, which appear as `load` succeeding or
  failing.
- Fixed-point overflow after long run times: the values that TLC reaches are far
  below 32 bits.
