-------------------------------- MODULE Ide ---------------------------------
(***************************************************************************)
(* One channel of the disk driver (devices/ide.c) and the disk on it.      *)
(* Threads take turns under the channel's lock; the interrupt handler      *)
(* counts completions into a semaphore.  The disk is external: it executes *)
(* the PIO commands and asks for an interrupt when the data of a read is   *)
(* ready and when the data of a write is stored.  The channel may see      *)
(* spurious interrupts.  The disk answers before the driver's timeouts.    *)
(*                                                                         *)
(* at[u] is where thread u is:                                             *)
(*    "out"       in neither ide_read nor ide_write                        *)
(*    "lock"      at lock_acquire (&c->lock)                               *)
(*    "select"    in select_sector (identify: select_device_wait)          *)
(*    "issue"     at issue_pio_command                                     *)
(*    "down"      at sema_down (&c->completion_wait)                       *)
(*    "busy"      in wait_while_busy, then input_ or output_sector         *)
(*    "release"   at lock_release (&c->lock)                               *)
(*    "panic"     in PANIC                                                 *)
(***************************************************************************)
EXTENDS Integers, FiniteSets

CONSTANTS
  User,         \* the threads
  Sector,
  Value,        \* the contents of a sector
  MaxSpurious   \* bound: spurious interrupts

ASSUME IdeAssumption ==
  User # {} /\ Sector # {} /\ Value # {} /\ MaxSpurious \in Nat

VARIABLES
  lock,         \* the thread that holds the channel's lock, if any
  completion,   \* value of completion_wait
  expecting_interrupt,
  registered,   \* identify_ata_device has registered the disk
  at,
  request,      \* request[u]: the request u makes
  result,       \* result[u]: what u has read
  disk,         \* disk[s]: what the medium holds
  device,       \* phase, sector and data of the disk's current command
  irq,          \* the channel's interrupt is pending
  spurious      \* how many interrupts were spurious

driver == <<lock, completion, expecting_interrupt, registered, at, request, result>>
hardware == <<disk, device, irq, spurious>>
ideVars == <<driver, hardware>>

BSY == device.phase \in {"reading", "accepting", "storing"}
DRQ == device.phase \in {"loaded", "ready"}

Goto(u, label) == at' = [at EXCEPT ![u] = label]

Blank == CHOOSE v \in Value : TRUE

\* ide_init has reset the channel and found a disk, which u identifies.
IdeInit ==
  LET u == CHOOSE t \in User : TRUE IN
  /\ lock = {} /\ completion = 0
  /\ expecting_interrupt = FALSE
  /\ registered = FALSE
  /\ at = [t \in User |-> IF t = u THEN "select" ELSE "out"]
  /\ request = [t \in User |-> [op |-> "identify"]]
  /\ result = [t \in User |-> Blank]
  /\ disk = [s \in Sector |-> Blank]
  /\ device = [phase |-> "idle", sector |-> CHOOSE s \in Sector : TRUE, data |-> Blank]
  /\ irq = FALSE /\ spurious = 0

-----------------------------------------------------------------------------
(* The driver.                                                              *)

\* block_read and block_write call ide_read and ide_write.
block_read(u, s) ==
  /\ registered /\ at[u] = "out"
  /\ request' = [request EXCEPT ![u] = [op |-> "read", sector |-> s]]
  /\ Goto(u, "lock")
  /\ UNCHANGED <<lock, completion, expecting_interrupt, registered, result, hardware>>

block_write(u, s, v) ==
  /\ registered /\ at[u] = "out"
  /\ request' = [request EXCEPT ![u] = [op |-> "write", sector |-> s, value |-> v]]
  /\ Goto(u, "lock")
  /\ UNCHANGED <<lock, completion, expecting_interrupt, registered, result, hardware>>

lock_acquire(u) ==
  /\ at[u] = "lock" /\ lock = {}
  /\ lock' = {u}
  /\ Goto(u, "select")
  /\ UNCHANGED <<completion, expecting_interrupt, registered, request, result, hardware>>

\* Mutant: the device is not waited for.
select_sector_now(u) ==
  /\ at[u] = "select"
  /\ irq' \in {irq, FALSE}
  /\ Goto(u, "issue")
  /\ UNCHANGED <<lock, completion, expecting_interrupt, registered, request, result,
                 disk, device, spurious>>

\* select_sector: wait_until_idle reads the status register, which withdraws an
\* interrupt that the processor has not seen yet.
select_sector(u) ==
  /\ at[u] = "select"
  /\ ~ BSY /\ ~ DRQ
  /\ irq' \in {irq, FALSE}
  /\ Goto(u, "issue")
  /\ UNCHANGED <<lock, completion, expecting_interrupt, registered, request, result,
                 disk, device, spurious>>

\* issue_pio_command; a write goes on to wait_while_busy, the others to sema_down.
issue_pio_command(u) ==
  /\ at[u] = "issue"
  /\ expecting_interrupt' = TRUE
  /\ device' = IF request[u].op = "identify"
                 THEN [device EXCEPT !.phase = "reading"]
                 ELSE [device EXCEPT !.sector = request[u].sector,
                         !.phase = IF request[u].op = "read" THEN "reading" ELSE "accepting"]
  /\ Goto(u, IF request[u].op = "write" THEN "busy" ELSE "down")
  /\ UNCHANGED <<lock, completion, registered, request, result, disk, irq, spurious>>

\* sema_down (&c->completion_wait); a write is then complete.
sema_down(u) ==
  /\ at[u] = "down" /\ completion > 0
  /\ completion' = completion - 1
  /\ Goto(u, IF request[u].op = "write" THEN "release" ELSE "busy")
  /\ UNCHANGED <<lock, expecting_interrupt, registered, request, result, hardware>>

\* ide_read: wait_while_busy, then input_sector or PANIC.
ide_read_data(u) ==
  /\ at[u] = "busy" /\ request[u].op = "read"
  /\ ~ BSY
  /\ IF DRQ
       THEN /\ result' = [result EXCEPT ![u] = device.data]
            /\ device' = [device EXCEPT !.phase = "idle"]
            /\ Goto(u, "release")
       ELSE /\ Goto(u, "panic")
            /\ UNCHANGED <<result, device>>
  /\ UNCHANGED <<lock, completion, expecting_interrupt, registered, request, disk, irq, spurious>>

\* Mutant: the write does not wait for the disk's acknowledgement.
ide_write_data_unacknowledged(u) ==
  /\ at[u] = "busy" /\ request[u].op = "write"
  /\ ~ BSY /\ DRQ
  /\ device' = [device EXCEPT !.phase = "storing", !.data = request[u].value]
  /\ Goto(u, "release")
  /\ UNCHANGED <<lock, completion, expecting_interrupt, registered, request, result,
                 disk, irq, spurious>>

\* ide_write: wait_while_busy, then output_sector or PANIC.
ide_write_data(u) ==
  /\ at[u] = "busy" /\ request[u].op = "write"
  /\ ~ BSY
  /\ IF DRQ
       THEN /\ device' = [device EXCEPT !.phase = "storing", !.data = request[u].value]
            /\ Goto(u, "down")
       ELSE /\ Goto(u, "panic")
            /\ UNCHANGED device
  /\ UNCHANGED <<lock, completion, expecting_interrupt, registered, request, result,
                 disk, irq, spurious>>

\* identify_ata_device: wait_while_busy, then input_sector; a disk that is too
\* large, or does not offer its data, is not registered.
identify_ata_device(u) ==
  /\ at[u] = "busy" /\ request[u].op = "identify"
  /\ ~ BSY
  /\ registered' \in {DRQ, FALSE}
  /\ device' = [device EXCEPT !.phase = "idle"]
  /\ Goto(u, "out")
  /\ UNCHANGED <<lock, completion, expecting_interrupt, request, result, disk, irq, spurious>>

lock_release(u) ==
  /\ at[u] = "release"
  /\ lock' = {}
  /\ Goto(u, "out")
  /\ UNCHANGED <<completion, expecting_interrupt, registered, request, result, hardware>>

\* Mutant: only an interrupt that offers data counts as a completion.
interrupt_handler_data ==
  /\ irq
  /\ irq' = FALSE
  /\ completion' = IF expecting_interrupt /\ DRQ THEN completion + 1 ELSE completion
  /\ UNCHANGED <<lock, expecting_interrupt, registered, at, request, result,
                 disk, device, spurious>>

\* interrupt_handler: it acknowledges an interrupt that is expected.
interrupt_handler ==
  /\ irq
  /\ irq' = FALSE
  /\ completion' = IF expecting_interrupt THEN completion + 1 ELSE completion
  /\ UNCHANGED <<lock, expecting_interrupt, registered, at, request, result,
                 disk, device, spurious>>

-----------------------------------------------------------------------------
(* The disk.                                                                *)

\* The disk finishes a phase of a command.
DeviceStep ==
  /\ BSY
  /\ CASE device.phase = "reading" ->
            /\ device' = [device EXCEPT !.phase = "loaded", !.data = disk[device.sector]]
            /\ irq' = TRUE
            /\ UNCHANGED disk
       [] device.phase = "accepting" ->
            /\ device' = [device EXCEPT !.phase = "ready"]
            /\ UNCHANGED <<disk, irq>>
       [] device.phase = "storing" ->
            /\ device' = [device EXCEPT !.phase = "idle"]
            /\ disk' = [disk EXCEPT ![device.sector] = device.data]
            /\ irq' = TRUE
  /\ UNCHANGED <<driver, spurious>>

\* An interrupt that no command has caused.
SpuriousInterrupt ==
  /\ spurious < MaxSpurious /\ ~ irq
  /\ irq' = TRUE
  /\ spurious' = spurious + 1
  /\ UNCHANGED <<driver, disk, device>>

IdeStep(u) ==
  \/ lock_acquire(u)
  \/ select_sector(u)
  \/ issue_pio_command(u)
  \/ sema_down(u)
  \/ ide_read_data(u)
  \/ ide_write_data(u)
  \/ identify_ata_device(u)
  \/ lock_release(u)

IdeNext ==
  \/ \E u \in User, s \in Sector : block_read(u, s)
  \/ \E u \in User, s \in Sector, v \in Value : block_write(u, s, v)
  \/ \E u \in User : IdeStep(u)
  \/ interrupt_handler
  \/ DeviceStep
  \/ SpuriousInterrupt

IdeSpec == IdeInit /\ [][IdeNext]_ideVars

-----------------------------------------------------------------------------
(* Properties.                                                              *)

\* The type of the state; no request ends in PANIC.
IdeTypeOK ==
  /\ lock \subseteq User /\ Cardinality(lock) <= 1
  /\ completion \in 0..(MaxSpurious + 1)
  /\ at \in [User -> {"out", "lock", "select", "issue", "down", "busy", "release"}]
  /\ result \in [User -> Value]
  /\ disk \in [Sector -> Value]
  /\ device \in [phase : {"idle", "reading", "loaded", "accepting", "ready", "storing"},
                 sector : Sector, data : Value]

\* "Returns after the disk has acknowledged receiving the data" (ide_write):
\* as long as no interrupt was spurious, the channel is at rest whenever its
\* lock is free, with no completion left over for the next request.
\* This comes with the types of the state (IdeTypeOK).
Acknowledged ==
  /\ IdeTypeOK
  /\ registered /\ spurious = 0 /\ lock = {}
       => device.phase = "idle" /\ ~ irq /\ completion = 0

\* The medium together with the data that the disk has received.
Content == IF device.phase = "storing"
             THEN [disk EXCEPT ![device.sector] = device.data]
             ELSE disk

\* The request of u that has not had its effect, as the caller sees it.
Pending == [u \in User |->
  IF at[u] = "out" \/ request[u].op = "identify" THEN [op |-> "none"]
  ELSE IF at[u] = "release" \/ (request[u].op = "write" /\ at[u] = "down")
         THEN [op |-> "served"]
         ELSE request[u]]

\* "Internally synchronizes accesses to disks" (ide_read, ide_write): threads
\* that use the disk at once see requests served one at a time, each between
\* its call and its return, and reads return the last write, also when
\* spurious interrupts let a write return early.
Store == INSTANCE BlockStore WITH content <- Content, pending <- Pending
BlockStoreSpec == Store!Spec

\* A thread that holds the channel gives it up again: no interrupt is lost
\* between the command and sema_down.
DiskAnswers == \A u \in User : u \in lock ~> u \notin lock

=============================================================================
