-------------------------------- MODULE Intq --------------------------------
(***************************************************************************)
(* An interrupt queue (devices/intq.c) between threads and interrupt       *)
(* handlers: the input buffer, which handlers fill and threads empty       *)
(* (input.c), or the transmit queue of the serial port, which threads fill *)
(* and the handler empties (serial.c).                                     *)
(*                                                                         *)
(* intq_getc and intq_putc run with interrupts off, so a thread goes on    *)
(* until it sleeps, in wait or for the lock, or until lock_release gives   *)
(* the processor away.  place[t] is one of                                 *)
(*    "run"    in neither function                                         *)
(*    "lock"   asleep in lock_acquire (&q->lock)                           *)
(*    "wait"   asleep in wait, or woken and not running yet                *)
(*    "test"   after lock_release, at the test of the loop                 *)
(* Any thread that is not asleep may run next.                             *)
(***************************************************************************)
EXTENDS Integers, FiniteSets

CONSTANTS
  Caller,           \* the threads
  Byte,
  INTQ_BUFSIZE,
  NONE              \* the null pointer

ASSUME IntqAssumption ==
  /\ NONE \notin Caller \cup Byte
  /\ Byte # {}
  /\ INTQ_BUFSIZE \in Nat /\ INTQ_BUFSIZE > 1

VARIABLES
  input,            \* this is the input buffer, not the transmit queue
  buf, head, tail,  \* the ring: bytes go in at head and come out at tail
  not_full,         \* the thread that waits for room, or NONE
  not_empty,        \* the thread that waits for a byte, or NONE
  holder,           \* holder of the queue's lock, or NONE
  place,
  byte,             \* byte[t]: argument of the intq_putc in progress, or NONE
  asleep,           \* the threads blocked in wait
  panic             \* an assertion has stopped the kernel

\* The threads that call intq_getc, and those that call intq_putc.
Reader == IF input THEN Caller ELSE {}
Writer == Caller \ Reader

ring == <<buf, head, tail>>
intqVars == <<input, ring, not_full, not_empty, holder, place, byte, asleep, panic>>

\* intq_init
IntqInit ==
  /\ input \in BOOLEAN
  /\ buf \in [0..(INTQ_BUFSIZE - 1) -> {CHOOSE b \in Byte : TRUE}]
  /\ head = 0 /\ tail = 0
  /\ not_full = NONE /\ not_empty = NONE
  /\ holder = NONE
  /\ place = [t \in Caller |-> "run"]
  /\ byte = [t \in Caller |-> NONE]
  /\ asleep = {}
  /\ panic = FALSE

next(pos) == (pos + 1) % INTQ_BUFSIZE

intq_empty == head = tail

\* Mutant: the test for a full queue does not wrap around.
intq_full_nowrap == head + 1 = tail

intq_full == next(head) = tail

-----------------------------------------------------------------------------
(* The pieces of intq_getc and intq_putc.                                   *)

\* Mutant: signal leaves the waiting thread registered.
signal_kept(w) == asleep' = asleep \ {w} /\ UNCHANGED <<not_full, not_empty>>

\* signal: w is not_full or not_empty; the thread it names is woken and is
\* registered no more.
signal(w) ==
  /\ asleep' = asleep \ {w}
  /\ not_full' = IF not_full = w THEN NONE ELSE not_full
  /\ not_empty' = IF not_empty = w THEN NONE ELSE not_empty

\* The end of intq_getc.
take ==
  /\ tail' = next(tail)
  /\ UNCHANGED <<buf, head>>
  /\ signal(not_full)

\* The end of intq_putc (b).
put(b) ==
  /\ buf' = [buf EXCEPT ![head] = b]
  /\ head' = next(head)
  /\ UNCHANGED tail
  /\ signal(not_empty)

\* The condition t waits for does not hold.
Stuck(t) == IF t \in Reader THEN intq_empty ELSE intq_full

\* wait, called by t with the lock held: its assertion stops the kernel, or t
\* registers and sleeps.
wait(t) ==
  /\ holder' = t
  /\ IF Stuck(t)
       THEN /\ not_empty' = IF t \in Reader THEN t ELSE not_empty
            /\ not_full' = IF t \in Writer THEN t ELSE not_full
            /\ asleep' = asleep \cup {t}
            /\ place' = [place EXCEPT ![t] = "wait"]
            /\ UNCHANGED panic
       ELSE /\ panic' = TRUE
            /\ UNCHANGED <<not_full, not_empty, asleep, place>>
  /\ UNCHANGED ring

\* The loop of intq_getc or intq_putc (b) from its test to the next sleep or
\* to the end.
Loop(t, b) ==
  IF Stuck(t)
    THEN IF holder = NONE
           THEN wait(t)
           ELSE /\ place' = [place EXCEPT ![t] = "lock"]
                /\ UNCHANGED <<ring, not_full, not_empty, holder, asleep, panic>>
    ELSE /\ IF t \in Reader THEN take ELSE put(b)
         /\ place' = [place EXCEPT ![t] = "run"]
         /\ UNCHANGED <<holder, panic>>

-----------------------------------------------------------------------------

At(t, label) == ~ panic /\ place[t] = label

intq_getc(t) ==
  /\ t \in Reader
  /\ At(t, "run")
  /\ Loop(t, NONE)
  /\ UNCHANGED <<input, byte>>

intq_putc(t, b) ==
  /\ t \in Writer
  /\ At(t, "run")
  /\ Loop(t, b)
  /\ byte' = [byte EXCEPT ![t] = IF place'[t] = "run" THEN NONE ELSE b]
  /\ UNCHANGED input

\* t gets the lock it slept for and goes on to wait.
Locked(t) ==
  /\ At(t, "lock")
  /\ holder = NONE
  /\ wait(t)
  /\ UNCHANGED <<input, byte>>

\* t is woken from wait and releases the lock.
Woken(t) ==
  /\ At(t, "wait")
  /\ t \notin asleep
  /\ holder' = NONE
  /\ place' = [place EXCEPT ![t] = "test"]
  /\ UNCHANGED <<input, ring, not_full, not_empty, byte, asleep, panic>>

\* t goes back to the test of its loop.
Test(t) ==
  /\ At(t, "test")
  /\ Loop(t, byte[t])
  /\ byte' = [byte EXCEPT ![t] = IF place'[t] = "run" THEN NONE ELSE @]
  /\ UNCHANGED input

\* An interrupt handler puts a byte into a queue that is not full
\* (input_putc, called by the keyboard's and the serial port's handlers).
HandlerPut(b) ==
  /\ input /\ ~ panic
  /\ ~ intq_full
  /\ put(b)
  /\ UNCHANGED <<input, holder, place, byte, panic>>

\* An interrupt handler takes a byte from a queue that is not empty
\* (serial_interrupt), or a thread does so to send it by polling
\* (serial_putc with interrupts off, serial_flush).
HandlerGet ==
  /\ ~ input /\ ~ panic
  /\ ~ intq_empty
  /\ take
  /\ UNCHANGED <<input, holder, place, byte, panic>>

IntqNext ==
  \/ \E t \in Caller : \/ intq_getc(t)
                       \/ \E b \in Byte : intq_putc(t, b)
                       \/ Locked(t)
                       \/ Woken(t)
                       \/ Test(t)
  \/ \E b \in Byte : HandlerPut(b)
  \/ HandlerGet

IntqSpec == IntqInit /\ [][IntqNext]_intqVars

-----------------------------------------------------------------------------
(* Properties.                                                              *)

\* The type of the state.
IntqTypeOK ==
  /\ input \in BOOLEAN
  /\ buf \in [0..(INTQ_BUFSIZE - 1) -> Byte]
  /\ head \in 0..(INTQ_BUFSIZE - 1) /\ tail \in 0..(INTQ_BUFSIZE - 1)
  /\ not_full \in Writer \cup {NONE} /\ not_empty \in Reader \cup {NONE}
  /\ holder \in Caller \cup {NONE}
  /\ place \in [Caller -> {"run", "lock", "wait", "test"}]
  /\ byte \in [Caller -> Byte \cup {NONE}]
  /\ asleep \subseteq Caller

\* A thread sleeps in wait only while the queue really is empty or full, and
\* the handler that changes this knows it: no byte and no room goes unnoticed.
\* The lock lets one thread of the queue sleep there at a time.
\* This comes with the types of the state (IntqTypeOK).
SleepersKnown ==
  /\ IntqTypeOK
  /\ asleep = {not_full, not_empty} \ {NONE}
  /\ \A t \in asleep : Stuck(t) /\ holder = t /\ place[t] = "wait"

\* The bytes in the ring, the oldest first.
Length == (head + INTQ_BUFSIZE - tail) % INTQ_BUFSIZE
Contents == [i \in 1..Length |-> buf[(tail + i - 1) % INTQ_BUFSIZE]]

\* The ring is a queue of INTQ_BUFSIZE - 1 bytes: none is lost, doubled or
\* reordered, whoever puts and takes them.
FifoOf == INSTANCE Fifo WITH Capacity <- INTQ_BUFSIZE - 1, queue <- Contents
FifoSpec == FifoOf!Spec

=============================================================================
