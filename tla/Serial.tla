------------------------------- MODULE Serial -------------------------------
(***************************************************************************)
(* The serial port (devices/serial.c) with the transmit queue that threads *)
(* fill, the input buffer that the port and the keyboard fill              *)
(* (devices/input.c, devices/kbd.c), and the UART itself, which is         *)
(* external: it asks for an interrupt while an enabled condition holds,    *)
(* and a byte that arrives before the last one was read takes its place    *)
(* (init_poll disables the FIFO).                                          *)
(*                                                                         *)
(* Every function here runs with interrupts off and is one step.  A thread *)
(* that must sleep in intq_putc or intq_getc makes its step when there is  *)
(* room or a byte; how it sleeps is the subject of module Intq.            *)
(*                                                                         *)
(* The bytes sent, and the bytes received on the line, are numbered.  A    *)
(* key of the keyboard is 0.                                               *)
(***************************************************************************)
EXTENDS Lists

CONSTANTS
  QueueSize,  \* bytes that fit in an interrupt queue: INTQ_BUFSIZE - 1
  MaxBytes    \* bound: bytes given to serial_putc, and bytes on the line

ASSUME SerialAssumption == QueueSize \in Nat \ {0} /\ MaxBytes \in Nat

VARIABLES
  mode,       \* UNINIT, POLL or QUEUE
  txq,        \* the transmit queue
  buffer,     \* the input buffer
  ier,        \* the interrupt enable register: a set of "XMIT" and "RECV"
  thr,        \* transmitter holding register: at most one byte
  rbr,        \* receiver buffer register: at most one byte
  given,      \* bytes given to serial_putc so far
  sent,       \* bytes that have left the port
  arrived,    \* bytes that have arrived on the line
  overrun,    \* those of them that the UART has lost
  got         \* bytes of the line that input_getc has returned

tx == <<txq, thr, given, sent>>
rx == <<buffer, rbr, arrived, overrun, got>>
serialVars == <<mode, ier, tx, rx>>

Full(queue) == Len(queue) = QueueSize

SerialInit ==
  /\ mode = "UNINIT"
  /\ txq = <<>> /\ buffer = <<>>
  /\ ier = {}
  /\ thr = <<>> /\ rbr = <<>>
  /\ given = 0 /\ sent = <<>>
  /\ arrived = 0 /\ overrun = {} /\ got = <<>>

\* write_ier: interrupts for what can be sent and for what can be stored.
\* The queues have their new values.
write_ier ==
  ier' = {i \in {"XMIT", "RECV"} : \/ i = "XMIT" /\ txq' # <<>>
                                   \/ i = "RECV" /\ ~ Full(buffer')}

\* putc_poll of each of the bytes: it waits until the port has sent the byte
\* in its register.
putc_poll(bytes) ==
  LET n == Len(bytes)
  IN  /\ sent' = sent \o thr \o SubSeq(bytes, 1, n - 1)
      /\ thr' = <<bytes[n]>>

\* serial_init_queue.
serial_init_queue ==
  /\ mode # "QUEUE"
  /\ mode' = "QUEUE"
  /\ UNCHANGED <<tx, rx>>
  /\ write_ier

\* Mutant: the new byte overtakes the queue.
serial_putc_full_newest ==
  /\ mode = "QUEUE" /\ Full(txq) /\ given < MaxBytes
  /\ given' = given + 1
  /\ putc_poll(<<given'>>)
  /\ UNCHANGED txq
  /\ UNCHANGED <<mode, rx>>
  /\ write_ier

\* serial_putc before the queue is in use.
serial_putc_poll ==
  /\ mode # "QUEUE" /\ given < MaxBytes
  /\ given' = given + 1
  /\ putc_poll(<<given'>>)
  /\ mode' = "POLL"
  /\ UNCHANGED <<txq, ier, rx>>

\* serial_putc with interrupts off and a full queue: the oldest byte makes room.
serial_putc_full ==
  /\ mode = "QUEUE" /\ Full(txq) /\ given < MaxBytes
  /\ given' = given + 1
  /\ putc_poll(<<Head(txq)>>)
  /\ txq' = Append(Tail(txq), given')
  /\ UNCHANGED <<mode, rx>>
  /\ write_ier

\* serial_putc with room in the queue.
serial_putc ==
  /\ mode = "QUEUE" /\ ~ Full(txq) /\ given < MaxBytes
  /\ given' = given + 1
  /\ txq' = Append(txq, given')
  /\ UNCHANGED <<mode, thr, sent, rx>>
  /\ write_ier

\* serial_flush: it leaves the interrupt enable register alone.
serial_flush ==
  /\ txq # <<>>
  /\ putc_poll(txq)
  /\ txq' = <<>>
  /\ UNCHANGED <<mode, ier, given, rx>>

\* serial_notify, after the input buffer has changed.
serial_notify == IF mode = "QUEUE" THEN write_ier ELSE UNCHANGED ier

\* Mutant: the port is not told that there is room again.
input_getc_silent ==
  /\ buffer # <<>>
  /\ buffer' = Tail(buffer)
  /\ got' = IF Head(buffer) = 0 THEN got ELSE Append(got, Head(buffer))
  /\ UNCHANGED <<ier, mode, tx, rbr, arrived, overrun>>

input_getc ==
  /\ buffer # <<>>
  /\ buffer' = Tail(buffer)
  /\ got' = IF Head(buffer) = 0 THEN got ELSE Append(got, Head(buffer))
  /\ UNCHANGED <<tx, mode, rbr, arrived, overrun>>
  /\ serial_notify

\* keyboard_interrupt, for a key that is a character: a full buffer drops it.
keyboard_interrupt ==
  /\ ~ Full(buffer)
  /\ buffer' = Append(buffer, 0)
  /\ UNCHANGED <<tx, mode, rbr, arrived, overrun, got>>
  /\ serial_notify

\* The UART asks for an interrupt.
Interrupting == \/ "XMIT" \in ier /\ thr = <<>>
                \/ "RECV" \in ier /\ rbr # <<>>

\* serial_interrupt: receive what there is room for, send what the port takes.
serial_interrupt ==
  /\ mode = "QUEUE" /\ Interrupting
  /\ IF Full(buffer)
       THEN UNCHANGED <<buffer, rbr>>
       ELSE buffer' = buffer \o rbr /\ rbr' = <<>>
  /\ IF thr = <<>> /\ txq # <<>>
       THEN thr' = <<Head(txq)>> /\ txq' = Tail(txq)
       ELSE UNCHANGED <<thr, txq>>
  /\ UNCHANGED <<mode, given, sent, arrived, overrun, got>>
  /\ write_ier

\* The UART sends the byte in its holding register.
Transmit ==
  /\ thr # <<>>
  /\ sent' = sent \o thr
  /\ thr' = <<>>
  /\ UNCHANGED <<mode, ier, txq, given, rx>>

\* A byte arrives on the line; one that is still in the register is lost.
Receive ==
  /\ arrived < MaxBytes
  /\ arrived' = arrived + 1
  /\ rbr' = <<arrived'>>
  /\ overrun' = overrun \cup Range(rbr)
  /\ UNCHANGED <<mode, ier, tx, buffer, got>>

SerialNext ==
  \/ serial_init_queue
  \/ serial_putc_poll
  \/ serial_putc_full
  \/ serial_putc
  \/ serial_flush
  \/ input_getc
  \/ keyboard_interrupt
  \/ serial_interrupt
  \/ Transmit
  \/ Receive

SerialSpec == SerialInit /\ [][SerialNext]_serialVars

-----------------------------------------------------------------------------
(* Properties.                                                              *)

\* The type of the state: a queue never holds more than fits.
SerialTypeOK ==
  /\ mode \in {"UNINIT", "POLL", "QUEUE"}
  /\ ier \subseteq {"XMIT", "RECV"}
  /\ txq \in Seq(1..MaxBytes) /\ Len(txq) <= QueueSize
  /\ buffer \in Seq(0..MaxBytes) /\ Len(buffer) <= QueueSize
  /\ thr \in Seq(1..MaxBytes) /\ Len(thr) <= 1
  /\ rbr \in Seq(1..MaxBytes) /\ Len(rbr) <= 1
  /\ given \in 0..MaxBytes /\ arrived \in 0..MaxBytes
  /\ overrun \subseteq 1..MaxBytes

\* Bytes leave the port once each in the order of the calls of serial_putc,
\* whether they are polled out, before or past a full queue, or sent by the
\* interrupt handler; and input_getc returns the bytes of the line once each
\* in the order of arrival, but for those that the UART has lost, whatever the
\* keyboard adds between them.
\* This comes with the types of the state (SerialTypeOK).
SerialOrder ==
  /\ SerialTypeOK
  /\ sent \o thr \o txq = [i \in 1..given |-> i]
  /\ got \o list_keep(buffer, 1..MaxBytes) \o rbr
       = list_keep([i \in 1..arrived |-> i], (1..MaxBytes) \ overrun)

\* No byte is stuck behind an interrupt that is off by mistake (write_ier): a
\* byte that serial_putc has queued leaves the port, and one that has arrived
\* is taken from the port once it is in use and the buffer has room.
SerialFlows ==
  /\ \A b \in 1..MaxBytes : given = b ~> Len(sent) >= b
  /\ (mode = "QUEUE" /\ rbr # <<>> /\ ~ Full(buffer)) ~> (rbr = <<>> \/ Full(buffer))

=============================================================================
