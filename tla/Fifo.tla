-------------------------------- MODULE Fifo --------------------------------
(***************************************************************************)
(* What an interrupt queue promises: a bounded queue that gives its bytes  *)
(* out once each, in the order in which they came.                         *)
(***************************************************************************)
EXTENDS Naturals, Sequences

CONSTANTS
  Byte,      \* the bytes
  Capacity   \* how many the queue holds

VARIABLE
  queue      \* the bytes in the queue, the oldest first

Init == queue = <<>>

Put(b) == Len(queue) < Capacity /\ queue' = Append(queue, b)

Get == queue # <<>> /\ queue' = Tail(queue)

Next == (\E b \in Byte : Put(b)) \/ Get

Spec == Init /\ [][Next]_queue

=============================================================================
