----------------------------- MODULE BlockStore -----------------------------
(***************************************************************************)
(* What a disk promises to the threads that use it: each request takes     *)
(* effect at one moment between its call and its return, and a read        *)
(* returns what the disk holds at that moment.                             *)
(***************************************************************************)
CONSTANTS
  User,      \* the threads
  Sector,
  Value      \* the contents of a sector

VARIABLES
  content,   \* content[s]: what sector s holds
  pending,   \* pending[u]: the request of u
  result     \* result[u]: what the last read of u returned

NoRequest == [op |-> "none"]
Served == [op |-> "served"]
Request == [op : {"read"}, sector : Sector]
             \cup [op : {"write"}, sector : Sector, value : Value]

vars == <<content, pending, result>>

Init ==
  /\ content \in [Sector -> Value]
  /\ pending = [u \in User |-> NoRequest]
  /\ result \in [User -> Value]

Call(u, request) ==
  /\ pending[u] = NoRequest
  /\ pending' = [pending EXCEPT ![u] = request]
  /\ UNCHANGED <<content, result>>

Read(u) ==
  /\ pending[u].op = "read"
  /\ result' = [result EXCEPT ![u] = content[pending[u].sector]]
  /\ pending' = [pending EXCEPT ![u] = Served]
  /\ UNCHANGED content

Write(u) ==
  /\ pending[u].op = "write"
  /\ content' = [content EXCEPT ![pending[u].sector] = pending[u].value]
  /\ pending' = [pending EXCEPT ![u] = Served]
  /\ UNCHANGED result

Return(u) ==
  /\ pending[u] = Served
  /\ pending' = [pending EXCEPT ![u] = NoRequest]
  /\ UNCHANGED <<content, result>>

Next ==
  \E u \in User : \/ \E request \in Request : Call(u, request)
                  \/ Read(u)
                  \/ Write(u)
                  \/ Return(u)

Spec == Init /\ [][Next]_vars

=============================================================================
