----------------------------- MODULE MCCondvar -----------------------------
(* Condvar with two threads of different priorities.                     *)
EXTENDS Condvar, TLC

CONSTANTS p, q

MCPrio == p :> 1 @@ q :> 2
=============================================================================
