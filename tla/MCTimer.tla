------------------------------ MODULE MCTimer ------------------------------
(* Timer with two threads besides main and the idle thread.                *)
EXTENDS Timer
=============================================================================
