------------------------------ MODULE MCMlfqs -------------------------------
(* Mlfqs with two threads besides main and the idle thread.                *)
EXTENDS Mlfqs, TLC

CONSTANTS a, b

Symmetry == Permutations({a, b})
=============================================================================
