------------------------------ MODULE MCSynch ------------------------------
(* Synch for TLC: main, the idle thread and two threads that main has      *)
(* created.                                                                *)
EXTENDS Synch, TLC

CONSTANTS main, idl, a, b, l1, l2, dev, sem

MCCreated == <<a, b>>
MCPriority ==
  [t \in Thread |-> CASE t = main -> PRI_MAX [] t = b -> 1 [] OTHER -> 0]
MCAddress == (main :> 0) @@ (NULL :> 1) @@ (idl :> 2) @@ (a :> 3) @@ (b :> 4)

\* A chain of locks, in which main waits for b and b waits for a; a lock and a
\* semaphore that all threads use.
Chain == (a :> {l1}) @@ (b :> {l1, l2}) @@ (main :> {l2, dev}) @@ (idl :> {})
Star == (a :> {l1, sem}) @@ (b :> {l1, sem}) @@ (main :> {l1, sem}) @@ (idl :> {})
ChainOrStar == {Chain, Star}
OnlyChain == {(a :> {l1, dev}) @@ (b :> {l1, l2, dev}) @@ (main :> {l2, dev}) @@ (idl :> {})}
OnlyStar == {(a :> {l1}) @@ (b :> {l1, dev}) @@ (main :> {l1, dev}) @@ (idl :> {})}

MCMaxValue == [s \in Sema |-> IF s = dev THEN 1 ELSE 2]

\* The thread in the middle of the chain sets its priority to what it was, while
\* it may have been given a higher one, or none does.
MixedSettable == [t \in Thread |-> IF t = b THEN {MCPriority[b]} ELSE {}]
NoSettable == [t \in Thread |-> {}]

=============================================================================
