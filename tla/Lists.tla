------------------------------- MODULE Lists -------------------------------
(***************************************************************************)
(* The kernel's doubly linked list (lib/kernel/list.c) as sequences: the   *)
(* list elements from front to back.  Only the operations whose result     *)
(* depends on an order are defined here; list_pop_front is Head and Tail,  *)
(* list_push_back is Append and list_size is Len.                          *)
(*                                                                         *)
(* Every ordered list of threads in the kernel uses the comparison         *)
(* key(a) > key(b) as its "less" function (thread.c, list_desc_prio_sort): *)
(* larger keys come first.  key is a function from elements to integers.   *)
(***************************************************************************)
EXTENDS Integers, Sequences, FiniteSets, Functions

\* Mutant: an element with an equal key is not walked past.
PassedGE(s, x, key) ==
  { i \in 1..Len(s) : \A j \in 1..i : ~ (key[x] >= key[s[j]]) }

\* The places of s that list_insert_ordered walks past: it stops in front of
\* the first element that x must precede.
Passed(s, x, key) ==
  { i \in 1..Len(s) : \A j \in 1..i : ~ (key[x] > key[s[j]]) }

\* list_insert: x goes in front of the element at place i, at the end when
\* i is Len(s) + 1.
list_insert(s, i, x) == SubSeq(s, 1, i - 1) \o <<x>> \o SubSeq(s, i, Len(s))

\* list_insert_ordered: x goes in front of the first element with a smaller
\* key, behind every element with an equal key.
list_insert_ordered(s, x, key) ==
  list_insert(s, Cardinality(Passed(s, x, key)) + 1, x)

\* The places of s whose elements a stable descending sort puts in front of
\* the element now at place i.
Preceding(s, i, key) ==
  { j \in 1..Len(s) : \/ key[s[j]] > key[s[i]]
                      \/ key[s[j]] = key[s[i]] /\ j < i }

\* list_sort: the stable sort.  The element that ends up at place n is the
\* one that n - 1 elements precede.
list_sort(s, key) ==
  [ n \in 1..Len(s) |->
      s[CHOOSE i \in 1..Len(s) : Cardinality(Preceding(s, i, key)) + 1 = n] ]

\* list_remove of an element that is in s.
list_remove(s, x) ==
  LET i == CHOOSE j \in 1..Len(s) : s[j] = x
  IN  SubSeq(s, 1, i - 1) \o SubSeq(s, i + 1, Len(s))

\* The places of s up to place i whose elements are in S.
Members(s, S, i) == { j \in 1..i : s[j] \in S }

\* A loop over s that calls list_remove for the elements that are not in S:
\* the element at place n of what is left is the n-th that is in S.
list_keep(s, S) ==
  LET M == Members(s, S, Len(s))
  IN  [ n \in 1..Cardinality(M) |->
          s[CHOOSE i \in M : Cardinality(Members(s, S, i)) = n] ]

\* s is in descending order of key.
Descending(s, key) ==
  \A i, j \in 1..Len(s) : i < j => key[s[i]] >= key[s[j]]

-----------------------------------------------------------------------------
(* What the operations do to a list of elements of S, and to the set of     *)
(* its elements.  The proofs about the kernel's lists rest on these laws,   *)
(* and ListsProofs shows them for every S.                                  *)

\* list_push_back
PushLaw(S) ==
  \A s \in Seq(S) : \A x \in S :
    /\ Append(s, x) \in Seq(S)
    /\ Range(Append(s, x)) = Range(s) \cup {x}
    /\ IsInjective(s) /\ x \notin Range(s) => IsInjective(Append(s, x))

\* list_pop_front
PopLaw(S) ==
  \A s \in Seq(S) :
    s # <<>> /\ IsInjective(s) =>
      /\ Head(s) \in S /\ Head(s) \in Range(s)
      /\ Tail(s) \in Seq(S)
      /\ Range(Tail(s)) = Range(s) \ {Head(s)}
      /\ IsInjective(Tail(s))

\* list_remove
RemoveLaw(S) ==
  \A s \in Seq(S) : \A x \in Range(s) :
    IsInjective(s) =>
      /\ list_remove(s, x) \in Seq(S)
      /\ Range(list_remove(s, x)) = Range(s) \ {x}
      /\ IsInjective(list_remove(s, x))

\* list_insert_ordered
InsertLaw(S) ==
  \A s \in Seq(S) : \A x \in S : \A key :
    /\ list_insert_ordered(s, x, key) \in Seq(S)
    /\ list_insert_ordered(s, x, key) # <<>>
    /\ Range(list_insert_ordered(s, x, key)) = Range(s) \cup {x}
    /\ IsInjective(s) /\ x \notin Range(s)
         => IsInjective(list_insert_ordered(s, x, key))

\* list_sort
SortLaw(S) ==
  \A s \in Seq(S) : \A key \in [S -> Int] :
    /\ list_sort(s, key) \in Seq(S)
    /\ Len(list_sort(s, key)) = Len(s)
    /\ Range(list_sort(s, key)) = Range(s)
    /\ IsInjective(s) => IsInjective(list_sort(s, key))
    /\ Descending(list_sort(s, key), key)

\* A loop of list_remove
KeepLaw(S) ==
  \A s \in Seq(S) : \A K :
    /\ list_keep(s, K) \in Seq(S)
    /\ Range(list_keep(s, K)) = Range(s) \cap K
    /\ IsInjective(s) => IsInjective(list_keep(s, K))

\* The order of a list: an element inserted in order keeps it, and its front
\* has the largest key.
OrderLaw(S) ==
  \A s \in Seq(S) : \A key :
    Descending(s, key) =>
      /\ key \in [S -> Int] =>
           \A x \in S : Descending(list_insert_ordered(s, x, key), key)
      /\ s # <<>> => /\ Descending(Tail(s), key)
                     /\ \A x \in Range(Tail(s)) : key[Head(s)] >= key[x]

ListLaws(S) ==
  /\ PushLaw(S) /\ PopLaw(S) /\ RemoveLaw(S) /\ InsertLaw(S)
  /\ SortLaw(S) /\ KeepLaw(S) /\ OrderLaw(S)

\* The number of elements of a set, for the subsets of S.
CountLaws(S) ==
  \A B \in SUBSET S :
    /\ Cardinality(B) \in Nat
    /\ \A x \in B : Cardinality(B \ {x}) = Cardinality(B) - 1
    /\ \A A \in SUBSET B :
         Cardinality(A) <= Cardinality(B) /\ (A # B => Cardinality(A) # Cardinality(B))

=============================================================================
