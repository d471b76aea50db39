---------------------------- MODULE ListsProofs ----------------------------
(***************************************************************************)
(* What the list operations of Lists return, keep and order, for lists of  *)
(* any length.                                                             *)
(***************************************************************************)
EXTENDS Lists, FiniteSetTheorems, SequenceTheorems, TLAPS

\* list_insert_ordered walks past a prefix of the list, and Cardinality
\* counts the elements of that prefix.
LEMMA PassedPrefix ==
  ASSUME NEW S, NEW s \in Seq(S), NEW x, NEW key
  PROVE  /\ Cardinality(Passed(s, x, key)) \in 0..Len(s)
         /\ \A i \in 1..Len(s) :
              i \in Passed(s, x, key) <=> i <= Cardinality(Passed(s, x, key))
<1> DEFINE P == Passed(s, x, key)
           k == Cardinality(P)
<1>1. Len(s) \in Nat
  BY LenProperties
<1>2. P \in SUBSET (1..Len(s))
  BY DEF Passed
<1>3. /\ IsFiniteSet(1..Len(s))
      /\ Cardinality(1..Len(s)) = Len(s)
  BY <1>1, FS_Interval, SMTT(20)
<1>4. IsFiniteSet(P) /\ k <= Len(s) /\ k \in Nat
  BY <1>2, <1>3, FS_Subset, FS_CardinalityType
<1>5. ASSUME NEW i \in 1..Len(s), i \in P
      PROVE  i <= k
  <2>1. 1..i \in SUBSET P
    BY <1>1, <1>5 DEF Passed
  <2>2. Cardinality(1..i) <= k
    BY <2>1, <1>4, FS_Subset
  <2>3. Cardinality(1..i) = i
    BY <1>1, FS_Interval
  <2> QED BY <2>2, <2>3
<1>6. ASSUME NEW i \in 1..Len(s), i \notin P
      PROVE  i > k
  <2>1. P \in SUBSET (1..(i - 1))
    <3> SUFFICES ASSUME NEW j \in P
                 PROVE  j \in 1..(i - 1)
      OBVIOUS
    <3>1. j \in 1..Len(s) /\ \A m \in 1..j : ~ (key[x] > key[s[m]])
      BY DEF Passed
    <3>2. ASSUME j >= i PROVE FALSE
      <4>1. \A m \in 1..i : ~ (key[x] > key[s[m]])
        BY <3>1, <3>2, <1>1
      <4> QED BY <4>1, <1>6 DEF Passed
    <3> QED BY <3>1, <3>2, <1>1
  <2>2. IsFiniteSet(1..(i - 1)) /\ Cardinality(1..(i - 1)) = i - 1
    <3>1. i \in Nat /\ i >= 1 /\ i - 1 \in Int
      BY <1>1
    <3>2. /\ IsFiniteSet(1..(i - 1))
          /\ Cardinality(1..(i - 1)) = IF 1 > i - 1 THEN 0 ELSE (i - 1) - 1 + 1
      BY <3>1, FS_Interval
    <3> QED BY <3>1, <3>2
  <2>3. k <= i - 1
    BY <2>1, <2>2, FS_Subset
  <2> QED BY <2>3, <1>4, <1>1
<1> QED
  BY <1>1, <1>4, <1>5, <1>6

\* list_insert, place by place.
LEMMA InsertProperties ==
  ASSUME NEW S, NEW s \in Seq(S), NEW x \in S, NEW k \in 0..Len(s)
  PROVE  /\ list_insert(s, k + 1, x) \in Seq(S)
         /\ Len(list_insert(s, k + 1, x)) = Len(s) + 1
         /\ \A i \in 1..(Len(s) + 1) :
              list_insert(s, k + 1, x)[i] =
                IF i <= k THEN s[i] ELSE IF i = k + 1 THEN x ELSE s[i - 1]
<1> DEFINE A == SubSeq(s, 1, k)
           B == SubSeq(s, k + 1, Len(s))
<1>0. Len(s) \in Nat /\ k \in Nat /\ k <= Len(s)
  BY LenProperties
<1>1. \A i \in 1..Len(s) : s[i] \in S
  BY ElementOfSeq
<1>2. /\ A \in Seq(S) /\ Len(A) = k
      /\ \A i \in 1..k : A[i] = s[i]
  <2>1. \A i \in 1..k : s[i] \in S
    BY <1>0, <1>1
  <2>2. /\ A \in Seq(S)
        /\ Len(A) = IF 1 <= k THEN k - 1 + 1 ELSE 0
        /\ \A i \in 1..(k - 1 + 1) : A[i] = s[1 + i - 1]
    BY <1>0, <2>1, SubSeqProperties
  <2> QED BY <2>2, <1>0
<1>3. /\ B \in Seq(S) /\ Len(B) = Len(s) - k
      /\ \A i \in 1..(Len(s) - k) : B[i] = s[k + i]
  <2>1. \A i \in (k + 1)..Len(s) : s[i] \in S
    BY <1>0, <1>1
  <2>2. /\ B \in Seq(S)
        /\ Len(B) = IF k + 1 <= Len(s) THEN Len(s) - (k + 1) + 1 ELSE 0
        /\ \A i \in 1..(Len(s) - (k + 1) + 1) : B[i] = s[(k + 1) + i - 1]
    BY <1>0, <2>1, SubSeqProperties
  <2> QED BY <2>2, <1>0
<1>4. <<x>> \in Seq(S) /\ Len(<<x>>) = 1 /\ <<x>>[1] = x
  OBVIOUS
<1> HIDE DEF A, B
<1>5. /\ A \o <<x>> \in Seq(S)
      /\ Len(A \o <<x>>) = k + 1
      /\ \A i \in 1..(k + 1) : (A \o <<x>>)[i] = IF i <= k THEN s[i] ELSE x
  <2>1. /\ A \o <<x>> \in Seq(S)
        /\ Len(A \o <<x>>) = Len(A) + Len(<<x>>)
        /\ \A i \in 1..(Len(A) + Len(<<x>>)) :
             (A \o <<x>>)[i] = IF i <= Len(A) THEN A[i] ELSE <<x>>[i - Len(A)]
    BY <1>2, <1>4, ConcatProperties
  <2>2. ASSUME NEW i \in 1..(k + 1)
        PROVE  (A \o <<x>>)[i] = IF i <= k THEN s[i] ELSE x
    <3>1. CASE i <= k
      BY <3>1, <2>1, <1>2, <1>4, <1>0
    <3>2. CASE ~ (i <= k)
      <4>1. i = k + 1 /\ i - Len(A) = 1
        BY <3>2, <1>2, <1>0
      <4> QED BY <4>1, <2>1, <1>2, <1>4, <1>0
    <3> QED BY <3>1, <3>2, Zenon
  <2> QED BY <2>1, <2>2, <1>2, <1>4
<1>6. /\ (A \o <<x>>) \o B \in Seq(S)
      /\ Len((A \o <<x>>) \o B) = (k + 1) + (Len(s) - k)
      /\ \A i \in 1..((k + 1) + (Len(s) - k)) :
           ((A \o <<x>>) \o B)[i] =
             IF i <= k + 1 THEN (A \o <<x>>)[i] ELSE B[i - (k + 1)]
  <2> DEFINE C == A \o <<x>>
  <2>1. C \in Seq(S) /\ B \in Seq(S) /\ Len(C) = k + 1 /\ Len(B) = Len(s) - k
    BY <1>3, <1>5
  <2> HIDE DEF C
  <2>2. /\ C \o B \in Seq(S)
        /\ Len(C \o B) = Len(C) + Len(B)
        /\ \A i \in 1..(Len(C) + Len(B)) :
             (C \o B)[i] = IF i <= Len(C) THEN C[i] ELSE B[i - Len(C)]
    BY <2>1, ConcatProperties, Zenon
  <2>3. /\ C \o B \in Seq(S)
        /\ Len(C \o B) = (k + 1) + (Len(s) - k)
        /\ \A i \in 1..((k + 1) + (Len(s) - k)) :
             (C \o B)[i] = IF i <= k + 1 THEN C[i] ELSE B[i - (k + 1)]
    BY <2>1, <2>2, Zenon
  <2> QED BY <2>3, Zenon DEF C
<1>7. list_insert(s, k + 1, x) = (A \o <<x>>) \o B
  <2>1. (k + 1) - 1 = k
    BY <1>0
  <2>2. list_insert(s, k + 1, x) =
          (SubSeq(s, 1, (k + 1) - 1) \o <<x>>) \o SubSeq(s, k + 1, Len(s))
    BY Zenon DEF list_insert
  <2> QED BY <2>1, <2>2, Zenon DEF A, B
<1> DEFINE C == A \o <<x>>
           R == C \o B
<1>8. /\ R \in Seq(S) /\ R = list_insert(s, k + 1, x)
      /\ Len(R) = (k + 1) + (Len(s) - k)
      /\ \A i \in 1..((k + 1) + (Len(s) - k)) :
           R[i] = IF i <= k + 1 THEN C[i] ELSE B[i - (k + 1)]
      /\ \A i \in 1..(k + 1) : C[i] = IF i <= k THEN s[i] ELSE x
  BY <1>5, <1>6, <1>7, SMTT(20)
<1> HIDE DEF C, R
<1>9. (k + 1) + (Len(s) - k) = Len(s) + 1
  BY <1>0
<1>10. ASSUME NEW i \in 1..(Len(s) + 1)
       PROVE  R[i] =
                IF i <= k THEN s[i] ELSE IF i = k + 1 THEN x ELSE s[i - 1]
  <2>1. CASE i <= k + 1
    BY <2>1, <1>0, <1>8, <1>9
  <2>2. CASE i > k + 1
    <3>1. B[i - (k + 1)] = s[k + (i - (k + 1))]
      BY <2>2, <1>0, <1>3
    <3>2. k + (i - (k + 1)) = i - 1
      BY <1>0
    <3>3. R[i] = B[i - (k + 1)]
      <4>1. i \in 1..((k + 1) + (Len(s) - k)) /\ ~ (i <= k + 1)
        BY <2>2, <1>0
      <4> QED BY <4>1, <1>8, Zenon
    <3>4. ~ (i <= k) /\ i # k + 1
      BY <2>2, <1>0
    <3> QED BY <3>1, <3>2, <3>3, <3>4, Zenon
  <2> QED BY <2>1, <2>2, <1>0
<1> QED
  BY <1>8, <1>9, <1>10, Zenon

\* list_insert_ordered puts x behind the k elements that do not follow it.
LEMMA InsertOrderedPlaces ==
  ASSUME NEW S, NEW s \in Seq(S), NEW x \in S, NEW key
  PROVE  LET r == list_insert_ordered(s, x, key)
         IN  /\ r \in Seq(S)
             /\ Len(r) = Len(s) + 1
             /\ \E k \in 0..Len(s) :
                  /\ \A i \in 1..(Len(s) + 1) :
                       r[i] = IF i <= k THEN s[i]
                              ELSE IF i = k + 1 THEN x ELSE s[i - 1]
                  /\ \A i \in 1..k : ~ (key[x] > key[s[i]])
                  /\ k < Len(s) => key[x] > key[s[k + 1]]
<1> DEFINE k == Cardinality(Passed(s, x, key))
           r == list_insert_ordered(s, x, key)
<1>1. /\ k \in 0..Len(s)
      /\ \A i \in 1..Len(s) : i \in Passed(s, x, key) <=> i <= k
  BY PassedPrefix
<1>2. Len(s) \in Nat
  BY LenProperties
<1>3. r = list_insert(s, k + 1, x)
  BY DEF list_insert_ordered
<1>4. \A i \in 1..k : ~ (key[x] > key[s[i]])
  <2> SUFFICES ASSUME NEW i \in 1..k
               PROVE  ~ (key[x] > key[s[i]])
    OBVIOUS
  <2>1. i \in 1..Len(s) /\ i <= k
    BY <1>1, <1>2
  <2>2. i \in Passed(s, x, key)
    BY <1>1, <2>1
  <2> QED BY <2>2, <2>1, <1>2 DEF Passed
<1>5. k < Len(s) => key[x] > key[s[k + 1]]
  <2> SUFFICES ASSUME k < Len(s), ~ (key[x] > key[s[k + 1]])
               PROVE  FALSE
    OBVIOUS
  <2>1. k + 1 \in 1..Len(s) /\ ~ (k + 1 <= k)
    BY <1>1, <1>2
  <2>2. \A j \in 1..(k + 1) : ~ (key[x] > key[s[j]])
    <3> SUFFICES ASSUME NEW j \in 1..(k + 1)
                 PROVE  ~ (key[x] > key[s[j]])
      OBVIOUS
    <3>1. j = k + 1 \/ j \in 1..k
      BY <1>1, <1>2
    <3> QED BY <3>1, <1>4
  <2>3. k + 1 \in Passed(s, x, key)
    BY <2>1, <2>2, Zenon DEF Passed
  <2> QED BY <1>1, <2>1, <2>3
<1> HIDE DEF k, r
<1>6. /\ r \in Seq(S)
      /\ Len(r) = Len(s) + 1
      /\ \A i \in 1..(Len(s) + 1) :
           r[i] = IF i <= k THEN s[i] ELSE IF i = k + 1 THEN x ELSE s[i - 1]
  <2>1. /\ list_insert(s, k + 1, x) \in Seq(S)
        /\ Len(list_insert(s, k + 1, x)) = Len(s) + 1
        /\ \A i \in 1..(Len(s) + 1) :
             list_insert(s, k + 1, x)[i] =
               IF i <= k THEN s[i] ELSE IF i = k + 1 THEN x ELSE s[i - 1]
    <3>1. k \in 0..Len(s)
      BY <1>1
    <3> QED BY <3>1, InsertProperties
  <2> QED BY <1>3, <2>1, Zenon
<1> QED
  BY <1>1, <1>4, <1>5, <1>6, Zenon DEF r

\* list_insert_ordered adds x and nothing else, and it does not add it twice.
LEMMA InsertOrderedRange ==
  ASSUME NEW S, NEW s \in Seq(S), NEW x \in S, NEW key
  PROVE  LET r == list_insert_ordered(s, x, key)
         IN  /\ r \in Seq(S)
             /\ r # <<>>
             /\ Range(r) = Range(s) \cup {x}
             /\ IsInjective(s) /\ x \notin Range(s) => IsInjective(r)
<1> DEFINE r == list_insert_ordered(s, x, key)
<1>1. PICK k \in 0..Len(s) :
        /\ r \in Seq(S)
        /\ Len(r) = Len(s) + 1
        /\ \A i \in 1..(Len(s) + 1) :
             r[i] = IF i <= k THEN s[i] ELSE IF i = k + 1 THEN x ELSE s[i - 1]
  BY InsertOrderedPlaces
<1>2. /\ Len(s) \in Nat /\ DOMAIN s = 1..Len(s)
      /\ DOMAIN r = 1..(Len(s) + 1)
  BY <1>1, LenProperties
<1> HIDE DEF r
<1>3. r # <<>>
  BY <1>1, <1>2
<1>4. \A i \in 1..k : r[i] = s[i]
  BY <1>1, <1>2
<1>5. r[k + 1] = x
  BY <1>1, <1>2
<1>6. \A i \in (k + 1)..Len(s) : r[i + 1] = s[i]
  BY <1>1, <1>2
<1>7. \A i \in 1..(Len(s) + 1) :
        \/ i \in 1..k
        \/ i = k + 1
        \/ i - 1 \in (k + 1)..Len(s) /\ i = (i - 1) + 1
  BY <1>1, <1>2
<1>8. Range(r) \subseteq Range(s) \cup {x}
  BY <1>1, <1>2 DEF Range
<1>9. Range(s) \cup {x} \subseteq Range(r)
  <2>1. x \in Range(r)
    BY <1>2, <1>5 DEF Range
  <2>2. ASSUME NEW i \in 1..Len(s)
        PROVE  s[i] \in Range(r)
    <3>1. CASE i <= k
      BY <3>1, <1>2, <1>4 DEF Range
    <3>2. CASE i > k
      <4>1. r[i + 1] = s[i] /\ i + 1 \in DOMAIN r
        BY <3>2, <1>2, <1>6
      <4> QED BY <4>1 DEF Range
    <3> QED BY <3>1, <3>2, <1>2
  <2> QED BY <2>1, <2>2, <1>2 DEF Range
<1>10. ASSUME IsInjective(s), x \notin Range(s)
       PROVE  IsInjective(r)
  <2>1. \A i \in 1..Len(s) : s[i] # x
    BY <1>2, <1>10 DEF Range
  <2>2. \A i, j \in 1..Len(s) : s[i] = s[j] => i = j
    BY <1>2, <1>10 DEF IsInjective
  <2>3. \A i, j \in 1..(Len(s) + 1) : r[i] = r[j] => i = j
    <3> SUFFICES ASSUME NEW i \in 1..(Len(s) + 1), NEW j \in 1..(Len(s) + 1),
                        r[i] = r[j], i # j
                 PROVE  FALSE
      OBVIOUS
    <3> DEFINE o(n) == IF n <= k THEN n ELSE n - 1
    <3>1. \A n \in 1..(Len(s) + 1) :
            n # k + 1 => r[n] = s[o(n)] /\ o(n) \in 1..Len(s)
      BY <1>1, <1>2
    <3>2. CASE i = k + 1
      BY <3>1, <3>2, <1>5, <2>1
    <3>3. CASE j = k + 1
      BY <3>1, <3>3, <1>5, <2>1
    <3>4. CASE i # k + 1 /\ j # k + 1
      <4>1. o(i) = o(j)
        BY <3>1, <3>4, <2>2
      <4>2. o(i) # o(j)
        BY <3>4, <1>1, <1>2
      <4> QED BY <4>1, <4>2
    <3> QED BY <3>2, <3>3, <3>4
  <2> QED BY <2>3, <1>2 DEF IsInjective
<1> QED
  BY <1>1, <1>3, <1>8, <1>9, <1>10 DEF r

\* list_insert_ordered keeps a list in order.
LEMMA InsertOrderedDescending ==
  ASSUME NEW S, NEW s \in Seq(S), NEW x \in S, NEW key \in [S -> Int],
         Descending(s, key)
  PROVE  Descending(list_insert_ordered(s, x, key), key)
<1> DEFINE r == list_insert_ordered(s, x, key)
<1>1. PICK k \in 0..Len(s) :
        /\ r \in Seq(S)
        /\ Len(r) = Len(s) + 1
        /\ \A i \in 1..(Len(s) + 1) :
             r[i] = IF i <= k THEN s[i] ELSE IF i = k + 1 THEN x ELSE s[i - 1]
        /\ \A i \in 1..k : ~ (key[x] > key[s[i]])
        /\ k < Len(s) => key[x] > key[s[k + 1]]
  BY InsertOrderedPlaces, Zenon
<1>2. Len(s) \in Nat /\ \A i \in 1..Len(s) : s[i] \in S
  BY LenProperties, ElementOfSeq
<1> HIDE DEF r
<1> SUFFICES ASSUME NEW i \in 1..(Len(s) + 1), NEW j \in 1..(Len(s) + 1),
                    i < j
             PROVE  key[r[i]] >= key[r[j]]
  BY <1>1 DEF Descending, r
<1>3. \A m, n \in 1..Len(s) : m <= n => key[s[m]] >= key[s[n]]
  <2> SUFFICES ASSUME NEW m \in 1..Len(s), NEW n \in 1..Len(s), m <= n
               PROVE  key[s[m]] >= key[s[n]]
    OBVIOUS
  <2>1. CASE m = n
    <3>1. key[s[m]] \in Int
      BY <1>2
    <3> QED BY <2>1, <3>1
  <2>2. CASE m < n
    BY <2>2 DEF Descending
  <2> QED BY <2>1, <2>2, <1>2
<1>4. key[x] \in Int /\ \A m \in 1..Len(s) : key[s[m]] \in Int
  BY <1>2
<1>5. \A n \in 1..k : n \in 1..Len(s) /\ r[n] = s[n]
  <2> SUFFICES ASSUME NEW n \in 1..k
               PROVE  n \in 1..Len(s) /\ r[n] = s[n]
    BY SMTT(20)
  <2>1. n \in 1..(Len(s) + 1) /\ n <= k /\ n \in 1..Len(s)
    BY <1>2
  <2> QED BY <2>1, <1>1, Zenon
<1>6. r[k + 1] = x
  <2>1. k + 1 \in 1..(Len(s) + 1) /\ ~ (k + 1 <= k)
    BY <1>2
  <2> QED BY <2>1, <1>1, Zenon
<1>7. \A n \in (k + 2)..(Len(s) + 1) : n - 1 \in 1..Len(s) /\ r[n] = s[n - 1]
  <2> SUFFICES ASSUME NEW n \in (k + 2)..(Len(s) + 1)
               PROVE  n - 1 \in 1..Len(s) /\ r[n] = s[n - 1]
    OBVIOUS
  <2>1. n \in 1..(Len(s) + 1) /\ ~ (n <= k) /\ n # k + 1 /\ n - 1 \in 1..Len(s)
    BY <1>2
  <2> QED BY <2>1, <1>1, Zenon
<1>8. k \in Nat /\ k <= Len(s)
  BY <1>2
<1>9. CASE j <= k
  <2>1. i \in 1..k /\ j \in 1..k /\ i <= j
    BY <1>2, <1>8, <1>9
  <2> QED BY <2>1, <1>3, <1>5, SMTT(20)
<1>10. CASE j = k + 1
  <2>1. i \in 1..k
    BY <1>2, <1>8, <1>10
  <2>2. ~ (key[x] > key[s[i]]) /\ r[i] = s[i] /\ r[j] = x /\ i \in 1..Len(s)
    BY <2>1, <1>1, <1>5, <1>6, <1>10
  <2> QED BY <2>2, <1>4
<1>11. CASE j > k + 1
  <2>1. j \in (k + 2)..(Len(s) + 1) /\ k + 1 \in 1..Len(s) /\ k < Len(s)
    BY <1>2, <1>8, <1>11
  <2>2. r[j] = s[j - 1] /\ j - 1 \in 1..Len(s) /\ k + 1 <= j - 1
    BY <2>1, <1>7, <1>2, <1>8
  <2>3. CASE i <= k
    <3>1. i \in 1..k /\ i <= j - 1
      BY <2>3, <2>1, <1>2, <1>8
    <3>2. r[i] = s[i] /\ i \in 1..Len(s)
      BY <3>1, <1>5
    <3> QED BY <3>1, <3>2, <2>2, <1>3, SMTT(20)
  <2>4. CASE i = k + 1
    <3>1. key[x] > key[s[k + 1]]
      BY <2>1, <1>1
    <3>2. key[s[k + 1]] >= key[s[j - 1]]
      BY <2>1, <2>2, <1>3
    <3> QED BY <3>1, <3>2, <2>1, <2>2, <2>4, <1>4, <1>6
  <2>5. CASE i > k + 1
    <3>1. i \in (k + 2)..(Len(s) + 1) /\ i - 1 <= j - 1
      BY <2>5, <1>2, <1>8
    <3>2. r[i] = s[i - 1] /\ i - 1 \in 1..Len(s)
      BY <3>1, <1>7
    <3> QED BY <3>1, <3>2, <2>2, <1>3, SMTT(20)
  <2> QED BY <2>3, <2>4, <2>5, <1>2, <1>8
<1> QED
  BY <1>9, <1>10, <1>11, <1>2, <1>8

\* list_pop_front of a list without duplicates.
LEMMA PopFront ==
  ASSUME NEW S, NEW s \in Seq(S), s # <<>>, IsInjective(s)
  PROVE  /\ Head(s) \in S /\ Head(s) \in Range(s)
         /\ Tail(s) \in Seq(S)
         /\ Range(Tail(s)) = Range(s) \ {Head(s)}
         /\ IsInjective(Tail(s))
<1>1. /\ Head(s) \in S /\ Tail(s) \in Seq(S)
      /\ Len(Tail(s)) = Len(s) - 1
      /\ \A i \in 1..Len(Tail(s)) : Tail(s)[i] = s[i + 1]
  BY HeadTailProperties
<1>2. Len(s) \in Nat \ {0} /\ DOMAIN s = 1..Len(s) /\ Head(s) = s[1]
  BY LenProperties, EmptySeq
<1>3. DOMAIN Tail(s) = 1..(Len(s) - 1)
  BY <1>1, LenProperties
<1> DEFINE t == Tail(s)
           h == Head(s)
<1>4. /\ \A i \in 1..(Len(s) - 1) : t[i] = s[i + 1]
      /\ DOMAIN t = 1..(Len(s) - 1) /\ h = s[1] /\ t \in Seq(S)
      /\ h \in S
  BY <1>1, <1>2, <1>3
<1> HIDE DEF t, h
<1>5. \A i, j \in 1..Len(s) : s[i] = s[j] => i = j
  BY <1>2 DEF IsInjective
<1>6. IsInjective(t)
  <2>1. \A i, j \in 1..(Len(s) - 1) : t[i] = t[j] => i = j
    BY <1>2, <1>4, <1>5
  <2> QED BY <2>1, <1>4 DEF IsInjective
<1>7. Range(t) = Range(s) \ {h}
  <2>1. Range(t) \subseteq Range(s) \ {h}
    <3>1. \A i \in 1..(Len(s) - 1) : t[i] \in Range(s) /\ t[i] # h
      BY <1>2, <1>4, <1>5 DEF Range
    <3> QED BY <3>1, <1>4 DEF Range
  <2>2. \A i \in 1..Len(s) : s[i] # h => s[i] \in Range(t)
    <3> SUFFICES ASSUME NEW i \in 1..Len(s), s[i] # h
                 PROVE  s[i] \in Range(t)
      OBVIOUS
    <3>1. i - 1 \in 1..(Len(s) - 1) /\ t[i - 1] = s[i]
      BY <1>2, <1>4
    <3> QED BY <3>1, <1>4 DEF Range
  <2> QED BY <2>1, <2>2, <1>2, Zenon DEF Range
<1>8. h \in Range(s)
  BY <1>2, <1>4 DEF Range
<1> QED
  BY <1>4, <1>6, <1>7, <1>8 DEF t, h

\* list_pop_front keeps the order, and the front has the largest key.
LEMMA PopFrontDescending ==
  ASSUME NEW S, NEW s \in Seq(S), s # <<>>, NEW key, Descending(s, key)
  PROVE  /\ Descending(Tail(s), key)
         /\ \A x \in Range(Tail(s)) : key[Head(s)] >= key[x]
<1> DEFINE t == Tail(s)
<1>1. /\ t \in Seq(S) /\ Len(t) = Len(s) - 1
      /\ \A i \in 1..Len(t) : t[i] = s[i + 1]
  BY HeadTailProperties
<1>2. Len(s) \in Nat \ {0} /\ Head(s) = s[1]
  BY LenProperties, EmptySeq
<1>3. DOMAIN t = 1..Len(t)
  BY <1>1, LenProperties
<1> HIDE DEF t
<1>4. Descending(t, key)
  <2> SUFFICES ASSUME NEW i \in 1..Len(t), NEW j \in 1..Len(t), i < j
               PROVE  key[t[i]] >= key[t[j]]
    BY DEF Descending
  <2>1. i + 1 \in 1..Len(s) /\ j + 1 \in 1..Len(s) /\ i + 1 < j + 1
    BY <1>1, <1>2
  <2>2. key[s[i + 1]] >= key[s[j + 1]]
    BY <2>1 DEF Descending
  <2> QED BY <2>2, <1>1
<1>5. \A i \in 1..Len(t) : key[s[1]] >= key[t[i]]
  <2> SUFFICES ASSUME NEW i \in 1..Len(t)
               PROVE  key[s[1]] >= key[t[i]]
    OBVIOUS
  <2>1. 1 \in 1..Len(s) /\ i + 1 \in 1..Len(s) /\ 1 < i + 1
    BY <1>1, <1>2
  <2>2. key[s[1]] >= key[s[i + 1]]
    BY <2>1 DEF Descending
  <2> QED BY <2>2, <1>1
<1> QED
  BY <1>2, <1>3, <1>4, <1>5 DEF t, Range

\* The order of a list depends only on the keys of its elements.
LEMMA DescendingSameKeys ==
  ASSUME NEW S, NEW s \in Seq(S), NEW key, NEW key2, Descending(s, key),
         \A x \in Range(s) : key2[x] = key[x]
  PROVE  Descending(s, key2)
<1>1. DOMAIN s = 1..Len(s)
  BY LenProperties
<1>2. \A i \in 1..Len(s) : key2[s[i]] = key[s[i]]
  BY <1>1 DEF Range
<1> QED
  BY <1>2 DEF Descending

\* list_push_back of a new element.
LEMMA PushBack ==
  ASSUME NEW S, NEW s \in Seq(S), NEW x \in S
  PROVE  /\ Append(s, x) \in Seq(S)
         /\ Range(Append(s, x)) = Range(s) \cup {x}
         /\ IsInjective(s) /\ x \notin Range(s) => IsInjective(Append(s, x))
<1> DEFINE r == Append(s, x)
<1>1. /\ r \in Seq(S) /\ Len(r) = Len(s) + 1
      /\ \A i \in 1..Len(s) : r[i] = s[i]
      /\ r[Len(s) + 1] = x
  BY AppendProperties
<1>2. Len(s) \in Nat /\ DOMAIN s = 1..Len(s) /\ DOMAIN r = 1..(Len(s) + 1)
  BY <1>1, LenProperties
<1> HIDE DEF r
<1>3. \A i \in 1..(Len(s) + 1) : i \in 1..Len(s) \/ i = Len(s) + 1
  BY <1>2
<1>4. 1..Len(s) \subseteq 1..(Len(s) + 1) /\ Len(s) + 1 \in 1..(Len(s) + 1)
  BY <1>2
<1>5. Range(r) = Range(s) \cup {x}
  BY <1>1, <1>2, <1>3, <1>4 DEF Range
<1>6. ASSUME IsInjective(s), x \notin Range(s)
      PROVE  IsInjective(r)
  <2>1. \A i \in 1..Len(s) : s[i] # x
    BY <1>2, <1>6 DEF Range
  <2>2. \A i, j \in 1..Len(s) : s[i] = s[j] => i = j
    BY <1>2, <1>6 DEF IsInjective
  <2>3. \A i, j \in 1..(Len(s) + 1) : r[i] = r[j] => i = j
    BY <2>1, <2>2, <1>1, <1>3
  <2> QED BY <2>3, <1>2 DEF IsInjective
<1> QED
  BY <1>1, <1>5, <1>6 DEF r

\* list_remove takes out x and nothing else.
LEMMA RemoveElement ==
  ASSUME NEW S, NEW s \in Seq(S), IsInjective(s), NEW x \in Range(s)
  PROVE  /\ list_remove(s, x) \in Seq(S)
         /\ Range(list_remove(s, x)) = Range(s) \ {x}
         /\ IsInjective(list_remove(s, x))
<1> DEFINE k == CHOOSE i \in 1..Len(s) : s[i] = x
           A == SubSeq(s, 1, k - 1)
           B == SubSeq(s, k + 1, Len(s))
           r == A \o B
<1>1. Len(s) \in Nat /\ DOMAIN s = 1..Len(s)
  BY LenProperties
<1>2. k \in 1..Len(s) /\ s[k] = x
  BY <1>1 DEF Range
<1>3. list_remove(s, x) = r
  BY DEF list_remove
<1>4. \A i \in 1..Len(s) : s[i] \in S
  BY ElementOfSeq
<1> HIDE DEF k
<1>5. /\ A \in Seq(S) /\ Len(A) = k - 1
      /\ \A i \in 1..(k - 1) : A[i] = s[i]
  <2>1. \A i \in 1..(k - 1) : s[i] \in S
    BY <1>1, <1>2, <1>4
  <2>2. /\ A \in Seq(S)
        /\ Len(A) = IF 1 <= k - 1 THEN (k - 1) - 1 + 1 ELSE 0
        /\ \A i \in 1..((k - 1) - 1 + 1) : A[i] = s[1 + i - 1]
    <3>1. 1 \in Int /\ k - 1 \in Int
      BY <1>2
    <3> QED BY <3>1, <2>1, SubSeqProperties
  <2> QED BY <2>2, <1>1, <1>2
<1>6. /\ B \in Seq(S) /\ Len(B) = Len(s) - k
      /\ \A i \in 1..(Len(s) - k) : B[i] = s[k + i]
  <2>1. \A i \in (k + 1)..Len(s) : s[i] \in S
    BY <1>1, <1>2, <1>4
  <2>2. /\ B \in Seq(S)
        /\ Len(B) = IF k + 1 <= Len(s) THEN Len(s) - (k + 1) + 1 ELSE 0
        /\ \A i \in 1..(Len(s) - (k + 1) + 1) : B[i] = s[(k + 1) + i - 1]
    <3>1. k + 1 \in Int /\ Len(s) \in Int
      BY <1>1, <1>2
    <3> QED BY <3>1, <2>1, SubSeqProperties
  <2> HIDE DEF A, B
  <2>3. Len(s) - (k + 1) + 1 = Len(s) - k
    BY <1>1, <1>2
  <2>4. Len(B) = Len(s) - k
    <3>1. CASE k + 1 <= Len(s)
      BY <3>1, <2>2, <2>3
    <3>2. CASE ~ (k + 1 <= Len(s))
      <4>1. k \in Int /\ Len(s) \in Int /\ k <= Len(s)
        BY <1>1, <1>2
      <4>2. Len(s) - k = 0
        BY <3>2, <4>1
      <4> QED BY <3>2, <4>2, <2>2
    <3> QED BY <3>1, <3>2
  <2>5. \A i \in 1..(Len(s) - k) : (k + 1) + i - 1 = k + i
    BY <1>1, <1>2
  <2> QED BY <2>2, <2>3, <2>4, <2>5
<1> HIDE DEF A, B
<1>7. /\ r \in Seq(S) /\ Len(r) = Len(A) + Len(B)
      /\ \A i \in 1..(Len(A) + Len(B)) :
           r[i] = IF i <= Len(A) THEN A[i] ELSE B[i - Len(A)]
  BY <1>5, <1>6, ConcatProperties, Zenon
<1> HIDE DEF r
<1> DEFINE o(n) == IF n <= k - 1 THEN n ELSE n + 1
<1>8. \A n \in 1..(Len(s) - 1) :
        o(n) \in 1..Len(s) /\ o(n) # k /\ r[n] = s[o(n)]
  <2> SUFFICES ASSUME NEW n \in 1..(Len(s) - 1)
               PROVE  o(n) \in 1..Len(s) /\ o(n) # k /\ r[n] = s[o(n)]
    OBVIOUS
  <2>1. n \in 1..(Len(A) + Len(B))
    BY <1>1, <1>2, <1>5, <1>6
  <2>2. CASE n <= k - 1
    <3>1. n \in 1..(k - 1) /\ n <= Len(A)
      BY <1>1, <1>2, <1>5, <2>2
    <3>2. r[n] = s[n]
      BY <2>1, <3>1, <1>5, <1>7
    <3> QED BY <3>2, <2>2, <1>1, <1>2
  <2>3. CASE n > k - 1
    <3>1. /\ n - (k - 1) \in 1..(Len(s) - k) /\ ~ (n <= Len(A))
          /\ n - Len(A) = n - (k - 1) /\ k + (n - (k - 1)) = n + 1
      BY <1>1, <1>2, <1>5, <2>3
    <3>2. r[n] = B[n - (k - 1)]
      BY <2>1, <3>1, <1>7
    <3>3. r[n] = s[n + 1]
      BY <3>1, <3>2, <1>6
    <3> QED BY <3>3, <2>3, <1>1, <1>2
  <2> QED BY <2>2, <2>3, <1>1, <1>2
<1>9. DOMAIN r = 1..(Len(s) - 1)
  <2>1. Len(r) = Len(s) - 1
    BY <1>1, <1>2, <1>5, <1>6, <1>7
  <2> QED BY <2>1, <1>7, LenProperties
<1>10. \A i, j \in 1..Len(s) : s[i] = s[j] => i = j
  BY <1>1 DEF IsInjective
<1>11. IsInjective(r)
  <2>1. \A i, j \in 1..(Len(s) - 1) : o(i) = o(j) => i = j
    BY <1>1, <1>2
  <2>2. \A i, j \in 1..(Len(s) - 1) : r[i] = r[j] => o(i) = o(j)
    BY <1>8, <1>10
  <2> QED BY <2>1, <2>2, <1>9 DEF IsInjective
<1>12. Range(r) \subseteq Range(s) \ {x}
  <2>1. \A n \in 1..(Len(s) - 1) : r[n] \in Range(s) /\ r[n] # x
    BY <1>1, <1>2, <1>8, <1>10 DEF Range
  <2> QED BY <2>1, <1>9 DEF Range
<1>13. ASSUME NEW i \in 1..Len(s), s[i] # x
       PROVE  s[i] \in Range(r)
  <2> DEFINE n == IF i < k THEN i ELSE i - 1
  <2>1. n \in 1..(Len(s) - 1) /\ o(n) = i
    BY <1>1, <1>2, <1>13
  <2>2. r[n] = s[i]
    BY <2>1, <1>8
  <2> QED BY <2>1, <2>2, <1>9 DEF Range
<1>14. Range(s) \ {x} \subseteq Range(r)
  BY <1>1, <1>13 DEF Range
<1>15. Range(r) = Range(s) \ {x}
  BY <1>12, <1>14
<1> QED
  BY <1>3, <1>7, <1>11, <1>15, Zenon

\* The elements that a sort puts in front of place i: their number is less
\* for an element that is itself put in front.
LEMMA PrecedingRank ==
  ASSUME NEW S, NEW s \in Seq(S), NEW key \in [S -> Int]
  PROVE  /\ \A i \in 1..Len(s) :
              Cardinality(Preceding(s, i, key)) \in 0..(Len(s) - 1)
         /\ \A i, j \in 1..Len(s) :
              i \in Preceding(s, j, key) =>
                Cardinality(Preceding(s, i, key))
                  < Cardinality(Preceding(s, j, key))
         /\ \A i, j \in 1..Len(s) :
              \/ i = j
              \/ i \in Preceding(s, j, key)
              \/ j \in Preceding(s, i, key)
<1> DEFINE N == 1..Len(s)
           P(i) == Preceding(s, i, key)
<1>1. Len(s) \in Nat /\ \A i \in N : s[i] \in S
  BY LenProperties, ElementOfSeq
<1>2. \A i \in N : key[s[i]] \in Int
  BY <1>1
<1>3. IsFiniteSet(N) /\ Cardinality(N) = Len(s)
  <2>1. /\ IsFiniteSet(1..Len(s))
        /\ Cardinality(1..Len(s)) = IF 1 > Len(s) THEN 0 ELSE Len(s) - 1 + 1
    BY <1>1, FS_Interval, SMTT(20)
  <2> QED BY <2>1, <1>1
<1>4. ASSUME NEW i \in N
      PROVE  /\ P(i) \in SUBSET N /\ i \notin P(i)
             /\ IsFiniteSet(P(i)) /\ Cardinality(P(i)) \in 0..(Len(s) - 1)
  <2>1. P(i) \in SUBSET N
    BY DEF Preceding
  <2>2. i \notin P(i)
    BY <1>1, <1>2 DEF Preceding
  <2>3. IsFiniteSet(P(i)) /\ Cardinality(P(i)) \in Nat
        /\ Cardinality(P(i)) <= Len(s)
    BY <2>1, <1>3, FS_Subset, FS_CardinalityType
  <2>4. Cardinality(P(i)) # Len(s)
    BY <2>1, <2>2, <1>3, FS_Subset
  <2> QED BY <2>1, <2>2, <2>3, <2>4, <1>1
<1>5. ASSUME NEW i \in N, NEW j \in N, i \in P(j)
      PROVE  Cardinality(P(i)) < Cardinality(P(j))
  <2>1. P(i) \cup {i} \in SUBSET P(j)
    BY <1>1, <1>2, <1>5 DEF Preceding
  <2>2. /\ IsFiniteSet(P(i) \cup {i})
        /\ Cardinality(P(i) \cup {i}) = Cardinality(P(i)) + 1
    BY <1>4, FS_AddElement, Zenon
  <2>3. Cardinality(P(i) \cup {i}) <= Cardinality(P(j))
    BY <2>1, <1>4, FS_Subset
  <2>4. Cardinality(P(i)) \in Int /\ Cardinality(P(j)) \in Int
    BY <1>4
  <2> QED BY <2>2, <2>3, <2>4
<1>6. ASSUME NEW i \in N, NEW j \in N
      PROVE  i = j \/ i \in P(j) \/ j \in P(i)
  BY <1>1, <1>2 DEF Preceding
<1> QED
  BY <1>4, <1>5, <1>6

\* list_sort permutes the list, and orders it.
LEMMA SortProperties ==
  ASSUME NEW S, NEW s \in Seq(S), NEW key \in [S -> Int]
  PROVE  LET r == list_sort(s, key)
         IN  /\ r \in Seq(S)
             /\ Len(r) = Len(s)
             /\ Range(r) = Range(s)
             /\ IsInjective(s) => IsInjective(r)
             /\ Descending(r, key)
<1> DEFINE N == 1..Len(s)
           rank(i) == Cardinality(Preceding(s, i, key)) + 1
           f == [i \in N |-> rank(i)]
           g(n) == CHOOSE i \in N : rank(i) = n
           r == list_sort(s, key)
<1>1. Len(s) \in Nat /\ DOMAIN s = N /\ \A i \in N : s[i] \in S
  BY LenProperties, ElementOfSeq
<1>2. \A i \in N : rank(i) \in N
  BY <1>1, PrecedingRank
<1>3. \A i, j \in N : i \in Preceding(s, j, key) => rank(i) < rank(j)
  BY <1>1, PrecedingRank
<1>4. \A i, j \in N : i = j \/ i \in Preceding(s, j, key)
                            \/ j \in Preceding(s, i, key)
  BY PrecedingRank
<1>5. r = [n \in N |-> s[g(n)]]
  BY DEF list_sort
<1> HIDE DEF rank, r
<1>6. \A i, j \in N : rank(i) = rank(j) => i = j
  BY <1>1, <1>2, <1>3, <1>4
<1>7. f \in Injection(N, N)
  BY <1>2, <1>6 DEF Injection, IsInjective
<1>8. f \in Surjection(N, N)
  <2>1. IsFiniteSet(N)
    BY <1>1, FS_Interval
  <2> QED BY <1>7, <2>1, FS_Injection
<1>9. \A n \in N : g(n) \in N /\ rank(g(n)) = n
  <2>1. \A n \in N : \E i \in N : rank(i) = n
    BY <1>8, Zenon DEF Surjection
  <2> QED BY <2>1, SMTT(20)
<1>10. \A i \in N : g(rank(i)) = i
  BY <1>2, <1>6, <1>9
<1> HIDE DEF g
<1>11. r \in Seq(S) /\ Len(r) = Len(s) /\ DOMAIN r = N
  BY <1>1, <1>5, <1>9
<1>12. Range(r) = Range(s)
  <2>1. \A n \in N : r[n] \in Range(s)
    BY <1>1, <1>5, <1>9 DEF Range
  <2>2. \A i \in N : s[i] = r[rank(i)]
    BY <1>2, <1>5, <1>10
  <2> QED BY <2>1, <2>2, <1>1, <1>2, <1>11 DEF Range
<1>13. ASSUME IsInjective(s)
       PROVE  IsInjective(r)
  <2> SUFFICES ASSUME NEW m \in N, NEW n \in N, r[m] = r[n]
               PROVE  m = n
    BY <1>11 DEF IsInjective
  <2>1. g(m) = g(n)
    BY <1>1, <1>5, <1>9, <1>13 DEF IsInjective
  <2> QED BY <2>1, <1>9
<1>14. Descending(r, key)
  <2> SUFFICES ASSUME NEW m \in N, NEW n \in N, m < n
               PROVE  key[r[m]] >= key[r[n]]
    BY <1>11 DEF Descending
  <2> DEFINE i == g(m)
             j == g(n)
  <2>1. i \in N /\ j \in N /\ rank(i) = m /\ rank(j) = n
    BY <1>9
  <2>2. r[m] = s[i] /\ r[n] = s[j]
    BY <1>5
  <2>3. key[s[i]] \in Int /\ key[s[j]] \in Int
    BY <1>1, <2>1
  <2> HIDE DEF i, j
  <2>4. i \in Preceding(s, j, key)
    <3>1. ~ (rank(j) < rank(i)) /\ rank(i) # rank(j)
      BY <2>1, <1>1
    <3>2. i # j
      BY <3>1
    <3> QED BY <3>1, <3>2, <2>1, <1>3, <1>4
  <2>5. key[s[i]] >= key[s[j]]
    BY <2>3, <2>4 DEF Preceding
  <2> QED BY <2>2, <2>5
<1> QED
  BY <1>11, <1>12, <1>13, <1>14 DEF r

\* A loop that removes elements leaves the others, each as often as before,
\* in their order.
LEMMA KeepPlaces ==
  ASSUME NEW T, NEW s \in Seq(T), NEW S
  PROVE  LET r == list_keep(s, S)
             rank(i) == Cardinality(Members(s, S, i))
         IN  /\ r \in Seq(T) /\ Len(r) = rank(Len(s))
             /\ \A i \in 1..Len(s) :
                  s[i] \in S => rank(i) \in 1..Len(r) /\ r[rank(i)] = s[i]
             /\ \A n \in 1..Len(r) :
                  \E i \in 1..Len(s) : s[i] \in S /\ rank(i) = n /\ r[n] = s[i]
<1> DEFINE L == Len(s)
           M == Members(s, S, L)
           rank(i) == Cardinality(Members(s, S, i))
           N == 1..Cardinality(M)
           f == [i \in M |-> rank(i)]
           g(n) == CHOOSE i \in M : rank(i) = n
           r == list_keep(s, S)
<1>1. L \in Nat /\ DOMAIN s = 1..L /\ \A i \in 1..L : s[i] \in T
  BY LenProperties, ElementOfSeq
<1>2. r = [n \in N |-> s[g(n)]]
  BY Zenon DEF list_keep
<1>3. M \subseteq 1..L /\ \A i \in 1..L : i \in M <=> s[i] \in S
  BY <1>1 DEF Members
<1>4. IsFiniteSet(M) /\ Cardinality(M) \in Nat
  <2>1. IsFiniteSet(1..L)
    BY <1>1, FS_Interval
  <2> QED
    BY <1>3, <2>1, FS_Subset, FS_CardinalityType
<1>5. ASSUME NEW i \in M
      PROVE  /\ Members(s, S, i) \subseteq M /\ i \in Members(s, S, i)
             /\ IsFiniteSet(Members(s, S, i)) /\ rank(i) \in N
  <2>1. Members(s, S, i) \subseteq M /\ i \in Members(s, S, i)
    BY <1>1, <1>3 DEF Members
  <2>2. IsFiniteSet(Members(s, S, i)) /\ rank(i) \in Nat /\ rank(i) <= Cardinality(M)
    BY <1>4, <2>1, FS_Subset, FS_CardinalityType
  <2>3. rank(i) # 0
    BY <2>1, <2>2, FS_EmptySet
  <2> QED
    BY <1>4, <2>1, <2>2, <2>3
<1>6. ASSUME NEW i \in M, NEW j \in M, i < j
      PROVE  rank(i) < rank(j)
  <2>1. Members(s, S, i) \subseteq Members(s, S, j) /\ j \notin Members(s, S, i)
    BY <1>1, <1>3, <1>6 DEF Members
  <2>2. rank(i) <= rank(j) /\ rank(i) # rank(j)
    BY <1>5, <2>1, FS_Subset
  <2>3. rank(i) \in Nat /\ rank(j) \in Nat
    BY <1>5
  <2> HIDE DEF rank
  <2> QED
    BY <2>2, <2>3
<1> HIDE DEF rank, r
<1>7. \A i, j \in M : rank(i) = rank(j) => i = j
  <2> SUFFICES ASSUME NEW i \in M, NEW j \in M, rank(i) = rank(j)
               PROVE  i = j
    OBVIOUS
  <2>1. i \in Nat /\ j \in Nat /\ rank(i) \in Nat
    BY <1>1, <1>3, <1>5
  <2>2. ~ (i < j) /\ ~ (j < i)
    BY <1>6, <2>1
  <2> QED
    BY <2>1, <2>2
<1>8. f \in Injection(M, N)
  BY <1>5, <1>7 DEF Injection, IsInjective
<1>9. f \in Surjection(M, N)
  <2>1. IsFiniteSet(N) /\ Cardinality(N) = Cardinality(M)
    BY <1>4, FS_Interval
  <2> QED
    BY <1>4, <1>8, <2>1, FS_Injection
<1>10. \A n \in N : g(n) \in M /\ rank(g(n)) = n
  <2>1. \A n \in N : \E i \in M : rank(i) = n
    BY <1>9, Zenon DEF Surjection
  <2> QED BY <2>1, Zenon
<1>11. \A i \in M : g(rank(i)) = i
  BY <1>5, <1>7, <1>10
<1> HIDE DEF g, M
<1>12. r \in Seq(T) /\ DOMAIN r = N
  <2> DEFINE k == Cardinality(M)
             e(n) == s[g(n)]
  <2>1. \A n \in N : e(n) \in T
    BY <1>1, <1>3, <1>10, Zenon
  <2> HIDE DEF e
  <2>2. r = [n \in 1..k |-> e(n)]
    BY <1>2 DEF e
  <2>3. k \in Nat
    BY <1>4
  <2> HIDE DEF k
  <2> QED
    BY <2>1, <2>2, <2>3 DEF k
<1>13. \A i \in M : rank(i) \in N /\ r[rank(i)] = s[i]
  BY <1>2, <1>5, <1>11
<1>14. \A n \in N : r[n] = s[g(n)]
  BY <1>2
<1>15. Len(r) = Cardinality(M)
  BY <1>4, <1>12, LenProperties
<1>16. \A n \in N : \E i \in 1..L : s[i] \in S /\ rank(i) = n /\ r[n] = s[i]
  BY <1>3, <1>10, <1>14, Zenon
<1> QED
  BY <1>3, <1>12, <1>13, <1>15, <1>16, Zenon DEF r, rank, M

\* Such a loop keeps the elements that are in S, and repeats none.
LEMMA KeepProperties ==
  ASSUME NEW T, NEW s \in Seq(T), NEW S
  PROVE  LET r == list_keep(s, S)
         IN  /\ r \in Seq(T)
             /\ Range(r) = Range(s) \cap S
             /\ IsInjective(s) => IsInjective(r)
<1> DEFINE r == list_keep(s, S)
           rank(i) == Cardinality(Members(s, S, i))
<1>a. r \in Seq(T)
  BY KeepPlaces
<1>b. ASSUME NEW i \in 1..Len(s), s[i] \in S
      PROVE  rank(i) \in 1..Len(r) /\ r[rank(i)] = s[i]
  BY <1>b, KeepPlaces
<1>c. ASSUME NEW n \in 1..Len(r)
      PROVE  \E i \in 1..Len(s) : s[i] \in S /\ rank(i) = n /\ r[n] = s[i]
  BY <1>c, KeepPlaces
<1> HIDE DEF r, rank
<1>1. /\ r \in Seq(T)
      /\ \A i \in 1..Len(s) : s[i] \in S => rank(i) \in 1..Len(r) /\ r[rank(i)] = s[i]
      /\ \A n \in 1..Len(r) :
           \E i \in 1..Len(s) : s[i] \in S /\ rank(i) = n /\ r[n] = s[i]
  BY <1>a, <1>b, <1>c, Zenon
<1>2. DOMAIN s = 1..Len(s) /\ DOMAIN r = 1..Len(r)
  BY <1>1, LenProperties, Zenon
<1>3. Range(r) = Range(s) \cap S
  <2>1. \A x : x \in Range(r) <=> \E n \in 1..Len(r) : x = r[n]
    BY <1>2 DEF Range
  <2>2. \A x : x \in Range(s) <=> \E i \in 1..Len(s) : x = s[i]
    BY <1>2 DEF Range
  <2>3. \A x \in Range(r) : x \in Range(s) \cap S
    BY <1>1, <2>1, <2>2
  <2>4. \A x \in Range(s) \cap S : x \in Range(r)
    BY <1>1, <2>1, <2>2, Zenon
  <2> QED
    BY <2>3, <2>4
<1>4. ASSUME IsInjective(s), NEW m \in 1..Len(r), NEW n \in 1..Len(r), r[m] = r[n]
      PROVE  m = n
  <2>1. PICK i \in 1..Len(s) : rank(i) = m /\ r[m] = s[i]
    BY <1>1, Zenon
  <2>2. PICK j \in 1..Len(s) : rank(j) = n /\ r[n] = s[j]
    BY <1>1, Zenon
  <2>3. i = j
    BY <1>2, <1>4, <2>1, <2>2, Zenon DEF IsInjective
  <2> QED
    BY <2>1, <2>2, <2>3, Zenon
<1>5. IsInjective(s) => IsInjective(r)
  BY <1>2, <1>4, Zenon DEF IsInjective
<1> QED
  BY <1>1, <1>3, <1>5, Zenon DEF r

-----------------------------------------------------------------------------
(* The laws of lists and of the size of a set.                              *)

\* The operations on lists do to the elements what ListLaws says, for
\* elements of any kind (list.c).
LEMMA ListLawsHold == \A S : ListLaws(S)
<1> SUFFICES ASSUME NEW S PROVE ListLaws(S)
  OBVIOUS
<1>1. PushLaw(S)
  BY PushBack DEF PushLaw
<1>2. PopLaw(S)
  BY PopFront DEF PopLaw
<1>3. RemoveLaw(S)
  BY RemoveElement DEF RemoveLaw
<1>4. InsertLaw(S)
  BY InsertOrderedRange DEF InsertLaw
<1>5. SortLaw(S)
  BY SortProperties DEF SortLaw
<1>6. KeepLaw(S)
  BY KeepProperties DEF KeepLaw
<1>7. OrderLaw(S)
  BY InsertOrderedDescending, PopFrontDescending DEF OrderLaw
<1> QED
  BY <1>1, <1>2, <1>3, <1>4, <1>5, <1>6, <1>7 DEF ListLaws

\* A subset of a finite set is counted by a number, a smaller one by a
\* smaller number (the values of semaphores against their waiters).
LEMMA CountLawsHold ==
  ASSUME NEW S, IsFiniteSet(S)
  PROVE  CountLaws(S)
<1> SUFFICES ASSUME NEW B \in SUBSET S
             PROVE  /\ Cardinality(B) \in Nat
                    /\ \A x \in B : Cardinality(B \ {x}) = Cardinality(B) - 1
                    /\ \A A \in SUBSET B :
                         /\ Cardinality(A) <= Cardinality(B)
                         /\ A # B => Cardinality(A) # Cardinality(B)
  BY DEF CountLaws
<1>1. IsFiniteSet(B)
  BY FS_Subset
<1>2. Cardinality(B) \in Nat
  BY <1>1, FS_CardinalityType
<1>3. \A x \in B : Cardinality(B \ {x}) = Cardinality(B) - 1
  BY <1>1, FS_RemoveElement
<1>4. \A A \in SUBSET B : /\ Cardinality(A) <= Cardinality(B)
                          /\ A # B => Cardinality(A) # Cardinality(B)
  BY <1>1, FS_Subset
<1> QED
  BY <1>2, <1>3, <1>4

=============================================================================
