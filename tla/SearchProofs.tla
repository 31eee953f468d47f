----------------------------- MODULE SearchProofs -----------------------------
(***************************************************************************)
(* TLAPS proofs about a search and about the retrieval of the RAG service: *)
(* the invariant of a request, what fusion and grouping return, and when   *)
(* keywords decide the order of the citations, for every set of points,    *)
(* limit, k and ranked lists.                                              *)
(*                                                                         *)
(* The operators that loop are recursive functions and sorting is by a     *)
(* CHOOSE of places, so the lemmas first say what each of them returns.    *)
(***************************************************************************)
EXTENDS SearchProperties, RecursionLemmas, FiniteSetTheorems

-----------------------------------------------------------------------------
(* Arranging, selecting and sorting.                                       *)

\* A strict order in which any two members of S can be told apart.
IsStrictOrder(before, S) ==
  /\ before \in [S -> SUBSET S]
  /\ \A i \in S : i \notin before[i]
  /\ \A i, j \in S : i # j => i \in before[j] \/ j \in before[i]
  /\ \A i, j, k \in S : i \in before[j] /\ j \in before[k] => i \in before[k]

\* What arranging S returns: each member of S once, in the order.
IsArrangement(a, S, before) ==
  /\ Cardinality(S) \in Nat
  /\ a \in [1 .. Cardinality(S) -> S]
  /\ \A m, n \in 1 .. Cardinality(S) : m < n => a[m] \in before[a[n]]
  /\ \A i \in S : \E n \in 1 .. Cardinality(S) : a[n] = i

\* Arranging a finite set puts each of its members in one place, in the order.
LEMMA Arrangement ==
  ASSUME NEW S, IsFiniteSet(S), NEW before, IsStrictOrder(before, S)
  PROVE  IsArrangement(Arranged(S, before), S, before)
<1> DEFINE Before(i) == before[i]
           rank == [i \in S |-> Cardinality(Before(i)) + 1]
           n == Cardinality(S)
           a == Arranged(S, before)
<1>1. n \in Nat /\ IsFiniteSet(1 .. n) /\ Cardinality(1 .. n) = n
  BY FS_CardinalityType, FS_Interval
<1>2. \A i \in S : IsFiniteSet(Before(i)) /\ Cardinality(Before(i)) \in 0 .. n - 1
  <2> SUFFICES ASSUME NEW i \in S
               PROVE  IsFiniteSet(Before(i)) /\ Cardinality(Before(i)) \in 0 .. n - 1
    OBVIOUS
  <2>1. Before(i) \in SUBSET S /\ Before(i) # S
    BY DEF IsStrictOrder
  <2> HIDE DEF Before
  <2>2. IsFiniteSet(Before(i)) /\ Cardinality(Before(i)) <= n /\ Cardinality(Before(i)) # n
    BY <2>1, FS_Subset
  <2>3. Cardinality(Before(i)) \in Nat
    BY <2>2, FS_CardinalityType
  <2> HIDE DEF n
  <2> QED
    BY <1>1, <2>2, <2>3
<1>3. \A i, j \in S : i \in before[j] => Cardinality(Before(i)) < Cardinality(Before(j))
  <2> SUFFICES ASSUME NEW i \in S, NEW j \in S, i \in before[j]
               PROVE  Cardinality(Before(i)) < Cardinality(Before(j))
    OBVIOUS
  <2>1. Before(i) \in SUBSET Before(j)
    BY DEF IsStrictOrder
  <2>2. i \in Before(j) /\ i \notin Before(i)
    BY DEF IsStrictOrder
  <2>3. Before(i) # Before(j)
    BY <2>2
  <2> HIDE DEF Before
  <2>4. /\ Cardinality(Before(i)) <= Cardinality(Before(j))
        /\ Cardinality(Before(i)) # Cardinality(Before(j))
    BY <1>2, <2>1, <2>3, FS_Subset
  <2>5. Cardinality(Before(i)) \in Int /\ Cardinality(Before(j)) \in Int
    BY <1>1, <1>2
  <2> QED
    BY <2>4, <2>5
<1> HIDE DEF Before
<1>4. \A i \in S : rank[i] \in 1 .. n /\ rank[i] = Cardinality(Before(i)) + 1
                   /\ rank[i] - 1 = Cardinality(Before(i))
  BY <1>1, <1>2
<1>5. \A i, j \in S : rank[i] < rank[j] <=> i \in before[j]
  <2> SUFFICES ASSUME NEW i \in S, NEW j \in S
               PROVE  rank[i] < rank[j] <=> i \in before[j]
    OBVIOUS
  <2>1. Cardinality(Before(i)) \in Int /\ Cardinality(Before(j)) \in Int
    BY <1>1, <1>2
  <2>2. \/ i \in before[j]
        \/ j \in before[i]
        \/ i = j /\ i \notin before[j]
    BY DEF IsStrictOrder
  <2>3. i \in before[j] => rank[i] < rank[j]
    BY <1>3, <2>1
  <2>4. j \in before[i] => rank[j] < rank[i]
    BY <1>3, <2>1
  <2>5. rank[i] \in Int /\ rank[j] \in Int
    BY <2>1
  <2> HIDE DEF rank
  <2> QED
    BY <2>2, <2>3, <2>4, <2>5
<1>6. rank \in [S -> 1 .. n]
  BY <1>4
<1> HIDE DEF rank
<1>7. \A i, j \in S : rank[i] = rank[j] => i = j
  <2> SUFFICES ASSUME NEW i \in S, NEW j \in S, i # j PROVE rank[i] # rank[j]
    OBVIOUS
  <2>1. rank[i] < rank[j] \/ rank[j] < rank[i]
    BY <1>5 DEF IsStrictOrder
  <2>2. rank[i] \in Int /\ rank[j] \in Int
    BY <1>1, <1>4
  <2> QED
    BY <2>1, <2>2
<1>8. rank \in Injection(S, 1 .. n)
  <2>1. DOMAIN rank = S
    BY <1>6
  <2> QED
    BY <1>6, <1>7, <2>1 DEF Injection, IsInjective
<1>9. \A m \in 1 .. n : \E i \in S : rank[i] = m
  <2>1. rank \in Surjection(S, 1 .. n)
    BY <1>1, <1>8, FS_Injection
  <2> QED
    BY <2>1 DEF Surjection
<1>10. \A m \in 1 .. n : a[m] \in S /\ rank[a[m]] = m
  <2> SUFFICES ASSUME NEW m \in 1 .. n PROVE a[m] \in S /\ rank[a[m]] = m
    OBVIOUS
  <2>0. \A i \in S : Cardinality(before[i]) = rank[i] - 1
    BY <1>4 DEF Before
  <2>1. a[m] = CHOOSE i \in S : Cardinality(before[i]) = m - 1
    BY DEF Arranged
  <2>2. PICK i \in S : rank[i] = m
    BY <1>9
  <2>3. \E i_1 \in S : Cardinality(before[i_1]) = m - 1
    BY <2>0, <2>2
  <2>4. a[m] \in S /\ Cardinality(before[a[m]]) = m - 1
    <3> HIDE DEF a
    <3> QED
      BY <2>1, <2>3, Zenon
  <2>5. rank[a[m]] - 1 = m - 1 /\ rank[a[m]] \in Int /\ m \in Int
    <3> HIDE DEF a, n
    <3> QED
      BY <1>1, <1>4, <2>0, <2>4
  <2> HIDE DEF a
  <2> QED
    BY <2>4, <2>5
<1>11. DOMAIN a = 1 .. n /\ a = [m \in 1 .. n |-> a[m]]
  BY DEF Arranged
<1> HIDE DEF a
<1>12. a \in [1 .. n -> S]
  BY <1>10, <1>11
<1>13. \A i, m \in 1 .. n : i < m => a[i] \in before[a[m]]
  BY <1>5, <1>10
<1>14. \A i \in S : \E m \in 1 .. n : a[m] = i
  BY <1>4, <1>7, <1>10
<1> QED
  BY <1>1, <1>12, <1>13, <1>14 DEF IsArrangement, a

\* Numbers have no gap: what is arranged by size is 1, 2, 3, ...
LEMMA ArrangedInPlace ==
  ASSUME NEW n \in Nat, NEW before \in [1 .. n -> SUBSET (1 .. n)],
         \A i, j \in 1 .. n : i \in before[j] <=> i < j
  PROVE  Arranged(1 .. n, before) = [i \in 1 .. n |-> i]
<1>1. Cardinality(1 .. n) = n
  BY FS_Interval
<1>2. \A i \in 1 .. n : Cardinality(before[i]) = i - 1
  <2> SUFFICES ASSUME NEW i \in 1 .. n
               PROVE  Cardinality(before[i]) = i - 1
    OBVIOUS
  <2>0. before[i] \subseteq 1 .. n
    OBVIOUS
  <2>1. before[i] = 1 .. i - 1
    <3>1. \A j \in before[i] : j \in 1 .. i - 1
      BY <2>0
    <3>2. \A j \in 1 .. i - 1 : j \in before[i]
      BY <2>0
    <3> QED
      BY <3>1, <3>2
  <2>2. Cardinality(1 .. i - 1) = i - 1
    BY FS_Interval
  <2> QED
    BY <2>1, <2>2
<1>3. \A m \in 1 .. n :
        (CHOOSE i \in 1 .. n : Cardinality(before[i]) = m - 1) = m
  <2> SUFFICES ASSUME NEW m \in 1 .. n
               PROVE  (CHOOSE i \in 1 .. n : Cardinality(before[i]) = m - 1) = m
    OBVIOUS
  <2> DEFINE Size(i) == Cardinality(before[i])
  <2>1. \A i \in 1 .. n : Size(i) = m - 1 <=> i = m
    BY <1>2
  <2> HIDE DEF Size
  <2>2. (CHOOSE i \in 1 .. n : Size(i) = m - 1) = m
    BY <2>1
  <2> QED
    BY <2>2 DEF Size
<1> QED
  BY <1>1, <1>3 DEF Arranged

\* A sequence t has the items of s at the positions in S, in their order.
IsSelection(t, s, S, place) ==
  /\ place \in [1 .. Len(t) -> S]
  /\ \A n \in 1 .. Len(t) : t[n] = s[place[n]]
  /\ \A m, n \in 1 .. Len(t) : m < n => place[m] < place[n]
  /\ \A i \in S : \E n \in 1 .. Len(t) : place[n] = i

\* AtPlaces takes the items at the given positions, in their order.
LEMMA AtPlacesSelects ==
  ASSUME NEW T, NEW s \in Seq(T), NEW S \in SUBSET (1 .. Len(s))
  PROVE  /\ AtPlaces(s, S) \in Seq(T)
         /\ \E place : IsSelection(AtPlaces(s, S), s, S, place)
<1> DEFINE before == [i \in S |-> {j \in S : j < i}]
           place == Arranged(S, before)
           t == AtPlaces(s, S)
<1>1. IsFiniteSet(S)
  <2>1. IsFiniteSet(1 .. Len(s))
    BY FS_Interval
  <2> QED
    BY <2>1, FS_Subset
<1>2. \A i \in S : i \in Int /\ i \in 1 .. Len(s)
  OBVIOUS
<1>3. IsStrictOrder(before, S)
  BY <1>2 DEF IsStrictOrder
<1>4. \A i, j \in S : i \in before[j] <=> i < j
  OBVIOUS
<1>5. IsArrangement(place, S, before)
  <2> HIDE DEF before
  <2> QED
    BY <1>1, <1>3, Arrangement
<1>6. t = [n \in 1 .. Cardinality(S) |-> s[place[n]]]
  BY DEF AtPlaces
<1> HIDE DEF before, place, t
<1>7. /\ Cardinality(S) \in Nat /\ place \in [1 .. Cardinality(S) -> S]
      /\ \A m, n \in 1 .. Cardinality(S) : m < n => place[m] < place[n]
      /\ \A i \in S : \E n \in 1 .. Cardinality(S) : place[n] = i
  BY <1>4, <1>5 DEF IsArrangement
<1>8. \A n \in 1 .. Cardinality(S) : s[place[n]] \in T
  <2>1. \A i \in S : s[i] \in T
    BY <1>2
  <2> QED
    BY <1>7, <2>1
<1>9. t \in [1 .. Cardinality(S) -> T]
  BY <1>6, <1>8
<1>10. t \in Seq(T) /\ Len(t) = Cardinality(S)
  BY <1>7, <1>9
<1>11. IsSelection(t, s, S, place)
  BY <1>6, <1>7, <1>10 DEF IsSelection
<1> QED
  BY <1>10, <1>11 DEF t

\* A sequence t lists the items of s, each once, in the order in which s first has them.
Lists(t, s) ==
  /\ \A i \in 1 .. Len(s) : \E n \in 1 .. Len(t) : t[n] = s[i]
  /\ \A n \in 1 .. Len(t) : \E i \in 1 .. Len(s) : s[i] = t[n]
  /\ \A m, n \in 1 .. Len(t) : m < n =>
       \E i \in 1 .. Len(s) : s[i] = t[m] /\ \A j \in 1 .. i : s[j] # t[n]

\* A dictionary lists its keys as they first came.
LEMMA FirstSeenLists ==
  ASSUME NEW T, NEW s \in Seq(T)
  PROVE  FirstSeen(s) \in Seq(T) /\ Lists(FirstSeen(s), s)
<1> DEFINE First == {i \in 1 .. Len(s) : \A j \in 1 .. i - 1 : s[j] # s[i]}
           t == FirstSeen(s)
<1>1. First \in SUBSET (1 .. Len(s)) /\ t = AtPlaces(s, First)
  BY DEF FirstSeen
<1>2. t \in Seq(T) /\ \E place : IsSelection(t, s, First, place)
  <2> HIDE DEF First, t
  <2> QED
    BY <1>1, AtPlacesSelects
<1>3. PICK place : IsSelection(t, s, First, place)
  BY <1>2
<1>4. \A i \in First : i \in 1 .. Len(s) /\ \A j \in 1 .. i - 1 : s[j] # s[i]
  OBVIOUS
<1>5. \A i \in 1 .. Len(s) : \E f \in First : s[f] = s[i]
  <2> SUFFICES ASSUME NEW i \in 1 .. Len(s) PROVE \E f \in First : s[f] = s[i]
    OBVIOUS
  <2> DEFINE Same == {j \in 1 .. Len(s) : s[j] = s[i]}
  <2>1. i \in Same /\ Same \subseteq Nat
    OBVIOUS
  <2>2. PICK f \in Same : \A j \in Same : f <= j
    <3> HIDE DEF Same
    <3> QED
      BY <2>1, LeastOf
  <2>3. f \in 1 .. Len(s) /\ s[f] = s[i]
    OBVIOUS
  <2>4. \A j \in 1 .. f - 1 : s[j] # s[f]
    <3> SUFFICES ASSUME NEW j \in 1 .. f - 1, s[j] = s[f] PROVE FALSE
      OBVIOUS
    <3>1. j \in 1 .. Len(s) /\ ~(f <= j)
      BY <2>3
    <3> QED
      BY <2>2, <2>3, <3>1
  <2> QED
    BY <2>3, <2>4
<1> HIDE DEF First, t
<1>6. \A i \in 1 .. Len(s) : \E n \in 1 .. Len(t) : t[n] = s[i]
  BY <1>3, <1>5 DEF IsSelection
<1>7. \A n \in 1 .. Len(t) : \E i \in 1 .. Len(s) : s[i] = t[n]
  BY <1>3, <1>4 DEF IsSelection
<1>8. ASSUME NEW m \in 1 .. Len(t), NEW n \in 1 .. Len(t), m < n
      PROVE  \E i \in 1 .. Len(s) : s[i] = t[m] /\ \A j \in 1 .. i : s[j] # t[n]
  <2>1. /\ place[m] \in First /\ place[n] \in First /\ place[m] < place[n]
        /\ t[m] = s[place[m]] /\ t[n] = s[place[n]]
    BY <1>3, <1>8 DEF IsSelection
  <2>2. place[m] \in 1 .. Len(s) /\ place[n] \in 1 .. Len(s)
    BY <1>4, <2>1
  <2>3. \A j \in 1 .. place[m] : j \in 1 .. place[n] - 1
    BY <2>1, <2>2
  <2>4. \A j \in 1 .. place[m] : s[j] # t[n]
    BY <1>4, <2>1, <2>3
  <2> QED
    BY <2>1, <2>2, <2>4
<1> QED
  BY <1>2, <1>6, <1>7, <1>8 DEF Lists, t

\* A sequence t is s, the best first, equals in their order.
IsSorting(t, s, score, place) ==
  /\ place \in [1 .. Len(s) -> 1 .. Len(s)]
  /\ \A n \in 1 .. Len(s) : t[n] = s[place[n]]
  /\ \A m, n \in 1 .. Len(s) : m < n =>
       \/ score[place[m]] > score[place[n]]
       \/ score[place[m]] = score[place[n]] /\ place[m] < place[n]
  /\ \A i \in 1 .. Len(s) : \E n \in 1 .. Len(s) : place[n] = i

\* sorted(..., reverse=True): what it returns is sorted and stable, and what is in
\* order already stays as it is.
LEMMA SortedBySorts ==
  ASSUME NEW T, NEW s \in Seq(T), NEW score \in [1 .. Len(s) -> Int]
  PROVE  /\ SortedBy(s, score) \in Seq(T) /\ Len(SortedBy(s, score)) = Len(s)
         /\ \E place : IsSorting(SortedBy(s, score), s, score, place)
         /\ (\A i, j \in 1 .. Len(s) : i < j => score[i] >= score[j]) => SortedBy(s, score) = s
<1> DEFINE P == 1 .. Len(s)
           better == [i \in P |-> {j \in P : score[j] > score[i] \/ (score[j] = score[i] /\ j < i)}]
           place == Arranged(P, better)
           t == SortedBy(s, score)
<1>1. Len(s) \in Nat
  OBVIOUS
<1>2. IsFiniteSet(P) /\ Cardinality(P) = Len(s)
  <2> DEFINE n == Len(s)
  <2>1. n \in Nat
    BY <1>1
  <2> HIDE DEF n
  <2>2. IsFiniteSet(1 .. n) /\ Cardinality(1 .. n) = n
    BY <2>1, FS_Interval
  <2> QED
    BY <2>2 DEF n
<1>3. t = [n \in P |-> s[place[n]]]
  BY DEF SortedBy
<1>4. \A i, j \in P : j \in better[i] <=> (score[j] > score[i] \/ (score[j] = score[i] /\ j < i))
  OBVIOUS
<1>5. better \in [P -> SUBSET P]
  OBVIOUS
<1>6. \A i \in P : score[i] \in Int /\ i \in Int
  OBVIOUS
<1> HIDE DEF P, better, place, t
<1>7. IsStrictOrder(better, P)
  <2>1. \A i \in P : i \notin better[i]
    BY <1>4, <1>6
  <2>2. ASSUME NEW i \in P, NEW j \in P, i # j PROVE i \in better[j] \/ j \in better[i]
    <3>1. /\ score[i] \in Int /\ score[j] \in Int /\ i \in Int /\ j \in Int
      BY <1>6
    <3>2. \/ score[i] > score[j] \/ (score[i] = score[j] /\ i < j)
          \/ score[j] > score[i] \/ (score[j] = score[i] /\ j < i)
      BY <2>2, <3>1
    <3> QED
      BY <1>4, <3>2
  <2>3. ASSUME NEW i \in P, NEW j \in P, NEW k \in P, i \in better[j], j \in better[k]
        PROVE  i \in better[k]
    <3>1. /\ score[i] \in Int /\ score[j] \in Int /\ score[k] \in Int
          /\ i \in Int /\ j \in Int /\ k \in Int
      BY <1>6
    <3>2. /\ score[i] > score[j] \/ (score[i] = score[j] /\ i < j)
          /\ score[j] > score[k] \/ (score[j] = score[k] /\ j < k)
      BY <1>4, <2>3
    <3>3. score[i] > score[k] \/ (score[i] = score[k] /\ i < k)
      BY <3>1, <3>2
    <3> QED
      BY <1>4, <3>3
  <2> QED
    BY <1>5, <2>1, <2>2, <2>3 DEF IsStrictOrder
<1>8. IsArrangement(place, P, better)
  BY <1>2, <1>7, Arrangement DEF place
<1>9. /\ place \in [P -> P]
      /\ \A m, n \in P : m < n => place[m] \in better[place[n]]
      /\ \A i \in P : \E n \in P : place[n] = i
  BY <1>2, <1>8 DEF IsArrangement, P
<1>10. \A m, n \in P : m < n =>
         \/ score[place[m]] > score[place[n]]
         \/ score[place[m]] = score[place[n]] /\ place[m] < place[n]
  <2> SUFFICES ASSUME NEW m \in P, NEW n \in P, m < n
               PROVE  \/ score[place[m]] > score[place[n]]
                      \/ score[place[m]] = score[place[n]] /\ place[m] < place[n]
    OBVIOUS
  <2>1. place[m] \in P /\ place[n] \in P /\ place[m] \in better[place[n]]
    BY <1>9
  <2> QED
    BY <1>4, <1>6, <2>1
<1>11. t \in [1 .. Len(s) -> T]
  <2>1. \A i \in P : s[i] \in T
    BY DEF P
  <2>2. \A n \in P : s[place[n]] \in T
    BY <1>9, <2>1
  <2> QED
    BY <1>3, <2>2 DEF P
<1>12. t \in Seq(T) /\ Len(t) = Len(s)
  BY <1>1, <1>11
<1>13. IsSorting(t, s, score, place)
  BY <1>3, <1>9, <1>10 DEF IsSorting, P
<1>14. ASSUME \A i, j \in P : i < j => score[i] >= score[j]
       PROVE  t = s
  <2>1. \A i, j \in P : i \in better[j] <=> i < j
    <3> SUFFICES ASSUME NEW i \in P, NEW j \in P PROVE i \in better[j] <=> i < j
      OBVIOUS
    <3>1. (i < j => score[i] >= score[j]) /\ (j < i => score[j] >= score[i])
      BY <1>14
    <3> QED
      BY <1>4, <1>6, <3>1
  <2>2. place = [i \in 1 .. Len(s) |-> i]
    BY <1>1, <1>5, <2>1, ArrangedInPlace DEF place, P
  <2>3. \A n \in 1 .. Len(s) : t[n] = s[n]
    BY <1>3, <2>2 DEF P
  <2> QED
    BY <1>12, <2>3
<1> QED
  BY <1>12, <1>13, <1>14 DEF P, t

-----------------------------------------------------------------------------
(* The scores.                                                             *)

\* What is defined by counting up from a base has its type.
LEMMA CountedType ==
  ASSUME NEW Val, NEW n \in Nat, NEW C, C[0] \in Val,
         \A r \in 1 .. n : C[r - 1] \in Val => C[r] \in Val
  PROVE  \A r \in 0 .. n : C[r] \in Val
<1> DEFINE Good == {r \in 0 .. n : C[r] \in Val}
<1>1. 0 \in Good
  OBVIOUS
<1>2. \A m \in 0 .. n - 1 : m \in Good => m + 1 \in Good
  <2> SUFFICES ASSUME NEW m \in 0 .. n - 1, m \in Good PROVE m + 1 \in Good
    OBVIOUS
  <2>1. m + 1 \in 1 .. n /\ (m + 1) - 1 = m /\ C[m] \in Val
    OBVIOUS
  <2>2. C[m + 1] \in Val
    BY <2>1
  <2> QED
    BY <2>1, <2>2
<1>3. 0 .. n \subseteq Good
  <2> HIDE DEF Good
  <2> QED
    BY <1>1, <1>2, InductTo
<1> QED
  BY <1>3

\* The less of two numbers.
LEMMA MinOfTwo ==
  ASSUME NEW m \in Int, NEW n \in Int
  PROVE  Min({m, n}) = IF m <= n THEN m ELSE n
<1> DEFINE least == IF m <= n THEN m ELSE n
<1>1. least \in {m, n} /\ \A y \in {m, n} : least <= y
  OBVIOUS
<1>2. \A x \in {m, n} : (\A y \in {m, n} : x <= y) => x = least
  OBVIOUS
<1> HIDE DEF least
<1>3. Min({m, n}) = least
  BY <1>1, <1>2 DEF Min
<1> QED
  BY <1>3 DEF least

\* The same for the greater.
LEMMA MaxOfTwo ==
  ASSUME NEW m \in Int, NEW n \in Int
  PROVE  Max({m, n}) = IF m >= n THEN m ELSE n
<1> DEFINE most == IF m >= n THEN m ELSE n
<1>1. most \in {m, n} /\ \A y \in {m, n} : most >= y
  OBVIOUS
<1>2. \A x \in {m, n} : (\A y \in {m, n} : x >= y) => x = most
  OBVIOUS
<1> HIDE DEF most
<1>3. Max({m, n}) = most
  BY <1>1, <1>2 DEF Max
<1> QED
  BY <1>3 DEF most

\* Products are natural numbers; the solver needs to be told.
LEMMA TimesNat ==
  /\ \A i, j \in Nat : i * j \in Nat
  /\ \A i, j \in Nat \ {0} : i * j \in Nat \ {0}
  OBVIOUS

\* The common denominator of the scores, 1/(k + rank), is not zero.
LEMMA DenominatorType == Denominator \in Nat \ {0}
<1> DEFINE ranks == Min({Max({2 * Limit, TopK}), Cardinality(Points)})
           step == [p \in (1 .. ranks) \X Nat |-> (K + p[1]) * p[2]]
           Body(G) == [n \in 0 .. ranks |-> IF n = 0 THEN 1 ELSE (K + n) * G[n - 1]]
           C == CHOOSE G : G = Body(G)
<1>1. ranks \in Nat
  <2>1. Cardinality(Points) \in Nat
    BY PointsAssumption, FS_CardinalityType
  <2>2. 2 * Limit \in Nat /\ TopK \in Nat
    BY NumbersAssumption
  <2>3. Max({2 * Limit, TopK}) \in Nat
    BY <2>2, MaxOfTwo
  <2> QED
    BY <2>1, <2>3, MinOfTwo
<1>2. Denominator = C[ranks]
  BY DEF Denominator
<1> HIDE DEF ranks
<1>3. step \in [(1 .. ranks) \X Nat -> Nat]
  <2> SUFFICES ASSUME NEW p \in (1 .. ranks) \X Nat PROVE (K + p[1]) * p[2] \in Nat
    OBVIOUS
  <2>1. K + p[1] \in Nat /\ p[2] \in Nat
    BY <1>1, NumbersAssumption
  <2> QED
    BY <2>1, TimesNat
<1>4. PICK F \in [0 .. ranks -> Nat] : CountsUp(F, ranks, 1, step)
  <2> HIDE DEF step
  <2>1. 1 \in Nat
    OBVIOUS
  <2> QED
    BY <1>1, <1>3, <2>1, CountingUp
<1>5. F[0] = 1 /\ \A n \in 1 .. ranks : F[n] = (K + n) * F[n - 1]
  <2>1. F[0] = 1 /\ \A n \in 1 .. ranks : F[n] = step[<<n, F[n - 1]>>]
    BY <1>4 DEF CountsUp
  <2>2. \A n \in 1 .. ranks : <<n, F[n - 1]>> \in (1 .. ranks) \X Nat
    BY <1>1
  <2> QED
    BY <2>1, <2>2
<1>6. F = Body(F)
  <2>1. \A n \in 0 .. ranks : F[n] = IF n = 0 THEN 1 ELSE (K + n) * F[n - 1]
    BY <1>1, <1>5
  <2> QED
    BY <2>1
<1>7. C = Body(C)
  <2> HIDE DEF Body
  <2> QED
    BY <1>6
<1> HIDE DEF C
<1>8. C[0] = 1 /\ \A n \in 1 .. ranks : C[n] = (K + n) * C[n - 1]
  <2>1. 0 \in 0 .. ranks /\ \A n \in 1 .. ranks : n \in 0 .. ranks /\ n # 0
    BY <1>1
  <2> QED
    BY <1>7, <2>1
<1>9. \A n \in 0 .. ranks : C[n] \in Nat \ {0}
  <2>1. C[0] \in Nat \ {0}
    BY <1>8
  <2>2. \A n \in 1 .. ranks : C[n - 1] \in Nat \ {0} => C[n] \in Nat \ {0}
    <3> SUFFICES ASSUME NEW n \in 1 .. ranks, C[n - 1] \in Nat \ {0} PROVE C[n] \in Nat \ {0}
      OBVIOUS
    <3>1. K + n \in Nat \ {0} /\ C[n] = (K + n) * C[n - 1]
      BY <1>1, <1>8, NumbersAssumption
    <3> QED
      BY <3>1, TimesNat
  <2> QED
    BY <1>1, <2>1, <2>2, CountedType
<1> QED
  BY <1>1, <1>2, <1>9

\* What a rank adds to a score is a number.
LEMMA WeightType == ASSUME NEW r \in Nat \ {0} PROVE Weight(r) \in Nat
<1>1. Denominator \in Nat /\ K + r \in Nat \ {0}
  BY DenominatorType, NumbersAssumption
<1> QED
  BY <1>1 DEF Weight

\* How the scores grow from rank to rank.
Adds(F, list, scores) ==
  /\ F[0] = scores
  /\ \A r \in 1 .. Len(list) :
       F[r] = [F[r - 1] EXCEPT ![KeyOf[list[r]]] = F[r - 1][KeyOf[list[r]]] + Weight(r)]

\* The loop over a list of _reciprocal_rank_fusion, rank by rank.
LEMMA AddRanksIsDefined ==
  ASSUME NEW list \in Seq(Points), NEW scores \in [Keys -> Nat]
  PROVE  \E F \in [0 .. Len(list) -> [Keys -> Nat]] :
           AddRanks(list, scores) = F[Len(list)] /\ Adds(F, list, scores)
<1> DEFINE n == Len(list)
           Val == [Keys -> Nat]
           Next_(r, v) == [v EXCEPT ![KeyOf[list[r]]] = v[KeyOf[list[r]]] + Weight(r)]
           step == [p \in (1 .. n) \X Val |-> Next_(p[1], p[2])]
           Body(G) == [r \in 0 .. n |-> IF r = 0 THEN scores ELSE Next_(r, G[r - 1])]
           C == CHOOSE G : G = Body(G)
<1>1. n \in Nat
  OBVIOUS
<1>2. \A r \in 1 .. n : KeyOf[list[r]] \in Keys /\ Weight(r) \in Nat
  <2>1. \A r \in 1 .. n : list[r] \in Points /\ r \in Nat \ {0}
    BY <1>1
  <2> QED
    BY <2>1, PointsAssumption, WeightType
<1>3. \A r \in 1 .. n, v \in Val : Next_(r, v) \in Val
  <2> HIDE DEF n
  <2> SUFFICES ASSUME NEW r \in 1 .. n, NEW v \in Val PROVE Next_(r, v) \in Val
    OBVIOUS
  <2>1. v[KeyOf[list[r]]] + Weight(r) \in Nat
    BY <1>2
  <2> QED
    BY <2>1
<1>4. AddRanks(list, scores) = C[n]
  BY DEF AddRanks
<1> HIDE DEF n, Val, Next_
<1>5. step \in [(1 .. n) \X Val -> Val]
  BY <1>3
<1>6. PICK F \in [0 .. n -> Val] : CountsUp(F, n, scores, step)
  <2> HIDE DEF step
  <2>1. scores \in Val
    BY DEF Val
  <2> QED
    BY <1>1, <1>5, <2>1, CountingUp
<1>7. F = Body(F)
  <2>1. F[0] = scores /\ \A r \in 1 .. n : F[r] = step[<<r, F[r - 1]>>]
    BY <1>6 DEF CountsUp
  <2>2. \A r \in 1 .. n : <<r, F[r - 1]>> \in (1 .. n) \X Val
    BY <1>1
  <2>3. \A r \in 1 .. n : step[<<r, F[r - 1]>>] = Next_(r, F[r - 1])
    BY <2>2
  <2> HIDE DEF step
  <2>4. \A r \in 0 .. n : r # 0 => r \in 1 .. n
    BY <1>1
  <2>5. \A r \in 0 .. n : F[r] = IF r = 0 THEN scores ELSE Next_(r, F[r - 1])
    BY <2>1, <2>3, <2>4
  <2> QED
    BY <2>5
<1>8. C = Body(C)
  <2> HIDE DEF Body
  <2> QED
    BY <1>7
<1> HIDE DEF C
<1>9. C[0] = scores /\ \A r \in 1 .. n : C[r] = Next_(r, C[r - 1])
  <2>1. 0 \in 0 .. n /\ \A r \in 1 .. n : r \in 0 .. n /\ r # 0
    BY <1>1
  <2> QED
    BY <1>8, <2>1
<1>10. \A r \in 0 .. n : C[r] \in Val
  <2>1. C[0] \in Val
    BY <1>9 DEF Val
  <2>2. \A r \in 1 .. n : C[r - 1] \in Val => C[r] \in Val
    BY <1>3, <1>9
  <2> QED
    BY <1>1, <2>1, <2>2, CountedType
<1>11. C \in [0 .. n -> Val]
  BY <1>8, <1>10
<1> QED
  BY <1>4, <1>9, <1>11 DEF Adds, n, Val, Next_

\* How the formula grows from rank to rank.
Sums(F, list, k) ==
  /\ F[0] = 0
  /\ \A r \in 1 .. Len(list) :
       F[r] = F[r - 1] + (IF r \in RanksIn(list, k) THEN Weight(r) ELSE 0)

\* The formula for a list, rank by rank.
LEMMA SumOfRanksIsDefined ==
  ASSUME NEW list \in Seq(Points), NEW k \in Keys
  PROVE  \E F \in [0 .. Len(list) -> Nat] : SumOfRanks(list, k) = F[Len(list)] /\ Sums(F, list, k)
<1> DEFINE n == Len(list)
           Part(r) == IF r \in RanksIn(list, k) THEN Weight(r) ELSE 0
           step == [p \in (1 .. n) \X Nat |-> p[2] + Part(p[1])]
           Body(G) == [r \in 0 .. n |-> IF r = 0 THEN 0 ELSE G[r - 1] + Part(r)]
           C == CHOOSE G : G = Body(G)
<1>1. n \in Nat
  OBVIOUS
<1>2. \A r \in 1 .. n : Part(r) \in Nat
  BY <1>1, WeightType
<1>3. SumOfRanks(list, k) = C[n]
  BY DEF SumOfRanks
<1> HIDE DEF n, Part
<1>4. step \in [(1 .. n) \X Nat -> Nat]
  BY <1>2
<1>5. PICK F \in [0 .. n -> Nat] : CountsUp(F, n, 0, step)
  <2> HIDE DEF step
  <2>1. 0 \in Nat
    OBVIOUS
  <2> QED
    BY <1>1, <1>4, <2>1, CountingUp
<1>6. F = Body(F)
  <2>1. F[0] = 0 /\ \A r \in 1 .. n : F[r] = step[<<r, F[r - 1]>>]
    BY <1>5 DEF CountsUp
  <2>2. \A r \in 1 .. n : <<r, F[r - 1]>> \in (1 .. n) \X Nat
    BY <1>1
  <2>3. \A r \in 1 .. n : step[<<r, F[r - 1]>>] = F[r - 1] + Part(r)
    BY <2>2
  <2> HIDE DEF step
  <2>4. \A r \in 0 .. n : r # 0 => r \in 1 .. n
    BY <1>1
  <2>5. \A r \in 0 .. n : F[r] = IF r = 0 THEN 0 ELSE F[r - 1] + Part(r)
    BY <2>1, <2>3, <2>4
  <2> QED
    BY <2>5
<1>7. C = Body(C)
  <2> HIDE DEF Body
  <2> QED
    BY <1>6
<1> HIDE DEF C
<1>8. C[0] = 0 /\ \A r \in 1 .. n : C[r] = C[r - 1] + Part(r)
  <2>1. 0 \in 0 .. n /\ \A r \in 1 .. n : r \in 0 .. n /\ r # 0
    BY <1>1
  <2> QED
    BY <1>7, <2>1
<1>9. \A r \in 0 .. n : C[r] \in Nat
  <2>1. C[0] \in Nat
    BY <1>8
  <2>2. \A r \in 1 .. n : C[r - 1] \in Nat => C[r] \in Nat
    BY <1>2, <1>8
  <2> QED
    BY <1>1, <2>1, <2>2, CountedType
<1>10. C \in [0 .. n -> Nat]
  BY <1>7, <1>9
<1> QED
  BY <1>3, <1>8, <1>10 DEF Sums, n, Part

\* What a list adds to the score of a key is the formula's sum.
LEMMA AddRanksAdds ==
  ASSUME NEW list \in Seq(Points), NEW scores \in [Keys -> Nat]
  PROVE  /\ AddRanks(list, scores) \in [Keys -> Nat]
         /\ \A k \in Keys : /\ SumOfRanks(list, k) \in Nat
                            /\ AddRanks(list, scores)[k] = scores[k] + SumOfRanks(list, k)
<1> DEFINE n == Len(list)
<1>1. n \in Nat
  OBVIOUS
<1>2. PICK A \in [0 .. n -> [Keys -> Nat]] : AddRanks(list, scores) = A[n] /\ Adds(A, list, scores)
  BY AddRanksIsDefined
<1>3. ASSUME NEW k \in Keys
      PROVE  /\ SumOfRanks(list, k) \in Nat
             /\ AddRanks(list, scores)[k] = scores[k] + SumOfRanks(list, k)
  <2>1. PICK S \in [0 .. n -> Nat] : SumOfRanks(list, k) = S[n] /\ Sums(S, list, k)
    BY SumOfRanksIsDefined
  <2> DEFINE Good == {r \in 0 .. n : A[r][k] = scores[k] + S[r]}
  <2>2. 0 \in Good
    BY <1>1, <1>2, <2>1 DEF Adds, Sums
  <2>3. \A m \in 0 .. n - 1 : m \in Good => m + 1 \in Good
    <3> SUFFICES ASSUME NEW m \in 0 .. n - 1, m \in Good PROVE m + 1 \in Good
      OBVIOUS
    <3> DEFINE r == m + 1
               key == KeyOf[list[r]]
    <3>1. r \in 1 .. n /\ r - 1 = m /\ r \in Nat \ {0} /\ m \in 0 .. n /\ r \in 0 .. n
      BY <1>1
    <3>2. Weight(r) \in Nat
      BY <3>1, WeightType
    <3>3. A[m] \in [Keys -> Nat] /\ S[m] \in Nat /\ A[m][k] = scores[k] + S[m]
      BY <3>1
    <3>4. A[r] = [A[m] EXCEPT ![key] = A[m][key] + Weight(r)]
      BY <1>2, <3>1 DEF Adds
    <3>5. S[r] = S[m] + (IF key = k THEN Weight(r) ELSE 0)
      <4>1. r \in RanksIn(list, k) <=> key = k
        BY <3>1 DEF RanksIn
      <4>2. S[r] = S[m] + (IF r \in RanksIn(list, k) THEN Weight(r) ELSE 0)
        BY <2>1, <3>1 DEF Sums
      <4> QED
        BY <4>1, <4>2
    <3> HIDE DEF r, key, Good, n
    <3>6. A[r][k] = IF key = k THEN A[m][k] + Weight(r) ELSE A[m][k]
      BY <3>3, <3>4
    <3>7. scores[k] \in Nat
      OBVIOUS
    <3>8. A[r][k] = scores[k] + S[r]
      BY <3>2, <3>3, <3>5, <3>6, <3>7
    <3> QED
      BY <3>1, <3>8 DEF Good, r
  <2>4. 0 .. n \subseteq Good
    <3> HIDE DEF Good, n
    <3> QED
      BY <1>1, <2>2, <2>3, InductTo
  <2>5. n \in Good
    <3>1. n \in 0 .. n
      BY <1>1
    <3> HIDE DEF Good, n
    <3> QED
      BY <2>4, <3>1
  <2> QED
    BY <1>1, <1>2, <2>1, <2>5
<1>4. A[n] \in [Keys -> Nat]
  BY <1>1
<1> QED
  BY <1>2, <1>3, <1>4

-----------------------------------------------------------------------------
(* What fusion returns.                                                    *)

\* The members of a set that a sequence lists once each.
LEMMA CountedBy ==
  ASSUME NEW n \in Nat, NEW T, NEW f, DOMAIN f = 1 .. n,
         \A i \in 1 .. n : f[i] \in T,
         \A i, j \in 1 .. n : i < j => f[i] # f[j],
         \A t \in T : \E i \in 1 .. n : f[i] = t
  PROVE  IsFiniteSet(T) /\ Cardinality(T) = n
<1> DEFINE g == [i \in 1 .. n |-> f[i]]
<1>1. g \in [1 .. n -> T]
  OBVIOUS
<1>2. \A i, j \in 1 .. n : g[i] = g[j] => i = j
  <2> SUFFICES ASSUME NEW i \in 1 .. n, NEW j \in 1 .. n, i # j PROVE g[i] # g[j]
    OBVIOUS
  <2>1. i < j \/ j < i
    OBVIOUS
  <2> QED
    BY <2>1
<1>3. \A t \in T : \E i \in 1 .. n : g[i] = t
  OBVIOUS
<1> HIDE DEF g
<1>4. g \in Bijection(1 .. n, T)
  <2>1. DOMAIN g = 1 .. n
    BY <1>1
  <2> QED
    BY <1>1, <1>2, <1>3, <2>1 DEF Bijection, Injection, Surjection, IsInjective
<1>5. ExistsBijection(1 .. n, T)
  BY <1>4 DEF ExistsBijection
<1>6. IsFiniteSet(1 .. n) /\ Cardinality(1 .. n) = n
  BY FS_Interval
<1> QED
  BY <1>5, <1>6, FS_Bijection

\* The scores are those of the formula.
LEMMA ScoresAreSums ==
  ASSUME vector \in Seq(Points), fts \in Seq(Points)
  PROVE  Scores \in [Keys -> Nat] /\ \A k \in Keys : Scores[k] = ReferenceScore(k)
<1> DEFINE none == [k \in Keys |-> 0]
           some == AddRanks(vector, none)
<1>1. none \in [Keys -> Nat] /\ \A k \in Keys : none[k] = 0
  OBVIOUS
<1> HIDE DEF none
<1>2. some \in [Keys -> Nat]
      /\ \A k \in Keys : SumOfRanks(vector, k) \in Nat /\ some[k] = none[k] + SumOfRanks(vector, k)
  BY <1>1, AddRanksAdds
<1> HIDE DEF some
<1>3. AddRanks(fts, some) \in [Keys -> Nat]
      /\ \A k \in Keys : /\ SumOfRanks(fts, k) \in Nat
                         /\ AddRanks(fts, some)[k] = some[k] + SumOfRanks(fts, k)
  BY <1>2, AddRanksAdds
<1>4. Scores = AddRanks(fts, some)
  BY DEF Scores, some, none
<1>5. \A k \in Keys : Scores[k] = ReferenceScore(k)
  BY <1>1, <1>2, <1>3, <1>4 DEF ReferenceScore
<1> QED
  BY <1>3, <1>4, <1>5

\* The keys of what the two searches found.
Seen == {KeyOf[p] : p \in ToSet(vector) \cup ToSet(fts)}

\* The keys that are sorted are those of the two lists, each once.
LEMMA KeysSeenOnce ==
  ASSUME vector \in Seq(Points), fts \in Seq(Points)
  PROVE  /\ KeysSeen \in Seq(Keys)
         /\ \A i \in 1 .. Len(KeysSeen) : KeysSeen[i] \in Seen
         /\ \A k \in Seen : \E i \in 1 .. Len(KeysSeen) : KeysSeen[i] = k
         /\ \A i, j \in 1 .. Len(KeysSeen) : i < j => KeysSeen[i] # KeysSeen[j]
<1> DEFINE n == Len(Found)
           s == [i \in 1 .. n |-> KeyOf[Found[i]]]
           v == Len(vector)
           f == Len(fts)
<1>1. /\ Found \in Seq(Points) /\ n = v + f /\ v \in Nat /\ f \in Nat
      /\ \A p \in 1 .. v : Found[p] = vector[p]
      /\ \A p \in 1 .. f : Found[v + p] = fts[p]
  BY Concat DEF Found
<1>2. \A i \in 1 .. n : s[i] = KeyOf[Found[i]] /\ Found[i] \in Points
  BY <1>1
<1>3. s \in Seq(Keys) /\ Len(s) = n
  <2>1. \A i \in 1 .. n : KeyOf[Found[i]] \in Keys
    BY <1>2, PointsAssumption
  <2>2. n \in Nat
    BY <1>1
  <2> QED
    BY <2>1, <2>2
<1>4. ToSet(vector) = {vector[i] : i \in 1 .. v} /\ ToSet(fts) = {fts[i] : i \in 1 .. f}
  BY DEF ToSet
<1> HIDE DEF n, s, v, f
<1>5. \A i \in 1 .. n : s[i] \in Seen
  <2> SUFFICES ASSUME NEW i \in 1 .. n PROVE s[i] \in Seen
    OBVIOUS
  <2>1. CASE i \in 1 .. v
    BY <1>1, <1>2, <1>4, <2>1 DEF Seen
  <2>2. CASE i \notin 1 .. v
    <3>1. i - v \in 1 .. f /\ v + (i - v) = i
      BY <1>1, <2>2
    <3>2. Found[i] = fts[i - v]
      BY <1>1, <3>1
    <3> QED
      BY <1>2, <1>4, <3>1, <3>2 DEF Seen
  <2> QED
    BY <2>1, <2>2
<1>6. \A k \in Seen : \E i \in 1 .. n : s[i] = k
  <2> SUFFICES ASSUME NEW k \in Seen PROVE \E i \in 1 .. n : s[i] = k
    OBVIOUS
  <2>1. PICK p \in ToSet(vector) \cup ToSet(fts) : k = KeyOf[p]
    BY DEF Seen
  <2>2. CASE p \in ToSet(vector)
    <3>1. PICK i \in 1 .. v : p = vector[i]
      BY <1>4, <2>2
    <3>2. i \in 1 .. n /\ Found[i] = p
      BY <1>1, <3>1
    <3> QED
      BY <1>2, <2>1, <3>2
  <2>3. CASE p \in ToSet(fts)
    <3>1. PICK i \in 1 .. f : p = fts[i]
      BY <1>4, <2>3
    <3>2. v + i \in 1 .. n /\ Found[v + i] = p
      BY <1>1, <3>1
    <3> QED
      BY <1>2, <2>1, <3>2
  <2> QED
    BY <2>1, <2>2, <2>3
<1>7. KeysSeen = FirstSeen(s)
  BY DEF KeysSeen, s, n
<1>8. KeysSeen \in Seq(Keys) /\ Lists(KeysSeen, s)
  BY <1>3, <1>7, FirstSeenLists
<1> DEFINE m == Len(KeysSeen)
<1> HIDE DEF m
<1>9. \A i \in 1 .. m : KeysSeen[i] \in Seen
  BY <1>3, <1>5, <1>8 DEF Lists, m
<1>10. \A k \in Seen : \E i \in 1 .. m : KeysSeen[i] = k
  <2> SUFFICES ASSUME NEW k \in Seen PROVE \E i \in 1 .. m : KeysSeen[i] = k
    OBVIOUS
  <2>1. PICK p \in 1 .. Len(s) : s[p] = k
    BY <1>3, <1>6
  <2>2. \E i \in 1 .. m : KeysSeen[i] = s[p]
    BY <1>8 DEF Lists, m
  <2> QED
    BY <2>1, <2>2
<1>11. \A i, j \in 1 .. m : i < j => KeysSeen[i] # KeysSeen[j]
  <2> SUFFICES ASSUME NEW i \in 1 .. m, NEW j \in 1 .. m, i < j PROVE KeysSeen[i] # KeysSeen[j]
    OBVIOUS
  <2>1. PICK p \in 1 .. Len(s) : s[p] = KeysSeen[i] /\ \A q \in 1 .. p : s[q] # KeysSeen[j]
    BY <1>8 DEF Lists, m
  <2>2. p \in 1 .. p
    OBVIOUS
  <2> QED
    BY <2>1, <2>2
<1> QED
  BY <1>8, <1>9, <1>10, <1>11 DEF m

\* What fusion returns: the best of the keys, each once, as many as the limit allows.
IsTop(keys, limit) ==
  /\ keys \in Seq(Keys)
  /\ IsFiniteSet(Seen) /\ Len(keys) = Min({limit, Cardinality(Seen)})
  /\ \A i \in 1 .. Len(keys) : keys[i] \in Seen
  /\ \A i, j \in 1 .. Len(keys) : i < j =>
       keys[i] # keys[j] /\ Scores[keys[i]] >= Scores[keys[j]]
  /\ \A l \in Seen : \/ \E j \in 1 .. Len(keys) : keys[j] = l
                     \/ \A i \in 1 .. Len(keys) : Scores[keys[i]] >= Scores[l]

\* Sorting the keys by their scores and then cutting the list leaves the best of them.
LEMMA FusedKeysAreTop ==
  ASSUME vector \in Seq(Points), fts \in Seq(Points)
  PROVE  IsTop(FusedKeys, FusedLimit)
<1> DEFINE s == KeysSeen
           n == Len(s)
           score == [i \in 1 .. n |-> Scores[s[i]]]
           t == SortedBy(s, score)
           limit == FusedLimit
           c == Min({limit, n})
           keys == FusedKeys
<1>1. /\ s \in Seq(Keys)
      /\ \A i \in 1 .. n : s[i] \in Seen
      /\ \A k \in Seen : \E i \in 1 .. n : s[i] = k
      /\ \A i, j \in 1 .. n : i < j => s[i] # s[j]
  BY KeysSeenOnce
<1>2. n \in Nat /\ DOMAIN s = 1 .. n /\ \A i \in 1 .. n : s[i] \in Keys
  BY <1>1
<1>3. \A k \in Keys : Scores[k] \in Nat
  BY ScoresAreSums
<1>4. t = ByScore(s)
  BY DEF ByScore
<1>5. score \in [1 .. n -> Int] /\ \A i \in 1 .. n : score[i] = Scores[s[i]]
  BY <1>2, <1>3
<1>6. limit \in Nat
  BY NumbersAssumption DEF FusedLimit
<1>7. keys = [i \in 1 .. Min({limit, Len(t)}) |-> t[i]]
  BY <1>4 DEF FusedKeys, FirstItems
<1> HIDE DEF s, score, t, limit, keys
<1>8. /\ t \in Seq(Keys) /\ Len(t) = n
      /\ \E place : IsSorting(t, s, score, place)
  BY <1>1, <1>5, SortedBySorts DEF t
<1> HIDE DEF n
<1>9. PICK place : IsSorting(t, s, score, place)
  BY <1>8
<1>10. IsFiniteSet(Seen) /\ Cardinality(Seen) = n
  BY <1>1, <1>2, CountedBy
<1>11. c \in Nat /\ c <= n /\ c <= limit
  BY <1>2, <1>6, MinOfTwo
<1>12. \A i \in 1 .. c : i \in 1 .. n
  BY <1>2, <1>11
<1>13. keys = [i \in 1 .. c |-> t[i]]
  BY <1>7, <1>8
<1> HIDE DEF c
<1>14. /\ place \in [1 .. n -> 1 .. n] /\ \A i \in 1 .. n : t[i] = s[place[i]]
       /\ \A i, j \in 1 .. n : i < j => score[place[i]] >= score[place[j]] /\ place[i] # place[j]
       /\ \A i \in 1 .. n : \E j \in 1 .. n : place[j] = i
  <2>1. /\ place \in [1 .. n -> 1 .. n] /\ \A i \in 1 .. n : t[i] = s[place[i]]
        /\ \A i \in 1 .. n : \E j \in 1 .. n : place[j] = i
    BY <1>9 DEF IsSorting, n
  <2>2. ASSUME NEW i \in 1 .. n, NEW j \in 1 .. n, i < j
        PROVE  score[place[i]] >= score[place[j]] /\ place[i] # place[j]
    <3>1. \/ score[place[i]] > score[place[j]]
          \/ score[place[i]] = score[place[j]] /\ place[i] < place[j]
      BY <1>9, <2>2 DEF IsSorting, n
    <3>2. /\ place[i] \in 1 .. n /\ place[j] \in 1 .. n
          /\ score[place[i]] \in Int /\ score[place[j]] \in Int
      BY <1>5, <2>1
    <3> QED
      BY <3>1, <3>2
  <2> QED
    BY <2>1, <2>2
<1>15. \A i \in 1 .. n : t[i] \in Seen /\ t[i] \in Keys /\ Scores[t[i]] = score[place[i]]
  <2> SUFFICES ASSUME NEW i \in 1 .. n
               PROVE  t[i] \in Seen /\ t[i] \in Keys /\ Scores[t[i]] = score[place[i]]
    OBVIOUS
  <2>1. place[i] \in 1 .. n /\ t[i] = s[place[i]]
    BY <1>14
  <2>2. s[place[i]] \in Seen /\ s[place[i]] \in Keys /\ score[place[i]] = Scores[s[place[i]]]
    BY <1>1, <1>2, <1>5, <2>1
  <2> QED
    BY <2>1, <2>2
<1>16. \A i, j \in 1 .. n : i < j => t[i] # t[j] /\ Scores[t[i]] >= Scores[t[j]]
  <2> SUFFICES ASSUME NEW i \in 1 .. n, NEW j \in 1 .. n, i < j
               PROVE  t[i] # t[j] /\ Scores[t[i]] >= Scores[t[j]]
    OBVIOUS
  <2>1. place[i] \in 1 .. n /\ place[j] \in 1 .. n /\ place[i] # place[j]
    BY <1>14
  <2>2. place[i] < place[j] \/ place[j] < place[i]
    BY <1>2, <2>1
  <2>3. s[place[i]] # s[place[j]]
    BY <1>1, <2>1, <2>2
  <2> QED
    BY <1>14, <1>15, <2>3
<1>17. keys \in Seq(Keys) /\ Len(keys) = c /\ \A i \in 1 .. c : keys[i] = t[i]
  <2>1. \A i \in 1 .. c : t[i] \in Keys
    BY <1>12, <1>15
  <2> QED
    BY <1>11, <1>13, <2>1
<1>18. \A l \in Seen : \/ \E j \in 1 .. c : t[j] = l
                       \/ \A i \in 1 .. c : Scores[t[i]] >= Scores[l]
  <2> SUFFICES ASSUME NEW l \in Seen, ~ \E j \in 1 .. c : t[j] = l, NEW i \in 1 .. c
               PROVE  Scores[t[i]] >= Scores[l]
    OBVIOUS
  <2>1. PICK p \in 1 .. n : s[p] = l
    BY <1>1
  <2>2. PICK q \in 1 .. n : place[q] = p
    BY <1>14
  <2>3. t[q] = l
    BY <1>14, <2>1, <2>2
  <2>4. q \notin 1 .. c
    BY <2>3
  <2>5. i < q /\ i \in 1 .. n
    BY <1>2, <1>11, <1>12, <2>4
  <2> QED
    BY <1>16, <2>3, <2>5
<1>19. \A i \in 1 .. c : t[i] \in Seen
  BY <1>12, <1>15
<1>20. \A i, j \in 1 .. c : i < j => t[i] # t[j] /\ Scores[t[i]] >= Scores[t[j]]
  BY <1>12, <1>16
<1>21. c = Min({limit, Cardinality(Seen)})
  BY <1>10 DEF c
<1>22. IsTop(keys, limit)
  BY <1>10, <1>17, <1>18, <1>19, <1>20, <1>21 DEF IsTop
<1> QED
  BY <1>22 DEF keys, limit

-----------------------------------------------------------------------------
(* Groups.                                                                 *)

\* A quotient keeps the order.
LEMMA DivOrder ==
  ASSUME NEW a \in Nat, NEW b \in Nat, a >= b, NEW u \in Nat \ {0}
  PROVE  a \div u \in Nat /\ b \div u \in Nat /\ a \div u >= b \div u
<1> DEFINE p == a \div u
           q == b \div u
<1>1. p \in Nat /\ q \in Nat
  OBVIOUS
<1>2. u * q <= b /\ a < u * (p + 1)
  OBVIOUS
<1> HIDE DEF p, q
<1>3. ASSUME p < q PROVE FALSE
  <2>1. q >= p + 1 /\ u >= 0
    BY <1>1, <1>3
  <2>2. PICK d \in Nat : q = p + 1 + d
    <3>1. q - (p + 1) \in Nat /\ q = p + 1 + (q - (p + 1))
      BY <1>1, <2>1
    <3> QED
      BY <3>1
  <2>3. u * q = u * (p + 1) + u * d
    BY <1>1, <2>2
  <2>4. u * d \in Nat /\ u * (p + 1) \in Nat
    BY <1>1, TimesNat
  <2> QED
    BY <1>2, <2>3, <2>4
<1>4. p >= q
  BY <1>1, <1>3
<1> QED
  BY <1>1, <1>4 DEF p, q

\* Multiplying keeps the order.
LEMMA TimesMono == ASSUME NEW a \in Nat, NEW b \in Nat, a <= b, NEW c \in Nat PROVE c * a <= c * b
<1>1. PICK d \in Nat : b = a + d
  <2>1. b - a \in Nat /\ b = a + (b - a)
    OBVIOUS
  <2> QED
    BY <2>1
<1>2. c * b = c * a + c * d /\ c * d \in Nat /\ c * a \in Nat
  BY <1>1, TimesNat
<1> QED
  BY <1>2

\* The quotient and its rest.
LEMMA Quotient ==
  ASSUME NEW a \in Nat, NEW u \in Nat \ {0}
  PROVE  a \div u \in Nat /\ u * (a \div u) <= a /\ a < u * (a \div u) + u
<1> DEFINE q == a \div u
<1>1. q \in Nat /\ u * q <= a /\ a < u * (q + 1)
  OBVIOUS
<1> HIDE DEF q
<1>2. u * (q + 1) = u * q + u
  BY <1>1
<1> QED
  BY <1>1, <1>2 DEF q

\* A product that is less than one more of a factor has no more of it.
LEMMA SmallerFactor ==
  ASSUME NEW p \in Nat, NEW q \in Nat, NEW u \in Nat \ {0}, u * q < u * p + u
  PROVE  q <= p
<1>1. ASSUME p + 1 <= q PROVE FALSE
  <2>1. u * (p + 1) <= u * q
    BY <1>1, TimesMono
  <2>2. u * (p + 1) = u * p + u /\ u * p \in Nat /\ u * q \in Nat
    BY TimesNat
  <2> QED
    BY <2>1, <2>2
<1> QED
  BY <1>1

\* Adding the divisor makes the quotient greater.
LEMMA DivGrows ==
  ASSUME NEW a \in Nat, NEW b \in Nat, NEW d \in Nat \ {0}, a >= b + d
  PROVE  a \div d > b \div d
<1> DEFINE p == a \div d
           q == b \div d
<1>1. p \in Nat /\ a < d * p + d /\ q \in Nat /\ d * q <= b
  BY Quotient
<1> HIDE DEF p, q
<1>2. d * (q + 1) = d * q + d /\ d * q \in Nat /\ d * p \in Nat
  BY <1>1, TimesNat
<1>3. d * (q + 1) < d * p + d
  BY <1>1, <1>2
<1>4. q + 1 <= p
  BY <1>1, <1>3, SmallerFactor
<1> QED
  BY <1>1, <1>4 DEF p, q

\* Rounding adds at most half a unit.
LEMMA NearestType ==
  ASSUME NEW a \in Nat, NEW u \in Nat \ {0}
  PROVE  Nearest(a, u) \in Nat /\ u * Nearest(a, u) <= a + u \div 2
<1>1. u \div 2 \in Nat
  OBVIOUS
<1> DEFINE h == u \div 2
<1> HIDE DEF h
<1>2. h \in Nat /\ a + h \in Nat
  BY <1>1 DEF h
<1>3. (a + h) \div u \in Nat /\ u * ((a + h) \div u) <= a + h
  BY <1>2, Quotient
<1> QED
  BY <1>3 DEF Nearest, h

\* Rounding keeps the order.
LEMMA NearestOrder ==
  ASSUME NEW a \in Nat, NEW b \in Nat, a >= b, NEW u \in Nat \ {0}
  PROVE  Nearest(a, u) \in Nat /\ Nearest(b, u) \in Nat /\ Nearest(a, u) >= Nearest(b, u)
<1>1. u \div 2 \in Nat
  OBVIOUS
<1> DEFINE h == u \div 2
<1> HIDE DEF h
<1>2. a + h \in Nat /\ b + h \in Nat /\ a + h >= b + h
  BY <1>1 DEF h
<1> QED
  BY <1>2, DivOrder DEF Nearest, h

\* Rounding tells apart what differs by a unit.
LEMMA NearestGrows ==
  ASSUME NEW a \in Nat, NEW b \in Nat, NEW u \in Nat \ {0}, a >= b + u
  PROVE  Nearest(a, u) > Nearest(b, u)
<1>1. u \div 2 \in Nat
  OBVIOUS
<1> DEFINE h == u \div 2
<1> HIDE DEF h
<1>2. a + h \in Nat /\ b + h \in Nat /\ a + h >= (b + h) + u
  BY <1>1 DEF h
<1> QED
  BY <1>2, DivGrows DEF Nearest, h

\* A score is not rounded to units of zero.
LEMMA UnitType == Unit \in Nat \ {0}
<1>1. Denominator \div 1000000 \in Nat
  BY DenominatorType
<1> HIDE DEF Denominator
<1>2. Max({1, Denominator \div 1000000}) >= 1 /\ Max({1, Denominator \div 1000000}) \in Nat
  BY <1>1, MaxOfTwo
<1> QED
  BY <1>2 DEF Unit

\* The positions of a file among the results.
Where(f) == {i \in 1 .. Len(results) : File(results[i]) = f}

\* A group as InFile returns it.
IsFileGroup(g, f, place) ==
  /\ g \in Seq(Result) /\ Len(g) >= 1
  /\ IsSelection(g, results, Where(f), place)

\* A file that has a result has a group: its results, in their order.
LEMMA InFileSelects ==
  ASSUME results \in Seq(Result), NEW i \in 1 .. Len(results), NEW f, f = File(results[i])
  PROVE  \E place : IsFileGroup(InFile(f), f, place)
<1> DEFINE g == InFile(f)
<1>1. Where(f) \in SUBSET (1 .. Len(results)) /\ i \in Where(f) /\ g = AtPlaces(results, Where(f))
  BY DEF Where, InFile
<1>2. g \in Seq(Result) /\ \E place : IsSelection(g, results, Where(f), place)
  <2> HIDE DEF g
  <2> QED
    BY <1>1, AtPlacesSelects
<1>3. PICK place : IsSelection(g, results, Where(f), place)
  BY <1>2
<1> HIDE DEF g
<1>4. Len(g) \in Nat
  BY <1>2
<1>5. PICK n \in 1 .. Len(g) : place[n] = i
  BY <1>1, <1>3 DEF IsSelection
<1>6. Len(g) >= 1
  BY <1>4, <1>5
<1>7. IsFileGroup(g, f, place)
  BY <1>2, <1>3, <1>6 DEF IsFileGroup
<1> QED
  BY <1>7 DEF g

\* The best score of a group is its first.
LEMMA BestIsFirst ==
  ASSUME results \in Seq(Result), BestScoreFirst, NEW g, NEW f, NEW place, IsFileGroup(g, f, place)
  PROVE  BestScore(g) = results[place[1]].score /\ BestScore(g) \in Int
<1> DEFINE n == Len(g)
           S == {g[i].score : i \in 1 .. n}
           first == results[place[1]].score
<1>1. n \in Nat /\ n >= 1 /\ 1 \in 1 .. n
  BY DEF IsFileGroup
<1>2. \A i \in 1 .. n : place[i] \in 1 .. Len(results) /\ g[i] = results[place[i]]
  BY DEF IsFileGroup, IsSelection, Where
<1>3. \A i \in 1 .. n : results[place[i]].score \in Int
  <2>1. \A i \in 1 .. Len(results) : results[i] \in Result
    OBVIOUS
  <2> QED
    BY <1>2, <2>1 DEF Result
<1>4. \A i \in 1 .. n : first >= results[place[i]].score
  <2> SUFFICES ASSUME NEW i \in 1 .. n PROVE first >= results[place[i]].score
    OBVIOUS
  <2>1. CASE i = 1
    BY <1>3, <2>1
  <2>2. CASE i # 1
    <3>1. 1 < i
      BY <1>1, <2>2
    <3>2. place[1] < place[i]
      BY <1>1, <3>1 DEF IsFileGroup, IsSelection
    <3> QED
      BY <1>1, <1>2, <3>2 DEF BestScoreFirst
  <2> QED
    BY <2>1, <2>2
<1>5. first \in S /\ first \in Int
  BY <1>1, <1>2, <1>3
<1>6. \A y \in S : y \in Int /\ first >= y
  BY <1>2, <1>3, <1>4
<1>7. BestScore(g) = Max(S)
  BY DEF BestScore
<1> HIDE DEF S, first, n
<1>8. \A x \in S : (\A y \in S : x >= y) => x = first
  BY <1>5, <1>6
<1>9. Max(S) = first
  BY <1>5, <1>6, <1>8 DEF Max
<1> QED
  BY <1>5, <1>7, <1>9 DEF first

\* The file of a result.
FileAt(i) == File(results[i])

\* The groups, before they are sorted.
AreGroups(gs) ==
  /\ gs \in Seq(Seq(Result)) /\ Len(gs) = Len(Files)
  /\ \A n \in 1 .. Len(gs) : \E place : IsFileGroup(gs[n], Files[n], place)
  /\ \A i \in 1 .. Len(results) : \E n \in 1 .. Len(gs) : Files[n] = FileAt(i)
  /\ \A m, n \in 1 .. Len(gs) : m < n =>
       \E i \in 1 .. Len(results) : FileAt(i) = Files[m] /\ \A j \in 1 .. i : FileAt(j) # Files[n]

\* Before they are sorted, the groups are those of the files in the order in which the
\* results mention them.
LEMMA FileGroupsAreGroups ==
  ASSUME results \in Seq(Result)
  PROVE  AreGroups(FileGroups)
<1> DEFINE n == Len(results)
           s == [i \in 1 .. n |-> File(results[i])]
           T == {s[i] : i \in 1 .. n}
<1>1. n \in Nat /\ \A i \in 1 .. n : s[i] = FileAt(i)
  BY DEF FileAt
<1>2. Files = FirstSeen(s)
  BY DEF Files
<1> HIDE DEF n, s
<1>3. s \in Seq(T) /\ Len(s) = n
  <2>1. s = [i \in 1 .. n |-> s[i]]
    BY DEF s
  <2>2. s \in [1 .. n -> T]
    BY <2>1
  <2> QED
    BY <1>1, <2>2
<1> HIDE DEF T
<1>4. Files \in Seq(T) /\ Lists(Files, s)
  BY <1>2, <1>3, FirstSeenLists
<1> DEFINE m == Len(Files)
<1>5. m \in Nat
  BY <1>4
<1> HIDE DEF m
<1>6. FileGroups = [k \in 1 .. m |-> InFile(Files[k])]
  BY DEF FileGroups, m
<1>7. \A i \in 1 .. n : \E k \in 1 .. m : Files[k] = FileAt(i)
  <2> SUFFICES ASSUME NEW i \in 1 .. n PROVE \E k \in 1 .. m : Files[k] = FileAt(i)
    OBVIOUS
  <2>1. \E k \in 1 .. m : Files[k] = s[i]
    BY <1>3, <1>4 DEF Lists, m
  <2> QED
    BY <1>1, <2>1
<1>8. \A k \in 1 .. m : \E i \in 1 .. n : FileAt(i) = Files[k]
  <2> SUFFICES ASSUME NEW k \in 1 .. m PROVE \E i \in 1 .. n : FileAt(i) = Files[k]
    OBVIOUS
  <2>1. \E i \in 1 .. n : s[i] = Files[k]
    BY <1>3, <1>4 DEF Lists, m
  <2> QED
    BY <1>1, <2>1
<1>9. \A k, l \in 1 .. m : k < l =>
        \E i \in 1 .. n : FileAt(i) = Files[k] /\ \A j \in 1 .. i : FileAt(j) # Files[l]
  <2> SUFFICES ASSUME NEW k \in 1 .. m, NEW l \in 1 .. m, k < l
               PROVE  \E i \in 1 .. n :
                        FileAt(i) = Files[k] /\ \A j \in 1 .. i : FileAt(j) # Files[l]
    OBVIOUS
  <2>1. PICK i \in 1 .. n : s[i] = Files[k] /\ \A j \in 1 .. i : s[j] # Files[l]
    BY <1>3, <1>4 DEF Lists, m
  <2>2. \A j \in 1 .. i : j \in 1 .. n
    BY <1>1
  <2> QED
    BY <1>1, <2>1, <2>2
<1>10. \A k \in 1 .. m : \E place : IsFileGroup(InFile(Files[k]), Files[k], place)
  <2> SUFFICES ASSUME NEW k \in 1 .. m
               PROVE  \E place : IsFileGroup(InFile(Files[k]), Files[k], place)
    OBVIOUS
  <2>1. PICK i \in 1 .. Len(results) : File(results[i]) = Files[k]
    BY <1>8 DEF n, FileAt
  <2> QED
    BY <2>1, InFileSelects
<1>11. \A k \in 1 .. m : InFile(Files[k]) \in Seq(Result)
  BY <1>10 DEF IsFileGroup
<1>12. FileGroups \in Seq(Seq(Result)) /\ Len(FileGroups) = m
       /\ \A k \in 1 .. m : FileGroups[k] = InFile(Files[k])
  <2> DEFINE G(k) == InFile(Files[k])
             V == Seq(Result)
  <2>1. FileGroups = [k \in 1 .. m |-> G(k)] /\ \A k \in 1 .. m : G(k) \in V
    BY <1>6, <1>11
  <2> HIDE DEF G, V
  <2>2. FileGroups \in Seq(V) /\ Len(FileGroups) = m /\ \A k \in 1 .. m : FileGroups[k] = G(k)
    BY <1>5, <2>1
  <2> QED
    BY <2>2 DEF G, V
<1> QED
  BY <1>7, <1>9, <1>10, <1>12 DEF AreGroups, m, n

\* Groups come in the order of their best scores already: sorting them changes nothing.
LEMMA GroupsInOrder ==
  ASSUME results \in Seq(Result), BestScoreFirst
  PROVE  GroupedByFile = FileGroups
<1> DEFINE gs == FileGroups
           n == Len(gs)
           score == [m \in 1 .. n |-> BestScore(gs[m])]
<1>1. AreGroups(gs)
  BY FileGroupsAreGroups
<1>2. GroupedByFile = SortedBy(gs, score)
  BY DEF GroupedByFile
<1> HIDE DEF gs
<1>3. gs \in Seq(Seq(Result)) /\ n \in Nat
  BY <1>1 DEF AreGroups
<1> HIDE DEF n
<1>4. \A m \in 1 .. n : \E place : IsFileGroup(gs[m], Files[m], place)
  BY <1>1 DEF AreGroups, n
<1>5. \A m \in 1 .. n : score[m] = BestScore(gs[m]) /\ score[m] \in Int
  BY <1>4, BestIsFirst
<1>6. ASSUME NEW l \in 1 .. n, NEW m \in 1 .. n, l < m
      PROVE  score[l] >= score[m]
  <2>1. PICK p : IsFileGroup(gs[l], Files[l], p)
    BY <1>4
  <2>2. PICK q : IsFileGroup(gs[m], Files[m], q)
    BY <1>4
  <2>3. PICK i \in 1 .. Len(results) :
          FileAt(i) = Files[l] /\ \A j \in 1 .. i : FileAt(j) # Files[m]
    BY <1>1, <1>6 DEF AreGroups, n
  <2>4. /\ Len(gs[l]) \in Nat /\ 1 \in 1 .. Len(gs[l]) /\ 1 \in 1 .. Len(gs[m])
        /\ p[1] \in Where(Files[l]) /\ q[1] \in Where(Files[m])
    BY <2>1, <2>2 DEF IsFileGroup, IsSelection
  <2>5. /\ p[1] \in 1 .. Len(results) /\ q[1] \in 1 .. Len(results)
        /\ FileAt(q[1]) = Files[m] /\ i \in Where(Files[l])
    BY <2>3, <2>4 DEF Where, FileAt
  <2>6. i < q[1]
    BY <2>3, <2>5
  <2>7. PICK k \in 1 .. Len(gs[l]) : p[k] = i
    BY <2>1, <2>5 DEF IsFileGroup, IsSelection
  <2>8. p[1] <= i
    <3>1. k = 1 \/ 1 < k
      BY <2>4
    <3>2. 1 < k => p[1] < p[k]
      BY <2>1, <2>4 DEF IsFileGroup, IsSelection
    <3> QED
      BY <2>5, <2>7, <3>1, <3>2
  <2>9. p[1] < q[1]
    BY <2>3, <2>5, <2>6, <2>8
  <2>10. results[p[1]].score >= results[q[1]].score
    BY <2>5, <2>9 DEF BestScoreFirst
  <2>11. score[l] = results[p[1]].score /\ score[m] = results[q[1]].score
    BY <1>5, <2>1, <2>2, BestIsFirst
  <2> QED
    BY <2>10, <2>11
<1>7. score \in [1 .. n -> Int]
  BY <1>5
<1> HIDE DEF score
<1>8. SortedBy(gs, score) = gs
  BY <1>3, <1>6, <1>7, SortedBySorts DEF n
<1> QED
  BY <1>2, <1>8 DEF gs

\* The least rank of a key is a rank of the key.
LEMMA MinIn == ASSUME NEW T, T \subseteq Nat, T # {} PROVE Min(T) \in T
<1>1. \E x \in T : \A y \in T : x <= y
  BY LeastOf
<1> QED
  BY <1>1 DEF Min

\* So is the greatest.
LEMMA MaxIn == ASSUME NEW n \in Nat, NEW T, T \subseteq 1 .. n, T # {} PROVE Max(T) \in T
<1> DEFINE U == {m \in Nat : n - m \in T}
<1>1. PICK t \in T : TRUE
  OBVIOUS
<1>2. n - t \in Nat /\ n - (n - t) = t
  BY <1>1
<1>3. U \subseteq Nat /\ U # {}
  BY <1>2
<1>4. PICK m \in U : \A k \in U : m <= k
  <2> HIDE DEF U
  <2> QED
    BY <1>3, LeastOf
<1>5. \A y \in T : n - m >= y
  <2> SUFFICES ASSUME NEW y \in T PROVE n - m >= y
    OBVIOUS
  <2>1. n - y \in Nat /\ n - (n - y) = y
    OBVIOUS
  <2>2. m <= n - y
    BY <1>4, <2>1
  <2> QED
    BY <1>4, <2>1, <2>2
<1>6. n - m \in T
  BY <1>4
<1> QED
  BY <1>5, <1>6 DEF Max

\* A key is shown with a point of its own: of the vector list, if it is in it.
LEMMA ShownHasKey ==
  ASSUME vector \in Seq(Points), fts \in Seq(Points), NEW k \in Seen
  PROVE  /\ Shown(k) \in Points /\ KeyOf[Shown(k)] = k
         /\ \/ Shown(k) \in ToSet(vector)
            \/ Shown(k) \in ToSet(fts) /\ RanksIn(vector, k) = {}
<1> DEFINE V == RanksIn(vector, k)
           F == RanksIn(fts, k)
           v == Len(vector)
           f == Len(fts)
<1>1. /\ v \in Nat /\ f \in Nat
      /\ ToSet(vector) = {vector[i] : i \in 1 .. v} /\ ToSet(fts) = {fts[i] : i \in 1 .. f}
      /\ \A i \in 1 .. v : vector[i] \in Points
      /\ \A i \in 1 .. f : fts[i] \in Points
  BY DEF ToSet
<1> HIDE DEF v, f
<1>2. /\ \A i \in V : i \in 1 .. v /\ KeyOf[vector[i]] = k
      /\ \A i \in F : i \in 1 .. f /\ KeyOf[fts[i]] = k
      /\ \A i \in 1 .. v : KeyOf[vector[i]] = k => i \in V
      /\ \A i \in 1 .. f : KeyOf[fts[i]] = k => i \in F
  BY DEF RanksIn, v, f
<1>3. Shown(k) = IF V # {} THEN vector[Max(V)] ELSE fts[Min(F)]
  BY DEF Shown
<1> HIDE DEF V, F
<1>4. V # {} \/ F # {}
  <2>1. PICK p \in ToSet(vector) \cup ToSet(fts) : k = KeyOf[p]
    BY DEF Seen
  <2> QED
    BY <1>1, <1>2, <2>1
<1>5. CASE V # {}
  <2>1. Max(V) \in V
    BY <1>1, <1>2, <1>5, MaxIn
  <2> QED
    BY <1>1, <1>2, <1>3, <1>5, <2>1
<1>6. CASE V = {}
  <2>1. F \subseteq Nat
    BY <1>1, <1>2
  <2>2. Min(F) \in F
    BY <1>4, <1>6, <2>1, MinIn
  <2> QED
    BY <1>1, <1>2, <1>3, <1>6, <2>2 DEF V
<1> QED
  BY <1>5, <1>6

\* What fusion makes of the two lists.
LEMMA FusedResultsSorted ==
  ASSUME vector \in Seq(Points), fts \in Seq(Points)
  PROVE  /\ FusedResults \in Seq(Result) /\ Len(FusedResults) = Len(FusedKeys)
         /\ \A i \in 1 .. Len(FusedKeys) :
              /\ FusedKeys[i] \in Seen /\ FusedResults[i].point = Shown(FusedKeys[i])
              /\ KeyOf[FusedResults[i].point] = FusedKeys[i]
         /\ \A i, j \in 1 .. Len(FusedKeys) :
              i < j => FusedResults[i].score >= FusedResults[j].score
<1> DEFINE n == Len(FusedKeys)
           point(i) == Shown(FusedKeys[i])
           score(i) == Nearest(Scores[FusedKeys[i]], Unit)
<1>1. /\ n \in Nat /\ \A i \in 1 .. n : FusedKeys[i] \in Keys /\ FusedKeys[i] \in Seen
      /\ \A i, j \in 1 .. n : i < j => Scores[FusedKeys[i]] >= Scores[FusedKeys[j]]
  <2>1. IsTop(FusedKeys, FusedLimit)
    BY FusedKeysAreTop
  <2>2. FusedKeys \in Seq(Keys)
    BY <2>1 DEF IsTop
  <2>3. n \in Nat /\ \A i \in 1 .. n : FusedKeys[i] \in Keys
    BY <2>2
  <2>4. \A i \in 1 .. n : FusedKeys[i] \in Seen
    BY <2>1 DEF IsTop
  <2>5. \A i, j \in 1 .. n : i < j => Scores[FusedKeys[i]] >= Scores[FusedKeys[j]]
    BY <2>1 DEF IsTop
  <2> QED
    BY <2>3, <2>4, <2>5
<1> HIDE DEF n
<1>2. \A i \in 1 .. n : Scores[FusedKeys[i]] \in Nat
  BY <1>1, ScoresAreSums
<1>3. FusedResults = [i \in 1 .. n |-> [point |-> point(i), score |-> score(i)]]
  BY DEF FusedResults, ResultOf, Rounded, n
<1>4. \A i \in 1 .. n : point(i) \in Points /\ KeyOf[point(i)] = FusedKeys[i]
  BY <1>1, ShownHasKey
<1>5. \A i \in 1 .. n : score(i) \in Nat
  BY <1>2, UnitType, NearestType
<1>6. \A i, j \in 1 .. n : i < j => score(i) >= score(j)
  BY <1>1, <1>2, UnitType, NearestOrder
<1>7. \A i \in 1 .. n : point(i) = Shown(FusedKeys[i])
  OBVIOUS
<1> HIDE DEF point, score
<1>8. \A i \in 1 .. n : [point |-> point(i), score |-> score(i)] \in Result
  BY <1>4, <1>5 DEF Result
<1>9. FusedResults \in Seq(Result) /\ Len(FusedResults) = n
  BY <1>1, <1>3, <1>8
<1>10. \A i \in 1 .. n : FusedResults[i].point = point(i) /\ FusedResults[i].score = score(i)
  BY <1>3
<1> QED
  BY <1>1, <1>4, <1>6, <1>7, <1>9, <1>10 DEF n

-----------------------------------------------------------------------------
(* The inductive invariant.                                                *)

\* What a store returns is a list of points, none of them twice.
LEMMA RankedListType ==
  ASSUME NEW S, NEW n, NEW list \in RankedLists(S, n)
  PROVE  list \in Seq(S) /\ IsInjective(list)
<1>1. PICK m \in 0 .. Min({n, Cardinality(S)}) : list \in Injection(1 .. m, S)
  BY DEF RankedLists
<1>2. m \in Nat /\ list \in [1 .. m -> S] /\ IsInjective(list)
  BY <1>1 DEF Injection
<1>3. list \in Seq(S)
  BY <1>2
<1> QED
  BY <1>2, <1>3

\* A list that descends from item to item descends from any item to any later one.
LEMMA DescendingOrder ==
  ASSUME NEW n \in Nat, NEW s \in Descending(n)
  PROVE  /\ s \in [1 .. n -> Nat]
         /\ \A i, j \in 1 .. n : i < j => s[i] >= s[j]
<1>1. s \in [1 .. n -> Cosines] /\ \A i \in 1 .. n - 1 : s[i] >= s[i + 1]
  BY DEF Descending
<1>2. \A i \in 1 .. n : s[i] \in Nat
  BY <1>1, NumbersAssumption
<1>3. ASSUME NEW i \in 1 .. n
      PROVE  \A j \in i .. n : s[i] >= s[j]
  <2> DEFINE Good == {j \in i .. n : s[i] >= s[j]}
  <2>1. i \in Good /\ i \in Nat
    BY <1>2
  <2>2. \A m \in i .. n - 1 : m \in Good => m + 1 \in Good
    <3> SUFFICES ASSUME NEW m \in i .. n - 1, m \in Good PROVE m + 1 \in Good
      OBVIOUS
    <3>1. m \in 1 .. n - 1 /\ m \in 1 .. n /\ m + 1 \in 1 .. n /\ m + 1 \in i .. n
      OBVIOUS
    <3>2. s[i] >= s[m] /\ s[m] >= s[m + 1] /\ s[i] \in Nat /\ s[m] \in Nat /\ s[m + 1] \in Nat
      BY <1>1, <1>2, <3>1
    <3>3. s[i] >= s[m + 1]
      BY <3>2
    <3> QED
      BY <3>1, <3>3
  <2>3. i .. n \subseteq Good
    <3> HIDE DEF Good
    <3> QED
      BY <2>1, <2>2, InductTo
  <2> QED
    BY <2>3
<1>4. \A i, j \in 1 .. n : i < j => j \in i .. n
  OBVIOUS
<1>5. \A i, j \in 1 .. n : i < j => s[i] >= s[j]
  BY <1>3, <1>4
<1> QED
  BY <1>1, <1>2, <1>5

\* A request that has just arrived satisfies the invariant.
LEMMA SearchInitInv == Init => SearchInv
<1> SUFFICES ASSUME Init PROVE SearchInv
  OBVIOUS
<1>1. TypeOK
  <2>1. 0 \in 0 .. Terms
    BY NumbersAssumption
  <2> QED
    BY <2>1 DEF Init, TypeOK, Stages
<1>2. StageInv /\ ListsInv /\ FilterInv /\ SemanticInv /\ FusedInv /\ GroupedInv /\ AnswerInv
  BY DEF Init, StageInv, ListsInv, IsInjective, FilterInv, SemanticInv, FusedInv, GroupedInv,
         AnswerInv, Fused
<1> QED
  BY <1>1, <1>2 DEF SearchInv

\* The fused results are made of the two lists alone.
LEMMA FusedResultsKeep == ASSUME UNCHANGED <<kind, vector, fts>> PROVE FusedResults' = FusedResults
<1>1. Found' = Found
  BY DEF Found
<1>2. Scores' = Scores
  BY DEF Scores
<1>3. KeysSeen' = KeysSeen
  BY <1>1 DEF KeysSeen
<1>4. FusedLimit' = FusedLimit
  BY DEF FusedLimit
<1>5. ByScore(KeysSeen)' = ByScore(KeysSeen)
  BY <1>2, <1>3 DEF ByScore
<1>6. FusedKeys' = FusedKeys
  BY <1>4, <1>5 DEF FusedKeys
<1>7. \A i : ResultOf(FusedKeys[i])' = ResultOf(FusedKeys[i])
  BY <1>2, <1>6 DEF ResultOf, Shown
<1> QED
  BY <1>6, <1>7 DEF FusedResults

\* The groups are made of the results alone.
LEMMA GroupedKeep == ASSUME UNCHANGED results PROVE GroupedByFile' = GroupedByFile
<1>1. Files' = Files
  BY DEF Files
<1>2. FileGroups' = FileGroups
  BY <1>1 DEF FileGroups, InFile
<1> QED
  BY <1>2 DEF GroupedByFile

\* The answer is made of the results and the terms that are found.
LEMMA RerankedKeep ==
  ASSUME UNCHANGED results PROVE Reranked(Rescored(matches))' = Reranked(Rescored(matches'))
<1>1. Rescored(matches)' = Rescored(matches')
  BY DEF Rescored
<1> QED
  BY <1>1 DEF Reranked

\* A step that changes nothing of the request keeps the invariant.
LEMMA SearchStutterInv == ASSUME SearchInv, UNCHANGED vars PROVE SearchInv'
<1>1. FusedResults' = FusedResults /\ GroupedByFile' = GroupedByFile
  BY FusedResultsKeep, GroupedKeep DEF vars
<1>2. Reranked(Rescored(matches))' = Reranked(Rescored(matches'))
  BY RerankedKeep DEF vars
<1>3. AnswerInv'
  BY <1>2 DEF SearchInv, AnswerInv, vars
<1> QED
  BY <1>1, <1>3 DEF SearchInv, TypeOK, StageInv, ListsInv, FilterInv, SemanticInv, BestScoreFirst,
                   FusedInv, GroupedInv, Fused, vars

\* A query that cannot be embedded, or a vector store that fails, keeps it.
LEMMA FailInv == ASSUME SearchInv, Fail PROVE SearchInv'
<1>1. stage' = "error" /\ UNCHANGED <<kind, vector, fts, results, groups, matches, answer>>
  BY DEF Fail
<1> QED
  BY <1>1 DEF SearchInv, TypeOK, StageInv, ListsInv, FilterInv, SemanticInv, FusedInv,
                   GroupedInv, AnswerInv, Fused, Stages

\* Embedding the query keeps it.
LEMMA EmbedInv == ASSUME SearchInv, Embed PROVE SearchInv'
<1>1. stage' = "vector" /\ UNCHANGED <<kind, vector, fts, results, groups, matches, answer>>
  BY DEF Embed
<1> QED
  BY <1>1 DEF SearchInv, TypeOK, StageInv, ListsInv, FilterInv, SemanticInv, FusedInv,
                   GroupedInv, AnswerInv, Fused, Stages

\* The vector search keeps it: its filter is that of the request, and the results of a
\* semantic search come in the order of their similarity.
LEMMA VectorSearchInv == ASSUME SearchInv, VectorSearch PROVE SearchInv'
<1> DEFINE Asked == IF kind = "chat" THEN Points ELSE Points \ OffType
<1>1. UNCHANGED <<kind, fts, groups, matches, answer>>
  BY DEF VectorSearch
<1>2. PICK list \in RankedLists(Asked, VectorLimit) :
        /\ vector' = list
        /\ IF kind = "semantic"
           THEN /\ stage' = "group"
                /\ \E cosine \in Descending(Len(list)) :
                     results' = [i \in 1 .. Len(list) |-> [point |-> list[i], score |-> cosine[i]]]
           ELSE stage' = "fts" /\ UNCHANGED results
  BY DEF VectorSearch
<1>3. list \in Seq(Asked) /\ IsInjective(list)
  BY RankedListType
<1>4. /\ Len(list) \in Nat /\ list \in Seq(Points)
      /\ \A i \in 1 .. Len(list) : list[i] \in Points /\ (kind # "chat" => list[i] \notin OffType)
  <2>1. CASE kind = "chat"
    BY <1>3, <2>1
  <2>2. CASE kind # "chat"
    <3>1. list \in Seq(Points \ OffType)
      BY <1>3, <2>2
    <3>2. Len(list) \in Nat /\ DOMAIN list = 1 .. Len(list)
      BY <3>1
    <3>3. \A i \in 1 .. Len(list) : list[i] \in Points /\ list[i] \notin OffType
      BY <3>1
    <3>4. list = [i \in 1 .. Len(list) |-> list[i]]
      BY <3>1
    <3>5. list \in Seq(Points)
      BY <3>2, <3>3, <3>4
    <3> QED
      BY <3>2, <3>3, <3>5
  <2> QED
    BY <2>1, <2>2
<1> HIDE DEF Asked
<1>5. FilterInv' /\ ListsInv'
  BY <1>1, <1>2, <1>3, <1>4 DEF SearchInv, FilterInv, ListsInv
<1>6. CASE kind = "semantic"
  <2>1. PICK cosine \in Descending(Len(list)) :
          results' = [i \in 1 .. Len(list) |-> [point |-> list[i], score |-> cosine[i]]]
    BY <1>2, <1>6
  <2> DEFINE n == Len(list)
  <2>2. n \in Nat /\ vector' = list /\ stage' = "group"
    BY <1>2, <1>4, <1>6
  <2>3. /\ \A i \in 1 .. n : cosine[i] \in Nat
        /\ \A i, j \in 1 .. n : i < j => cosine[i] >= cosine[j]
    BY <2>2, DescendingOrder
  <2>4. results' = [i \in 1 .. n |-> [point |-> list[i], score |-> cosine[i]]]
    BY <2>1
  <2>5. \A i \in 1 .. n : list[i] \in Points
    BY <1>4
  <2>6. Len(vector') = n
    BY <2>2
  <2> HIDE DEF n
  <2>7. \A i \in 1 .. n : [point |-> list[i], score |-> cosine[i]] \in Result
    BY <2>3, <2>5 DEF Result
  <2>8. results' \in Seq(Result) /\ Len(results') = n
    BY <2>2, <2>4, <2>7
  <2>9. \A i \in 1 .. n : results'[i].point = list[i] /\ results'[i].score = cosine[i]
    BY <2>4
  <2>10. BestScoreFirst'
    BY <2>3, <2>8, <2>9 DEF BestScoreFirst
  <2>11. SemanticInv'
    BY <2>2, <2>6, <2>8, <2>9, <2>10 DEF SemanticInv
  <2>12. TypeOK'
    BY <1>1, <1>4, <2>2, <2>8 DEF SearchInv, TypeOK, Stages
  <2>13. StageInv' /\ FusedInv' /\ GroupedInv' /\ AnswerInv'
    BY <1>1, <1>6, <2>2 DEF StageInv, FusedInv, GroupedInv, AnswerInv, Fused
  <2> QED
    BY <1>5, <2>11, <2>12, <2>13 DEF SearchInv
<1>7. CASE kind # "semantic"
  <2>1. vector' = list /\ stage' = "fts" /\ UNCHANGED results
    BY <1>2, <1>7
  <2>2. TypeOK'
    BY <1>1, <1>4, <2>1 DEF SearchInv, TypeOK, Stages
  <2>3. StageInv' /\ SemanticInv' /\ FusedInv' /\ GroupedInv' /\ AnswerInv'
    BY <1>1, <1>7, <2>1 DEF StageInv, SemanticInv, FusedInv, GroupedInv, AnswerInv, Fused
  <2> QED
    BY <1>5, <2>2, <2>3 DEF SearchInv
<1> QED
  BY <1>6, <1>7

\* The full-text search keeps it, whatever it finds.
LEMMA FullTextSearchInv == ASSUME SearchInv, FullTextSearch PROVE SearchInv'
<1>1. /\ stage = "fts" /\ stage' = "fuse"
      /\ UNCHANGED <<kind, vector, results, groups, matches, answer>>
  BY DEF FullTextSearch
<1>2. fts' \in Seq(Points) /\ IsInjective(fts')
  <2>1. PICK list \in RankedLists(Points, FusedLimit) : fts' = list
    BY DEF FullTextSearch
  <2> QED
    BY <2>1, RankedListType
<1>3. TypeOK'
  BY <1>1, <1>2 DEF SearchInv, TypeOK, Stages
<1>4. StageInv' /\ ListsInv' /\ FilterInv' /\ SemanticInv' /\ FusedInv' /\ GroupedInv' /\ AnswerInv'
  BY <1>1, <1>2 DEF SearchInv, StageInv, ListsInv, FilterInv, SemanticInv, FusedInv, GroupedInv,
                    AnswerInv, Fused
<1> QED
  BY <1>3, <1>4 DEF SearchInv

\* Reciprocal rank fusion keeps it.
LEMMA FuseInv == ASSUME SearchInv, Fuse PROVE SearchInv'
<1>1. /\ stage = "fuse" /\ kind # "semantic" /\ kind \in Kinds
      /\ stage' = (IF kind = "hybrid" THEN "group" ELSE "rerank")
      /\ results' = FusedResults /\ UNCHANGED <<kind, vector, fts, groups, matches, answer>>
  BY DEF Fuse, SearchInv, StageInv, TypeOK
<1>2. FusedResults' = FusedResults
  BY <1>1, FusedResultsKeep
<1>3. FusedResults \in Seq(Result)
  BY FusedResultsSorted DEF SearchInv, TypeOK
<1>4. TypeOK'
  BY <1>1, <1>3 DEF SearchInv, TypeOK, Stages
<1>5. FusedInv'
  BY <1>1, <1>2 DEF FusedInv
<1>6. StageInv' /\ ListsInv' /\ FilterInv' /\ SemanticInv' /\ GroupedInv' /\ AnswerInv'
  BY <1>1 DEF SearchInv, StageInv, ListsInv, FilterInv, SemanticInv, GroupedInv, AnswerInv, Kinds
<1> QED
  BY <1>4, <1>5, <1>6 DEF SearchInv

\* Results that are to be grouped are in the order of their scores.
LEMMA ResultsInOrder ==
  ASSUME SearchInv, stage \in {"group", "done"}, kind # "chat"
  PROVE  results \in Seq(Result) /\ BestScoreFirst
<1>1. results \in Seq(Result) /\ kind \in Kinds /\ vector \in Seq(Points) /\ fts \in Seq(Points)
  BY DEF SearchInv, TypeOK
<1>2. CASE kind = "semantic"
  BY <1>1, <1>2 DEF SearchInv, SemanticInv
<1>3. CASE kind = "hybrid"
  <2>1. results = FusedResults
    BY <1>3 DEF SearchInv, FusedInv, Fused
  <2>2. /\ Len(FusedResults) = Len(FusedKeys)
        /\ \A i, j \in 1 .. Len(FusedKeys) : i < j => FusedResults[i].score >= FusedResults[j].score
    BY <1>1, FusedResultsSorted
  <2> QED
    BY <1>1, <2>1, <2>2 DEF BestScoreFirst
<1> QED
  BY <1>1, <1>2, <1>3 DEF Kinds

\* Grouping the results by file keeps it.
LEMMA GroupInv == ASSUME SearchInv, Group PROVE SearchInv'
<1>1. /\ stage = "group" /\ stage' = "done" /\ groups' = GroupedByFile /\ kind # "chat"
      /\ UNCHANGED <<kind, vector, fts, results, matches, answer>>
  BY DEF Group, SearchInv, StageInv
<1>2. FusedResults' = FusedResults /\ GroupedByFile' = GroupedByFile
  BY <1>1, FusedResultsKeep, GroupedKeep
<1>3. GroupedByFile \in Seq(Seq(Result))
  BY <1>1, ResultsInOrder, GroupsInOrder, FileGroupsAreGroups DEF AreGroups
<1>4. TypeOK'
  BY <1>1, <1>3 DEF SearchInv, TypeOK, Stages
<1>5. StageInv' /\ ListsInv' /\ FilterInv' /\ FusedInv' /\ GroupedInv' /\ AnswerInv'
  BY <1>1, <1>2 DEF SearchInv, StageInv, ListsInv, FilterInv, FusedInv, GroupedInv, AnswerInv, Fused
<1>6. SemanticInv'
  BY <1>1 DEF SearchInv, SemanticInv, BestScoreFirst
<1> QED
  BY <1>4, <1>5, <1>6 DEF SearchInv

\* Cutting a list leaves a list.
LEMMA FirstItemsType ==
  ASSUME NEW T, NEW s \in Seq(T), NEW n \in Nat
  PROVE  FirstItems(s, n) \in Seq(T)
<1> DEFINE m == Min({n, Len(s)})
<1>1. m \in Nat /\ m <= Len(s)
  BY MinOfTwo
<1> HIDE DEF m
<1>2. \A i \in 1 .. m : s[i] \in T
  BY <1>1
<1>3. [i \in 1 .. m |-> s[i]] \in Seq(T)
  BY <1>1, <1>2
<1> QED
  BY <1>3 DEF FirstItems, m

\* A final score is a number.
LEMMA FinalScoreType ==
  ASSUME NEW r \in Result, NEW found \in [Keys -> 0 .. Terms]
  PROVE  FinalScore(r, found) \in Nat
<1> DEFINE a == 7 * Terms * Unit * r.score
           b == 3 * Denominator * found[KeyOf[r.point]]
           d == Max({1, (Terms * Denominator) \div 1000})
<1>1. /\ Terms \in Nat /\ Unit \in Nat /\ Denominator \in Nat
      /\ r.score \in Nat /\ found[KeyOf[r.point]] \in Nat
  <2>1. r.score \in Nat /\ r.point \in Points
    BY DEF Result
  <2> QED
    BY <2>1, UnitType, DenominatorType, NumbersAssumption, PointsAssumption
<1>2. a \in Nat /\ b \in Nat
  <2>1. 7 * Terms \in Nat /\ 3 * Denominator \in Nat
    BY <1>1, TimesNat
  <2>2. 7 * Terms * Unit \in Nat
    BY <1>1, <2>1, TimesNat
  <2> QED
    BY <1>1, <2>1, <2>2, TimesNat
<1>3. d \in Nat \ {0}
  <2>1. Terms * Denominator \in Nat
    BY <1>1, TimesNat
  <2>2. (Terms * Denominator) \div 1000 \in Nat
    BY <2>1
  <2> QED
    BY <2>2, MaxOfTwo
<1>4. FinalScore(r, found) = Nearest(a + b, d)
  BY DEF FinalScore
<1> HIDE DEF a, b, d
<1>5. a + b \in Nat
  BY <1>2
<1>6. Nearest(a + b, d) \in Nat
  BY <1>3, <1>5, NearestType
<1> QED
  BY <1>4, <1>6

\* The reranker keeps it: the answer is what it makes of the results and the terms found.
LEMMA RerankInv == ASSUME SearchInv, Rerank PROVE SearchInv'
<1>1. /\ stage = "rerank" /\ stage' = "done" /\ kind = "chat"
      /\ UNCHANGED <<kind, vector, fts, results, groups>>
  BY DEF Rerank, SearchInv, StageInv
<1>2. PICK found \in [Keys -> 0 .. Terms] : matches' = found /\ answer' = Reranked(Rescored(found))
  BY DEF Rerank
<1>3. FusedResults' = FusedResults
  BY <1>1, FusedResultsKeep
<1> DEFINE n == Len(results)
           final(i) == FinalScore(results[i], found)
           list == Rescored(found)
<1>4. n \in Nat /\ \A i \in 1 .. n : results[i] \in Result /\ results[i].point \in Points
  <2>1. results \in Seq(Result)
    BY DEF SearchInv, TypeOK
  <2>2. n \in Nat /\ \A i \in 1 .. n : results[i] \in Result
    BY <2>1
  <2>3. \A q \in Result : q.point \in Points
    BY DEF Result
  <2> QED
    BY <2>2, <2>3
<1>5. \A i \in 1 .. n : final(i) \in Nat
  BY <1>4, FinalScoreType
<1>6. list = [i \in 1 .. n |-> [point |-> results[i].point, score |-> final(i)]]
  BY DEF Rescored
<1> HIDE DEF n, final, list
<1>7. \A i \in 1 .. n : [point |-> results[i].point, score |-> final(i)] \in Result
  BY <1>4, <1>5 DEF Result
<1>8. list \in Seq(Result) /\ Len(list) = n
  BY <1>4, <1>6, <1>7
<1> DEFINE score == [i \in 1 .. Len(list) |-> list[i].score]
<1>9. score \in [1 .. Len(list) -> Int]
  <2>1. \A i \in 1 .. Len(list) : list[i].score = final(i)
    BY <1>6, <1>8
  <2> QED
    BY <1>5, <1>8, <2>1
<1>10. Reranked(list) = FirstItems(SortedBy(list, score), TopN)
  BY DEF Reranked
<1> HIDE DEF score
<1>11. SortedBy(list, score) \in Seq(Result)
  BY <1>8, <1>9, SortedBySorts
<1>12. Reranked(list) \in Seq(Result)
  BY <1>10, <1>11, FirstItemsType, NumbersAssumption
<1>13. TypeOK'
  BY <1>1, <1>2, <1>12 DEF SearchInv, TypeOK, Stages, list
<1>14. AnswerInv'
  <2>1. Reranked(Rescored(matches))' = Reranked(Rescored(matches'))
    BY <1>1, RerankedKeep
  <2> QED
    BY <1>2, <2>1 DEF AnswerInv, list
<1>15. StageInv' /\ ListsInv' /\ FilterInv' /\ SemanticInv' /\ FusedInv' /\ GroupedInv'
  BY <1>1, <1>3 DEF SearchInv, StageInv, ListsInv, FilterInv, SemanticInv, FusedInv, GroupedInv,
                    Fused
<1> QED
  BY <1>13, <1>14, <1>15 DEF SearchInv

\* Every step of a request preserves the inductive invariant.
THEOREM SearchNextInv == SearchInv /\ [Next]_vars => SearchInv'
<1> SUFFICES ASSUME SearchInv, [Next]_vars PROVE SearchInv'
  OBVIOUS
<1> QED
  BY FailInv, EmbedInv, VectorSearchInv, FullTextSearchInv, FuseInv, GroupInv, RerankInv,
     SearchStutterInv DEF Next

\* The inductive invariant holds in every state of a request: the results are those that
\* fusion makes of the two lists, the groups and the answer those made of the results.
THEOREM Inductive == Spec => []SearchInv
<1>1. Init => SearchInv
  BY SearchInitInv
<1>2. SearchInv /\ [Next]_vars => SearchInv'
  BY SearchNextInv
<1> QED
  BY <1>1, <1>2, PTL DEF Spec

-----------------------------------------------------------------------------
(* What follows from it.                                                   *)

\* The lists, the results, the groups and the answer have their types in every state.
THEOREM TypeCorrect == Spec => []TypeOK
<1>1. SearchInv => TypeOK
  BY DEF SearchInv
<1> QED
  BY <1>1, Inductive, PTL

\* In a fused answer the results are the fused keys.
LEMMA FusedAnswer ==
  ASSUME SearchInv, Fused
  PROVE  /\ IsTop(FusedKeys, FusedLimit) /\ Len(results) \in Nat
         /\ Len(results) = Len(FusedKeys)
         /\ \A i \in 1 .. Len(results) : /\ KeyAt(i) = FusedKeys[i] /\ FusedKeys[i] \in Seen
                                         /\ results[i].point = Shown(FusedKeys[i])
<1>1. vector \in Seq(Points) /\ fts \in Seq(Points) /\ results = FusedResults
  BY DEF SearchInv, TypeOK, FusedInv
<1>2. IsTop(FusedKeys, FusedLimit)
  BY <1>1, FusedKeysAreTop
<1>3. /\ FusedResults \in Seq(Result) /\ Len(FusedResults) = Len(FusedKeys)
      /\ \A i \in 1 .. Len(FusedKeys) :
           /\ FusedKeys[i] \in Seen /\ FusedResults[i].point = Shown(FusedKeys[i])
           /\ KeyOf[FusedResults[i].point] = FusedKeys[i]
  BY <1>1, FusedResultsSorted
<1>4. Len(results) \in Nat
  BY <1>1, <1>3
<1> QED
  BY <1>1, <1>2, <1>3, <1>4 DEF KeyAt

\* Fusion returns the best of what the two searches found.
LEMMA TopOfFused == ASSUME SearchInv PROVE FusedTop
<1> SUFFICES ASSUME Fused
             PROVE  LET kept == {KeyAt(i) : i \in 1 .. Len(results)}
                    IN /\ kept \subseteq Seen
                       /\ Len(results) = Cardinality(kept)
                       /\ Len(results) = Min({FusedLimit, Cardinality(Seen)})
                       /\ \A i, j \in 1 .. Len(results) :
                            i < j => ReferenceScore(KeyAt(i)) >= ReferenceScore(KeyAt(j))
                       /\ \A k \in kept, l \in Seen \ kept : ReferenceScore(k) >= ReferenceScore(l)
  BY DEF FusedTop, Seen
<1> DEFINE n == Len(results)
           kept == {KeyAt(i) : i \in 1 .. n}
           keys == FusedKeys
<1>1. /\ n \in Nat /\ n = Len(keys) /\ IsTop(keys, FusedLimit)
      /\ \A i \in 1 .. n : KeyAt(i) = keys[i] /\ keys[i] \in Seen
  BY FusedAnswer
<1> HIDE DEF keys
<1>2. /\ \A k \in kept : \E i \in 1 .. n : keys[i] = k
      /\ \A i \in 1 .. n : keys[i] \in kept
  BY <1>1
<1> HIDE DEF kept, n
<1>3. keys \in Seq(Keys) /\ \A i \in 1 .. n : keys[i] \in Keys
  <2>1. keys \in Seq(Keys)
    BY <1>1 DEF IsTop
  <2> QED
    BY <1>1, <2>1
<1>4. Seen \subseteq Keys
  <2>1. vector \in Seq(Points) /\ fts \in Seq(Points)
    BY DEF SearchInv, TypeOK
  <2>2. \A p \in ToSet(vector) \cup ToSet(fts) : p \in Points
    BY <2>1 DEF ToSet
  <2> QED
    BY <2>2, PointsAssumption DEF Seen
<1>5. \A k \in Keys : Scores[k] = ReferenceScore(k)
  BY ScoresAreSums DEF SearchInv, TypeOK
<1>6. n = Min({FusedLimit, Cardinality(Seen)})
  BY <1>1 DEF IsTop
<1>7. \A i, j \in 1 .. n : i < j => keys[i] # keys[j] /\ Scores[keys[i]] >= Scores[keys[j]]
  BY <1>1 DEF IsTop
<1>8. kept \subseteq Seen
  BY <1>1, <1>2
<1>9. Cardinality(kept) = n
  <2>1. DOMAIN keys = 1 .. n /\ n \in Nat
    BY <1>1, <1>3
  <2>2. \A i \in 1 .. n : keys[i] \in kept
    BY <1>2
  <2>3. \A i, j \in 1 .. n : i < j => keys[i] # keys[j]
    BY <1>7
  <2>4. \A k \in kept : \E i \in 1 .. n : keys[i] = k
    BY <1>2
  <2> HIDE DEF IsTop
  <2> QED
    BY <2>1, <2>2, <2>3, <2>4, CountedBy
<1>10. \A i, j \in 1 .. n : i < j => ReferenceScore(KeyAt(i)) >= ReferenceScore(KeyAt(j))
  BY <1>1, <1>3, <1>5, <1>7
<1>11. \A l \in Seen : \/ \E j \in 1 .. n : keys[j] = l
                       \/ \A i \in 1 .. n : Scores[keys[i]] >= Scores[l]
  BY <1>1 DEF IsTop
<1>12. \A k \in kept, l \in Seen \ kept : ReferenceScore(k) >= ReferenceScore(l)
  <2> SUFFICES ASSUME NEW k \in kept, NEW l \in Seen \ kept
               PROVE  ReferenceScore(k) >= ReferenceScore(l)
    OBVIOUS
  <2>1. PICK i \in 1 .. n : keys[i] = k
    BY <1>2
  <2>2. ~ \E j \in 1 .. n : keys[j] = l
    BY <1>2
  <2>3. Scores[k] >= Scores[l]
    BY <1>11, <2>1, <2>2
  <2>4. k \in Keys /\ l \in Keys
    BY <1>4, <1>8
  <2> QED
    BY <1>5, <2>3, <2>4
<1> QED
  BY <1>6, <1>8, <1>9, <1>10, <1>12 DEF kept, n

\* Reciprocal rank fusion returns the best keys of the two lists, each once, best first, as
\* many as the limit allows, for every limit, k and pair of lists.
THEOREM FusedTopHolds == Spec => []FusedTop
<1>1. SearchInv => FusedTop
  BY TopOfFused
<1> QED
  BY <1>1, Inductive, PTL

\* What is shown of a type that was not asked for is of the full-text search alone.
LEMMA StraysOfText == ASSUME SearchInv PROVE OnlyTextStrays
<1> SUFFICES ASSUME stage = "done", kind # "chat", NEW i \in 1 .. Len(results),
                    results[i].point \in OffType
             PROVE  results[i].point \in ToSet(fts) /\ RanksIn(vector, KeyAt(i)) = {}
  BY DEF OnlyTextStrays
<1>1. /\ vector \in Seq(Points) /\ fts \in Seq(Points) /\ kind \in Kinds
      /\ \A j \in 1 .. Len(vector) : vector[j] \notin OffType
  BY DEF SearchInv, TypeOK, FilterInv
<1>2. ASSUME kind = "semantic" PROVE FALSE
  <2>1. i \in 1 .. Len(vector) /\ results[i].point = vector[i]
    BY <1>2 DEF SearchInv, SemanticInv
  <2> QED
    BY <1>1, <2>1
<1>3. Fused
  BY <1>2 DEF Fused
<1>4. KeyAt(i) = FusedKeys[i] /\ FusedKeys[i] \in Seen /\ results[i].point = Shown(FusedKeys[i])
  BY <1>3, FusedAnswer
<1>5. \/ results[i].point \in ToSet(vector)
      \/ results[i].point \in ToSet(fts) /\ RanksIn(vector, KeyAt(i)) = {}
  BY <1>1, <1>4, ShownHasKey
<1>6. results[i].point \notin ToSet(vector)
  <2>1. \A p \in ToSet(vector) : \E j \in 1 .. Len(vector) : vector[j] = p
    BY <1>1 DEF ToSet
  <2> QED
    BY <1>1, <2>1
<1> QED
  BY <1>5, <1>6

\* A search shows a chunk of a type that was not asked for only when the vector search, which
\* filters by type, has not found the chunk: result_map prefers the vector results.
THEOREM OnlyTextStraysHolds == Spec => []OnlyTextStrays
<1>1. SearchInv => OnlyTextStrays
  BY StraysOfText
<1> QED
  BY <1>1, Inductive, PTL

\* The groups of an answer are those of its files, as they are before they are sorted.
LEMMA GroupsOfResults == ASSUME SearchInv PROVE GroupsFollowResults
<1> SUFFICES ASSUME stage = "done", kind # "chat" PROVE GroupsFollowResults
  BY DEF GroupsFollowResults
<1>1. results \in Seq(Result) /\ BestScoreFirst
  BY ResultsInOrder
<1>2. groups = FileGroups
  BY <1>1, GroupsInOrder DEF SearchInv, GroupedInv
<1>3. AreGroups(groups)
  BY <1>1, <1>2, FileGroupsAreGroups
<1> DEFINE n == Len(groups)
<1> HIDE DEF n
<1>4. ASSUME NEW g \in 1 .. n
      PROVE  groups[g] # << >> /\ File(groups[g][1]) = Files[g] /\ IsGroup(groups[g], Files[g])
  <2> DEFINE group == groups[g]
             f == Files[g]
  <2>1. PICK place : IsFileGroup(group, f, place)
    BY <1>3 DEF AreGroups, n
  <2> HIDE DEF group, f
  <2>2. group \in Seq(Result) /\ Len(group) \in Nat /\ 1 \in 1 .. Len(group) /\ group # << >>
    BY <2>1 DEF IsFileGroup
  <2>3. /\ place \in [1 .. Len(group) -> Where(f)]
        /\ \A i \in 1 .. Len(group) : group[i] = results[place[i]]
        /\ \A i, j \in 1 .. Len(group) : i < j => place[i] < place[j]
        /\ \A i \in Where(f) : \E j \in 1 .. Len(group) : place[j] = i
    BY <2>1 DEF IsFileGroup, IsSelection
  <2>4. File(group[1]) = f
    <3>1. place[1] \in Where(f) /\ group[1] = results[place[1]]
      BY <2>2, <2>3
    <3> QED
      BY <3>1 DEF Where
  <2>5. \A i \in 1 .. Len(results) :
          File(results[i]) = f => \E j \in 1 .. Len(group) : place[j] = i
    BY <2>3 DEF Where
  <2>6. IsGroup(group, f)
    BY <2>3, <2>5 DEF IsGroup, Where
  <2> QED
    BY <2>2, <2>4, <2>6 DEF group, f
<1>5. \A i \in 1 .. Len(results) : \E g \in 1 .. n : File(groups[g][1]) = File(results[i])
  <2> SUFFICES ASSUME NEW i \in 1 .. Len(results)
               PROVE  \E g \in 1 .. n : File(groups[g][1]) = File(results[i])
    OBVIOUS
  <2>1. PICK g \in 1 .. n : Files[g] = FileAt(i)
    BY <1>3 DEF AreGroups, n
  <2> QED
    BY <1>4, <2>1 DEF FileAt
<1>6. \A g, h \in 1 .. n : g < h =>
        \E i \in 1 .. Len(results) :
          /\ File(results[i]) = File(groups[g][1])
          /\ \A j \in 1 .. i : File(results[j]) # File(groups[h][1])
  <2> SUFFICES ASSUME NEW g \in 1 .. n, NEW h \in 1 .. n, g < h
               PROVE  \E i \in 1 .. Len(results) :
                        /\ File(results[i]) = File(groups[g][1])
                        /\ \A j \in 1 .. i : File(results[j]) # File(groups[h][1])
    OBVIOUS
  <2>1. PICK i \in 1 .. Len(results) :
          FileAt(i) = Files[g] /\ \A j \in 1 .. i : FileAt(j) # Files[h]
    BY <1>3 DEF AreGroups, n
  <2> QED
    BY <1>4, <2>1 DEF FileAt
<1>7. \A g \in 1 .. n : groups[g] # << >> /\ IsGroup(groups[g], File(groups[g][1]))
  <2> SUFFICES ASSUME NEW g \in 1 .. n
               PROVE  groups[g] # << >> /\ IsGroup(groups[g], File(groups[g][1]))
    OBVIOUS
  <2>1. groups[g] # << >> /\ File(groups[g][1]) = Files[g] /\ IsGroup(groups[g], Files[g])
    BY <1>4
  <2> QED
    BY <2>1
<1> QED
  BY <1>5, <1>6, <1>7 DEF GroupsFollowResults, n

\* _group_results neither loses nor repeats a result, keeps their order within a file, and
\* shows the files in the order in which the results first mention them.
THEOREM GroupsFollowResultsHolds == Spec => []GroupsFollowResults
<1>1. SearchInv => GroupsFollowResults
  BY GroupsOfResults
<1> QED
  BY <1>1, Inductive, PTL

-----------------------------------------------------------------------------
(* Keywords and ranks.                                                     *)

\* A greater divisor gives no greater quotient.
LEMMA DivBySmaller ==
  ASSUME NEW a \in Nat, NEW u \in Nat \ {0}, NEW v \in Nat \ {0}, u <= v
  PROVE  a \div v <= a \div u
<1> DEFINE p == a \div u
           q == a \div v
<1>1. p \in Nat /\ a < u * p + u /\ q \in Nat /\ v * q <= a
  BY Quotient
<1> HIDE DEF p, q
<1>2. q * u <= q * v /\ u * q = q * u /\ v * q = q * v
  BY <1>1, TimesMono
<1>3. u * q \in Nat /\ v * q \in Nat /\ u * p \in Nat
  BY <1>1, TimesNat
<1>4. u * q < u * p + u
  BY <1>1, <1>2, <1>3
<1> QED
  BY <1>1, <1>4, SmallerFactor DEF p, q

\* No key has more points than so many: an index that is built again adds points.
AtMostCopies(copies) == \A k \in Keys : Cardinality({p \in Points : KeyOf[p] = k}) <= copies

\* As many ranks as a key has points.
LEMMA RanksBound ==
  ASSUME NEW list \in Seq(Points), IsInjective(list), NEW copies \in Nat, AtMostCopies(copies),
         NEW k \in Keys
  PROVE  /\ IsFiniteSet(RanksIn(list, k)) /\ Cardinality(RanksIn(list, k)) \in Nat
         /\ Cardinality(RanksIn(list, k)) <= copies
<1> DEFINE R == RanksIn(list, k)
           P == {p \in Points : KeyOf[p] = k}
           f == [i \in R |-> list[i]]
<1>1. \A i \in R : i \in DOMAIN list /\ list[i] \in P
  BY DEF RanksIn
<1>2. IsFiniteSet(P) /\ Cardinality(P) \in Nat /\ Cardinality(P) <= copies
  <2>1. P \in SUBSET Points
    OBVIOUS
  <2>2. IsFiniteSet(P)
    BY <2>1, PointsAssumption, FS_Subset
  <2> QED
    BY <2>2, FS_CardinalityType DEF AtMostCopies
<1> HIDE DEF R, P
<1>3. f \in [R -> P] /\ DOMAIN f = R
  BY <1>1
<1>4. \A i, j \in R : f[i] = f[j] => i = j
  BY <1>1 DEF IsInjective
<1> HIDE DEF f
<1>5. f \in Injection(R, P)
  BY <1>3, <1>4 DEF Injection, IsInjective
<1>6. IsFiniteSet(R) /\ Cardinality(R) <= Cardinality(P)
  BY <1>2, <1>5, FS_Injection
<1>7. Cardinality(R) \in Nat
  BY <1>6, FS_CardinalityType
<1> QED
  BY <1>2, <1>6, <1>7 DEF R

\* No rank weighs more than the first.
LEMMA SumBound ==
  ASSUME NEW list \in Seq(Points), NEW k \in Keys, IsFiniteSet(RanksIn(list, k))
  PROVE  SumOfRanks(list, k) <= Cardinality(RanksIn(list, k)) * Weight(1)
<1> DEFINE n == Len(list)
           R(r) == {i \in 1 .. r : KeyOf[list[i]] = k}
<1>1. n \in Nat
  OBVIOUS
<1>2. PICK S \in [0 .. n -> Nat] : SumOfRanks(list, k) = S[n] /\ Sums(S, list, k)
  BY SumOfRanksIsDefined
<1>3. Weight(1) \in Nat
  BY WeightType
<1> DEFINE Good == {r \in 0 .. n : IsFiniteSet(R(r)) /\ S[r] <= Cardinality(R(r)) * Weight(1)}
<1>4. 0 \in Good
  <2>1. R(0) = {}
    OBVIOUS
  <2>2. S[0] = 0
    BY <1>2 DEF Sums
  <2>3. IsFiniteSet({}) /\ Cardinality({}) * Weight(1) = 0
    BY <1>3, FS_EmptySet
  <2> QED
    BY <1>1, <2>1, <2>2, <2>3
<1>5. \A m \in 0 .. n - 1 : m \in Good => m + 1 \in Good
  <2> SUFFICES ASSUME NEW m \in 0 .. n - 1, m \in Good PROVE m + 1 \in Good
    OBVIOUS
  <2> DEFINE r == m + 1
             w == Weight(r)
             c == Cardinality(R(m))
             x == Weight(1)
  <2>1. m \in 0 .. n /\ r \in 0 .. n /\ r \in 1 .. n /\ r - 1 = m /\ r \in Nat \ {0} /\ m \in Nat
    BY <1>1
  <2>2. IsFiniteSet(R(m)) /\ S[m] <= c * x /\ S[m] \in Nat /\ S[r] \in Nat
    BY <2>1
  <2>3. c \in Nat /\ x \in Nat
    BY <1>3, <2>2, FS_CardinalityType
  <2>4. w \in Nat /\ w <= x
    <3>1. K + 1 \in Nat \ {0} /\ K + r \in Nat \ {0} /\ K + 1 <= K + r /\ Denominator \in Nat
      BY <2>1, NumbersAssumption, DenominatorType
    <3>2. Denominator \div (K + r) <= Denominator \div (K + 1)
      BY <3>1, DivBySmaller
    <3> QED
      BY <2>1, <3>2, WeightType DEF Weight
  <2>5. S[r] = S[m] + (IF r \in RanksIn(list, k) THEN w ELSE 0)
    BY <1>2, <2>1 DEF Sums
  <2>6. r \in RanksIn(list, k) <=> KeyOf[list[r]] = k
    BY <2>1 DEF RanksIn
  <2>7. CASE KeyOf[list[r]] = k
    <3>1. R(r) = R(m) \cup {r} /\ r \notin R(m)
      BY <2>1, <2>7
    <3> HIDE DEF R, r, w, x, c
    <3>2. IsFiniteSet(R(r)) /\ Cardinality(R(r)) = c + 1
      BY <2>2, <3>1, FS_AddElement DEF c
    <3>3. (c + 1) * x = c * x + x /\ c * x \in Nat
      BY <2>3, TimesNat
    <3>4. S[r] <= (c + 1) * x
      BY <2>2, <2>3, <2>4, <2>5, <2>6, <2>7, <3>3
    <3> QED
      BY <2>1, <3>2, <3>4 DEF r, x
  <2>8. CASE KeyOf[list[r]] # k
    <3>1. R(r) = R(m)
      BY <2>1, <2>8
    <3>2. S[r] = S[m]
      BY <2>2, <2>5, <2>6, <2>8
    <3> QED
      BY <2>1, <2>2, <3>1, <3>2
  <2> QED
    BY <2>7, <2>8
<1>6. 0 .. n \subseteq Good
  <2> HIDE DEF Good, n
  <2> QED
    BY <1>1, <1>4, <1>5, InductTo
<1>7. n \in Good
  <2>1. n \in 0 .. n
    BY <1>1
  <2> HIDE DEF Good, n
  <2> QED
    BY <1>6, <2>1
<1>8. R(n) = RanksIn(list, k)
  BY DEF RanksIn
<1> QED
  BY <1>2, <1>7, <1>8

\* So few terms that a keyword outweighs all that the ranks can add.
FewTerms(copies) == Terms * (14000000 * copies + 1004 * (K + 1)) <= 3000000 * (K + 1)

\* What a keyword adds to a final score, less the most that ranks and rounding can add, is at
\* least the unit to which the final score is rounded.
LEMMA KeywordOutweighs ==
  ASSUME NEW t \in Nat, NEW D \in Nat \ {0}, NEW k \in Nat \ {0}, NEW c \in Nat, NEW w \in Nat,
         NEW h \in Nat, k * w <= D, 2000000 * h <= D,
         t * (14000000 * c + 1004 * k) <= 3000000 * k
  PROVE  1000 * (3 * D - 14 * (t * c * w) - 7 * (t * h)) >= t * D
<1> DEFINE a == t * c * w
           e == t * D
           b == t * h
<1>1. a \in Nat /\ e \in Nat /\ b \in Nat /\ t * c \in Nat
  BY TimesNat
<1>2. k * a <= t * c * D
  <2>1. (t * c) * (k * w) <= (t * c) * D
    BY <1>1, TimesMono, TimesNat
  <2>2. (t * c) * (k * w) = k * a
    OBVIOUS
  <2> QED
    BY <2>1, <2>2
<1>3. 14000000 * (t * c * D) + 1004 * (k * e) <= 3000000 * (k * D)
  <2>1. D * (t * (14000000 * c + 1004 * k)) <= D * (3000000 * k)
    <3>1. 14000000 * c + 1004 * k \in Nat /\ 3000000 * k \in Nat
      OBVIOUS
    <3>2. t * (14000000 * c + 1004 * k) \in Nat
      BY <3>1, TimesNat
    <3> QED
      BY <3>1, <3>2, TimesMono
  <2>2. D * (t * (14000000 * c + 1004 * k)) = 14000000 * (t * c * D) + 1004 * (k * e)
    OBVIOUS
  <2>3. D * (3000000 * k) = 3000000 * (k * D)
    OBVIOUS
  <2> QED
    BY <2>1, <2>2, <2>3
<1>4. t * c * D \in Nat /\ k * a \in Nat /\ k * e \in Nat /\ k * D \in Nat
  BY <1>1, TimesNat
<1>5. /\ k * (14000000 * a + 1004 * e) = 14000000 * (k * a) + 1004 * (k * e)
      /\ k * (3000000 * D) = 3000000 * (k * D)
  BY <1>1
<1>6. k * (14000000 * a + 1004 * e) <= k * (3000000 * D)
  BY <1>2, <1>3, <1>4, <1>5
<1>7. 14000000 * a + 1004 * e \in Nat /\ 3000000 * D \in Nat
  BY <1>1
<1>8. k * (14000000 * a + 1004 * e) < k * (3000000 * D) + k
  <2>1. k * (3000000 * D) \in Nat /\ k * (14000000 * a + 1004 * e) \in Nat
    BY <1>7, TimesNat
  <2> QED
    BY <1>6, <2>1
<1>9. 14000000 * a + 1004 * e <= 3000000 * D
  BY <1>7, <1>8, SmallerFactor
<1>10. 2000000 * b <= e
  <2>1. t * (2000000 * h) <= t * D
    BY TimesMono
  <2>2. t * (2000000 * h) = 2000000 * (t * h)
    OBVIOUS
  <2> QED
    BY <2>1, <2>2
<1> HIDE DEF a, e, b
<1>11. 1000 * (3 * D - 14 * a - 7 * b) >= e
  BY <1>1, <1>9, <1>10
<1> QED
  BY <1>11 DEF a, e, b

\* How a final score is divided.
Divisor == Max({1, (Terms * Denominator) \div 1000})

\* It is not zero, and a thousandth of the denominator is at least it.
LEMMA DivisorType ==
  /\ Divisor \in Nat \ {0}
  /\ \A x \in Int : 1000 * x >= Terms * Denominator => x >= Divisor
<1> DEFINE e == Terms * Denominator
           q == e \div 1000
<1>1. e \in Nat \ {0}
  BY DenominatorType, NumbersAssumption, TimesNat
<1>2. q \in Nat /\ 1000 * q <= e
  BY <1>1, Quotient
<1> HIDE DEF e, q
<1>3. Divisor = IF 1 >= q THEN 1 ELSE q
  <2>1. Divisor = Max({1, q})
    BY DEF Divisor, e, q
  <2> QED
    BY <1>2, <2>1, MaxOfTwo
<1>4. \A x \in Int : 1000 * x >= e => x >= Divisor
  BY <1>1, <1>2, <1>3
<1> QED
  BY <1>2, <1>3, <1>4 DEF e

\* Rounding a fused score adds less than a millionth to it.
LEMMA HalfUnit == Unit \div 2 \in Nat /\ 2000000 * (Unit \div 2) <= Denominator
<1> DEFINE q == Denominator \div 1000000
<1>1. q \in Nat /\ 1000000 * q <= Denominator /\ Denominator \in Nat
  BY DenominatorType, Quotient
<1> HIDE DEF q
<1>2. Unit = IF 1 >= q THEN 1 ELSE q
  <2>1. Unit = Max({1, q})
    BY DEF Unit, q
  <2> QED
    BY <1>1, <2>1, MaxOfTwo
<1> QED
  BY <1>1, <1>2

\* A fused score is a sum of few weights.
LEMMA ScoreBound ==
  ASSUME SearchInv, NEW copies \in Nat, AtMostCopies(copies), NEW k \in Keys
  PROVE  /\ Rounded(Scores[k]) \in Nat
         /\ Unit * Rounded(Scores[k]) <= 2 * (copies * Weight(1)) + Unit \div 2
<1> DEFINE x == Weight(1)
           cv == Cardinality(RanksIn(vector, k))
           cf == Cardinality(RanksIn(fts, k))
<1>1. /\ vector \in Seq(Points) /\ fts \in Seq(Points)
      /\ IsInjective(vector) /\ IsInjective(fts)
  BY DEF SearchInv, TypeOK, ListsInv
<1>2. x \in Nat
  BY WeightType
<1>3. IsFiniteSet(RanksIn(vector, k)) /\ cv \in Nat /\ cv <= copies
  BY <1>1, RanksBound
<1>4. IsFiniteSet(RanksIn(fts, k)) /\ cf \in Nat /\ cf <= copies
  BY <1>1, RanksBound
<1>5. SumOfRanks(vector, k) <= cv * x /\ SumOfRanks(fts, k) <= cf * x
  BY <1>1, <1>3, <1>4, SumBound
<1>6. SumOfRanks(vector, k) \in Nat /\ SumOfRanks(fts, k) \in Nat
  <2>1. [l \in Keys |-> 0] \in [Keys -> Nat]
    OBVIOUS
  <2> QED
    BY <1>1, <2>1, AddRanksAdds
<1>7. Scores[k] \in Nat /\ Scores[k] = SumOfRanks(vector, k) + SumOfRanks(fts, k)
  BY <1>1, ScoresAreSums DEF ReferenceScore
<1> HIDE DEF x, cv, cf
<1>8. cv * x <= copies * x /\ cf * x <= copies * x /\ copies * x \in Nat
  <2>1. x * cv <= x * copies /\ x * cf <= x * copies
    BY <1>2, <1>3, <1>4, TimesMono
  <2>2. cv * x = x * cv /\ cf * x = x * cf /\ copies * x = x * copies
    BY <1>2, <1>3, <1>4
  <2> QED
    BY <1>2, <2>1, <2>2, TimesNat
<1>9. cv * x \in Nat /\ cf * x \in Nat
  BY <1>2, <1>3, <1>4, TimesNat
<1>10. Scores[k] <= 2 * (copies * x)
  BY <1>5, <1>6, <1>7, <1>8, <1>9
<1>11. /\ Rounded(Scores[k]) \in Nat
       /\ Unit * Rounded(Scores[k]) <= Scores[k] + Unit \div 2
  BY <1>7, UnitType, NearestType DEF Rounded
<1>12. Unit * Rounded(Scores[k]) \in Nat /\ Unit \div 2 \in Nat
  BY <1>11, UnitType, TimesNat, HalfUnit
<1> QED
  BY <1>7, <1>8, <1>10, <1>11, <1>12 DEF x

\* What a final score is made of.
Parts(score, found) == 7 * Terms * Unit * score + 3 * Denominator * found

\* The parts are numbers; the products in an order that the steps below use.
LEMMA PartsType ==
  ASSUME NEW s \in Nat, NEW m \in Nat
  PROVE  /\ Parts(s, m) \in Nat /\ Terms * (Unit * s) \in Nat /\ Denominator * m \in Nat
         /\ Parts(s, m) = 7 * (Terms * (Unit * s)) + 3 * (Denominator * m)
<1>1. Terms \in Nat /\ Unit \in Nat /\ Denominator \in Nat
  BY NumbersAssumption, UnitType, DenominatorType
<1> DEFINE t == Terms
           u == Unit
           d == Denominator
<1> HIDE DEF t, u, d
<1>2. t \in Nat /\ u \in Nat /\ d \in Nat
  BY <1>1 DEF t, u, d
<1>3. 7 * t * u * s = 7 * (t * (u * s)) /\ 3 * d * m = 3 * (d * m)
  BY <1>2
<1>4. u * s \in Nat
  BY <1>2, TimesNat
<1>5. t * (u * s) \in Nat /\ d * m \in Nat
  BY <1>2, <1>4, TimesNat
<1>6. Parts(s, m) = 7 * t * u * s + 3 * d * m
  BY DEF Parts, t, u, d
<1>7. Parts(s, m) = 7 * (t * (u * s)) + 3 * (d * m) /\ Parts(s, m) \in Nat
  BY <1>3, <1>5, <1>6
<1> QED
  BY <1>5, <1>7 DEF t, u, d

\* With the same terms, the final scores are in the order of the fused ones.
LEMMA SameTerms ==
  ASSUME NEW s \in Nat, NEW r \in Nat, s >= r, NEW m \in Nat
  PROVE  Nearest(Parts(s, m), Divisor) >= Nearest(Parts(r, m), Divisor)
<1>1. Terms \in Nat /\ Unit \in Nat
  BY NumbersAssumption, UnitType
<1>2. Unit * r <= Unit * s /\ Unit * r \in Nat /\ Unit * s \in Nat
  BY <1>1, TimesMono, TimesNat
<1>3. Terms * (Unit * r) <= Terms * (Unit * s)
  BY <1>1, <1>2, TimesMono
<1>4. /\ Parts(s, m) \in Nat /\ Terms * (Unit * s) \in Nat /\ Denominator * m \in Nat
      /\ Parts(s, m) = 7 * (Terms * (Unit * s)) + 3 * (Denominator * m)
  BY PartsType
<1>5. /\ Parts(r, m) \in Nat /\ Terms * (Unit * r) \in Nat
      /\ Parts(r, m) = 7 * (Terms * (Unit * r)) + 3 * (Denominator * m)
  BY PartsType
<1>6. Parts(s, m) >= Parts(r, m)
  BY <1>3, <1>4, <1>5
<1> QED
  BY <1>4, <1>5, <1>6, DivisorType, NearestOrder

\* With more of the terms, the final score is higher whatever the fused ones are.
LEMMA MoreTerms ==
  ASSUME NEW copies \in Nat, FewTerms(copies), NEW s \in Nat, NEW r \in Nat,
         Unit * r <= 2 * (copies * Weight(1)) + Unit \div 2, NEW m \in Nat, NEW l \in Nat, m > l
  PROVE  Nearest(Parts(s, m), Divisor) > Nearest(Parts(r, l), Divisor)
<1> DEFINE t == Terms
           D == Denominator
           w == Weight(1)
           a == t * copies * w
           h == Unit \div 2
           b == t * h
           x == 3 * D - 14 * a - 7 * b
<1>1. t \in Nat /\ t # 0 /\ D \in Nat \ {0} /\ w \in Nat /\ K + 1 \in Nat \ {0} /\ Unit \in Nat
      /\ h \in Nat /\ 2000000 * h <= D
  BY NumbersAssumption, DenominatorType, WeightType, UnitType, HalfUnit
<1>2. (K + 1) * w <= D
  <2>1. D \in Nat /\ K + 1 \in Nat \ {0}
    BY <1>1
  <2>2. (K + 1) * (D \div (K + 1)) <= D
    <3> HIDE DEF D
    <3> QED
      BY <2>1, Quotient
  <2> QED
    BY <2>2 DEF Weight
<1>3. t * (14000000 * copies + 1004 * (K + 1)) <= 3000000 * (K + 1)
  BY DEF FewTerms
<1>4. 1000 * x >= t * D
  <2> HIDE DEF t, D, w, h
  <2> QED
    BY <1>1, <1>2, <1>3, KeywordOutweighs
<1>5. a \in Nat /\ a = t * (copies * w) /\ copies * w \in Nat
  <2> HIDE DEF t, w
  <2>1. copies * w \in Nat /\ t * copies * w = t * (copies * w)
    BY <1>1, TimesNat
  <2> QED
    BY <1>1, <2>1, TimesNat
<1>6. b \in Nat /\ t * (Unit * r) <= 2 * a + b
  <2>1. Unit * r \in Nat /\ 2 * (copies * w) \in Nat
    BY <1>1, <1>5, TimesNat
  <2>2. t * (Unit * r) <= t * (2 * (copies * w) + h)
    <3>1. 2 * (copies * w) + h \in Nat
      BY <1>1, <2>1
    <3> QED
      BY <1>1, <2>1, <3>1, TimesMono
  <2>3. t * (2 * (copies * w) + h) = 2 * (t * (copies * w)) + t * h
    <3> HIDE DEF t, w, h
    <3> QED
      BY <1>1, <1>5
  <2>4. b \in Nat
    BY <1>1, TimesNat
  <2> QED
    BY <1>5, <2>2, <2>3, <2>4
<1>7. D * m >= D * l + D
  <2>1. l + 1 \in Nat /\ l + 1 <= m
    OBVIOUS
  <2>2. D * (l + 1) <= D * m
    BY <1>1, <2>1, TimesMono
  <2>3. D * (l + 1) = D * l + D
    BY <1>1
  <2> QED
    BY <2>2, <2>3
<1>8. /\ Parts(s, m) \in Nat /\ t * (Unit * s) \in Nat /\ D * m \in Nat
      /\ Parts(s, m) = 7 * (t * (Unit * s)) + 3 * (D * m)
  BY PartsType
<1>9. /\ Parts(r, l) \in Nat /\ t * (Unit * r) \in Nat /\ D * l \in Nat
      /\ Parts(r, l) = 7 * (t * (Unit * r)) + 3 * (D * l)
  BY PartsType
<1>10. Divisor \in Nat \ {0} /\ x >= Divisor
  <2>1. x \in Int
    <3> HIDE DEF a, b, D
    <3> QED
      BY <1>1, <1>5, <1>6
  <2> QED
    BY <1>4, <2>1, DivisorType
<1>11. Parts(s, m) >= Parts(r, l) + x
  <2> DEFINE ps == Parts(s, m)
             pr == Parts(r, l)
             us == t * (Unit * s)
             ur == t * (Unit * r)
             dm == D * m
             dl == D * l
  <2>1. /\ ps \in Nat /\ pr \in Nat /\ us \in Nat /\ ur \in Nat /\ dm \in Nat /\ dl \in Nat
        /\ a \in Nat /\ b \in Nat /\ D \in Nat
        /\ ps = 7 * us + 3 * dm /\ pr = 7 * ur + 3 * dl /\ ur <= 2 * a + b /\ dm >= dl + D
    BY <1>1, <1>5, <1>6, <1>7, <1>8, <1>9
  <2> HIDE DEF t, D, a, b, ps, pr, us, ur, dm, dl
  <2>2. ps >= pr + x
    BY <2>1
  <2> QED
    BY <2>2 DEF ps, pr
<1>12. Parts(s, m) >= Parts(r, l) + Divisor
  <2>1. x \in Int
    <3> HIDE DEF a, b, D
    <3> QED
      BY <1>1, <1>5, <1>6
  <2> HIDE DEF x
  <2> QED
    BY <1>8, <1>9, <1>10, <1>11, <2>1
<1> QED
  BY <1>8, <1>9, <1>10, <1>12, NearestGrows

\* Of two results of a chat answer, that with more of the terms has the higher final score;
\* of two with as many, the first has none lower than the other.
LEMMA FinalScoresOrder ==
  ASSUME SearchInv, Fused, NEW copies \in Nat, AtMostCopies(copies), FewTerms(copies),
         NEW i \in 1 .. Len(results), NEW j \in 1 .. Len(results)
  PROVE  /\ matches[KeyAt(i)] \in Nat /\ matches[KeyAt(j)] \in Nat
         /\ matches[KeyAt(i)] > matches[KeyAt(j)] =>
              FinalScore(results[i], matches) > FinalScore(results[j], matches)
         /\ i < j /\ matches[KeyAt(i)] = matches[KeyAt(j)] =>
              FinalScore(results[i], matches) >= FinalScore(results[j], matches)
<1>1. /\ vector \in Seq(Points) /\ fts \in Seq(Points) /\ results = FusedResults
      /\ matches \in [Keys -> 0 .. Terms]
  BY DEF SearchInv, TypeOK, FusedInv
<1>2. /\ IsTop(FusedKeys, FusedLimit) /\ Len(results) = Len(FusedKeys)
      /\ KeyAt(i) = FusedKeys[i] /\ KeyAt(j) = FusedKeys[j]
  BY FusedAnswer
<1> DEFINE k == FusedKeys[i]
           l == FusedKeys[j]
<1>3. k \in Keys /\ l \in Keys
  BY <1>2 DEF IsTop
<1>4. results[i].score = Rounded(Scores[k]) /\ results[j].score = Rounded(Scores[l])
  BY <1>1, <1>2 DEF FusedResults, ResultOf
<1>5. i < j => Rounded(Scores[k]) >= Rounded(Scores[l])
  <2>1. \A a, b \in 1 .. Len(FusedKeys) :
          a < b => FusedResults[a].score >= FusedResults[b].score
    BY <1>1, FusedResultsSorted
  <2> QED
    BY <1>1, <1>2, <1>4, <2>1
<1>6. /\ Rounded(Scores[k]) \in Nat /\ Rounded(Scores[l]) \in Nat
      /\ Unit * Rounded(Scores[l]) <= 2 * (copies * Weight(1)) + Unit \div 2
  BY <1>3, ScoreBound
<1>7. matches[k] \in Nat /\ matches[l] \in Nat
  BY <1>1, <1>3, NumbersAssumption
<1>8. /\ FinalScore(results[i], matches) =
           Nearest(Parts(Rounded(Scores[k]), matches[k]), Divisor)
      /\ FinalScore(results[j], matches) =
           Nearest(Parts(Rounded(Scores[l]), matches[l]), Divisor)
  BY <1>2, <1>4 DEF FinalScore, Parts, Divisor, KeyAt
<1> HIDE DEF k, l
<1>9. matches[k] > matches[l] =>
        FinalScore(results[i], matches) > FinalScore(results[j], matches)
  BY <1>6, <1>7, <1>8, MoreTerms
<1>10. i < j /\ matches[k] = matches[l] =>
         FinalScore(results[i], matches) >= FinalScore(results[j], matches)
  BY <1>5, <1>6, <1>7, <1>8, SameTerms
<1> QED
  BY <1>2, <1>7, <1>9, <1>10 DEF k, l

\* What a chat returns: the first of its results, sorted by their final scores.
LEMMA AnswerSorted ==
  ASSUME SearchInv, stage = "done", kind = "chat"
  PROVE  /\ Len(answer) \in Nat /\ Len(results) \in Nat /\ Len(answer) <= Len(results)
         /\ \A i \in 1 .. Len(results) : FinalScore(results[i], matches) \in Nat
         /\ \E place \in [1 .. Len(results) -> 1 .. Len(results)] :
              /\ \A i \in 1 .. Len(answer) : answer[i].point = results[place[i]].point
              /\ \A i, j \in 1 .. Len(results) : i < j =>
                   LET p == FinalScore(results[place[i]], matches)
                       q == FinalScore(results[place[j]], matches)
                   IN p > q \/ (p = q /\ place[i] < place[j])
              /\ \A i \in 1 .. Len(results) : \E q \in 1 .. Len(results) : place[q] = i
<1> DEFINE n == Len(results)
           final == [i \in 1 .. n |-> FinalScore(results[i], matches)]
           list == Rescored(matches)
<1>1. /\ results \in Seq(Result) /\ n \in Nat /\ matches \in [Keys -> 0 .. Terms]
      /\ answer = Reranked(list)
  BY DEF SearchInv, TypeOK, AnswerInv
<1>2. \A i \in 1 .. n : results[i] \in Result /\ results[i].point \in Points
  <2>1. \A i \in 1 .. n : results[i] \in Result
    BY <1>1
  <2>2. \A r \in Result : r.point \in Points
    BY DEF Result
  <2> QED
    BY <2>1, <2>2
<1>3. \A i \in 1 .. n : final[i] = FinalScore(results[i], matches) /\ final[i] \in Nat
  <2>1. \A i \in 1 .. n : FinalScore(results[i], matches) \in Nat
    BY <1>1, <1>2, FinalScoreType
  <2>2. \A i \in 1 .. n : final[i] = FinalScore(results[i], matches)
    OBVIOUS
  <2> HIDE DEF final
  <2> QED
    BY <2>1, <2>2
<1>4. list = [i \in 1 .. n |-> [point |-> results[i].point, score |-> final[i]]]
  BY <1>3 DEF Rescored
<1> HIDE DEF n, final, list
<1>5. \A i \in 1 .. n : [point |-> results[i].point, score |-> final[i]] \in Result
  BY <1>2, <1>3 DEF Result
<1>6. list \in Seq(Result) /\ Len(list) = n
  BY <1>1, <1>4, <1>5
<1>7. \A i \in 1 .. n : list[i].point = results[i].point /\ list[i].score = final[i]
  BY <1>4
<1> DEFINE score == [i \in 1 .. Len(list) |-> list[i].score]
           t == SortedBy(list, score)
           m == Min({TopN, Len(t)})
<1>8. score \in [1 .. Len(list) -> Int] /\ \A i \in 1 .. n : score[i] = final[i]
  BY <1>3, <1>6, <1>7
<1>9. answer = FirstItems(t, TopN)
  BY <1>1 DEF Reranked
<1> HIDE DEF score
<1>10. t \in Seq(Result) /\ Len(t) = n /\ \E place : IsSorting(t, list, score, place)
  BY <1>6, <1>8, SortedBySorts
<1> HIDE DEF t
<1>11. m \in Nat /\ m <= n
  <2>1. m = IF TopN <= n THEN TopN ELSE n
    BY <1>1, <1>10, MinOfTwo, NumbersAssumption
  <2> QED
    BY <1>1, <2>1, NumbersAssumption
<1>12. answer = [i \in 1 .. m |-> t[i]]
  BY <1>9 DEF FirstItems
<1> HIDE DEF m
<1>13. Len(answer) = m /\ \A i \in 1 .. m : answer[i] = t[i]
  BY <1>11, <1>12
<1>14. PICK place : IsSorting(t, list, score, place)
  BY <1>10
<1>15. /\ place \in [1 .. n -> 1 .. n]
       /\ \A i \in 1 .. n : t[i] = list[place[i]]
       /\ \A i, j \in 1 .. n : i < j => \/ score[place[i]] > score[place[j]]
                                        \/ score[place[i]] = score[place[j]] /\ place[i] < place[j]
       /\ \A i \in 1 .. n : \E q \in 1 .. n : place[q] = i
  BY <1>6, <1>14 DEF IsSorting
<1>16. \A i \in 1 .. n : place[i] \in 1 .. n /\ score[place[i]] = final[place[i]]
  BY <1>8, <1>15
<1>17. \A i \in 1 .. m : i \in 1 .. n
  BY <1>1, <1>11
<1>18. \A i \in 1 .. m : answer[i].point = results[place[i]].point
  <2> SUFFICES ASSUME NEW i \in 1 .. m PROVE answer[i].point = results[place[i]].point
    OBVIOUS
  <2>1. i \in 1 .. n /\ answer[i] = t[i]
    BY <1>13, <1>17
  <2>2. t[i] = list[place[i]] /\ place[i] \in 1 .. n
    BY <1>15, <1>16, <2>1
  <2>3. list[place[i]].point = results[place[i]].point
    BY <1>7, <2>2
  <2> QED
    BY <2>1, <2>2, <2>3
<1>19. \A i, j \in 1 .. n : i < j => \/ final[place[i]] > final[place[j]]
                                     \/ final[place[i]] = final[place[j]] /\ place[i] < place[j]
  <2> SUFFICES ASSUME NEW i \in 1 .. n, NEW j \in 1 .. n, i < j
               PROVE  \/ final[place[i]] > final[place[j]]
                      \/ final[place[i]] = final[place[j]] /\ place[i] < place[j]
    OBVIOUS
  <2>1. score[place[i]] = final[place[i]] /\ score[place[j]] = final[place[j]]
    BY <1>16
  <2>2. \/ score[place[i]] > score[place[j]]
        \/ score[place[i]] = score[place[j]] /\ place[i] < place[j]
    BY <1>15
  <2> QED
    BY <2>1, <2>2
<1> QED
  <2>1. \A i, j \in 1 .. n : i < j =>
          LET p == FinalScore(results[place[i]], matches)
              q == FinalScore(results[place[j]], matches)
          IN p > q \/ (p = q /\ place[i] < place[j])
    BY <1>3, <1>16, <1>19
  <2>2. \A i \in 1 .. n : FinalScore(results[i], matches) \in Nat
    BY <1>3
  <2> QED
    BY <1>1, <1>11, <1>13, <1>15, <1>18, <2>1, <2>2 DEF n

\* No point is in the results of a chat twice.
LEMMA PointsOnce ==
  ASSUME SearchInv, Fused
  PROVE  \A i, j \in 1 .. Len(results) : results[i].point = results[j].point => i = j
<1> SUFFICES ASSUME NEW i \in 1 .. Len(results), NEW j \in 1 .. Len(results),
                    results[i].point = results[j].point, i # j
             PROVE  FALSE
  OBVIOUS
<1>1. /\ IsTop(FusedKeys, FusedLimit) /\ Len(results) \in Nat /\ Len(results) = Len(FusedKeys)
      /\ KeyAt(i) = FusedKeys[i] /\ KeyAt(j) = FusedKeys[j]
  BY FusedAnswer
<1>2. FusedKeys[i] = FusedKeys[j]
  BY <1>1 DEF KeyAt
<1>3. i < j \/ j < i
  BY <1>1
<1> QED
  BY <1>1, <1>2, <1>3 DEF IsTop

\* Sorting by the final scores is sorting by the terms, then by the ranks.
LEMMA KeywordsFirst ==
  ASSUME SearchInv, NEW copies \in Nat, AtMostCopies(copies), FewTerms(copies)
  PROVE  KeywordsDecide
<1> SUFFICES ASSUME stage = "done", kind = "chat" PROVE KeywordsDecide
  BY DEF KeywordsDecide
<1> DEFINE n == Len(results)
           c == Len(answer)
           At(p) == CHOOSE i \in 1 .. n : results[i].point = p
           Better(p, q) == \/ matches[KeyOf[p]] > matches[KeyOf[q]]
                           \/ matches[KeyOf[p]] = matches[KeyOf[q]] /\ At(p) < At(q)
           final == [i \in 1 .. n |-> FinalScore(results[i], matches)]
           cited == {answer[i].point : i \in 1 .. c}
<1>1. Fused
  BY DEF Fused
<1>2. /\ c \in Nat /\ n \in Nat /\ c <= n
      /\ \A i \in 1 .. n : final[i] \in Nat
  BY AnswerSorted
<1>0. \A i \in 1 .. n : final[i] = FinalScore(results[i], matches)
  OBVIOUS
<1> HIDE DEF final
<1>3. PICK place \in [1 .. n -> 1 .. n] :
        /\ \A i \in 1 .. c : answer[i].point = results[place[i]].point
        /\ \A i, j \in 1 .. n : i < j =>
             LET p == FinalScore(results[place[i]], matches)
                 q == FinalScore(results[place[j]], matches)
             IN p > q \/ (p = q /\ place[i] < place[j])
        /\ \A i \in 1 .. n : \E q \in 1 .. n : place[q] = i
  BY AnswerSorted
<1>4. \A i \in 1 .. n : At(results[i].point) = i
  BY <1>1, PointsOnce
<1>5. ASSUME NEW i \in 1 .. n, NEW j \in 1 .. n
      PROVE  /\ matches[KeyAt(i)] \in Nat /\ matches[KeyAt(j)] \in Nat
             /\ matches[KeyAt(i)] > matches[KeyAt(j)] => final[i] > final[j]
             /\ i < j /\ matches[KeyAt(i)] = matches[KeyAt(j)] => final[i] >= final[j]
  BY <1>0, <1>1, FinalScoresOrder
<1> HIDE DEF At
<1>6. ASSUME NEW a \in 1 .. n, NEW b \in 1 .. n, a < b
      PROVE  Better(results[place[a]].point, results[place[b]].point)
  <2>1. PICK i \in 1 .. n, j \in 1 .. n : i = place[a] /\ j = place[b]
    OBVIOUS
  <2>2. final[i] > final[j] \/ (final[i] = final[j] /\ i < j)
    <3>1. /\ final[i] = FinalScore(results[place[a]], matches)
          /\ final[j] = FinalScore(results[place[b]], matches)
      BY <1>0, <2>1
    <3> QED
      BY <1>3, <1>6, <2>1, <3>1
  <2>3. /\ matches[KeyAt(i)] \in Nat /\ matches[KeyAt(j)] \in Nat
        /\ matches[KeyAt(j)] > matches[KeyAt(i)] => final[j] > final[i]
        /\ j < i /\ matches[KeyAt(j)] = matches[KeyAt(i)] => final[j] >= final[i]
    BY <1>5, <2>1
  <2>4. final[i] \in Nat /\ final[j] \in Nat
    BY <1>2, <2>1
  <2>5. i # j /\ i \in Nat /\ j \in Nat
    BY <1>2, <2>2, <2>4
  <2>6. \/ matches[KeyAt(i)] > matches[KeyAt(j)]
        \/ matches[KeyAt(i)] = matches[KeyAt(j)] /\ i < j
    <3> DEFINE x == matches[KeyAt(i)]
               y == matches[KeyAt(j)]
    <3>1. /\ x \in Nat /\ y \in Nat
          /\ y > x => final[j] > final[i]
          /\ j < i /\ y = x => final[j] >= final[i]
      BY <2>3
    <3> HIDE DEF x, y
    <3>2. x > y \/ (x = y /\ i < j)
      BY <2>2, <2>4, <2>5, <3>1
    <3> QED
      BY <3>2 DEF x, y
  <2>7. At(results[i].point) = i /\ At(results[j].point) = j
    BY <1>4, <2>1
  <2> QED
    BY <2>1, <2>6, <2>7 DEF KeyAt
<1> HIDE DEF Better
<1>7. \A i, j \in 1 .. c : i < j => Better(answer[i].point, answer[j].point)
  <2> SUFFICES ASSUME NEW i \in 1 .. c, NEW j \in 1 .. c, i < j
               PROVE  Better(answer[i].point, answer[j].point)
    OBVIOUS
  <2>1. i \in 1 .. n /\ j \in 1 .. n
    BY <1>2
  <2> QED
    BY <1>3, <1>6, <2>1
<1>8. \A p \in cited, r \in ToSet(results) : r.point \notin cited => Better(p, r.point)
  <2> SUFFICES ASSUME NEW i \in 1 .. c, NEW r \in ToSet(results), r.point \notin cited
               PROVE  Better(answer[i].point, r.point)
    OBVIOUS
  <2>1. PICK j \in 1 .. n : r = results[j]
    BY <1>2 DEF ToSet
  <2>2. PICK b \in 1 .. n : place[b] = j
    BY <1>3
  <2>3. b \notin 1 .. c
    <3> SUFFICES ASSUME b \in 1 .. c PROVE FALSE
      OBVIOUS
    <3>1. answer[b].point = r.point
      BY <1>3, <2>1, <2>2
    <3> QED
      BY <3>1
  <2>4. i \in 1 .. n /\ i < b
    BY <1>2, <2>3
  <2>5. Better(results[place[i]].point, results[place[b]].point)
    BY <1>6, <2>4
  <2> QED
    BY <1>3, <2>1, <2>2, <2>5
<1> QED
  BY <1>7, <1>8 DEF KeywordsDecide, Better, At, cited

\* The keywords decide the order of the citations whatever the ranks were, and ranks decide
\* between equals, when a key has at most so many points and the query few enough terms: with
\* one point to a key and k = 60, up to 13 terms.  The weights 0.7 and 0.3 of the reranker are
\* meant for scores of one scale, and a fused score is at most 2 * copies / (k + 1).
THEOREM KeywordsDecideHolds ==
  ASSUME NEW copies \in Nat, AtMostCopies(copies), FewTerms(copies)
  PROVE  Spec => []KeywordsDecide
<1>1. SearchInv => KeywordsDecide
  BY KeywordsFirst
<1> QED
  BY <1>1, Inductive, PTL
===============================================================================
