--------------------------- MODULE RecursionLemmas ---------------------------
(***************************************************************************)
(* Induction on the numbers, functions that are defined by recursion, and  *)
(* what FlattenSeq returns.  Induction is by the least number that is not  *)
(* in a set, so that no lemma takes an operator as a parameter.            *)
(***************************************************************************)
EXTENDS Integers, Sequences, FiniteSets, SequencesExt, WellFoundedInduction, SequenceTheorems, TLAPS

\* A set of numbers that is not empty has a least.
LEMMA LeastOf ==
  ASSUME NEW T, T \subseteq Nat, T # {}
  PROVE  \E x \in T : \A y \in T : x <= y
<1> DEFINE R == {p \in Nat \X Nat : p[1] < p[2]}
<1>1. IsWellFoundedOn(R, Nat)
  BY NatLessThanWellFounded DEF OpToRel
<1>2. \A x, y \in Nat : y < x => <<y, x>> \in R
  OBVIOUS
<1> HIDE DEF R
<1>3. PICK x \in T : \A y \in T : ~(<<y, x>> \in R)
  BY <1>1, WFMin
<1>4. ASSUME NEW y \in T PROVE x <= y
  <2>1. x \in Nat /\ y \in Nat /\ ~(y < x)
    BY <1>2, <1>3
  <2> QED
    BY <2>1
<1> QED
  BY <1>4

\* Induction on the numbers; then on an interval, upwards and downwards, and from a
\* number on.
LEMMA Induct ==
  ASSUME NEW S, 0 \in S, \A n \in Nat : n \in S => n + 1 \in S
  PROVE  Nat \subseteq S
<1> SUFFICES ASSUME Nat \ S # {} PROVE FALSE
  OBVIOUS
<1>1. PICK x \in Nat \ S : \A y \in Nat \ S : x <= y
  BY LeastOf
<1>2. x # 0 /\ x - 1 \in Nat /\ x - 1 \in S
  BY <1>1
<1> QED
  BY <1>1, <1>2

LEMMA InductTo ==
  ASSUME NEW i \in Nat, NEW j \in Nat, NEW S, i \in S, \A m \in i .. j - 1 : m \in S => m + 1 \in S
  PROVE  i .. j \subseteq S
<1> SUFFICES ASSUME NEW k \in i .. j, k \notin S PROVE FALSE
  OBVIOUS
<1> DEFINE Missed == {m \in Nat : m \in i .. j /\ m \notin S}
<1>1. k \in Missed /\ Missed \subseteq Nat
  OBVIOUS
<1>2. PICK x \in Missed : \A y \in Missed : x <= y
  <2> HIDE DEF Missed
  <2> QED
    BY <1>1, LeastOf
<1>3. x # i /\ x - 1 \in i .. j - 1 /\ x - 1 \in Nat
  BY <1>2
<1>4. x - 1 \notin Missed
  BY <1>2
<1>5. (x - 1) + 1 \in S /\ (x - 1) + 1 = x
  BY <1>3, <1>4
<1> QED
  BY <1>2, <1>5

LEMMA InductDown ==
  ASSUME NEW n \in Nat, NEW S, \A c \in 1 .. n : (\A d \in c + 1 .. n : d \in S) => c \in S
  PROVE  1 .. n \subseteq S
<1> SUFFICES ASSUME NEW k \in 1 .. n, k \notin S PROVE FALSE
  OBVIOUS
<1> DEFINE Missed == {m \in Nat : m < n /\ n - m \notin S}
<1>1. n - k \in Missed /\ Missed \subseteq Nat
  OBVIOUS
<1>2. PICK x \in Missed : \A y \in Missed : x <= y
  <2> HIDE DEF Missed
  <2> QED
    BY <1>1, LeastOf
<1>3. x \in Nat /\ x < n /\ n - x \notin S /\ n - x \in 1 .. n
  BY <1>2
<1>4. ASSUME NEW d \in n - x + 1 .. n PROVE d \in S
  <2>1. n - d \in Nat /\ n - d < n /\ n - d < x /\ n - (n - d) = d
    BY <1>3
  <2>2. n - d \notin Missed
    BY <1>2, <2>1
  <2> QED
    BY <2>1, <2>2
<1> QED
  BY <1>3, <1>4

LEMMA InductUp ==
  ASSUME NEW n \in Nat, NEW S, \A c \in 0 .. n : (\A d \in 0 .. c - 1 : d \in S) => c \in S
  PROVE  0 .. n \subseteq S
<1> SUFFICES ASSUME NEW k \in 0 .. n, k \notin S PROVE FALSE
  OBVIOUS
<1> DEFINE Missed == {m \in Nat : m <= n /\ m \notin S}
<1>1. k \in Missed /\ Missed \subseteq Nat
  OBVIOUS
<1>2. PICK x \in Missed : \A y \in Missed : x <= y
  <2> HIDE DEF Missed
  <2> QED
    BY <1>1, LeastOf
<1>3. x \in 0 .. n /\ x \notin S
  BY <1>2
<1>4. ASSUME NEW d \in 0 .. x - 1 PROVE d \in S
  BY <1>2, <1>3
<1> QED
  BY <1>3, <1>4

(* Recursion over D: step[i] gives the value at i from a function, of which it looks at the *)
(* values at what is of lower rank alone.                                                   *)
IsRecursion(D, Val, N, rank, step) ==
  /\ rank \in [D -> 0 .. N] /\ step \in [D -> [[D -> Val] -> Val]]
  /\ \A i \in D : \A F, G \in [D -> Val] :
       (\A j \in D : rank[j] < rank[i] => F[j] = G[j]) => step[i][F] = step[i][G]

Solves(F, D, step) == \A i \in D : F[i] = step[i][F]

\* There is a function that solves a recursion.
LEMMA Recursion ==
  ASSUME NEW D, NEW Val, Val # {}, NEW N \in Nat, NEW rank, NEW step,
         IsRecursion(D, Val, N, rank, step)
  PROVE  \E F \in [D -> Val] : Solves(F, D, step)
<1> DEFINE Settled(F, m) == \A i \in D : rank[i] < m => F[i] = step[i][F]
           Good == {m \in Nat : \E F \in [D -> Val] : Settled(F, m)}
<1>1. rank \in [D -> 0 .. N] /\ step \in [D -> [[D -> Val] -> Val]]
  BY DEF IsRecursion
<1>2. \A i \in D : rank[i] \in Nat /\ rank[i] < N + 1
  BY <1>1
<1>3. 0 \in Good
  <2>1. PICK some \in Val : TRUE
    OBVIOUS
  <2>2. [i \in D |-> some] \in [D -> Val]
    OBVIOUS
  <2>3. Settled([i \in D |-> some], 0)
    BY <1>2
  <2> QED
    BY <2>2, <2>3
<1>4. ASSUME NEW m \in Nat, m \in Good PROVE m + 1 \in Good
  <2>1. PICK F \in [D -> Val] : Settled(F, m)
    BY <1>4
  <2> DEFINE G == [i \in D |-> IF rank[i] = m THEN step[i][F] ELSE F[i]]
  <2>2. G \in [D -> Val]
    BY <1>1
  <2>3. \A i \in D : G[i] = IF rank[i] = m THEN step[i][F] ELSE F[i]
    OBVIOUS
  <2> HIDE DEF G
  <2>4. ASSUME NEW i \in D, rank[i] < m + 1 PROVE G[i] = step[i][G]
    <3>1. \A j \in D : rank[j] < rank[i] => F[j] = G[j]
      BY <1>2, <2>3, <2>4
    <3>2. step[i][F] = step[i][G]
      BY <2>2, <3>1 DEF IsRecursion
    <3>3. rank[i] = m \/ (rank[i] < m /\ rank[i] # m)
      BY <1>2, <2>4
    <3> QED
      BY <2>1, <2>3, <3>2, <3>3
  <2>5. Settled(G, m + 1)
    BY <2>4
  <2> HIDE DEF Settled
  <2> QED
    BY <2>2, <2>5
<1>5. N + 1 \in Good
  <2> HIDE DEF Good
  <2> QED
    BY <1>3, <1>4, Induct
<1>6. PICK F \in [D -> Val] : Settled(F, N + 1)
  BY <1>5
<1> QED
  BY <1>2, <1>6 DEF Solves

\* What FlattenSeq returns: the recursion that defines it has a value.
\* A recursion that counts up: F[r] comes from r and F[r - 1].
CountsUp(F, n, base, step) == F[0] = base /\ \A r \in 1 .. n : F[r] = step[<<r, F[r - 1]>>]

LEMMA CountingUp ==
  ASSUME NEW Val, NEW n \in Nat, NEW base \in Val, NEW step \in [(1 .. n) \X Val -> Val]
  PROVE  \E F \in [0 .. n -> Val] : CountsUp(F, n, base, step)
<1> DEFINE D == 0 .. n
           rank == [i \in D |-> i]
           next == [i \in D |-> [F \in [D -> Val] |->
                                   IF i = 0 THEN base ELSE step[<<i, F[i - 1]>>]]]
<1>1. \A i \in D, F \in [D -> Val] : next[i][F] = IF i = 0 THEN base ELSE step[<<i, F[i - 1]>>]
  OBVIOUS
<1>2. next \in [D -> [[D -> Val] -> Val]]
  <2> SUFFICES ASSUME NEW i \in D, NEW F \in [D -> Val]
               PROVE  (IF i = 0 THEN base ELSE step[<<i, F[i - 1]>>]) \in Val
    BY Zenon
  <2>1. CASE i = 0
    BY <2>1
  <2>2. CASE i # 0
    <3>1. i \in 1 .. n /\ i - 1 \in D
      BY <2>2
    <3>2. <<i, F[i - 1]>> \in (1 .. n) \X Val
      BY <3>1
    <3> QED
      BY <2>2, <3>2
  <2> QED
    BY <2>1, <2>2
<1>3. rank \in [D -> 0 .. n]
  OBVIOUS
<1>4. \A i \in D : \A F, G \in [D -> Val] :
           (\A j \in D : rank[j] < rank[i] => F[j] = G[j]) => next[i][F] = next[i][G]
  <2> SUFFICES ASSUME NEW i \in D, NEW F \in [D -> Val], NEW G \in [D -> Val],
                      \A j \in D : rank[j] < rank[i] => F[j] = G[j]
               PROVE  next[i][F] = next[i][G]
    BY Zenon
  <2>1. CASE i = 0
    BY <1>1, <2>1
  <2>2. CASE i # 0
    <3>1. i - 1 \in D /\ rank[i - 1] < rank[i]
      BY <2>2
    <3>2. F[i - 1] = G[i - 1]
      BY <3>1
    <3> QED
      BY <1>1, <3>2
  <2> QED
    BY <2>1, <2>2
<1>5. IsRecursion(D, Val, n, rank, next)
  <2> HIDE DEF D, rank, next
  <2> QED
    BY <1>2, <1>3, <1>4 DEF IsRecursion
<1>6. PICK F \in [D -> Val] : Solves(F, D, next)
  <2> HIDE DEF D, rank, next
  <2> QED
    BY <1>5, Recursion
<1>7. \A i \in D : F[i] = IF i = 0 THEN base ELSE step[<<i, F[i - 1]>>]
  <2> HIDE DEF next
  <2> QED
    BY <1>1, <1>6 DEF Solves
<1>8. F[0] = base /\ \A r \in 1 .. n : F[r] = step[<<r, F[r - 1]>>]
  <2> HIDE DEF next
  <2>1. 0 \in D /\ \A r \in 1 .. n : r \in D /\ r # 0
    OBVIOUS
  <2> QED
    BY <1>7, <2>1
<1> QED
  BY <1>6, <1>8 DEF CountsUp

LEMMA Concat ==
  ASSUME NEW T, NEW s \in Seq(T), NEW t \in Seq(T)
  PROVE  /\ s \o t \in Seq(T) /\ Len(s \o t) = Len(s) + Len(t)
         /\ Len(s) \in Nat /\ Len(t) \in Nat
         /\ \A p \in 1 .. Len(s) : (s \o t)[p] = s[p]
         /\ \A p \in 1 .. Len(t) : (s \o t)[Len(s) + p] = t[p]
  OBVIOUS

Concatenates(F, s, n) ==
  F[1] = s[1] /\ \A i \in 1 .. n - 1 : F[i + 1] = F[i] \o s[i + 1]

LEMMA FlattenIsDefined ==
  ASSUME NEW T, NEW n \in Nat \ {0}, NEW s \in [1 .. n -> Seq(T)]
  PROVE  \E F \in [1 .. n -> Seq(T)] :
           FlattenSeq(s) = F[n] /\ Concatenates(F, s, n)
<1> DEFINE D == 1 .. n
           rank == [i \in D |-> i]
           step == [i \in D |-> [F \in [D -> Seq(T)] |-> IF i = 1 THEN s[i] ELSE F[i - 1] \o s[i]]]
<1>1. \A i \in D, F \in [D -> Seq(T)] : step[i][F] = IF i = 1 THEN s[i] ELSE F[i - 1] \o s[i]
  OBVIOUS
<1>2. step \in [D -> [[D -> Seq(T)] -> Seq(T)]]
  OBVIOUS
<1>3. rank \in [D -> 0 .. n]
  OBVIOUS
<1>4. \A i \in D : \A F, G \in [D -> Seq(T)] :
           (\A j \in D : rank[j] < rank[i] => F[j] = G[j]) => step[i][F] = step[i][G]
  OBVIOUS
<1>5. IsRecursion(D, Seq(T), n, rank, step)
  <2> HIDE DEF D, rank, step
  <2> QED
    BY <1>2, <1>3, <1>4 DEF IsRecursion
<1>6. \E F \in [D -> Seq(T)] : Solves(F, D, step)
  <2>1. << >> \in Seq(T)
    OBVIOUS
  <2> HIDE DEF D, rank, step
  <2> QED
    BY <1>5, <2>1, Recursion
<1>7. PICK F \in [D -> Seq(T)] : Solves(F, D, step)
  BY <1>6
<1>8. \A i \in D : F[i] = IF i = 1 THEN s[i] ELSE F[i - 1] \o s[i]
  <2> HIDE DEF step
  <2> QED
    BY <1>1, <1>7 DEF Solves
<1> DEFINE Body(G) == [i \in 1 .. n |-> IF i = 1 THEN s[i] ELSE G[i - 1] \o s[i]]
           C == CHOOSE G : G = Body(G)
<1>9. F = Body(F)
  BY <1>8
<1>10. C = Body(C)
  <2> HIDE DEF Body
  <2> QED
    BY <1>9
<1>11. FlattenSeq(s) = C[n]
  <2>1. Len(s) = n
    OBVIOUS
  <2> QED
    BY <2>1 DEF FlattenSeq
<1> HIDE DEF C
<1>12. \A i \in 1 .. n : C[i] = IF i = 1 THEN s[i] ELSE C[i - 1] \o s[i]
  BY <1>10
<1>13. \A i \in 1 .. n : C[i] \in Seq(T)
  <2> DEFINE Good == {m \in 1 .. n : C[m] \in Seq(T)}
  <2>1. 1 \in Good
    BY <1>12
  <2>2. ASSUME NEW m \in 1 .. n - 1, m \in Good PROVE m + 1 \in Good
    <3>1. m + 1 \in 1 .. n /\ m + 1 # 1 /\ (m + 1) - 1 = m
      OBVIOUS
    <3>2. C[m + 1] = C[m] \o s[m + 1]
      BY <1>12, <3>1
    <3>3. C[m] \in Seq(T) /\ s[m + 1] \in Seq(T)
      BY <2>2, <3>1
    <3>4. C[m + 1] \in Seq(T)
      BY <3>2, <3>3, Concat
    <3> QED
      BY <3>1, <3>4
  <2>3. 1 .. n \subseteq Good
    <3> HIDE DEF Good
    <3> QED
      BY <2>1, <2>2, InductTo
  <2> QED
    BY <2>3
<1>14. C \in [1 .. n -> Seq(T)]
  BY <1>10, <1>13
<1>15. Concatenates(C, s, n)
  <2>1. 1 \in 1 .. n
    OBVIOUS
  <2>2. ASSUME NEW i \in 1 .. n - 1 PROVE C[i + 1] = C[i] \o s[i + 1]
    <3>1. i + 1 \in 1 .. n /\ i + 1 # 1 /\ (i + 1) - 1 = i
      OBVIOUS
    <3> QED
      BY <1>12, <3>1
  <2> QED
    BY <1>12, <2>1, <2>2 DEF Concatenates
<1> QED
  BY <1>11, <1>14, <1>15

(* In FlattenSeq(s) the sequence s[i + 1] follows the first offset[i] elements.              *)
IsOffset(offset, s, n) ==
  /\ offset \in [0 .. n -> Nat] /\ offset[0] = 0
  /\ \A i \in 0 .. n - 1 : offset[i + 1] = offset[i] + Len(s[i + 1])

LEMMA OffsetsGrow ==
  ASSUME NEW T, NEW n \in Nat, NEW s \in [1 .. n -> Seq(T)], NEW offset, IsOffset(offset, s, n),
         NEW i \in 0 .. n
  PROVE  \A j \in i .. n : offset[i] <= offset[j]
<1> DEFINE Good == {m \in i .. n : offset[i] <= offset[m]}
<1>0. i \in Nat /\ i \in i .. n
  OBVIOUS
<1>1. i \in Good
  BY <1>0 DEF IsOffset
<1>2. ASSUME NEW m \in i .. n - 1, m \in Good PROVE m + 1 \in Good
  <2>1. m \in 0 .. n - 1 /\ m + 1 \in 1 .. n /\ m + 1 \in i .. n
    OBVIOUS
  <2>2. offset[m + 1] = offset[m] + Len(s[m + 1]) /\ Len(s[m + 1]) \in Nat
    BY <2>1 DEF IsOffset
  <2>3. offset[i] \in Nat /\ offset[m] \in Nat
    BY <2>1 DEF IsOffset
  <2> QED
    BY <1>2, <2>1, <2>2, <2>3
<1>3. i .. n \subseteq Good
  <2> HIDE DEF Good
  <2> QED
    BY <1>0, <1>1, <1>2, InductTo
<1> QED
  BY <1>3

Places(offset, s, n) ==
  /\ IsOffset(offset, s, n) /\ Len(FlattenSeq(s)) = offset[n]
  /\ \A i \in 0 .. n - 1 : \A k \in 1 .. Len(s[i + 1]) :
       FlattenSeq(s)[offset[i] + k] = s[i + 1][k]

LEMMA Reaches ==
  \A a, l, c, k \in Nat : 1 <= k /\ k <= l /\ a + l <= c => a + k \in 1 .. c
  OBVIOUS

\* The places of FlattenSeq(s): each element of each sequence has its own, in order.
LEMMA Flatten ==
  ASSUME NEW T, NEW n \in Nat, NEW s \in [1 .. n -> Seq(T)]
  PROVE  FlattenSeq(s) \in Seq(T) /\ \E offset : Places(offset, s, n)
<1>1. CASE n = 0
  <2>1. s = << >> /\ Len(s) = 0
    BY <1>1
  <2>2. FlattenSeq(s) = << >>
    BY <2>1 DEF FlattenSeq
  <2>3. IsOffset([i \in 0 .. 0 |-> 0], s, n)
    BY <1>1 DEF IsOffset
  <2> QED
    BY <1>1, <2>1, <2>2, <2>3 DEF Places
<1>2. CASE n # 0
  <2>0. n \in Nat \ {0}
    BY <1>2
  <2>01. PICK F \in [1 .. n -> Seq(T)] : FlattenSeq(s) = F[n] /\ Concatenates(F, s, n)
    BY <2>0, FlattenIsDefined
  <2>1. /\ FlattenSeq(s) = F[n] /\ F[1] = s[1]
        /\ \A i \in 1 .. n - 1 : F[i + 1] = F[i] \o s[i + 1]
    BY <2>01 DEF Concatenates
  <2> DEFINE offset == [i \in 0 .. n |-> IF i = 0 THEN 0 ELSE Len(F[i])]
  <2>2. /\ offset \in [0 .. n -> Nat] /\ offset[0] = 0
        /\ \A i \in 1 .. n : offset[i] = Len(F[i])
    BY <2>1
  <2> HIDE DEF offset
  <2>3. ASSUME NEW i \in 0 .. n - 1
        PROVE  /\ offset[i + 1] = offset[i] + Len(s[i + 1])
               /\ \A k \in 1 .. Len(s[i + 1]) : F[i + 1][offset[i] + k] = s[i + 1][k]
               /\ i # 0 => \A p \in 1 .. offset[i] : F[i + 1][p] = F[i][p]
    <3>0. i + 1 \in 1 .. n /\ s[i + 1] \in Seq(T)
      OBVIOUS
    <3>1. CASE i = 0
      <4>1. F[i + 1] = s[i + 1] /\ offset[i] = 0 /\ offset[i + 1] = Len(s[i + 1])
        BY <2>1, <2>2, <3>0, <3>1
      <4> QED
        BY <3>0, <3>1, <4>1
    <3>2. CASE i # 0
      <4>0. i \in 1 .. n - 1 /\ i \in 1 .. n
        BY <3>2
      <4>1. /\ F[i] \in Seq(T) /\ F[i + 1] = F[i] \o s[i + 1]
            /\ offset[i] = Len(F[i]) /\ offset[i + 1] = Len(F[i + 1])
        BY <2>1, <2>2, <3>0, <4>0
      <4>2. F[i] \in Seq(T) /\ s[i + 1] \in Seq(T)
        BY <3>0, <4>1
      <4>3. /\ Len(F[i] \o s[i + 1]) = Len(F[i]) + Len(s[i + 1])
            /\ \A p \in 1 .. Len(F[i]) : (F[i] \o s[i + 1])[p] = F[i][p]
            /\ \A k \in 1 .. Len(s[i + 1]) : (F[i] \o s[i + 1])[Len(F[i]) + k] = s[i + 1][k]
        <5>1. \A u, v \in Seq(T) :
                /\ Len(u \o v) = Len(u) + Len(v)
                /\ \A p \in 1 .. Len(u) : (u \o v)[p] = u[p]
                /\ \A k \in 1 .. Len(v) : (u \o v)[Len(u) + k] = v[k]
          BY Concat
        <5> QED
          BY <4>2, <5>1, Zenon
      <4> QED
        BY <3>2, <4>1, <4>3
    <3> QED
      BY <3>1, <3>2
  <2>4. IsOffset(offset, s, n)
    BY <2>2, <2>3 DEF IsOffset
  <2>5. ASSUME NEW i \in 0 .. n - 1, NEW k \in 1 .. Len(s[i + 1])
        PROVE  F[n][offset[i] + k] = s[i + 1][k]
    <3>0. i + 1 \in Nat /\ n \in i + 1 .. n /\ i + 1 \in i + 1 .. n
      OBVIOUS
    <3> DEFINE Good == {m \in i + 1 .. n : F[m][offset[i] + k] = s[i + 1][k]}
    <3>1. i + 1 \in Good
      BY <2>3, <3>0
    <3>2. ASSUME NEW m \in i + 1 .. n - 1, m \in Good PROVE m + 1 \in Good
      <4>0. m \in 0 .. n - 1 /\ m # 0 /\ m + 1 \in i + 1 .. n /\ i \in 0 .. n /\ m \in i + 1 .. n
        OBVIOUS
      <4>1. F[m][offset[i] + k] = s[i + 1][k]
        BY <3>2
      <4>2. offset[i] + k \in 1 .. offset[m]
        <5>1. offset[i + 1] <= offset[m]
          <6>1. i + 1 \in 0 .. n
            OBVIOUS
          <6> QED
            BY <2>4, <4>0, <6>1, OffsetsGrow
        <5>2. offset[i + 1] = offset[i] + Len(s[i + 1])
          BY <2>3
        <5>3. offset[i] \in Nat /\ offset[m] \in Nat /\ Len(s[i + 1]) \in Nat
          BY <2>2, <4>0
        <5>4. k \in Nat /\ 1 <= k /\ k <= Len(s[i + 1])
          BY <5>3
        <5> HIDE DEF Good
        <5> QED
          BY <5>1, <5>2, <5>3, <5>4, Reaches, Zenon
      <4>3. F[m + 1][offset[i] + k] = F[m][offset[i] + k]
        BY <2>3, <4>0, <4>2
      <4> QED
        BY <4>0, <4>1, <4>3
    <3>3. i + 1 .. n \subseteq Good
      <4> HIDE DEF Good
      <4> QED
        BY <3>0, <3>1, <3>2, InductTo
    <3> QED
      BY <3>0, <3>3
  <2>6. Len(F[n]) = offset[n] /\ F[n] \in Seq(T)
    BY <1>2, <2>2
  <2> QED
    BY <2>1, <2>4, <2>5, <2>6 DEF Places
<1> QED
  BY <1>1, <1>2

(* Every position of FlattenSeq(s) is one of these.                                         *)
IsPlace(p, offset, s, n) == \E i \in 0 .. n - 1 : \E k \in 1 .. Len(s[i + 1]) : p = offset[i] + k

LEMMA FlattenPosition ==
  ASSUME NEW T, NEW n \in Nat, NEW s \in [1 .. n -> Seq(T)], NEW offset, IsOffset(offset, s, n),
         NEW p \in 1 .. offset[n]
  PROVE  IsPlace(p, offset, s, n)
<1> DEFINE After == {i \in Nat : i <= n /\ p <= offset[i]}
<1>1. n \in After /\ After \subseteq Nat
  BY DEF IsOffset
<1>2. PICK i \in After : \A j \in After : i <= j
  <2> HIDE DEF After
  <2> QED
    BY <1>1, LeastOf
<1>3. i # 0 /\ i \in 1 .. n /\ p <= offset[i] /\ i - 1 \in 0 .. n - 1 /\ (i - 1) + 1 = i
  BY <1>2 DEF IsOffset
<1>4. i - 1 \notin After /\ i - 1 \in Nat /\ i - 1 <= n
  BY <1>2, <1>3
<1>5. offset[i - 1] \in Nat /\ Len(s[i]) \in Nat /\ offset[i] = offset[i - 1] + Len(s[i])
  BY <1>3 DEF IsOffset
<1>6. offset[i - 1] < p
  BY <1>4, <1>5 DEF IsOffset
<1> HIDE DEF After
<1>7. p - offset[i - 1] \in 1 .. Len(s[i]) /\ p = offset[i - 1] + (p - offset[i - 1])
  <2>1. p \in Int
    BY DEF IsOffset
  <2>2. \A o, l, q \in Nat : o < q /\ q <= o + l => q - o \in 1 .. l /\ q = o + (q - o)
    OBVIOUS
  <2>3. p \in Nat
    OBVIOUS
  <2> QED
    BY <1>3, <1>5, <1>6, <2>2, <2>3
<1> QED
  BY <1>3, <1>7 DEF IsPlace
=============================================================================
