--------------------------- MODULE ChunkingProofs ---------------------------
(***************************************************************************)
(* TLAPS proofs about the parser and the chunker, for every file, set of   *)
(* languages and of grammars, and minimum and maximum of lines: of what    *)
(* the recursive descent finds in any tree, and of how the lines of any    *)
(* node are cut into chunks.                                               *)
(***************************************************************************)
EXTENDS ChunkingProperties, RecursionLemmas, FiniteSetTheorems

(* The loops of _extract_nodes.                                             *)

\* What the loops return.
NodesOf(t) == [node : 0 .. Len(t), parent : 0 .. Len(t), first : Int, last : Int]

IsTree(t) ==
  /\ t \in Seq([parent : Nat, type : Types, first : Int, last : Int])
  /\ \A j \in DOMAIN t : Fits(t, j)

\* The parent of a node is a node before it, or the root.
LEMMA TreeParent ==
  ASSUME NEW t, IsTree(t)
  PROVE  /\ Len(t) \in Nat /\ DOMAIN t = 1 .. Len(t)
         /\ \A j \in 1 .. Len(t) : /\ Fits(t, j)
                                   /\ t[j].parent \in Nat /\ t[j].parent < j
                                   /\ t[j].first \in Int /\ t[j].last \in Int
<1>1. Len(t) \in Nat /\ DOMAIN t = 1 .. Len(t)
  BY DEF IsTree
<1>2. ASSUME NEW j \in 1 .. Len(t)
      PROVE  t[j] \in [parent : Nat, type : Types, first : Int, last : Int] /\ t[j].parent \in 0 .. j - 1
             /\ Fits(t, j)
  <2>1. Fits(t, j) /\ t[j].parent \in 0 .. j - 1
    BY <1>1 DEF IsTree, Fits
  <2> DEFINE Node == [parent : Nat, type : Types, first : Int, last : Int]
  <2>2. t \in Seq(Node)
    BY DEF IsTree
  <2> HIDE DEF Node
  <2>3. t[j] \in Node
    BY <2>2
  <2> QED
    BY <2>1, <2>3 DEF Node
<1> QED
  BY <1>1, <1>2

\* The next child is the first that comes, and if there is none, the place after the last node.
LEMMA NextChild ==
  ASSUME NEW t, IsTree(t), NEW n, NEW i \in 1 .. Len(t) + 1
  PROVE  /\ ChildFrom(t, n, i) \in i .. Len(t) + 1
         /\ ChildFrom(t, n, i) <= Len(t) => t[ChildFrom(t, n, i)].parent = n
         /\ \A c \in i .. Len(t) : t[c].parent = n => ChildFrom(t, n, i) <= c
<1>0. Len(t) \in Nat
  BY TreeParent
<1> DEFINE later == {c \in i .. Len(t) : t[c].parent = n}
<1>1. CASE later = {}
  BY <1>0, <1>1 DEF ChildFrom
<1>2. CASE later # {}
  <2>1. later \subseteq Nat
    BY <1>0
  <2>2. \E x \in later : \A y \in later : x <= y
    <3> HIDE DEF later
    <3> QED
      BY <1>2, <2>1, LeastOf
  <2>3. ChildFrom(t, n, i) = Min(later)
    BY <1>2 DEF ChildFrom
  <2>4. Min(later) \in later /\ \A y \in later : Min(later) <= y
    <3> HIDE DEF later
    <3> QED
      BY <2>2 DEF Min
  <2> QED
    BY <1>0, <2>3, <2>4
<1> QED
  BY <1>1, <1>2

VisitFrom(t, F, c, e) == IF c > Len(t) THEN << >> ELSE Visit(t, F, c, e)

LEMMA Joined ==
  ASSUME NEW T, NEW u \in Seq(T), NEW v \in Seq(T)
  PROVE  u \o v \in Seq(T)
  OBVIOUS

\* A loop returns nodes, if the loops that it calls do.
LEMMA VisitType ==
  ASSUME NEW t, IsTree(t), NEW F \in [1 .. Len(t) + 1 -> [0 .. Len(t) -> Seq(NodesOf(t))]],
         NEW c \in 1 .. Len(t) + 1, NEW e \in 0 .. Len(t)
  PROVE  VisitFrom(t, F, c, e) \in Seq(NodesOf(t))
<1>0. Len(t) \in Nat
  BY TreeParent
<1>1. CASE c > Len(t)
  BY <1>1 DEF VisitFrom
<1>2. CASE ~(c > Len(t))
  <2>1. c \in 1 .. Len(t) /\ c \in 0 .. Len(t) /\ c + 1 \in 1 .. Len(t) + 1
    BY <1>0, <1>2
  <2>2. \A n : ChildFrom(t, n, c + 1) \in 1 .. Len(t) + 1
    BY <2>1, NextChild
  <2>3. \A n : \A d \in 0 .. Len(t) : F[ChildFrom(t, n, c + 1)][d] \in Seq(NodesOf(t))
    BY <2>2
  <2>4. << Extracted(t, c, e) >> \in Seq(NodesOf(t))
    BY <2>1, TreeParent DEF Extracted, NodesOf
  <2>5. << >> \in Seq(NodesOf(t))
    OBVIOUS
  <2> DEFINE rest == F[ChildFrom(t, t[c].parent, c + 1)][e]
  <2>6. rest \in Seq(NodesOf(t))
    BY <2>3
  <2>7. ASSUME NEW w \in Seq(NodesOf(t))
        PROVE  w \o rest \in Seq(NodesOf(t))
               /\ << Extracted(t, c, e) >> \o w \o rest \in Seq(NodesOf(t))
    <3> HIDE DEF rest
    <3>1. << Extracted(t, c, e) >> \o w \in Seq(NodesOf(t))
      BY <2>4, Joined
    <3> QED
      BY <2>6, <3>1, Joined
  <2>8. Visit(t, F, c, e) \in Seq(NodesOf(t))
    BY <2>1, <2>3, <2>5, <2>7 DEF Visit
  <2> QED
    BY <1>2, <2>8 DEF VisitFrom
<1> QED
  BY <1>1, <1>2

\* A loop looks at later loops alone.
LEMMA VisitSame ==
  ASSUME NEW t, IsTree(t), NEW c \in 1 .. Len(t) + 1, NEW F, NEW G,
         \A d \in c + 1 .. Len(t) + 1 : F[d] = G[d]
  PROVE  \A e : VisitFrom(t, F, c, e) = VisitFrom(t, G, c, e)
<1> SUFFICES ASSUME NEW e PROVE VisitFrom(t, F, c, e) = VisitFrom(t, G, c, e)
  OBVIOUS
<1>0. Len(t) \in Nat
  BY TreeParent
<1>1. CASE c > Len(t)
  BY <1>1 DEF VisitFrom
<1>2. CASE ~(c > Len(t))
  <2>1. c + 1 \in 1 .. Len(t) + 1
    BY <1>0, <1>2
  <2>2. \A n : ChildFrom(t, n, c + 1) \in c + 1 .. Len(t) + 1
    BY <2>1, NextChild
  <2>3. \A n : F[ChildFrom(t, n, c + 1)] = G[ChildFrom(t, n, c + 1)]
    BY <2>2
  <2>4. /\ F[ChildFrom(t, c, c + 1)] = G[ChildFrom(t, c, c + 1)]
        /\ F[ChildFrom(t, t[c].parent, c + 1)] = G[ChildFrom(t, t[c].parent, c + 1)]
    BY <2>3
  <2>5. Visit(t, F, c, e) = Visit(t, G, c, e)
    BY <2>4, Zenon DEF Visit
  <2> QED
    BY <2>5 DEF VisitFrom
<1> QED
  BY <1>1, <1>2

Loops(t, F) ==
  /\ F \in [1 .. Len(t) + 1 -> [0 .. Len(t) -> Seq(NodesOf(t))]]
  /\ \A c \in 1 .. Len(t) + 1 : F[c] = [e \in 0 .. Len(t) |-> VisitFrom(t, F, c, e)]

\* _extract_nodes looks at later nodes alone, so that the loops are well defined.
LEMMA LoopsExist ==
  ASSUME NEW t, IsTree(t)
  PROVE  \E F : Loops(t, F)
<1>0. Len(t) \in Nat
  BY TreeParent
<1> DEFINE D == 1 .. Len(t) + 1
           Val == [0 .. Len(t) -> Seq(NodesOf(t))]
           rank == [c \in D |-> Len(t) + 1 - c]
           step == [c \in D |-> [F \in [D -> Val] |-> [e \in 0 .. Len(t) |-> VisitFrom(t, F, c, e)]]]
<1>1. rank \in [D -> 0 .. Len(t) + 1] /\ \A c \in D : rank[c] = Len(t) + 1 - c
  BY <1>0
<1>2. \A c \in D, F \in [D -> Val] : [e \in 0 .. Len(t) |-> VisitFrom(t, F, c, e)] \in Val
  BY VisitType
<1>3. \A c \in D, F \in [D -> Val] : step[c][F] = [e \in 0 .. Len(t) |-> VisitFrom(t, F, c, e)]
  OBVIOUS
<1>4. step \in [D -> [[D -> Val] -> Val]]
  <2> HIDE DEF Val, D
  <2> QED
    BY <1>2
<1>5. ASSUME NEW c \in D, NEW F \in [D -> Val], NEW G \in [D -> Val],
             \A d \in D : rank[d] < rank[c] => F[d] = G[d]
      PROVE  step[c][F] = step[c][G]
  <2>1. \A d \in c + 1 .. Len(t) + 1 : d \in D /\ rank[d] < rank[c]
    BY <1>0, <1>1
  <2>2. \A d \in c + 1 .. Len(t) + 1 : F[d] = G[d]
    <3> HIDE DEF D, rank, Val
    <3> QED
      BY <1>5, <2>1
  <2>3. \A e \in 0 .. Len(t) : VisitFrom(t, F, c, e) = VisitFrom(t, G, c, e)
    BY <2>2, VisitSame
  <2>4. [e \in 0 .. Len(t) |-> VisitFrom(t, F, c, e)] = [e \in 0 .. Len(t) |-> VisitFrom(t, G, c, e)]
    BY <2>3
  <2>5. /\ step[c][F] = [e \in 0 .. Len(t) |-> VisitFrom(t, F, c, e)]
        /\ step[c][G] = [e \in 0 .. Len(t) |-> VisitFrom(t, G, c, e)]
    BY <1>3
  <2> HIDE DEF step, D, Val
  <2> QED
    BY <2>4, <2>5
<1>6. Val # {}
  <2>1. [e \in 0 .. Len(t) |-> << >>] \in Val
    OBVIOUS
  <2> QED
    BY <2>1
<1>7. IsRecursion(D, Val, Len(t) + 1, rank, step)
  <2> HIDE DEF D, Val, rank, step
  <2> QED
    BY <1>1, <1>4, <1>5 DEF IsRecursion
<1>8. \E F \in [D -> Val] : Solves(F, D, step)
  <2>1. Len(t) + 1 \in Nat
    BY <1>0
  <2> HIDE DEF D, Val, rank, step
  <2> QED
    BY <1>6, <1>7, <2>1, Recursion
<1>9. PICK F \in [D -> Val] : Solves(F, D, step)
  BY <1>8
<1>10. \A c \in D : F[c] = [e \in 0 .. Len(t) |-> VisitFrom(t, F, c, e)]
  <2> HIDE DEF step, D, Val
  <2> QED
    BY <1>3, <1>9 DEF Solves
<1> QED
  BY <1>10 DEF Loops

\* What ExtractNodes returns is the value of such loops.
LEMMA ExtractNodesIs ==
  ASSUME NEW t, IsTree(t)
  PROVE  \E F : Loops(t, F) /\ ExtractNodes(t) = F[ChildFrom(t, 0, 1)][0]
<1> DEFINE Body(G) == [c \in 1 .. Len(t) + 1 |->
             [e \in 0 .. Len(t) |-> IF c > Len(t) THEN << >> ELSE Visit(t, G, c, e)]]
           C == CHOOSE G : G = Body(G)
<1>1. PICK F : Loops(t, F)
  BY LoopsExist
<1>2. F = Body(F)
  <2>1. F = [c \in 1 .. Len(t) + 1 |-> F[c]]
    BY <1>1 DEF Loops
  <2> QED
    BY <1>1, <2>1 DEF Loops, VisitFrom
<1>3. C = Body(C)
  <2> HIDE DEF Body
  <2> QED
    BY <1>2
<1>4. ExtractNodes(t) = C[ChildFrom(t, 0, 1)][0]
  BY DEF ExtractNodes
<1> HIDE DEF C
<1>5. \A c \in 1 .. Len(t) + 1 : C[c] = [e \in 0 .. Len(t) |-> VisitFrom(t, C, c, e)]
  BY <1>3 DEF VisitFrom
<1>6. \A c \in 1 .. Len(t) + 1 : F[c] = [e \in 0 .. Len(t) |-> VisitFrom(t, F, c, e)]
  BY <1>1 DEF Loops
<1> DEFINE Same == {c \in 1 .. Len(t) + 1 : C[c] = F[c]}
<1>7. ASSUME NEW c \in 1 .. Len(t) + 1, \A d \in c + 1 .. Len(t) + 1 : d \in Same
      PROVE  c \in Same
  <2>1. \A d \in c + 1 .. Len(t) + 1 : C[d] = F[d]
    BY <1>7
  <2>2. \A e : VisitFrom(t, C, c, e) = VisitFrom(t, F, c, e)
    BY <2>1, VisitSame
  <2>3. [e \in 0 .. Len(t) |-> VisitFrom(t, C, c, e)] = [e \in 0 .. Len(t) |-> VisitFrom(t, F, c, e)]
    BY <2>2
  <2> QED
    BY <1>5, <1>6, <2>3
<1>8. 1 .. Len(t) + 1 \subseteq Same
  <2>1. Len(t) + 1 \in Nat
    BY TreeParent
  <2> HIDE DEF Same
  <2> QED
    BY <1>7, <2>1, InductDown
<1>9. ChildFrom(t, 0, 1) \in 1 .. Len(t) + 1
  <2>1. 1 \in 1 .. Len(t) + 1
    BY TreeParent
  <2> QED
    BY <2>1, NextChild
<1>10. C[ChildFrom(t, 0, 1)] = F[ChildFrom(t, 0, 1)]
  BY <1>8, <1>9
<1> QED
  BY <1>1, <1>4, <1>10

-----------------------------------------------------------------------------
(* Around.                                                                  *)

\* i is below j, and j is not i.
Encloses(t, j, i) == j < i /\ \A k \in j + 1 .. i : t[k].parent >= j

IsAround(t, A) ==
  \A i \in 0 .. Len(t) : A[i] = IF i = 0 THEN {} ELSE (A[t[i].parent] \cup {t[i].parent}) \ {0}

\* Around is defined by the recursion.
LEMMA AroundIs ==
  ASSUME IsTree(Tree)
  PROVE  IsAround(Tree, Around)
<1>0. Len(Tree) \in Nat
  BY TreeParent
<1> DEFINE D == 0 .. Len(Tree)
           Val == SUBSET (0 .. Len(Tree))
           rank == [i \in D |-> i]
           With(F, i) == IF i = 0 THEN {} ELSE (F[Tree[i].parent] \cup {Tree[i].parent}) \ {0}
           step == [i \in D |-> [F \in [D -> Val] |-> With(F, i)]]
<1>1. rank \in [D -> 0 .. Len(Tree)] /\ \A i \in D : rank[i] = i
  OBVIOUS
<1>2. \A i \in D : i # 0 => Tree[i].parent \in D /\ Tree[i].parent < i
  BY TreeParent
<1>3. \A i \in D, F \in [D -> Val] : With(F, i) \in Val
  <2> SUFFICES ASSUME NEW i \in D, NEW F \in [D -> Val], i # 0
               PROVE  (F[Tree[i].parent] \cup {Tree[i].parent}) \ {0} \in Val
    OBVIOUS
  <2>1. Tree[i].parent \in D /\ F[Tree[i].parent] \in Val
    BY <1>2
  <2> QED
    BY <2>1
<1>4. \A i \in D, F \in [D -> Val] : step[i][F] = With(F, i)
  OBVIOUS
<1>5. step \in [D -> [[D -> Val] -> Val]]
  <2> HIDE DEF Val, D, With
  <2> QED
    BY <1>3
<1>6. ASSUME NEW i \in D, NEW F \in [D -> Val], NEW G \in [D -> Val],
             \A j \in D : rank[j] < rank[i] => F[j] = G[j]
      PROVE  step[i][F] = step[i][G]
  <2>1. i # 0 => F[Tree[i].parent] = G[Tree[i].parent]
    BY <1>1, <1>2, <1>6
  <2>2. With(F, i) = With(G, i)
    BY <2>1
  <2> QED
    BY <1>4, <2>2
<1>7. IsRecursion(D, Val, Len(Tree), rank, step)
  <2> HIDE DEF D, Val, rank, step
  <2> QED
    BY <1>1, <1>5, <1>6 DEF IsRecursion
<1>8. \E F \in [D -> Val] : Solves(F, D, step)
  <2>1. Val # {}
    OBVIOUS
  <2> HIDE DEF D, Val, rank, step
  <2> QED
    BY <1>0, <1>7, <2>1, Recursion
<1>9. PICK F \in [D -> Val] : Solves(F, D, step)
  BY <1>8
<1>10. \A i \in D : F[i] = With(F, i)
  <2> HIDE DEF step, D, Val, With
  <2> QED
    BY <1>4, <1>9 DEF Solves
<1> DEFINE Body(G) == [i \in 0 .. Len(Tree) |->
                         IF i = 0 THEN {} ELSE (G[Tree[i].parent] \cup {Tree[i].parent}) \ {0}]
           C == CHOOSE G : G = Body(G)
<1>11. F = Body(F)
  BY <1>10
<1>12. C = Body(C)
  <2> HIDE DEF Body
  <2> QED
    BY <1>11
<1>13. Around = C
  BY DEF Around
<1> QED
  BY <1>12, <1>13 DEF IsAround

\* Below j in the tree are the nodes from j on until one is outside.
LEMMA AroundMeans ==
  ASSUME NEW t, IsTree(t), NEW A, IsAround(t, A), NEW i \in 0 .. Len(t), NEW j \in Nat \ {0}
  PROVE  j \in A[i] <=> Encloses(t, j, i)
<1>0. Len(t) \in Nat
  BY TreeParent
<1> DEFINE Good == {m \in 0 .. Len(t) : j \in A[m] <=> Encloses(t, j, m)}
<1>1. ASSUME NEW m \in 0 .. Len(t), \A d \in 0 .. m - 1 : d \in Good
      PROVE  m \in Good
  <2>1. CASE m = 0
    <3>1. A[m] = {}
      BY <2>1 DEF IsAround
    <3>2. ~(j < m)
      BY <2>1
    <3> QED
      BY <3>1, <3>2 DEF Encloses
  <2>2. CASE m # 0
    <3> DEFINE p == t[m].parent
    <3>1. /\ m \in 1 .. Len(t) /\ p \in 0 .. m - 1 /\ m - 1 \in Nat
          /\ \A k \in 1 .. m : t[k].parent \in Nat
      BY <1>0, <2>2, TreeParent
    <3>2. j \in A[p] <=> Encloses(t, j, p)
      BY <1>1, <3>1
    <3>3. j \in A[m] <=> j = p \/ j \in A[p]
      <4>1. A[m] = (A[p] \cup {p}) \ {0}
        BY <2>2 DEF IsAround
      <4> QED
        BY <4>1
    <3>4. \A k \in 1 .. m - 1 : p < k => p <= t[k].parent
      <4>1. Fits(t, m)
        BY <3>1, TreeParent
      <4> QED
        BY <4>1 DEF Fits
    <3> HIDE DEF Good
    <3>5. ASSUME j = p \/ Encloses(t, j, p) PROVE Encloses(t, j, m)
      <4>1. j <= p /\ j < m
        BY <3>1, <3>5 DEF Encloses
      <4>2. ASSUME NEW k \in j + 1 .. m PROVE t[k].parent >= j
        <5>1. k \in 1 .. m /\ t[k].parent \in Nat
          BY <3>1
        <5>2. CASE k = m
          BY <4>1, <5>2
        <5>3. CASE k # m /\ p < k
          <6>1. p <= t[k].parent
            BY <3>4, <5>1, <5>3
          <6> QED
            BY <3>1, <4>1, <5>1, <6>1
        <5>4. CASE k # m /\ ~(p < k)
          <6>1. k \in j + 1 .. p /\ j # p
            BY <3>1, <5>4
          <6> QED
            BY <3>5, <6>1 DEF Encloses
        <5> QED
          BY <5>2, <5>3, <5>4
      <4> QED
        BY <4>1, <4>2 DEF Encloses
    <3>6. ASSUME Encloses(t, j, m) PROVE j = p \/ Encloses(t, j, p)
      <4>1. p >= j
        <5>1. m \in j + 1 .. m
          BY <3>1, <3>6 DEF Encloses
        <5> QED
          BY <3>6, <5>1 DEF Encloses
      <4>2. \A k \in j + 1 .. p : k \in j + 1 .. m
        BY <3>1
      <4> QED
        BY <3>1, <3>6, <4>1, <4>2 DEF Encloses
    <3>7. j \in A[m] <=> Encloses(t, j, m)
      BY <3>2, <3>3, <3>5, <3>6
    <3> QED
      BY <3>7 DEF Good
  <2> QED
    BY <2>1, <2>2
<1>2. 0 .. Len(t) \subseteq Good
  <2> HIDE DEF Good
  <2> QED
    BY <1>0, <1>1, InductUp
<1> QED
  BY <1>2

\* What is around a node has its lines.
LEMMA AroundWithin ==
  ASSUME NEW t, IsTree(t), NEW A, IsAround(t, A), NEW i \in 0 .. Len(t)
  PROVE  A[i] \subseteq 1 .. i - 1
<1>0. Len(t) \in Nat
  BY TreeParent
<1> DEFINE Good == {m \in 0 .. Len(t) : A[m] \subseteq 1 .. m - 1}
<1>1. ASSUME NEW m \in 0 .. Len(t), \A d \in 0 .. m - 1 : d \in Good
      PROVE  m \in Good
  <2>1. CASE m = 0
    BY <2>1 DEF IsAround
  <2>2. CASE m # 0
    <3>1. m \in 1 .. Len(t) /\ t[m].parent \in 0 .. m - 1
      BY <1>0, <2>2, TreeParent
    <3>2. A[m] = (A[t[m].parent] \cup {t[m].parent}) \ {0}
      BY <2>2 DEF IsAround
    <3>3. A[t[m].parent] \subseteq 1 .. t[m].parent - 1
      BY <1>1, <3>1
    <3> QED
      BY <3>1, <3>2, <3>3
  <2> QED
    BY <2>1, <2>2
<1>2. 0 .. Len(t) \subseteq Good
  <2> HIDE DEF Good
  <2> QED
    BY <1>0, <1>1, InductUp
<1> QED
  BY <1>2

-----------------------------------------------------------------------------
(* What is below a node, and the declarations that the descent meets there. *)

\* The declarations among the nodes; whether c .. i are all below q; the declarations
\* below q that enclose i; and those that the loop of q finds from its child c on: what
\* no function or interface below q encloses.
Declared(t) == {i \in 1 .. Len(t) : t[i].type # "other"}
Below(t, q, c, i) == \A k \in c .. i : t[k].parent >= q
Over(t, q, i) == {j \in Declared(t) : j > q /\ Encloses(t, j, i)}
Wanted(t, q, c) ==
  {i \in c .. Len(t) : /\ i \in Declared(t) /\ Below(t, q, c, i)
                       /\ \A j \in Over(t, q, i) : t[j].type \in Containers}
Nearest(t, q, e, i) == IF Over(t, q, i) = {} THEN e ELSE Max(Over(t, q, i))

\* The first child of a node comes right after it.
LEMMA FirstChild ==
  ASSUME NEW t, IsTree(t), NEW c \in 1 .. Len(t), NEW i \in c + 1 .. Len(t), Below(t, c, c + 1, i)
  PROVE  ChildFrom(t, c, c + 1) = c + 1 /\ t[c + 1].parent = c
<1>1. /\ Len(t) \in Nat /\ c + 1 \in 1 .. Len(t) /\ c + 1 \in c + 1 .. i
      /\ c + 1 \in 1 .. Len(t) + 1 /\ c + 1 \in c + 1 .. Len(t)
  BY TreeParent
<1>2. t[c + 1].parent \in Nat /\ t[c + 1].parent < c + 1
  BY <1>1, TreeParent
<1>3. t[c + 1].parent = c
  BY <1>1, <1>2 DEF Below
<1>4. ChildFrom(t, c, c + 1) <= c + 1 /\ ChildFrom(t, c, c + 1) \in c + 1 .. Len(t) + 1
  BY <1>1, <1>3, NextChild
<1> QED
  BY <1>1, <1>3, <1>4

LEMMA NoChild ==
  ASSUME NEW t, IsTree(t), NEW c \in 1 .. Len(t), t[ChildFrom(t, c, c + 1)].parent # c
  PROVE  Wanted(t, c, c + 1) = {}
<1> SUFFICES ASSUME NEW i \in Wanted(t, c, c + 1) PROVE FALSE
  OBVIOUS
<1>1. i \in c + 1 .. Len(t) /\ Below(t, c, c + 1, i)
  BY DEF Wanted
<1> QED
  BY <1>1, FirstChild

\* A subtree is a node, what is below its first child and what is below the next sibling.
LEMMA Subtree ==
  ASSUME NEW t, IsTree(t), NEW c \in 1 .. Len(t), NEW q, q = t[c].parent,
         NEW next, next = ChildFrom(t, q, c + 1), NEW i \in c .. Len(t)
  PROVE  /\ Below(t, q, c, i) =>
              \/ i = c
              \/ i \in c + 1 .. Len(t) /\ Below(t, c, c + 1, i)
              \/ i \in next .. Len(t) /\ Below(t, q, next, i)
         /\ i \in c + 1 .. Len(t) /\ Below(t, c, c + 1, i) =>
              Below(t, q, c, i) /\ i < next /\ Encloses(t, c, i)
         /\ i \in next .. Len(t) /\ Below(t, q, next, i) => Below(t, q, c, i)
         /\ i = c => Below(t, q, c, i)
<1>0. Len(t) \in Nat
  BY TreeParent
<1>1. q \in Nat /\ q < c /\ c + 1 \in 1 .. Len(t) + 1
  BY <1>0, TreeParent
<1>2. /\ next \in c + 1 .. Len(t) + 1
      /\ next <= Len(t) => t[next].parent = q
      /\ \A k \in c + 1 .. Len(t) : t[k].parent = q => next <= k
  BY <1>1, NextChild
<1>3. \A k \in 1 .. Len(t) : t[k].parent \in Nat /\ t[k].parent < k
  BY TreeParent
<1>4. \A k \in 1 .. Len(t) : \A l \in 1 .. k - 1 : t[k].parent < l => t[k].parent <= t[l].parent
  <2> SUFFICES ASSUME NEW k \in 1 .. Len(t)
               PROVE  \A l \in 1 .. k - 1 : t[k].parent < l => t[k].parent <= t[l].parent
    OBVIOUS
  <2>1. Fits(t, k)
    BY TreeParent
  <2> QED
    BY <2>1 DEF Fits
<1>5. ASSUME i # c, Below(t, q, c, i), ~Below(t, c, c + 1, i)
      PROVE  i \in next .. Len(t) /\ Below(t, q, next, i)
  <2>1. PICK k \in c + 1 .. i : ~(t[k].parent >= c)
    BY <1>5 DEF Below
  <2>2. k \in 1 .. Len(t) /\ k \in c .. i /\ k \in c + 1 .. Len(t) /\ c \in 1 .. k - 1
    BY <1>0
  <2>3. t[k].parent \in Nat /\ t[k].parent < c /\ t[k].parent >= q
    BY <1>3, <1>5, <2>1, <2>2 DEF Below
  <2>4. t[k].parent <= q
    BY <1>4, <2>2, <2>3
  <2>5. next <= k
    BY <1>1, <1>2, <2>2, <2>3, <2>4
  <2>6. \A l \in next .. i : l \in c .. i
    BY <1>0, <1>2
  <2> QED
    BY <1>0, <1>2, <1>5, <2>2, <2>5, <2>6 DEF Below
<1>6. ASSUME i \in c + 1 .. Len(t), Below(t, c, c + 1, i)
      PROVE  Below(t, q, c, i) /\ i < next /\ Encloses(t, c, i)
  <2>1. Encloses(t, c, i)
    BY <1>6 DEF Encloses, Below
  <2>2. \A k \in c + 1 .. i : t[k].parent \in Nat /\ t[k].parent >= c /\ t[k].parent # q
    BY <1>0, <1>1, <1>3, <1>6 DEF Below
  <2>3. ASSUME NEW k \in c .. i PROVE t[k].parent >= q
    <3>1. CASE k = c
      BY <1>1, <3>1
    <3>2. CASE k # c
      <4>1. k \in c + 1 .. i
        BY <3>2
      <4> QED
        BY <1>1, <2>2, <4>1
    <3> QED
      BY <3>1, <3>2
  <2>4. i < next
    <3> SUFFICES ASSUME next <= i PROVE FALSE
      BY <1>0, <1>2
    <3>1. next \in c + 1 .. i /\ next <= Len(t)
      BY <1>0, <1>2
    <3> QED
      BY <1>2, <2>2, <3>1
  <2> QED
    BY <2>1, <2>3, <2>4 DEF Below
<1>7. ASSUME i \in next .. Len(t), Below(t, q, next, i)
      PROVE  Below(t, q, c, i)
  <2>0. next \in 1 .. Len(t) /\ t[next].parent = q
    BY <1>0, <1>2, <1>7
  <2>1. ASSUME NEW k \in c .. i PROVE t[k].parent >= q
    <3>1. CASE k >= next
      <4>1. k \in next .. i
        BY <1>0, <1>2, <3>1
      <4> QED
        BY <1>7, <4>1 DEF Below
    <3>2. CASE k = c
      BY <1>1, <3>2
    <3>3. CASE ~(k >= next) /\ k # c
      <4>1. k \in 1 .. next - 1 /\ q < k /\ k \in 1 .. Len(t)
        BY <1>0, <1>1, <1>2, <3>3
      <4>2. q <= t[k].parent
        BY <1>4, <2>0, <4>1
      <4> QED
        BY <1>1, <1>3, <4>1, <4>2
    <3> QED
      BY <3>1, <3>2, <3>3
  <2> QED
    BY <2>1 DEF Below
<1>8. i = c => Below(t, q, c, i)
  BY <1>1 DEF Below
<1> QED
  BY <1>0, <1>5, <1>6, <1>7, <1>8

\* Nothing above q counts.
LEMMA OverBelow ==
  ASSUME NEW t, IsTree(t), NEW c \in 1 .. Len(t), NEW q, q = t[c].parent
  PROVE  /\ Over(t, q, c) = {}
         /\ \A i \in c + 1 .. Len(t) : Below(t, c, c + 1, i) =>
              Over(t, q, i) = Over(t, c, i) \cup ({c} \cap Declared(t))
<1>0. Len(t) \in Nat /\ q \in Nat /\ q < c
  BY TreeParent
<1>1. ASSUME NEW j \in Nat, NEW i \in c .. Len(t), q < j, j < c, Encloses(t, j, i) PROVE FALSE
  <2>1. c \in j + 1 .. i
    BY <1>0, <1>1
  <2>2. q >= j
    BY <1>1, <2>1 DEF Encloses
  <2> QED
    BY <1>0, <1>1, <2>2
<1>2. Over(t, q, c) = {}
  <2> SUFFICES ASSUME NEW j \in Over(t, q, c) PROVE FALSE
    OBVIOUS
  <2>1. j \in Nat /\ j > q /\ Encloses(t, j, c) /\ j < c /\ c \in c .. Len(t)
    BY <1>0 DEF Over, Declared, Encloses
  <2> QED
    BY <1>0, <1>1, <2>1
<1>3. ASSUME NEW i \in c + 1 .. Len(t), Below(t, c, c + 1, i)
      PROVE  Over(t, q, i) = Over(t, c, i) \cup ({c} \cap Declared(t))
  <2>1. Encloses(t, c, i)
    BY <1>3 DEF Encloses, Below
  <2>2. i \in c .. Len(t)
    BY <1>0
  <2>3. ASSUME NEW j \in Over(t, q, i) PROVE j \in Over(t, c, i) \cup ({c} \cap Declared(t))
    <3>1. j \in Nat /\ j \in Declared(t) /\ j > q /\ Encloses(t, j, i)
      BY DEF Over, Declared
    <3>2. ~(j < c)
      BY <1>0, <1>1, <2>2, <3>1
    <3>3. j = c \/ j > c
      BY <1>0, <3>1, <3>2
    <3> QED
      BY <3>1, <3>3 DEF Over
  <2>4. ASSUME NEW j \in Over(t, c, i) \cup ({c} \cap Declared(t)) PROVE j \in Over(t, q, i)
    <3>1. j \in Declared(t) /\ Encloses(t, j, i) /\ j \in Nat /\ j >= c
      BY <1>0, <2>1 DEF Over, Declared
    <3> QED
      BY <1>0, <3>1 DEF Over
  <2> QED
    BY <2>3, <2>4
<1> QED
  BY <1>2, <1>3

Inside(t, c) == IF t[c].type \in Containers \cup {"other"} THEN Wanted(t, c, c + 1) ELSE {}

\* What the loop of a node finds from its child c on.
LEMMA WantedParts ==
  ASSUME NEW t, IsTree(t), NEW c \in 1 .. Len(t), NEW q, q = t[c].parent,
         NEW next, next = ChildFrom(t, q, c + 1), NEW inside, inside = Inside(t, c)
  PROVE  /\ Wanted(t, q, c) = ({c} \cap Declared(t)) \cup inside \cup Wanted(t, q, next)
         /\ \A i \in inside : i > c /\ i < next
         /\ \A i \in Wanted(t, q, next) : i >= next /\ i > c
         /\ next > c
<1>0. Len(t) \in Nat /\ c + 1 \in 1 .. Len(t) + 1 /\ DOMAIN t = 1 .. Len(t)
  BY TreeParent
<1>1. next \in c + 1 .. Len(t) + 1
  BY <1>0, NextChild
<1>2. c \in Declared(t) <=> t[c].type # "other"
  BY DEF Declared
<1>3. ASSUME NEW i \in c + 1 .. Len(t), Below(t, c, c + 1, i), i \in Declared(t)
      PROVE  i \in inside <=> i \in Wanted(t, q, c)
  <2>1. i \in c .. Len(t)
    BY <1>0
  <2>2. Below(t, q, c, i)
    BY <1>3, <2>1, Subtree
  <2>3. Over(t, q, i) = Over(t, c, i) \cup ({c} \cap Declared(t))
    BY <1>3, OverBelow
  <2>4. i \in Wanted(t, q, c) <=> \A j \in Over(t, q, i) : t[j].type \in Containers
    BY <1>3, <2>1, <2>2 DEF Wanted
  <2>5. i \in Wanted(t, c, c + 1) <=> \A j \in Over(t, c, i) : t[j].type \in Containers
    BY <1>3 DEF Wanted
  <2>6. (\A j \in Over(t, q, i) : t[j].type \in Containers)
          <=> (\A j \in Over(t, c, i) : t[j].type \in Containers)
               /\ (t[c].type # "other" => t[c].type \in Containers)
    BY <1>2, <2>3
  <2>7. i \in inside <=> i \in Wanted(t, c, c + 1) /\ t[c].type \in Containers \cup {"other"}
    BY DEF Inside
  <2>8. t[c].type \in Containers \cup {"other"} <=> (t[c].type # "other" => t[c].type \in Containers)
    OBVIOUS
  <2> QED
    BY <2>4, <2>5, <2>6, <2>7, <2>8
<1>4. ASSUME NEW i \in inside
      PROVE  i \in c + 1 .. Len(t) /\ Below(t, c, c + 1, i) /\ i \in Declared(t) /\ i < next
  <2>1. i \in Wanted(t, c, c + 1)
    BY DEF Inside
  <2>2. i \in c + 1 .. Len(t) /\ Below(t, c, c + 1, i) /\ i \in Declared(t)
    BY <2>1 DEF Wanted
  <2>3. i \in c .. Len(t)
    BY <1>0, <2>2
  <2> QED
    BY <2>2, <2>3, Subtree
<1>5. ASSUME NEW i \in Wanted(t, q, next)
      PROVE  i \in next .. Len(t) /\ i \in Wanted(t, q, c)
  <2>1. /\ i \in next .. Len(t) /\ Below(t, q, next, i) /\ i \in Declared(t)
        /\ \A j \in Over(t, q, i) : t[j].type \in Containers
    BY DEF Wanted
  <2>2. i \in c .. Len(t)
    BY <1>0, <1>1, <2>1
  <2>3. Below(t, q, c, i)
    BY <2>1, <2>2, Subtree
  <2> QED
    BY <2>1, <2>2, <2>3 DEF Wanted
<1>6. c \in Declared(t) => c \in Wanted(t, q, c)
  <2>1. c \in c .. Len(t)
    BY <1>0
  <2>2. Over(t, q, c) = {}
    BY OverBelow
  <2>3. Below(t, q, c, c)
    BY <2>1, Subtree
  <2> QED
    BY <2>1, <2>2, <2>3 DEF Wanted
<1>7. ASSUME NEW i \in Wanted(t, q, c)
      PROVE  i \in ({c} \cap Declared(t)) \cup inside \cup Wanted(t, q, next)
  <2>1. /\ i \in c .. Len(t) /\ i \in Declared(t) /\ Below(t, q, c, i)
        /\ \A j \in Over(t, q, i) : t[j].type \in Containers
    BY DEF Wanted
  <2>2. \/ i = c
        \/ i \in c + 1 .. Len(t) /\ Below(t, c, c + 1, i)
        \/ i \in next .. Len(t) /\ Below(t, q, next, i)
    BY <2>1, Subtree
  <2>3. CASE i = c
    BY <2>1, <2>3
  <2>4. CASE i \in c + 1 .. Len(t) /\ Below(t, c, c + 1, i)
    BY <1>3, <2>1, <2>4
  <2>5. CASE i \in next .. Len(t) /\ Below(t, q, next, i)
    BY <2>1, <2>5 DEF Wanted
  <2> QED
    BY <2>2, <2>3, <2>4, <2>5
<1>8. Wanted(t, q, c) = ({c} \cap Declared(t)) \cup inside \cup Wanted(t, q, next)
  <2>1. \A i \in inside : i \in Wanted(t, q, c)
    BY <1>3, <1>4
  <2> QED
    BY <1>5, <1>6, <1>7, <2>1
<1>9. \A i \in inside : i > c /\ i < next
  BY <1>0, <1>4
<1>10. \A i \in Wanted(t, q, next) : i >= next /\ i > c
  BY <1>0, <1>1, <1>5
<1> QED
  BY <1>0, <1>1, <1>8, <1>9, <1>10

\* Below c the nearest declaration over a node is c, if that is one, unless there is a nearer one.
LEMMA NearestBelow ==
  ASSUME NEW t, IsTree(t), NEW c \in 1 .. Len(t), NEW q, q = t[c].parent, NEW e,
         NEW i \in c + 1 .. Len(t), Below(t, c, c + 1, i)
  PROVE  Nearest(t, q, e, i) = Nearest(t, c, IF t[c].type = "other" THEN e ELSE c, i)
<1>0. Len(t) \in Nat /\ c \in Nat
  BY TreeParent
<1>1. Over(t, q, i) = Over(t, c, i) \cup ({c} \cap Declared(t))
  BY OverBelow
<1>2. Over(t, c, i) \subseteq Nat /\ \A j \in Over(t, c, i) : j > c
  BY DEF Over, Declared
<1>3. CASE t[c].type = "other"
  <2>1. Over(t, q, i) = Over(t, c, i)
    BY <1>1, <1>3 DEF Declared
  <2> QED
    BY <1>3, <2>1 DEF Nearest
<1>4. CASE t[c].type # "other"
  <2>1. Over(t, q, i) = Over(t, c, i) \cup {c}
    BY <1>1, <1>4 DEF Declared
  <2>2. CASE Over(t, c, i) = {}
    <3>1. Max({c}) = c
      BY <1>0 DEF Max
    <3>2. Over(t, q, i) = {c} /\ {c} # {}
      BY <2>1, <2>2
    <3>3. Nearest(t, q, e, i) = c
      BY <3>1, <3>2, Zenon DEF Nearest
    <3>4. Nearest(t, c, c, i) = c
      BY <2>2 DEF Nearest
    <3> QED
      BY <1>4, <3>3, <3>4
  <2>3. CASE Over(t, c, i) # {}
    <3> DEFINE S == Over(t, c, i)
    <3> HIDE DEF S
    <3>1. S \subseteq Nat /\ \A j \in S : j > c
      BY <1>2 DEF S
    <3>2. \A x \in S \cup {c} :
            (\A y \in S \cup {c} : x >= y) <=> x \in S /\ \A y \in S : x >= y
      <4>1. \A x \in S : x \in Nat /\ x > c /\ x >= c /\ ~(c >= x)
        BY <1>0, <3>1
      <4>2. \E s \in S : TRUE
        BY <2>3 DEF S
      <4> QED
        BY <4>1, <4>2
    <3>3. Max(S \cup {c}) = Max(S)
      <4>1. \A x : (x \in S \cup {c} /\ \A y \in S \cup {c} : x >= y) <=> (x \in S /\ \A y \in S : x >= y)
        BY <3>2
      <4> QED
        BY <4>1, Zenon DEF Max
    <3>4. Nearest(t, q, e, i) = Max(S \cup {c})
      BY <2>1 DEF Nearest, S
    <3>5. Nearest(t, c, c, i) = Max(S)
      BY <2>3 DEF Nearest, S
    <3> QED
      BY <1>4, <3>3, <3>4, <3>5
  <2> QED
    BY <2>2, <2>3
<1> QED
  BY <1>3, <1>4

-----------------------------------------------------------------------------
(* What the loops find.                                                     *)

\* L lists the nodes of S in their order, each with its parent according to Over.
Lists(t, L, S, near) ==
  /\ L \in Seq(NodesOf(t))
  /\ \A a \in 1 .. Len(L) : L[a].node \in S /\ L[a] = Extracted(t, L[a].node, near[L[a].node])
  /\ \A a, b \in 1 .. Len(L) : a < b => L[a].node < L[b].node
  /\ \A i \in S : \E a \in 1 .. Len(L) : L[a].node = i

\* How lists are put together from the lists of the parts.
LEMMA ListsNothing ==
  ASSUME NEW t, NEW near
  PROVE  Lists(t, << >>, {}, near)
  BY DEF Lists

LEMMA ListsOne ==
  ASSUME NEW t, IsTree(t), NEW c \in 1 .. Len(t), NEW near, NEW e \in 0 .. Len(t), near[c] = e
  PROVE  Lists(t, << Extracted(t, c, e) >>, {c}, near)
<1>1. Extracted(t, c, e) \in NodesOf(t) /\ Extracted(t, c, e).node = c
  BY TreeParent DEF Extracted, NodesOf
<1> DEFINE x == Extracted(t, c, e)
           N == NodesOf(t)
<1>2. x = Extracted(t, x.node, near[x.node])
  BY <1>1
<1> HIDE DEF x, N
<1>3. x \in N /\ x.node = c
  BY <1>1 DEF x, N
<1>4. << x >> \in Seq(N) /\ Len(<< x >>) = 1 /\ << x >>[1] = x
  BY <1>3
<1>5. \A a \in 1 .. Len(<< x >>) : a = 1
  BY <1>4
<1>6. Lists(t, << x >>, {c}, near)
  BY <1>2, <1>3, <1>4, <1>5 DEF Lists, N
<1> QED
  BY <1>6 DEF x

LEMMA ListsRelabelled ==
  ASSUME NEW t, NEW L, NEW S, NEW near, NEW far, Lists(t, L, S, near), \A i \in S : near[i] = far[i]
  PROVE  Lists(t, L, S, far)
  BY DEF Lists

LEMMA ListsJoined ==
  ASSUME NEW t, NEW L, NEW M, NEW S, NEW R, NEW near, Lists(t, L, S, near), Lists(t, M, R, near),
         \A x \in S, y \in R : x < y
  PROVE  Lists(t, L \o M, S \cup R, near)
<1> DEFINE N == NodesOf(t)
           Q == L \o M
<1>1. L \in Seq(N) /\ M \in Seq(N)
  BY DEF Lists
<1>2. /\ Q \in Seq(N) /\ Len(Q) = Len(L) + Len(M) /\ Len(L) \in Nat /\ Len(M) \in Nat
      /\ \A p \in 1 .. Len(L) : Q[p] = L[p]
      /\ \A p \in 1 .. Len(M) : Q[Len(L) + p] = M[p]
  <2> HIDE DEF N
  <2> QED
    BY <1>1, Concat
<1> HIDE DEF Q, N
<1>3. ASSUME NEW a \in 1 .. Len(Q), a > Len(L)
      PROVE  a - Len(L) \in 1 .. Len(M) /\ Q[a] = M[a - Len(L)]
  <2>1. a - Len(L) \in 1 .. Len(M) /\ Len(L) + (a - Len(L)) = a
    BY <1>2, <1>3
  <2> QED
    BY <1>2, <2>1
<1>4. ASSUME NEW a \in 1 .. Len(Q), ~(a > Len(L))
      PROVE  a \in 1 .. Len(L) /\ Q[a] = L[a]
  BY <1>2, <1>4
<1>5. ASSUME NEW a \in 1 .. Len(Q)
      PROVE  /\ a > Len(L) => Q[a].node \in R
             /\ ~(a > Len(L)) => Q[a].node \in S
             /\ Q[a] = Extracted(t, Q[a].node, near[Q[a].node])
  BY <1>3, <1>4 DEF Lists
<1>6. ASSUME NEW a \in 1 .. Len(Q), NEW b \in 1 .. Len(Q), a < b
      PROVE  Q[a].node < Q[b].node
  <2>1. CASE a > Len(L)
    <3>1. b > Len(L) /\ a - Len(L) < b - Len(L)
      BY <1>2, <1>6, <2>1
    <3> QED
      BY <1>3, <2>1, <3>1 DEF Lists
  <2>2. CASE ~(a > Len(L)) /\ b > Len(L)
    BY <1>5, <2>2
  <2>3. CASE ~(a > Len(L)) /\ ~(b > Len(L))
    BY <1>4, <1>6, <2>3 DEF Lists
  <2> QED
    BY <2>1, <2>2, <2>3
<1>7. ASSUME NEW i \in S \cup R PROVE \E a \in 1 .. Len(Q) : Q[a].node = i
  <2>1. CASE i \in S
    <3>1. PICK a \in 1 .. Len(L) : L[a].node = i
      BY <2>1 DEF Lists
    <3> QED
      BY <1>2, <3>1
  <2>2. CASE i \in R
    <3>1. PICK a \in 1 .. Len(M) : M[a].node = i
      BY <2>2 DEF Lists
    <3>2. Len(L) + a \in 1 .. Len(Q)
      BY <1>2
    <3> QED
      BY <1>2, <3>1, <3>2
  <2> QED
    BY <2>1, <2>2
<1>8. Lists(t, Q, S \cup R, near)
  BY <1>2, <1>5, <1>6, <1>7 DEF Lists, N
<1> QED
  BY <1>8 DEF Q

NearFrom(t, q, e) == [i \in 1 .. Len(t) |-> Nearest(t, q, e, i)]

\* The loop of a node from its child c on finds the declarations below, each once and in order.
Finds(t, F, c) ==
  \A e \in 0 .. Len(t) :
    IF c > Len(t) THEN F[c][e] = << >>
    ELSE Lists(t, F[c][e], Wanted(t, t[c].parent, c), NearFrom(t, t[c].parent, e))

LEMMA VisitFinds ==
  ASSUME NEW t, IsTree(t), NEW F, Loops(t, F), NEW c \in 1 .. Len(t) + 1,
         \A d \in c + 1 .. Len(t) + 1 : Finds(t, F, d)
  PROVE  Finds(t, F, c)
<1>0. Len(t) \in Nat
  BY TreeParent
<1> SUFFICES ASSUME NEW e \in 0 .. Len(t)
             PROVE  IF c > Len(t) THEN F[c][e] = << >>
                    ELSE Lists(t, F[c][e], Wanted(t, t[c].parent, c), NearFrom(t, t[c].parent, e))
  BY DEF Finds
<1>1. F[c][e] = VisitFrom(t, F, c, e)
  BY DEF Loops
<1>2. CASE c > Len(t)
  BY <1>1, <1>2 DEF VisitFrom
<1>3. CASE ~(c > Len(t))
  <2> DEFINE q == t[c].parent
             next == ChildFrom(t, q, c + 1)
             child == ChildFrom(t, c, c + 1)
             below == IF t[c].type = "other" THEN e ELSE c
             near == NearFrom(t, q, e)
             inside == Inside(t, c)
             Inner == IF t[c].type \in Containers \cup {"other"} THEN F[child][below] ELSE << >>
  <2>1. c \in 1 .. Len(t) /\ c \in 0 .. Len(t) /\ c + 1 \in 1 .. Len(t) + 1 /\ below \in 0 .. Len(t)
    BY <1>0, <1>3
  <2>2. child \in c + 1 .. Len(t) + 1 /\ next \in c + 1 .. Len(t) + 1
        /\ (child <= Len(t) => t[child].parent = c)
        /\ (next <= Len(t) => t[next].parent = q)
    BY <2>1, NextChild
  <2>3. /\ Wanted(t, q, c) = ({c} \cap Declared(t)) \cup inside \cup Wanted(t, q, next)
        /\ \A i \in inside : i > c /\ i < next
        /\ \A i \in Wanted(t, q, next) : i >= next /\ i > c
        /\ next > c
    <3>1. /\ q = t[c].parent /\ next = ChildFrom(t, q, c + 1)
          /\ inside = Inside(t, c)
      OBVIOUS
    <3> HIDE DEF q, next, inside
    <3> QED
      BY <2>1, <3>1, WantedParts
  <2>4. Lists(t, F[next][e], Wanted(t, q, next), near)
    <3>1. Finds(t, F, next)
      BY <2>2
    <3>2. CASE next > Len(t)
      <4>1. F[next][e] = << >>
        BY <3>1, <3>2 DEF Finds
      <4>2. Wanted(t, q, next) = {}
        BY <1>0, <2>2, <3>2 DEF Wanted
      <4> QED
        BY <4>1, <4>2, ListsNothing
    <3>3. CASE ~(next > Len(t))
      <4>1. t[next].parent = q
        BY <1>0, <2>2, <3>3
      <4>2. Lists(t, F[next][e], Wanted(t, t[next].parent, next), NearFrom(t, t[next].parent, e))
        BY <3>1, <3>3 DEF Finds
      <4> QED
        BY <4>1, <4>2
    <3> QED
      BY <3>2, <3>3
  <2>5. Lists(t, F[child][below], Wanted(t, c, c + 1), near)
    <3>1. Finds(t, F, child)
      BY <2>2
    <3>2. CASE Wanted(t, c, c + 1) = {} /\ child > Len(t)
      <4>1. F[child][below] = << >>
        BY <2>1, <3>1, <3>2 DEF Finds
      <4> QED
        BY <3>2, <4>1, ListsNothing
    <3>3. CASE child <= Len(t)
      <4>1. child \in 1 .. Len(t) /\ t[child].parent = c
        BY <1>0, <2>1, <2>2, <3>3
      <4>2. child = c + 1
        <5>1. t[child].parent < child /\ Below(t, c, c + 1, c + 1) => child = c + 1
          <6> SUFFICES ASSUME Below(t, c, c + 1, c + 1) PROVE child = c + 1
            OBVIOUS
          <6>1. c + 1 \in c + 1 .. Len(t)
            BY <1>0, <2>2, <3>3
          <6> QED
            BY <2>1, <6>1, FirstChild
        <5>2. t[c + 1].parent >= c
          <6>1. CASE child = c + 1
            BY <4>1, <6>1
          <6>2. CASE child # c + 1
            <7>1. Fits(t, child) /\ c + 1 \in 1 .. child - 1 /\ t[child].parent < c + 1
              BY <2>1, <2>2, <4>1, <6>2, TreeParent
            <7>2. t[child].parent <= t[c + 1].parent /\ t[c + 1].parent \in Nat
              <8>1. t[child].parent <= t[c + 1].parent
                BY <7>1 DEF Fits
              <8>2. c + 1 \in 1 .. Len(t)
                BY <1>0, <4>1, <7>1
              <8>3. t[c + 1].parent \in Nat
                BY <8>2, TreeParent
              <8> QED
                BY <8>1, <8>3
            <7> QED
              BY <2>1, <4>1, <7>2
          <6> QED
            BY <6>1, <6>2
        <5>3. Below(t, c, c + 1, c + 1)
          BY <2>1, <5>2 DEF Below
        <5>4. t[child].parent < child
          BY <4>1, TreeParent
        <5> QED
          BY <5>1, <5>3, <5>4
      <4>3. Lists(t, F[child][below], Wanted(t, c, c + 1), NearFrom(t, c, below))
        <5>1. ~(child > Len(t))
          BY <1>0, <4>1
        <5>2. Lists(t, F[child][below], Wanted(t, t[child].parent, child),
                    NearFrom(t, t[child].parent, below))
          BY <2>1, <3>1, <5>1 DEF Finds
        <5> QED
          BY <4>1, <4>2, <5>2
      <4>4. \A i \in Wanted(t, c, c + 1) : NearFrom(t, c, below)[i] = near[i]
        <5> SUFFICES ASSUME NEW i \in Wanted(t, c, c + 1) PROVE NearFrom(t, c, below)[i] = near[i]
          OBVIOUS
        <5>1. i \in c + 1 .. Len(t) /\ Below(t, c, c + 1, i) /\ i \in 1 .. Len(t)
          BY <1>0, <2>1 DEF Wanted
        <5>2. Nearest(t, q, e, i) = Nearest(t, c, below, i)
          BY <2>1, <5>1, NearestBelow
        <5> QED
          BY <5>1, <5>2 DEF NearFrom
      <4> HIDE DEF near, below, child
      <4> QED
        BY <4>3, <4>4, ListsRelabelled
    <3>4. CASE child > Len(t) /\ Wanted(t, c, c + 1) # {}
      <4>1. t[child].parent = c
        BY <2>1, <3>4, NoChild
      <4>2. PICK i \in Wanted(t, c, c + 1) : TRUE
        BY <3>4
      <4>3. i \in c + 1 .. Len(t) /\ Below(t, c, c + 1, i)
        BY DEF Wanted
      <4>4. child = c + 1 /\ c + 1 <= Len(t)
        BY <1>0, <2>1, <4>3, FirstChild
      <4> QED
        BY <1>0, <2>1, <3>4, <4>4
    <3> QED
      BY <1>0, <2>2, <3>2, <3>3, <3>4
  <2>6. Lists(t, Inner, inside, near)
    BY <2>5, ListsNothing DEF Inside
  <2>7. Lists(t, Inner \o F[next][e], inside \cup Wanted(t, q, next), near)
    <3>1. \A x \in inside, y \in Wanted(t, q, next) : x < y
      <4>1. inside \subseteq Int /\ Wanted(t, q, next) \subseteq Int /\ next \in Int
        BY <1>0, <2>1, <2>2 DEF Wanted, Inside
      <4> HIDE DEF inside, next, q
      <4> QED
        BY <2>3, <4>1
    <3> HIDE DEF inside, near, q, next, Inner
    <3> QED
      BY <2>4, <2>6, <3>1, ListsJoined
  <2>8. CASE t[c].type = "other"
    <3>1. Visit(t, F, c, e) = F[child][e] \o F[next][e] /\ below = e
      BY <2>8 DEF Visit
    <3>2. Inner = F[child][e] /\ {c} \cap Declared(t) = {}
      BY <2>8, <3>1 DEF Declared
    <3>3. Wanted(t, q, c) = inside \cup Wanted(t, q, next)
      BY <2>3, <3>2
    <3>4. F[c][e] = Inner \o F[next][e]
      BY <1>1, <1>3, <3>1, <3>2 DEF VisitFrom
    <3>5. Lists(t, F[c][e], Wanted(t, q, c), near)
      <4> HIDE DEF Inner, near, q, inside, next
      <4> QED
        BY <2>7, <3>3, <3>4
    <3> QED
      BY <1>3, <3>5
  <2>9. CASE t[c].type # "other"
    <3>1. Visit(t, F, c, e) = << Extracted(t, c, e) >> \o Inner \o F[next][e]
      BY <2>9 DEF Visit
    <3>2. {c} \cap Declared(t) = {c}
      BY <2>1, <2>9 DEF Declared
    <3>3. Lists(t, << Extracted(t, c, e) >>, {c}, near)
      <4>1. near[c] = e
        <5>1. Over(t, q, c) = {}
          BY <2>1, OverBelow
        <5> QED
          BY <2>1, <5>1 DEF NearFrom, Nearest
      <4> HIDE DEF near
      <4> QED
        BY <2>1, <4>1, ListsOne
    <3>4. Lists(t, << Extracted(t, c, e) >> \o Inner, {c} \cup inside, near)
      <4>1. \A x \in {c}, y \in inside : x < y
        <5>1. inside \subseteq Int
          BY <1>0, <2>1 DEF Wanted, Inside
        <5> HIDE DEF inside, next
        <5> QED
          BY <2>1, <2>3, <5>1
      <4> HIDE DEF inside, near, Inner
      <4> QED
        BY <2>6, <3>3, <4>1, ListsJoined
    <3>5. Lists(t, (<< Extracted(t, c, e) >> \o Inner) \o F[next][e],
                {c} \cup inside \cup Wanted(t, q, next), near)
      <4>1. \A x \in {c} \cup inside, y \in Wanted(t, q, next) : x < y
        <5>1. inside \subseteq Int /\ Wanted(t, q, next) \subseteq Int /\ next \in Int
          BY <1>0, <2>1, <2>2 DEF Wanted, Inside
        <5> HIDE DEF inside, next, q
        <5> QED
          BY <2>1, <2>3, <5>1
      <4> HIDE DEF inside, near, q, next, Inner
      <4> QED
        BY <2>4, <3>4, <4>1, ListsJoined
    <3>6. Wanted(t, q, c) = {c} \cup inside \cup Wanted(t, q, next)
      BY <2>3, <3>2
    <3>7. F[c][e] = << Extracted(t, c, e) >> \o Inner \o F[next][e]
      BY <1>1, <1>3, <3>1 DEF VisitFrom
    <3>8. Lists(t, F[c][e], Wanted(t, q, c), near)
      <4> HIDE DEF Inner, near, q, inside, next
      <4> QED
        BY <3>5, <3>6, <3>7
    <3> QED
      BY <1>3, <3>8
  <2> QED
    BY <2>8, <2>9
<1> QED
  BY <1>2, <1>3

-----------------------------------------------------------------------------
(* The inductive invariant.                                                 *)

\* _extract_nodes finds what Reachable says, in order, each with the nearest declaration around it.
LEMMA ExtractNodesFinds ==
  ASSUME NEW t, IsTree(t)
  PROVE  /\ ExtractNodes(t) \in Seq(NodesOf(t))
         /\ Len(t) = 0 => ExtractNodes(t) = << >>
         /\ Len(t) # 0 => Lists(t, ExtractNodes(t), Wanted(t, 0, 1), NearFrom(t, 0, 0))
<1>0. Len(t) \in Nat /\ 1 \in 1 .. Len(t) + 1 /\ 0 \in 0 .. Len(t)
  BY TreeParent
<1>1. PICK F : Loops(t, F) /\ ExtractNodes(t) = F[ChildFrom(t, 0, 1)][0]
  BY ExtractNodesIs
<1> DEFINE Good == {c \in 1 .. Len(t) + 1 : Finds(t, F, c)}
<1>2. 1 .. Len(t) + 1 \subseteq Good
  <2>1. \A c \in 1 .. Len(t) + 1 : (\A d \in c + 1 .. Len(t) + 1 : d \in Good) => c \in Good
    BY <1>1, VisitFinds
  <2>2. Len(t) + 1 \in Nat
    BY <1>0
  <2> HIDE DEF Good
  <2> QED
    BY <2>1, <2>2, InductDown
<1>3. ChildFrom(t, 0, 1) \in 1 .. Len(t) + 1
  BY <1>0, NextChild
<1>4. Finds(t, F, ChildFrom(t, 0, 1))
  BY <1>2, <1>3
<1>5. ExtractNodes(t) \in Seq(NodesOf(t))
  BY <1>0, <1>1, <1>3 DEF Loops
<1>6. ASSUME Len(t) = 0 PROVE ExtractNodes(t) = << >>
  <2>1. ChildFrom(t, 0, 1) > Len(t)
    BY <1>3, <1>6
  <2> QED
    BY <1>0, <1>1, <1>4, <2>1 DEF Finds
<1>7. ASSUME Len(t) # 0 PROVE Lists(t, ExtractNodes(t), Wanted(t, 0, 1), NearFrom(t, 0, 0))
  <2>1. 1 \in 1 .. Len(t)
    BY <1>0, <1>7
  <2>2. t[1].parent \in Nat /\ t[1].parent < 1
    BY <2>1, TreeParent
  <2>3. t[1].parent = 0
    BY <2>2
  <2>4. ChildFrom(t, 0, 1) <= 1
    BY <1>0, <2>1, <2>3, NextChild
  <2>5. ChildFrom(t, 0, 1) = 1
    BY <1>3, <2>4
  <2>6. ~(1 > Len(t))
    BY <1>0, <1>7
  <2>7. Lists(t, F[1][0], Wanted(t, t[1].parent, 1), NearFrom(t, t[1].parent, 0))
    BY <1>0, <1>4, <2>5, <2>6 DEF Finds
  <2> QED
    BY <1>1, <2>3, <2>5, <2>7
<1> QED
  BY <1>5, <1>6, <1>7

-----------------------------------------------------------------------------
TypeOK ==
  /\ stage \in {"parse", "chunk", "done"} /\ file \in Files
  /\ parsers \in [Languages -> {"unset", "parser", "none"}]
\* No parser for a language without a grammar, and what parse and chunk have returned.
Parsed == ExtractNodes(Tree) # << >> /\ nodes = ExtractNodes(Tree)
IInv ==
  /\ TypeOK
  /\ \A l \in Languages \ Grammars : parsers[l] # "parser"
  /\ stage = "parse" => nodes = << >>
  /\ stage # "parse" => Parsed \/ nodes = FallbackParse(file)
  /\ stage # "done" => chunks = << >>
  /\ stage = "done" => chunks = FlattenSeq([i \in DOMAIN nodes |-> ChunksOf(nodes[i])])

\* parse has returned nothing, one module or what the descent finds, and chunk the chunks
\* of those nodes, in every reachable state.
THEOREM Inductive == Spec => []IInv
<1>1. Init => IInv
  BY DEF Init, IInv, TypeOK
<1>2. IInv /\ [Next]_vars => IInv'
  <2> SUFFICES ASSUME IInv, [Next]_vars PROVE IInv'
    OBVIOUS
  <2>1. ASSUME GetParser, file' = file
        PROVE  /\ parsers' \in [Languages -> {"unset", "parser", "none"}]
               /\ \A l \in Languages \ Grammars : parsers'[l] # "parser"
    <3>1. PICK p \in {"unset", "parser", "none"} :
             /\ parsers' = [parsers EXCEPT ![file.language] = p]
             /\ p = parsers[file.language] \/ p = "none" \/ file.language \in Grammars
      <4>1. file.language \in Languages
        BY FilesAssumption DEF IInv, TypeOK
      <4>2. parsers[file.language] \in {"unset", "parser", "none"}
        BY <4>1 DEF IInv, TypeOK
      <4> QED
        BY <2>1, <4>2 DEF GetParser
    <3> QED
      BY <3>1 DEF IInv, TypeOK
  <2>2. CASE ParseTree
    BY <2>1, <2>2 DEF ParseTree, IInv, TypeOK, Parsed, Tree
  <2>3. CASE ParseWhole
    BY <2>1, <2>3 DEF ParseWhole, IInv, TypeOK, Parsed, Tree
  <2>4. CASE ChunkNodes
    <3> DEFINE All == FlattenSeq([i \in DOMAIN nodes |-> ChunksOf(nodes[i])])
    <3>1. chunks' = All /\ stage' = "done" /\ stage = "chunk"
      BY <2>4 DEF ChunkNodes
    <3>2. All' = All
      BY <2>4 DEF ChunkNodes
    <3> QED
      BY <2>4, <3>1 DEF ChunkNodes, IInv, TypeOK, Parsed, Tree
  <2>5. CASE UNCHANGED vars
    BY <2>5 DEF vars, IInv, TypeOK, Parsed, Tree
  <2> QED
    BY <2>2, <2>3, <2>4, <2>5 DEF Next
<1> QED
  BY <1>1, <1>2, PTL DEF Spec

\* The assumption on the files: each has a tree.
LEMMA FilesHaveTrees ==
  ASSUME NEW f \in Files
  PROVE  IsTree(f.tree) /\ f.lines \in Nat \ {0}
<1> DEFINE Node == [parent : Nat, type : Types, first : 1 .. f.lines, last : 1 .. f.lines]
           Line == [parent : Nat, type : Types, first : Int, last : Int]
<1>1. f.lines \in Nat \ {0} /\ f.tree \in Seq(Node) /\ \A j \in DOMAIN f.tree : Fits(f.tree, j)
  BY FilesAssumption
<1>2. Node \subseteq Line
  BY <1>1
<1>3. f.tree \in Seq(Line)
  <2> HIDE DEF Node, Line
  <2> QED
    BY <1>1, <1>2
<1> QED
  BY <1>1, <1>3 DEF IsTree

-----------------------------------------------------------------------------
(* The parts of a large node.                                               *)

\* The first m of n sequences have one element, the others none.
Singles(s, n, m) == \A k \in 1 .. n : Len(s[k]) = IF k <= m THEN 1 ELSE 0

LEMMA FlattenPrefix ==
  ASSUME NEW T, NEW n \in Nat, NEW s \in [1 .. n -> Seq(T)], NEW m \in 0 .. n, Singles(s, n, m)
  PROVE  /\ FlattenSeq(s) \in Seq(T) /\ Len(FlattenSeq(s)) = m
         /\ \A k \in 1 .. m : FlattenSeq(s)[k] = s[k][1]
<1>0. FlattenSeq(s) \in Seq(T)
  BY Flatten
<1>01. PICK offset : Places(offset, s, n)
  BY Flatten
<1>1. /\ IsOffset(offset, s, n) /\ Len(FlattenSeq(s)) = offset[n]
      /\ \A i \in 0 .. n - 1 : \A k \in 1 .. Len(s[i + 1]) :
           FlattenSeq(s)[offset[i] + k] = s[i + 1][k]
  BY <1>01 DEF Places
<1> DEFINE Good == {i \in 0 .. n : offset[i] = IF i <= m THEN i ELSE m}
<1>2. 0 \in Good
  BY <1>1 DEF IsOffset
<1>3. ASSUME NEW i \in 0 .. n - 1, i \in Good PROVE i + 1 \in Good
  <2>1. i + 1 \in 1 .. n /\ i + 1 \in 0 .. n
    OBVIOUS
  <2>2. offset[i + 1] = offset[i] + Len(s[i + 1])
    BY <1>1 DEF IsOffset
  <2>3. offset[i] = (IF i <= m THEN i ELSE m) /\ Len(s[i + 1]) = IF i + 1 <= m THEN 1 ELSE 0
    BY <1>3, <2>1 DEF Singles
  <2>4. offset[i + 1] = IF i + 1 <= m THEN i + 1 ELSE m
    BY <2>2, <2>3
  <2> QED
    BY <2>1, <2>4
<1>4. 0 .. n \subseteq Good
  <2>1. 0 \in Nat
    OBVIOUS
  <2> HIDE DEF Good
  <2> QED
    BY <1>2, <1>3, <2>1, InductTo
<1>5. \A i \in 0 .. n : offset[i] = IF i <= m THEN i ELSE m
  BY <1>4
<1>6. ASSUME NEW k \in 1 .. m PROVE FlattenSeq(s)[k] = s[k][1]
  <2>1. /\ k - 1 \in 0 .. n - 1 /\ k - 1 \in 0 .. n /\ (k - 1) + 1 = k
        /\ k \in 1 .. n /\ k - 1 <= m /\ k <= m
    OBVIOUS
  <2>2. offset[k - 1] = k - 1 /\ Len(s[k]) = 1
    BY <1>5, <2>1 DEF Singles
  <2>3. s[(k - 1) + 1] = s[k] /\ 1 \in 1 .. Len(s[k])
    BY <2>1, <2>2
  <2>4. FlattenSeq(s)[offset[k - 1] + 1] = s[(k - 1) + 1][1]
    BY <1>1, <2>1, <2>3
  <2> QED
    BY <2>1, <2>2, <2>3, <2>4
<1>7. offset[n] = m
  BY <1>5
<1> QED
  BY <1>0, <1>1, <1>6, <1>7

\* Arithmetic of the parts.
LEMMA DivBound ==
  ASSUME NEW a \in Nat, NEW m \in Nat \ {0}
  PROVE  a \div m \in Nat /\ (a \div m) * m <= a /\ a < (a \div m) * m + m
  OBVIOUS

LEMMA Times ==
  ASSUME NEW m \in Nat
  PROVE  /\ \A x \in Int : x * m \in Int /\ (x + 1) * m = x * m + m /\ (x - 1) * m = x * m - m
         /\ 0 * m = 0
         /\ \A x, y \in Int : x <= y => x * m <= y * m
  OBVIOUS

(* The parts of a node with more than MaxLines lines.                                       *)
LEMMA Parts ==
  ASSUME NEW n, n.first \in Int, n.last \in Int, n.first <= n.last
  PROVE  /\ PartCount(n) \in Nat \ {0} /\ PartFirst(n, 1) = n.first
         /\ PartLast(n, PartCount(n)) = n.last
         /\ \A k \in 1 .. PartCount(n) :
              /\ PartFirst(n, k) \in Int /\ PartLast(n, k) \in Int
              /\ n.first <= PartFirst(n, k) /\ PartFirst(n, k) <= PartLast(n, k)
              /\ PartLast(n, k) <= n.last /\ PartLast(n, k) - PartFirst(n, k) + 1 <= MaxLines
         /\ \A k \in 1 .. PartCount(n) - 1 :
              PartLast(n, k) + 1 = PartFirst(n, k + 1) /\ PartLast(n, k) - PartFirst(n, k) + 1 = MaxLines
         /\ \A k, l \in 1 .. PartCount(n) : k < l => PartLast(n, k) < PartFirst(n, l)
         /\ \A x \in n.first .. n.last : \E k \in 1 .. PartCount(n) :
              PartFirst(n, k) <= x /\ x <= PartLast(n, k)
<1> DEFINE m == MaxLines
           P == PartCount(n)
           lines == n.last - n.first + 1
           At(x) == x * m
<1>1. m \in Nat \ {0} /\ lines \in Nat \ {0}
  BY LinesAssumption
<1>2. P = (lines + m - 1) \div m
  BY DEF PartCount, LineCount
<1>3. /\ \A x \in Int : At(x) \in Int /\ At(x + 1) = At(x) + m /\ At(x - 1) = At(x) - m
      /\ At(0) = 0
      /\ \A x, y \in Int : x <= y => At(x) <= At(y)
  BY <1>1, Times
<1>4. P \in Nat /\ At(P) <= lines + m - 1 /\ lines + m - 1 < At(P) + m
  <2>1. lines + m - 1 \in Nat
    BY <1>1
  <2> HIDE DEF lines, m, P
  <2> QED
    BY <1>1, <1>2, <2>1, DivBound
<1>5. \A k : /\ PartFirst(n, k) = n.first + At(k - 1)
             /\ PartLast(n, k) = IF PartFirst(n, k) + m - 1 <= n.last THEN PartFirst(n, k) + m - 1 ELSE n.last
  BY DEF PartFirst, PartLast
<1>6. \A x \in n.first .. n.last : \E k \in Int :
        At(k - 1) <= x - n.first /\ x - n.first < At(k) /\ k >= 1
  <2> SUFFICES ASSUME NEW x \in n.first .. n.last
               PROVE  \E k \in Int : At(k - 1) <= x - n.first /\ x - n.first < At(k) /\ k >= 1
    OBVIOUS
  <2> DEFINE d == (x - n.first) \div m
  <2>1. x - n.first \in Nat
    OBVIOUS
  <2>2. d \in Nat /\ At(d) <= x - n.first /\ x - n.first < At(d) + m
    <3> HIDE DEF m
    <3> QED
      BY <1>1, <2>1, DivBound
  <2> HIDE DEF At, d, m
  <2>3. At((d + 1) - 1) = At(d) /\ At(d + 1) = At(d) + m /\ d + 1 \in Int /\ d + 1 >= 1
    <3>1. (d + 1) - 1 = d
      BY <2>2
    <3> QED
      BY <1>3, <2>2, <3>1
  <2> QED
    BY <2>2, <2>3
<1> HIDE DEF At, m, P
<1>7. P # 0
  BY <1>1, <1>3, <1>4
<1>8. At(P - 1) < lines /\ lines <= At(P)
  <2>1. At(P - 1) = At(P) - m /\ At(P) \in Int
    BY <1>3, <1>4
  <2> HIDE DEF lines
  <2> QED
    BY <1>1, <1>4, <2>1
<1>9. ASSUME NEW k \in 1 .. P
      PROVE  /\ PartFirst(n, k) \in Int /\ PartLast(n, k) \in Int
             /\ n.first <= PartFirst(n, k) /\ PartFirst(n, k) <= PartLast(n, k)
             /\ PartLast(n, k) <= n.last /\ PartLast(n, k) - PartFirst(n, k) + 1 <= m
  <2>1. k - 1 \in Int /\ 0 <= k - 1 /\ k - 1 <= P - 1 /\ P - 1 \in Int
    BY <1>4
  <2>2. At(k - 1) \in Int /\ 0 <= At(k - 1) /\ At(k - 1) <= At(P - 1) /\ At(P - 1) \in Int
    BY <1>3, <2>1
  <2> QED
    BY <1>1, <1>5, <1>8, <2>2
<1>10. ASSUME NEW k \in 1 .. P - 1
       PROVE  PartLast(n, k) + 1 = PartFirst(n, k + 1) /\ PartLast(n, k) - PartFirst(n, k) + 1 = m
  <2>1. k \in Int /\ k <= P - 1 /\ P - 1 \in Int
    BY <1>4
  <2>2. /\ At(k) \in Int /\ At(k) <= At(P - 1) /\ At(P - 1) \in Int /\ At(k - 1) \in Int
        /\ At(k) = At(k - 1) + m /\ At((k + 1) - 1) = At(k)
    <3>1. (k + 1) - 1 = k
      BY <2>1
    <3> QED
      BY <1>1, <1>3, <2>1, <3>1
  <2> QED
    BY <1>1, <1>5, <1>8, <2>2
<1>11. ASSUME NEW k \in 1 .. P, NEW l \in 1 .. P, k < l PROVE PartLast(n, k) < PartFirst(n, l)
  <2>1. k \in 1 .. P - 1 /\ k \in Int /\ l - 1 \in Int /\ k <= l - 1 /\ (k + 1) - 1 = k
    BY <1>4, <1>11
  <2>2. PartLast(n, k) + 1 = n.first + At(k)
    BY <1>5, <1>10, <2>1
  <2>3. At(k) <= At(l - 1) /\ At(k) \in Int /\ At(l - 1) \in Int
    BY <1>3, <2>1
  <2>4. k \in 1 .. P /\ PartLast(n, k) \in Int
    BY <1>9
  <2> QED
    BY <1>5, <2>2, <2>3, <2>4
<1>12. PartLast(n, P) = n.last
  <2>1. P \in Int /\ At(P) = At(P - 1) + m /\ At(P - 1) \in Int /\ At(P) \in Int
    BY <1>1, <1>3, <1>4
  <2> QED
    BY <1>1, <1>5, <1>8, <2>1
<1>13. PartFirst(n, 1) = n.first
  <2>1. 1 - 1 = 0
    OBVIOUS
  <2>2. PartFirst(n, 1) = n.first + At(0)
    BY <1>5, <2>1
  <2>3. At(0) = 0 /\ n.first \in Int
    BY <1>3
  <2> QED
    BY <2>2, <2>3
<1>14. ASSUME NEW x \in n.first .. n.last
       PROVE  \E k \in 1 .. P : PartFirst(n, k) <= x /\ x <= PartLast(n, k)
  <2>1. PICK k \in Int : At(k - 1) <= x - n.first /\ x - n.first < At(k) /\ k >= 1
    BY <1>6
  <2>2. At(k) = At(k - 1) + m /\ At(k - 1) \in Int /\ At(k) \in Int
    BY <1>1, <1>3, <2>1
  <2>3. k <= P
    <3> SUFFICES ASSUME k > P PROVE FALSE
      BY <1>4
    <3>1. P <= k - 1 /\ P \in Int /\ k - 1 \in Int
      BY <1>4
    <3>2. At(P) <= At(k - 1) /\ At(P) \in Int
      BY <1>3, <3>1
    <3> QED
      BY <1>1, <1>8, <2>1, <2>2, <3>2
  <2>4. k \in 1 .. P
    BY <1>4, <2>1, <2>3
  <2> QED
    BY <1>1, <1>5, <2>1, <2>2, <2>4
<1> QED
  BY <1>4, <1>7, <1>9, <1>10, <1>11, <1>12, <1>13, <1>14 DEF m, P

ChunkRecord == [node : Int, parent : Int, part : Nat, first : Int, last : Int, signed : BOOLEAN]

\* C are chunks of n, one after the other, numbered without a gap.
InOrder(n, C) ==
  /\ C \in Seq(ChunkRecord)
  /\ \A k \in 1 .. Len(C) :
       /\ C[k].node = n.node /\ n.first <= C[k].first /\ C[k].first <= C[k].last
       /\ C[k].last <= n.last /\ LineCount(C[k]) \in MinLines .. MaxLines
       /\ C[k].part # 0 => C[k].part = k
       /\ C[k].signed <=> C[k].first = n.first
  /\ \A k, l \in 1 .. Len(C) : k < l => C[k].last < C[l].first

\* They leave out only a rest of less than MinLines at its end.
LeavesRest(n, C) ==
  \E rest \in 0 .. MinLines - 1 :
    /\ \A x \in n.first .. n.last - rest : \E k \in 1 .. Len(C) : C[k].first <= x /\ x <= C[k].last
    /\ \A k \in 1 .. Len(C) : C[k].last <= n.last - rest

IsSpan(n) == n.node \in Int /\ n.parent \in Int /\ n.first \in Int /\ n.last \in Int /\ n.first <= n.last

\* A node within the limits is one chunk.
LEMMA WholeChunk ==
  ASSUME NEW n, IsSpan(n), LineCount(n) >= MinLines, LineCount(n) <= MaxLines
  PROVE  /\ InOrder(n, << Chunk(n, 0, n.first, n.last) >>)
         /\ LeavesRest(n, << Chunk(n, 0, n.first, n.last) >>)
<1> DEFINE c == Chunk(n, 0, n.first, n.last)
<1>1. /\ c \in ChunkRecord /\ c.node = n.node /\ c.first = n.first /\ c.last = n.last
      /\ c.part = 0 /\ c.signed = TRUE
  <2>1. (0 <= 1) = TRUE
    OBVIOUS
  <2> QED
    BY <2>1 DEF Chunk, ChunkRecord, IsSpan
<1>2. /\ n.first \in Int /\ n.last \in Int /\ n.first <= n.last
      /\ MinLines \in Nat \ {0} /\ MaxLines \in Nat
      /\ LineCount(n) = n.last - n.first + 1 /\ LineCount(c) = c.last - c.first + 1
  BY LinesAssumption DEF LineCount, IsSpan
<1> HIDE DEF c
<1>3. /\ << c >> \in Seq(ChunkRecord) /\ Len(<< c >>) = 1 /\ << c >>[1] = c
      /\ \A k \in 1 .. Len(<< c >>) : k = 1
  BY <1>1
<1>4. LineCount(c) \in MinLines .. MaxLines
  BY <1>1, <1>2
<1> DEFINE C == << c >>
<1> HIDE DEF C
<1>5. C \in Seq(ChunkRecord) /\ \A k \in 1 .. Len(C) : k = 1 /\ C[k] = c
  BY <1>3 DEF C
<1>6. InOrder(n, C)
  BY <1>1, <1>2, <1>4, <1>5 DEF InOrder
<1>7. 1 \in 1 .. Len(C) /\ C[1] = c
  BY <1>3 DEF C
<1>8. LeavesRest(n, C)
  <2>1. 0 \in 0 .. MinLines - 1 /\ n.last - 0 = n.last
    BY <1>2
  <2>2. \A x \in n.first .. n.last : C[1].first <= x /\ x <= C[1].last
    BY <1>1, <1>2, <1>7
  <2>3. \A k \in 1 .. Len(C) : C[k].last <= n.last
    BY <1>1, <1>2, <1>5
  <2> QED
    BY <1>7, <2>1, <2>2, <2>3 DEF LeavesRest
<1> QED
  BY <1>6, <1>8 DEF C, c

Part(n, k) == Chunk(n, k, PartFirst(n, k), PartLast(n, k))

\* A node that is longer is split.
LEMMA SplitChunks ==
  ASSUME NEW n, IsSpan(n), LineCount(n) >= MinLines, LineCount(n) > MaxLines
  PROVE  /\ InOrder(n, SplitLargeChunk(n))
         /\ MinLines <= MaxLines => LeavesRest(n, SplitLargeChunk(n))
<1> DEFINE P == PartCount(n)
           Short(k) == PartLast(n, k) - PartFirst(n, k) + 1 < MinLines
           s == [k \in 1 .. P |-> IF Short(k) THEN << >> ELSE << Part(n, k) >>]
           m == IF MinLines > MaxLines THEN 0 ELSE IF Short(P) THEN P - 1 ELSE P
           C == SplitLargeChunk(n)
<1>1. /\ P \in Nat \ {0} /\ PartFirst(n, 1) = n.first /\ PartLast(n, P) = n.last
      /\ \A k \in 1 .. P :
              /\ PartFirst(n, k) \in Int /\ PartLast(n, k) \in Int
              /\ n.first <= PartFirst(n, k) /\ PartFirst(n, k) <= PartLast(n, k)
              /\ PartLast(n, k) <= n.last /\ PartLast(n, k) - PartFirst(n, k) + 1 <= MaxLines
      /\ \A k \in 1 .. P - 1 :
              PartLast(n, k) + 1 = PartFirst(n, k + 1) /\ PartLast(n, k) - PartFirst(n, k) + 1 = MaxLines
      /\ \A k, l \in 1 .. P : k < l => PartLast(n, k) < PartFirst(n, l)
      /\ \A x \in n.first .. n.last : \E k \in 1 .. P :
              PartFirst(n, k) <= x /\ x <= PartLast(n, k)
  BY Parts DEF IsSpan
<1>2. /\ n.first \in Int /\ n.last \in Int /\ n.first <= n.last /\ n.node \in Int /\ n.parent \in Int
      /\ MinLines \in Nat \ {0} /\ MaxLines \in Nat \ {0}
  BY LinesAssumption DEF IsSpan
<1>3. C = FlattenSeq(s)
  BY DEF SplitLargeChunk, Part
<1>4. ASSUME NEW k \in 1 .. P
      PROVE  /\ Part(n, k) \in ChunkRecord /\ Part(n, k).node = n.node /\ Part(n, k).part = k
             /\ Part(n, k).first = PartFirst(n, k) /\ Part(n, k).last = PartLast(n, k)
             /\ Part(n, k).signed = (k <= 1)
             /\ LineCount(Part(n, k)) = PartLast(n, k) - PartFirst(n, k) + 1
  <2>1. PartFirst(n, k) \in Int /\ PartLast(n, k) \in Int /\ k \in Nat
    BY <1>1
  <2> QED
    BY <1>2, <2>1 DEF Part, Chunk, ChunkRecord, LineCount
<1>5. s \in [1 .. P -> Seq(ChunkRecord)]
  <2>1. \A k \in 1 .. P : << Part(n, k) >> \in Seq(ChunkRecord) /\ << >> \in Seq(ChunkRecord)
    BY <1>4
  <2> HIDE DEF P
  <2> QED
    BY <2>1
<1>6. \A k \in 1 .. P : Short(k) <=> ~(k <= m)
  <2> SUFFICES ASSUME NEW k \in 1 .. P PROVE Short(k) <=> ~(k <= m)
    OBVIOUS
  <2>1. /\ PartFirst(n, k) \in Int /\ PartLast(n, k) \in Int
        /\ PartLast(n, k) - PartFirst(n, k) + 1 <= MaxLines
        /\ k # P => PartLast(n, k) - PartFirst(n, k) + 1 = MaxLines
    BY <1>1
  <2>2. CASE MinLines > MaxLines
    <3>1. m = 0 /\ ~(k <= 0)
      BY <2>2
    <3>2. Short(k)
      BY <1>2, <2>1, <2>2
    <3> QED
      BY <3>1, <3>2
  <2>3. CASE ~(MinLines > MaxLines)
    <3>1. m = IF Short(P) THEN P - 1 ELSE P
      BY <2>3
    <3>2. k # P => ~Short(k)
      BY <1>2, <2>1, <2>3
    <3>3. P \in Nat /\ k \in Nat /\ k <= P
      BY <1>1
    <3> HIDE DEF Short, P, m
    <3>4. CASE k = P
      BY <3>1, <3>3, <3>4
    <3>5. CASE k # P
      <4>1. k <= P - 1 /\ ~Short(k)
        BY <3>2, <3>3, <3>5
      <4> QED
        BY <3>1, <3>3, <4>1
    <3> QED
      BY <3>4, <3>5
  <2> QED
    BY <2>2, <2>3
<1>7. m \in 0 .. P
  BY <1>1
<1>8. \A k \in 1 .. P : Len(s[k]) = (IF k <= m THEN 1 ELSE 0) /\ (k <= m => s[k][1] = Part(n, k))
  <2> HIDE DEF Short, m, P
  <2> QED
    BY <1>6
<1>9. C \in Seq(ChunkRecord) /\ Len(C) = m /\ \A k \in 1 .. m : C[k] = Part(n, k)
  <2>1. P \in Nat
    BY <1>1
  <2> HIDE DEF s, P, m, C
  <2>2. FlattenSeq(s) \in Seq(ChunkRecord) /\ Len(FlattenSeq(s)) = m
        /\ \A k \in 1 .. m : FlattenSeq(s)[k] = s[k][1]
    <3>1. Singles(s, P, m)
      BY <1>8 DEF Singles
    <3> QED
      BY <1>5, <1>7, <2>1, <3>1, FlattenPrefix
  <2> QED
    BY <1>3, <1>7, <1>8, <2>1, <2>2
<1> HIDE DEF C, s
<1>10. ASSUME NEW k \in 1 .. m PROVE k \in 1 .. P /\ ~Short(k) /\ C[k] = Part(n, k)
  <2>1. k \in 1 .. P
    BY <1>1, <1>7
  <2> QED
    BY <1>6, <1>9, <2>1
<1>11. ASSUME NEW k \in 1 .. m
       PROVE  /\ C[k].node = n.node /\ n.first <= C[k].first /\ C[k].first <= C[k].last
              /\ C[k].last <= n.last /\ LineCount(C[k]) \in MinLines .. MaxLines
              /\ C[k].part # 0 => C[k].part = k
              /\ C[k].signed <=> C[k].first = n.first
  <2>1. /\ k \in 1 .. P /\ ~Short(k) /\ C[k] = Part(n, k)
    BY <1>10
  <2>2. /\ C[k].node = n.node /\ C[k].part = k
        /\ C[k].first = PartFirst(n, k) /\ C[k].last = PartLast(n, k)
        /\ C[k].signed = (k <= 1)
        /\ LineCount(C[k]) = PartLast(n, k) - PartFirst(n, k) + 1
    BY <1>4, <2>1
  <2>3. LineCount(C[k]) \in MinLines .. MaxLines
    BY <1>1, <1>2, <2>1, <2>2
  <2>4. k > 1 => PartFirst(n, k) # n.first
    <3> SUFFICES ASSUME k > 1 PROVE PartFirst(n, k) # n.first
      OBVIOUS
    <3>1. 1 \in 1 .. P
      BY <1>1
    <3>2. PartLast(n, 1) < PartFirst(n, k) /\ n.first <= PartLast(n, 1) /\ PartLast(n, 1) \in Int
      BY <1>1, <2>1, <3>1
    <3> QED
      BY <1>1, <1>2, <2>1, <3>2
  <2>5. k = 1 => PartFirst(n, k) = n.first
    BY <1>1
  <2>6. k = 1 \/ k > 1
    BY <2>1
  <2>7. C[k].signed <=> C[k].first = n.first
    <3>1. (k <= 1) = (k = 1)
      BY <2>1
    <3> QED
      BY <2>2, <2>4, <2>5, <2>6, <3>1
  <2> QED
    BY <1>1, <2>1, <2>2, <2>3, <2>7
<1>12. ASSUME NEW k \in 1 .. m, NEW l \in 1 .. m, k < l PROVE C[k].last < C[l].first
  <2>1. k \in 1 .. P /\ l \in 1 .. P /\ C[k] = Part(n, k) /\ C[l] = Part(n, l)
    BY <1>10
  <2> QED
    BY <1>1, <1>4, <1>12, <2>1
<1>13. InOrder(n, C)
  <2> HIDE DEF m
  <2> QED
    BY <1>9, <1>11, <1>12 DEF InOrder
<1>14. ASSUME MinLines <= MaxLines PROVE LeavesRest(n, C)
  <2> DEFINE rest == IF Short(P) THEN PartLast(n, P) - PartFirst(n, P) + 1 ELSE 0
  <2>0. P \in 1 .. P
    BY <1>1
  <2>1. rest \in 0 .. MinLines - 1
    BY <1>1, <1>2, <2>0
  <2>2. m = IF Short(P) THEN P - 1 ELSE P
    BY <1>2, <1>14
  <2>3. n.last - rest = IF Short(P) THEN PartFirst(n, P) - 1 ELSE n.last
    BY <1>1, <1>2, <2>0
  <2> HIDE DEF rest, m, Short
  <2>4. ASSUME NEW x \in n.first .. n.last - rest
        PROVE  \E k \in 1 .. Len(C) : C[k].first <= x /\ x <= C[k].last
    <3>1. x \in n.first .. n.last
      BY <1>2, <2>1
    <3>2. PICK k \in 1 .. P : PartFirst(n, k) <= x /\ x <= PartLast(n, k)
      BY <1>1, <3>1
    <3>3. k \in 1 .. m
      <4>1. CASE Short(P)
        <5>1. k # P
          <6>1. x <= PartFirst(n, P) - 1
            BY <2>3, <4>1
          <6>2. PartFirst(n, P) \in Int /\ x \in Int
            BY <1>1, <2>0
          <6> QED
            BY <3>2, <6>1, <6>2
        <5> QED
          BY <1>1, <2>2, <4>1, <5>1
      <4>2. CASE ~Short(P)
        BY <2>2, <4>2
      <4> QED
        BY <4>1, <4>2
    <3>4. C[k].first = PartFirst(n, k) /\ C[k].last = PartLast(n, k)
      BY <1>4, <1>10, <3>3
    <3> QED
      BY <1>9, <3>2, <3>3, <3>4
  <2>5. ASSUME NEW k \in 1 .. Len(C) PROVE C[k].last <= n.last - rest
    <3>1. k \in 1 .. m /\ k \in 1 .. P /\ C[k].last = PartLast(n, k)
      BY <1>4, <1>9, <1>10
    <3>2. CASE Short(P)
      <4>1. k < P
        BY <1>1, <2>2, <3>1, <3>2
      <4>2. PartLast(n, k) < PartFirst(n, P) /\ PartLast(n, k) \in Int /\ PartFirst(n, P) \in Int
        BY <1>1, <2>0, <3>1, <4>1
      <4> QED
        BY <2>3, <3>1, <3>2, <4>2
    <3>3. CASE ~Short(P)
      BY <1>1, <2>3, <3>1, <3>3
    <3> QED
      BY <3>2, <3>3
  <2> QED
    BY <2>1, <2>4, <2>5 DEF LeavesRest
<1> QED
  BY <1>13, <1>14 DEF C

\* Either way the chunks are in order and leave a rest; a node too short has none.
LEMMA ChunksOfNode ==
  ASSUME NEW n, IsSpan(n)
  PROVE  /\ InOrder(n, ChunksOf(n))
         /\ MinLines <= MaxLines /\ LineCount(n) >= MinLines => LeavesRest(n, ChunksOf(n))
<1>1. LineCount(n) \in Int /\ MinLines \in Nat /\ MaxLines \in Nat
  BY LinesAssumption DEF LineCount, IsSpan
<1>2. CASE LineCount(n) < MinLines
  <2>1. ChunksOf(n) = << >>
    BY <1>2 DEF ChunksOf
  <2>2. InOrder(n, << >>)
    BY DEF InOrder
  <2> QED
    BY <1>1, <1>2, <2>1, <2>2
<1>3. CASE ~(LineCount(n) < MinLines) /\ LineCount(n) > MaxLines
  <2>1. ChunksOf(n) = SplitLargeChunk(n)
    BY <1>3 DEF ChunksOf
  <2>2. LineCount(n) >= MinLines
    BY <1>1, <1>3
  <2> QED
    BY <1>3, <2>1, <2>2, SplitChunks
<1>4. CASE ~(LineCount(n) < MinLines) /\ ~(LineCount(n) > MaxLines)
  <2>1. ChunksOf(n) = << Chunk(n, 0, n.first, n.last) >>
    BY <1>4 DEF ChunksOf
  <2>2. LineCount(n) >= MinLines /\ LineCount(n) <= MaxLines
    BY <1>1, <1>4
  <2> QED
    BY <2>1, <2>2, WholeChunk
<1> QED
  BY <1>2, <1>3, <1>4

-----------------------------------------------------------------------------
(* The nodes of a tree lie within each other or apart.                      *)

\* Of two nodes neither of which is around the other, the later begins where the earlier has ended.
LEMMA TreeApart ==
  ASSUME NEW t, IsTree(t), NEW A, IsAround(t, A)
  PROVE  \A a, b \in 1 .. Len(t) : a < b /\ a \notin A[b] => t[a].last <= t[b].first
<1>0. Len(t) \in Nat
  BY TreeParent
<1>1. \A j \in 1 .. Len(t) : /\ t[j].parent \in Nat /\ t[j].parent < j
                             /\ t[j].first \in Int /\ t[j].last \in Int
  BY TreeParent
<1>2. ASSUME NEW j \in 1 .. Len(t)
      PROVE  /\ t[j].parent # 0 => /\ t[t[j].parent].first <= t[j].first
                                   /\ t[j].last <= t[t[j].parent].last
             /\ \A i \in 1 .. j - 1 :
                  /\ t[j].parent < i => t[j].parent <= t[i].parent
                  /\ t[j].parent = t[i].parent => t[i].last <= t[j].first
  <2>1. Fits(t, j)
    BY TreeParent
  <2> QED
    BY <2>1 DEF Fits
<1> DEFINE Apart(a, b) == a < b /\ a \notin A[b] => t[a].last <= t[b].first
           Good == {m \in 0 .. 2 * Len(t) : \A a, b \in 1 .. Len(t) : a + b = m => Apart(a, b)}
<1>3. ASSUME NEW m \in 0 .. 2 * Len(t), \A d \in 0 .. m - 1 : d \in Good
      PROVE  m \in Good
  <2> SUFFICES ASSUME NEW a \in 1 .. Len(t), NEW b \in 1 .. Len(t), a + b = m, a < b, a \notin A[b]
               PROVE  t[a].last <= t[b].first
    OBVIOUS
  <2> DEFINE p == t[a].parent
             q == t[b].parent
  <2>1. p \in Nat /\ q \in Nat /\ p < a /\ q < b
    BY <1>1
  <2>2. A[b] = (A[q] \cup {q}) \ {0}
    <3>1. b \in 0 .. Len(t) /\ b # 0
      BY <1>0
    <3> QED
      BY <3>1 DEF IsAround
  <2>3. a # q /\ a \notin A[q]
    BY <2>2
  <2>4. \A x, y \in 1 .. Len(t) : x + y < m => Apart(x, y)
    <3> SUFFICES ASSUME NEW x \in 1 .. Len(t), NEW y \in 1 .. Len(t), x + y < m PROVE Apart(x, y)
      OBVIOUS
    <3>1. x + y \in 0 .. m - 1
      BY <1>0
    <3> QED
      BY <1>3, <3>1
  <2>5. /\ t[a].first \in Int /\ t[a].last \in Int /\ t[b].first \in Int /\ t[b].last \in Int
    BY <1>1
  <2> HIDE DEF Good
  <2>6. CASE q > a
    <3>1. q \in 1 .. Len(t) /\ a + q < m /\ t[q].first \in Int
      BY <1>0, <1>1, <2>1, <2>6
    <3>2. t[a].last <= t[q].first
      BY <2>3, <2>4, <2>6, <3>1
    <3>3. t[q].first <= t[b].first
      BY <1>2, <2>1, <2>6
    <3> QED
      BY <2>5, <3>1, <3>2, <3>3
  <2>7. CASE q < a /\ q = p
    <3>1. a \in 1 .. b - 1
      OBVIOUS
    <3> QED
      BY <1>2, <2>7, <3>1
  <2>8. CASE q < a /\ q # p
    <3>1. a \in 1 .. b - 1
      OBVIOUS
    <3>2. q < p
      BY <1>2, <2>1, <2>8, <3>1
    <3>3. p \in 1 .. Len(t) /\ p + b < m /\ p < b /\ t[p].last \in Int
      BY <1>0, <1>1, <2>1, <2>8, <3>2
    <3>4. p \notin A[b]
      <4>1. A[q] \subseteq 1 .. q - 1
        <5>1. q \in 0 .. Len(t)
          BY <2>1
        <5> QED
          BY <5>1, AroundWithin
      <4> QED
        BY <2>1, <2>2, <3>2, <4>1
    <3>5. t[p].last <= t[b].first
      BY <2>4, <3>3, <3>4
    <3>6. t[a].last <= t[p].last
      BY <1>2, <2>1, <3>3
    <3> QED
      BY <2>5, <3>3, <3>5, <3>6
  <2> QED
    BY <2>1, <2>3, <2>6, <2>7, <2>8
<1>4. 0 .. 2 * Len(t) \subseteq Good
  <2>1. 2 * Len(t) \in Nat
    BY <1>0
  <2> HIDE DEF Good
  <2> QED
    BY <1>3, <2>1, InductUp
<1>5. ASSUME NEW a \in 1 .. Len(t), NEW b \in 1 .. Len(t) PROVE Apart(a, b)
  <2>1. a + b \in 0 .. 2 * Len(t)
    BY <1>0
  <2> QED
    BY <1>4, <2>1
<1> QED
  BY <1>5

NodeRecord == [node : Int, parent : Int, first : Int, last : Int]

\* What parse has returned, as the properties see it.
LEMMA NodesAre ==
  ASSUME IInv, stage # "parse"
  PROVE  /\ nodes \in Seq(NodeRecord)
         /\ \A i \in 1 .. Len(nodes) :
              /\ IsSpan(nodes[i]) /\ Span(nodes[i].node) = nodes[i].first .. nodes[i].last
         /\ \A i, j \in 1 .. Len(nodes) : i < j =>
              /\ nodes[i].node < nodes[j].node
              /\ nodes[i].node \in Around[nodes[j].node] \/ nodes[i].last <= nodes[j].first
         /\ nodes # << >> =>
              \/ /\ Lists(Tree, nodes, Wanted(Tree, 0, 1), NearFrom(Tree, 0, 0)) /\ Len(Tree) # 0
              \/ Len(nodes) = 1 /\ nodes[1].node = 0
<1>1. IsTree(Tree) /\ file.lines \in Nat \ {0}
  BY FilesHaveTrees DEF IInv, TypeOK, Tree
<1>2. Parsed \/ nodes = FallbackParse(file)
  BY DEF IInv
<1>3. IsAround(Tree, Around)
  BY <1>1, AroundIs
<1>4. CASE Parsed
  <2>1. Len(Tree) \in Nat /\ Len(Tree) # 0
    BY <1>1, <1>4, TreeParent, ExtractNodesFinds DEF Parsed
  <2>2. Lists(Tree, nodes, Wanted(Tree, 0, 1), NearFrom(Tree, 0, 0))
    BY <1>1, <1>4, <2>1, ExtractNodesFinds DEF Parsed
  <2>3. nodes \in Seq(NodeRecord)
    <3>1. NodesOf(Tree) \subseteq NodeRecord
      <4>1. 0 .. Len(Tree) \subseteq Int
        BY <2>1
      <4> QED
        BY <4>1 DEF NodesOf, NodeRecord
    <3>2. nodes \in Seq(NodesOf(Tree))
      BY <2>2 DEF Lists
    <3> DEFINE N == NodesOf(Tree)
    <3> HIDE DEF N
    <3>3. nodes \in Seq(N) /\ N \subseteq NodeRecord
      BY <3>1, <3>2 DEF N
    <3> DEFINE R == NodeRecord
    <3> HIDE DEF R
    <3>4. N \subseteq R
      BY <3>3 DEF R
    <3>5. nodes \in Seq(R)
      BY <3>3, <3>4
    <3> QED
      BY <3>5 DEF R
  <2>4. ASSUME NEW i \in 1 .. Len(nodes)
        PROVE  /\ nodes[i].node \in 1 .. Len(Tree) /\ nodes[i].first = Tree[nodes[i].node].first
               /\ nodes[i].last = Tree[nodes[i].node].last /\ nodes[i].parent \in Int
    <3> DEFINE R == NodeRecord
               x == nodes[i]
    <3>1. x.node \in Wanted(Tree, 0, 1) /\ x = Extracted(Tree, x.node, NearFrom(Tree, 0, 0)[x.node])
      BY <2>2 DEF Lists
    <3>2. x.node \in 1 .. Len(Tree)
      BY <3>1 DEF Wanted
    <3>3. x \in R
      <4> HIDE DEF R
      <4> QED
        BY <2>3 DEF R
    <3>4. x.parent \in Int
      <4> HIDE DEF x
      <4> QED
        BY <3>3 DEF NodeRecord
    <3>5. x.first = Tree[x.node].first /\ x.last = Tree[x.node].last
      <4> DEFINE v == x.node
      <4> HIDE DEF v
      <4>1. x = Extracted(Tree, v, NearFrom(Tree, 0, 0)[v])
        BY <3>1 DEF v
      <4>2. x.first = Tree[v].first /\ x.last = Tree[v].last
        BY <4>1 DEF Extracted
      <4> QED
        BY <4>2 DEF v
    <3> QED
      BY <3>2, <3>4, <3>5
  <2>5. ASSUME NEW i \in 1 .. Len(nodes)
        PROVE  IsSpan(nodes[i]) /\ Span(nodes[i].node) = nodes[i].first .. nodes[i].last
    <3> DEFINE v == nodes[i].node
    <3>1. /\ v \in 1 .. Len(Tree) /\ nodes[i].first = Tree[v].first
          /\ nodes[i].last = Tree[v].last /\ nodes[i].parent \in Int
      BY <2>4
    <3>2. Tree[v].first \in Int /\ Tree[v].last \in Int /\ Fits(Tree, v)
      BY <1>1, <3>1, TreeParent
    <3>3. Tree[v].first <= Tree[v].last
      BY <3>2 DEF Fits
    <3>4. v \in Int /\ v # 0
      BY <2>1, <3>1
    <3>5. Span(v) = Tree[v].first .. Tree[v].last
      BY <3>4 DEF Span
    <3> QED
      BY <3>1, <3>2, <3>3, <3>4, <3>5 DEF IsSpan
  <2>6. ASSUME NEW i \in 1 .. Len(nodes), NEW j \in 1 .. Len(nodes), i < j
        PROVE  /\ nodes[i].node < nodes[j].node
               /\ nodes[i].node \in Around[nodes[j].node] \/ nodes[i].last <= nodes[j].first
    <3>1. nodes[i].node < nodes[j].node
      BY <2>2, <2>6 DEF Lists
    <3>2. /\ nodes[i].node \in 1 .. Len(Tree) /\ nodes[i].last = Tree[nodes[i].node].last
          /\ nodes[j].node \in 1 .. Len(Tree) /\ nodes[j].first = Tree[nodes[j].node].first
      BY <2>4
    <3>3. nodes[i].node \notin Around[nodes[j].node] =>
            Tree[nodes[i].node].last <= Tree[nodes[j].node].first
      BY <1>1, <1>3, <3>1, <3>2, TreeApart
    <3> QED
      BY <3>1, <3>2, <3>3
  <2> QED
    BY <2>1, <2>2, <2>3, <2>5, <2>6
<1>5. CASE nodes = FallbackParse(file)
  <2>1. CASE file.lines < 3
    <3>1. nodes = << >>
      BY <1>5, <2>1 DEF FallbackParse
    <3> QED
      BY <3>1
  <2>2. CASE ~(file.lines < 3)
    <3> DEFINE x == [node |-> 0, parent |-> 0, first |-> 1, last |-> file.lines]
    <3>1. nodes = << x >>
      BY <1>5, <2>2 DEF FallbackParse
    <3>2. /\ x \in NodeRecord /\ x.node = 0 /\ IsSpan(x)
          /\ x.first = 1 /\ x.last = file.lines
      BY <1>1 DEF NodeRecord, IsSpan
    <3>3. Span(0) = 1 .. file.lines
      BY DEF Span
    <3> DEFINE R == NodeRecord
    <3> HIDE DEF x, R
    <3>4. x \in R
      BY <3>2 DEF R
    <3>5. << x >> \in Seq(R) /\ Len(<< x >>) = 1 /\ << x >>[1] = x
      BY <3>4
    <3>6. \A i \in 1 .. Len(<< x >>) : i = 1
      BY <3>5
    <3>7. \A i \in 1 .. Len(nodes) : nodes[i] = x /\ i = 1
      BY <3>1, <3>5, <3>6
    <3>8. nodes \in Seq(NodeRecord) /\ Len(nodes) = 1 /\ nodes[1].node = 0
      BY <3>1, <3>2, <3>5 DEF R
    <3>9. \A i \in 1 .. Len(nodes) :
              /\ IsSpan(nodes[i]) /\ Span(nodes[i].node) = nodes[i].first .. nodes[i].last
      BY <3>2, <3>3, <3>7
    <3>10. \A i, j \in 1 .. Len(nodes) : ~(i < j)
      BY <3>7
    <3> QED
      BY <3>8, <3>9, <3>10
  <2> QED
    BY <2>1, <2>2
<1> QED
  BY <1>2, <1>4, <1>5

-----------------------------------------------------------------------------
(* What parse returns, and where the chunks of each node are.               *)

\* What the properties call reachable is what the descent wants.
LEMMA ReachableIsWanted ==
  ASSUME IsTree(Tree)
  PROVE  /\ Reachable = Wanted(Tree, 0, 1)
         /\ \A i \in Reachable : NearestAround(i) = Nearest(Tree, 0, 0, i)
<1>1. Len(Tree) \in Nat /\ DOMAIN Tree = 1 .. Len(Tree) /\ \A j \in 1 .. Len(Tree) : Tree[j].parent >= 0
  BY TreeParent
<1>2. IsAround(Tree, Around)
  BY AroundIs
<1>3. Declarations = Declared(Tree)
  BY <1>1 DEF Declarations, Declared
<1>4. ASSUME NEW i \in 1 .. Len(Tree)
      PROVE  Around[i] \cap Declarations = Over(Tree, 0, i)
  <2>1. i \in 0 .. Len(Tree)
    BY <1>1
  <2>2. \A j \in Declared(Tree) : j \in Nat \ {0} /\ j > 0
    BY <1>1 DEF Declared
  <2>3. \A j \in Declared(Tree) : j \in Around[i] <=> Encloses(Tree, j, i)
    BY <1>2, <2>1, <2>2, AroundMeans
  <2> QED
    BY <1>3, <2>2, <2>3 DEF Over
<1>5. \A i \in 1 .. Len(Tree) : Below(Tree, 0, 1, i)
  BY <1>1 DEF Below
<1>6. Reachable = Wanted(Tree, 0, 1)
  <2>1. ASSUME NEW i PROVE i \in Reachable <=> i \in Wanted(Tree, 0, 1)
    <3>1. i \in Reachable => i \in 1 .. Len(Tree)
      BY <1>1 DEF Reachable, Declarations
    <3>2. i \in Wanted(Tree, 0, 1) => i \in 1 .. Len(Tree)
      BY DEF Wanted
    <3>3. ASSUME i \in 1 .. Len(Tree) PROVE i \in Reachable <=> i \in Wanted(Tree, 0, 1)
      <4>1. Around[i] \cap Declarations = Over(Tree, 0, i) /\ Below(Tree, 0, 1, i)
        BY <1>4, <1>5, <3>3
      <4> QED
        BY <1>3, <3>3, <4>1 DEF Reachable, Wanted
    <3> QED
      BY <3>1, <3>2, <3>3
  <2> QED
    BY <2>1
<1>7. ASSUME NEW i \in Reachable PROVE NearestAround(i) = Nearest(Tree, 0, 0, i)
  <2>1. i \in 1 .. Len(Tree)
    BY <1>1 DEF Reachable, Declarations
  <2>2. Around[i] \cap Declarations = Over(Tree, 0, i)
    BY <1>4, <2>1
  <2> QED
    BY <2>2 DEF NearestAround, Nearest
<1> QED
  BY <1>6, <1>7

LEMMA FoundByInv == IInv => DeclarationsFound
<1> SUFFICES ASSUME IInv, stage # "parse", nodes # << >>
             PROVE  \/ /\ Found = Reachable
                       /\ \A i, j \in DOMAIN nodes : i < j => nodes[i].node < nodes[j].node
                       /\ \A i \in DOMAIN nodes : nodes[i].parent = NearestAround(nodes[i].node)
                    \/ Found = {0} /\ Len(nodes) = 1
  BY DEF DeclarationsFound
<1>1. /\ nodes \in Seq(NodeRecord)
      /\ \A i, j \in 1 .. Len(nodes) : i < j => nodes[i].node < nodes[j].node
      /\ \/ Lists(Tree, nodes, Wanted(Tree, 0, 1), NearFrom(Tree, 0, 0)) /\ Len(Tree) # 0
         \/ Len(nodes) = 1 /\ nodes[1].node = 0
  BY NodesAre
<1>2. DOMAIN nodes = 1 .. Len(nodes)
  BY <1>1
<1>3. IsTree(Tree)
  BY FilesHaveTrees DEF IInv, TypeOK, Tree
<1>4. CASE Lists(Tree, nodes, Wanted(Tree, 0, 1), NearFrom(Tree, 0, 0))
  <2>1. Found = Wanted(Tree, 0, 1)
    BY <1>2, <1>4 DEF Found, Lists
  <2>2. Found = Reachable
    BY <1>3, <2>1, ReachableIsWanted
  <2>3. ASSUME NEW i \in DOMAIN nodes PROVE nodes[i].parent = NearestAround(nodes[i].node)
    <3> DEFINE v == nodes[i].node
    <3>1. v \in Reachable /\ v \in Wanted(Tree, 0, 1)
      BY <2>1, <2>2 DEF Found
    <3>2. NearestAround(v) = Nearest(Tree, 0, 0, v)
      BY <1>3, <3>1, ReachableIsWanted
    <3>3. v \in 1 .. Len(Tree)
      BY <3>1 DEF Wanted
    <3>4. nodes[i] = Extracted(Tree, v, NearFrom(Tree, 0, 0)[v])
      BY <1>2, <1>4 DEF Lists
    <3> HIDE DEF v
    <3>5. nodes[i].parent = NearFrom(Tree, 0, 0)[v]
      BY <3>4 DEF Extracted
    <3>6. nodes[i].parent = NearestAround(v)
      BY <3>2, <3>3, <3>5 DEF NearFrom
    <3> QED
      BY <3>6 DEF v
  <2> QED
    BY <1>1, <1>2, <2>2, <2>3
<1>5. CASE Len(nodes) = 1 /\ nodes[1].node = 0
  <2>1. DOMAIN nodes = {1}
    BY <1>2, <1>5
  <2>2. Found = {0}
    BY <1>5, <2>1 DEF Found
  <2> QED
    BY <1>5, <2>2
<1> QED
  BY <1>1, <1>4, <1>5

\* The descent finds every declaration that no function, interface or enum encloses, once,
\* in the order of the file and under the nearest class around it, whatever the tree.
THEOREM DeclarationsFoundHolds == Spec => []DeclarationsFound
  BY Inductive, FoundByInv, PTL

-----------------------------------------------------------------------------
\* The chunks of the i-th node take the places after offset[i - 1].
Blocks(offset) ==
  /\ offset \in [0 .. Len(nodes) -> Nat] /\ Len(chunks) = offset[Len(nodes)]
  /\ \A i \in 1 .. Len(nodes) :
       /\ offset[i] = offset[i - 1] + Len(ChunksOf(nodes[i]))
       /\ \A k \in 1 .. Len(ChunksOf(nodes[i])) : chunks[offset[i - 1] + k] = ChunksOf(nodes[i])[k]
  /\ \A p \in 1 .. Len(chunks) : \E i \in 1 .. Len(nodes) :
       \E k \in 1 .. Len(ChunksOf(nodes[i])) : p = offset[i - 1] + k
  /\ \A i, j \in 1 .. Len(nodes) : i < j => offset[i] <= offset[j - 1]

\* They are the chunks of that node, and there are no others.
LEMMA ChunksAre ==
  ASSUME IInv, stage = "done"
  PROVE  chunks \in Seq(ChunkRecord) /\ \E offset : Blocks(offset)
<1> DEFINE n == Len(nodes)
           s == [i \in 1 .. n |-> ChunksOf(nodes[i])]
<1>1. /\ nodes \in Seq(NodeRecord)
      /\ \A i \in 1 .. n : IsSpan(nodes[i])
  BY NodesAre
<1>2. n \in Nat /\ DOMAIN nodes = 1 .. n
  BY <1>1
<1>3. chunks = FlattenSeq(s)
  BY <1>2 DEF IInv
<1>4. \A i \in 1 .. n : ChunksOf(nodes[i]) \in Seq(ChunkRecord)
  BY <1>1, ChunksOfNode DEF InOrder
<1>5. s \in [1 .. n -> Seq(ChunkRecord)] /\ \A i \in 1 .. n : s[i] = ChunksOf(nodes[i])
  BY <1>4
<1> HIDE DEF s, n
<1>6. FlattenSeq(s) \in Seq(ChunkRecord) /\ \E offset : Places(offset, s, n)
  BY <1>2, <1>5, Flatten
<1>7. PICK offset : Places(offset, s, n)
  BY <1>6
<1>8. /\ IsOffset(offset, s, n) /\ Len(chunks) = offset[n]
      /\ \A i \in 0 .. n - 1 : \A k \in 1 .. Len(s[i + 1]) : chunks[offset[i] + k] = s[i + 1][k]
  BY <1>3, <1>7 DEF Places
<1>9. offset \in [0 .. n -> Nat]
  BY <1>8 DEF IsOffset
<1>10. ASSUME NEW i \in 1 .. n
       PROVE  /\ offset[i] = offset[i - 1] + Len(s[i])
              /\ \A k \in 1 .. Len(s[i]) : chunks[offset[i - 1] + k] = s[i][k]
  <2>1. i - 1 \in 0 .. n - 1 /\ (i - 1) + 1 = i
    BY <1>2
  <2>2. offset[(i - 1) + 1] = offset[i - 1] + Len(s[(i - 1) + 1])
    BY <1>8, <2>1 DEF IsOffset
  <2>3. \A k \in 1 .. Len(s[(i - 1) + 1]) : chunks[offset[i - 1] + k] = s[(i - 1) + 1][k]
    BY <1>8, <2>1
  <2> QED
    BY <2>1, <2>2, <2>3
<1>11. ASSUME NEW p \in 1 .. Len(chunks)
       PROVE  \E i \in 1 .. n : \E k \in 1 .. Len(s[i]) : p = offset[i - 1] + k
  <2>1. p \in 1 .. offset[n]
    BY <1>8
  <2>2. PICK i \in 0 .. n - 1 : \E k \in 1 .. Len(s[i + 1]) : p = offset[i] + k
    <3>1. IsPlace(p, offset, s, n)
      BY <1>2, <1>5, <1>8, <2>1, FlattenPosition
    <3> QED
      BY <3>1 DEF IsPlace
  <2>3. i + 1 \in 1 .. n /\ (i + 1) - 1 = i
    BY <1>2
  <2> QED
    BY <2>2, <2>3
<1>12. ASSUME NEW i \in 1 .. n, NEW j \in 1 .. n, i < j PROVE offset[i] <= offset[j - 1]
  <2>1. i \in 0 .. n /\ j - 1 \in i .. n
    BY <1>2, <1>12
  <2> QED
    BY <1>2, <1>5, <1>8, <2>1, OffsetsGrow
<1>13. Blocks(offset)
  BY <1>5, <1>8, <1>9, <1>10, <1>11, <1>12 DEF Blocks, n
<1> QED
  BY <1>3, <1>6, <1>13

-----------------------------------------------------------------------------
(* Overlaps.                                                                *)

LEMMA SharedByInv == IInv => SharedOnlyByNesting
<1> SUFFICES ASSUME IInv, stage = "done", NEW p \in DOMAIN chunks, NEW q \in DOMAIN chunks, p < q
             PROVE  \/ chunks[p].node \in Around[chunks[q].node]
                    \/ /\ chunks[p].last <= chunks[q].first
                       /\ chunks[p].first = chunks[q].first => LineCount(chunks[p]) = 1
  BY DEF SharedOnlyByNesting
<1>1. chunks \in Seq(ChunkRecord)
  BY ChunksAre
<1>2. PICK offset : Blocks(offset)
  BY ChunksAre
<1>3. /\ nodes \in Seq(NodeRecord)
      /\ \A i \in 1 .. Len(nodes) : IsSpan(nodes[i])
      /\ \A i, j \in 1 .. Len(nodes) : i < j =>
           nodes[i].node \in Around[nodes[j].node] \/ nodes[i].last <= nodes[j].first
  BY NodesAre
<1>4. \A i \in 1 .. Len(nodes) : InOrder(nodes[i], ChunksOf(nodes[i]))
  BY <1>3, ChunksOfNode
<1>5. p \in 1 .. Len(chunks) /\ q \in 1 .. Len(chunks) /\ Len(nodes) \in Nat
  BY <1>1, <1>3
<1>6. PICK i \in 1 .. Len(nodes) : \E k \in 1 .. Len(ChunksOf(nodes[i])) : p = offset[i - 1] + k
  BY <1>2, <1>5 DEF Blocks
<1>7. PICK k \in 1 .. Len(ChunksOf(nodes[i])) : p = offset[i - 1] + k
  BY <1>6
<1>8. PICK j \in 1 .. Len(nodes) : \E l \in 1 .. Len(ChunksOf(nodes[j])) : q = offset[j - 1] + l
  BY <1>2, <1>5 DEF Blocks
<1>9. PICK l \in 1 .. Len(ChunksOf(nodes[j])) : q = offset[j - 1] + l
  BY <1>8
<1>10. chunks[p] = ChunksOf(nodes[i])[k] /\ chunks[q] = ChunksOf(nodes[j])[l]
  BY <1>2, <1>7, <1>9 DEF Blocks
<1> DEFINE c == ChunksOf(nodes[i])[k]
           d == ChunksOf(nodes[j])[l]
<1>11. /\ c.node = nodes[i].node /\ nodes[i].first <= c.first /\ c.first <= c.last
       /\ c.last <= nodes[i].last
       /\ d.node = nodes[j].node /\ nodes[j].first <= d.first
  BY <1>4 DEF InOrder
<1>12. /\ c.first \in Int /\ c.last \in Int /\ d.first \in Int
       /\ nodes[i].last \in Int /\ nodes[j].first \in Int
  <2> DEFINE R == ChunkRecord
  <2> HIDE DEF R
  <2>1. ChunksOf(nodes[i]) \in Seq(R) /\ ChunksOf(nodes[j]) \in Seq(R)
    BY <1>4 DEF InOrder, R
  <2>2. c \in R /\ d \in R
    BY <2>1
  <2> HIDE DEF c, d
  <2>3. c.first \in Int /\ c.last \in Int /\ d.first \in Int
    BY <2>2 DEF R, ChunkRecord
  <2> QED
    BY <1>3, <2>3 DEF IsSpan
<1> HIDE DEF c, d
<1>13. ASSUME c.last <= d.first
       PROVE  c.last <= d.first /\ (c.first = d.first => LineCount(c) = 1)
  BY <1>11, <1>12, <1>13 DEF LineCount
<1>14. CASE i = j
  <2>1. k < l
    <3>1. offset[i - 1] \in Nat /\ k \in Int /\ l \in Int
      <4>1. i - 1 \in 0 .. Len(nodes)
        BY <1>5
      <4>2. offset \in [0 .. Len(nodes) -> Nat]
        BY <1>2 DEF Blocks
      <4>3. ChunksOf(nodes[i]) \in Seq(ChunkRecord) /\ ChunksOf(nodes[j]) \in Seq(ChunkRecord)
        BY <1>4 DEF InOrder
      <4>4. Len(ChunksOf(nodes[i])) \in Nat /\ Len(ChunksOf(nodes[j])) \in Nat
        BY <4>3
      <4> QED
        BY <4>1, <4>2, <4>4
    <3> QED
      BY <1>7, <1>9, <1>14, <3>1
  <2>2. c.last < d.first
    <3>1. l \in 1 .. Len(ChunksOf(nodes[i])) /\ d = ChunksOf(nodes[i])[l]
      BY <1>14 DEF d
    <3>2. ChunksOf(nodes[i])[k].last < ChunksOf(nodes[i])[l].first
      BY <1>4, <2>1, <3>1 DEF InOrder
    <3> QED
      BY <3>1, <3>2 DEF c
  <2>3. c.last <= d.first
    BY <1>12, <2>2
  <2> QED
    BY <1>10, <1>13, <2>3 DEF c, d
<1>15. CASE i < j
  <2>1. CASE nodes[i].node \in Around[nodes[j].node]
    BY <1>10, <1>11, <2>1 DEF c, d
  <2>2. CASE nodes[i].last <= nodes[j].first
    <3>1. c.last <= d.first
      BY <1>11, <1>12, <2>2
    <3> QED
      BY <1>10, <1>13, <3>1 DEF c, d
  <2> QED
    BY <1>3, <1>15, <2>1, <2>2
<1>16. CASE j < i
  <2>1. offset[j] <= offset[i - 1] /\ offset[j] = offset[j - 1] + Len(ChunksOf(nodes[j]))
    BY <1>2, <1>16 DEF Blocks
  <2>2. offset[j] \in Nat /\ offset[i - 1] \in Nat /\ offset[j - 1] \in Nat
    <3>1. i - 1 \in 0 .. Len(nodes) /\ j - 1 \in 0 .. Len(nodes) /\ j \in 0 .. Len(nodes)
      BY <1>5
    <3> QED
      BY <1>2, <3>1 DEF Blocks
  <2>3. /\ k \in Int /\ 1 <= k /\ l \in Int /\ l <= Len(ChunksOf(nodes[j]))
        /\ Len(ChunksOf(nodes[j])) \in Int
    <3>1. ChunksOf(nodes[j]) \in Seq(ChunkRecord)
      BY <1>4 DEF InOrder
    <3>2. Len(ChunksOf(nodes[j])) \in Nat
      BY <3>1
    <3> QED
      BY <3>2
  <2>4. q < p
    BY <1>7, <1>9, <2>1, <2>2, <2>3
  <2> QED
    BY <1>5, <2>4
<1> QED
  BY <1>14, <1>15, <1>16

\* Two chunks share more than a line only when one belongs to a declaration around the
\* other, whatever the tree.
THEOREM SharedOnlyByNestingHolds == Spec => []SharedOnlyByNesting
  BY Inductive, SharedByInv, PTL

\* The chunks of the i-th node and no others have its number.
LEMMA OwnChunks ==
  ASSUME IInv, stage = "done", NEW offset, Blocks(offset), NEW i \in 1 .. Len(nodes)
  PROVE  /\ offset[i - 1] \in Nat /\ Len(ChunksOf(nodes[i])) \in Nat
         /\ {j \in DOMAIN chunks : chunks[j].node = nodes[i].node}
              = offset[i - 1] + 1 .. offset[i - 1] + Len(ChunksOf(nodes[i]))
<1> DEFINE C(j) == ChunksOf(nodes[j])
<1>1. /\ nodes \in Seq(NodeRecord)
      /\ \A j \in 1 .. Len(nodes) : IsSpan(nodes[j])
      /\ \A j, l \in 1 .. Len(nodes) : j < l => nodes[j].node < nodes[l].node
  BY NodesAre
<1>2. \A j \in 1 .. Len(nodes) : InOrder(nodes[j], C(j))
  BY <1>1, ChunksOfNode
<1>3. Len(nodes) \in Nat /\ DOMAIN chunks = 1 .. Len(chunks) /\ Len(chunks) \in Nat
  BY <1>1, ChunksAre
<1>4. \A j \in 1 .. Len(nodes) :
        Len(C(j)) \in Nat /\ \A k \in 1 .. Len(C(j)) : C(j)[k].node = nodes[j].node
  <2> SUFFICES ASSUME NEW j \in 1 .. Len(nodes)
               PROVE  Len(C(j)) \in Nat /\ \A k \in 1 .. Len(C(j)) : C(j)[k].node = nodes[j].node
    OBVIOUS
  <2>1. C(j) \in Seq(ChunkRecord) /\ \A k \in 1 .. Len(C(j)) : C(j)[k].node = nodes[j].node
    BY <1>2 DEF InOrder
  <2> QED
    BY <2>1
<1>5. \A j \in 0 .. Len(nodes) : offset[j] \in Nat
  BY DEF Blocks
<1>6. i - 1 \in 0 .. Len(nodes) /\ i \in 0 .. Len(nodes)
  BY <1>3
<1>7. ASSUME NEW p \in offset[i - 1] + 1 .. offset[i - 1] + Len(C(i))
      PROVE  p \in DOMAIN chunks /\ chunks[p].node = nodes[i].node
  <2>1. /\ p - offset[i - 1] \in 1 .. Len(C(i)) /\ p = offset[i - 1] + (p - offset[i - 1])
        /\ p \in Nat \ {0}
    BY <1>4, <1>5, <1>6
  <2>2. chunks[p] = C(i)[p - offset[i - 1]]
    BY <2>1 DEF Blocks
  <2>3. offset[i] = offset[i - 1] + Len(C(i)) /\ Len(chunks) = offset[Len(nodes)]
    BY DEF Blocks
  <2>4. offset[i] <= offset[Len(nodes)]
    <3>1. CASE i = Len(nodes)
      BY <1>5, <1>6, <3>1
    <3>2. CASE i # Len(nodes)
      <4>1. i < Len(nodes) /\ Len(nodes) \in 1 .. Len(nodes)
        BY <1>3, <3>2
      <4>2. offset[i] <= offset[Len(nodes) - 1]
            /\ offset[Len(nodes)] = offset[Len(nodes) - 1] + Len(C(Len(nodes)))
        BY <4>1 DEF Blocks
      <4>3. /\ Len(nodes) - 1 \in 0 .. Len(nodes) /\ Len(nodes) \in 0 .. Len(nodes)
            /\ Len(C(Len(nodes))) \in Nat
        BY <1>3, <1>4, <4>1
      <4> QED
        BY <1>5, <1>6, <4>2, <4>3
    <3> QED
      BY <3>1, <3>2
  <2>5. p <= Len(chunks)
    BY <1>3, <1>4, <1>5, <1>6, <2>3, <2>4
  <2> QED
    BY <1>3, <1>4, <2>1, <2>2, <2>5
<1>8. ASSUME NEW p \in DOMAIN chunks, chunks[p].node = nodes[i].node
      PROVE  p \in offset[i - 1] + 1 .. offset[i - 1] + Len(C(i))
  <2>1. PICK j \in 1 .. Len(nodes) : \E k \in 1 .. Len(C(j)) : p = offset[j - 1] + k
    BY <1>3 DEF Blocks
  <2>2. PICK k \in 1 .. Len(C(j)) : p = offset[j - 1] + k
    BY <2>1
  <2>3. chunks[p] = C(j)[k]
    BY <2>2 DEF Blocks
  <2>4. nodes[j].node = nodes[i].node
    BY <1>4, <1>8, <2>3
  <2>5. j = i
    <3>1. nodes[j].node \in Int
      BY <1>1 DEF IsSpan
    <3>2. ~(j < i) /\ ~(i < j)
      BY <1>1, <2>4, <3>1
    <3> QED
      BY <3>2
  <2> QED
    BY <1>4, <1>5, <1>6, <2>2, <2>5
<1> QED
  BY <1>4, <1>5, <1>6, <1>7, <1>8

-----------------------------------------------------------------------------
(* The chunks of a node.                                                    *)

\* What Min is.
LEMMA MinOfInterval ==
  ASSUME NEW a \in Int, NEW b \in Int, a <= b
  PROVE  Min(a .. b) = a
<1>1. \A x : (x \in a .. b /\ \A y \in a .. b : x <= y) <=> x = a
  OBVIOUS
<1> QED
  BY <1>1, Zenon DEF Min

LEMMA TileByInv ==
  ASSUME IInv, MinLines <= MaxLines
  PROVE  ChunksTile
<1> SUFFICES ASSUME stage = "done", NEW i \in DOMAIN nodes
    PROVE LET span == Span(nodes[i].node)
              own == {j \in DOMAIN chunks : chunks[j].node = nodes[i].node}
              missing == span \ UNION {ChunkSpan(chunks[j]) : j \in own}
          IN /\ \A j \in own : LET c == chunks[j] before == {l \in own : l < j} IN
                  /\ LineCount(c) \in MinLines .. MaxLines /\ ChunkSpan(c) \subseteq span
                  /\ \A l \in before : chunks[l].last < c.first
                  /\ c.part # 0 => c.part = Cardinality(before) + 1
                  /\ c.signed <=> c.first = Min(span)
             /\ Cardinality(span) >= MinLines =>
                  /\ Cardinality(missing) < MinLines
                  /\ \A line \in missing : \A j \in own : chunks[j].last < line
  BY DEF ChunksTile
<1> DEFINE n == nodes[i]
           C == ChunksOf(n)
           span == Span(n.node)
           own == {j \in DOMAIN chunks : chunks[j].node = n.node}
           missing == span \ UNION {ChunkSpan(chunks[j]) : j \in own}
<1>1. nodes \in Seq(NodeRecord)
  BY NodesAre
<1>2. i \in 1 .. Len(nodes)
  BY <1>1
<1>3. IsSpan(n) /\ span = n.first .. n.last
  BY <1>2, NodesAre
<1>4. n.first \in Int /\ n.last \in Int /\ n.first <= n.last /\ MinLines \in Nat \ {0}
  BY <1>3, LinesAssumption DEF IsSpan
<1>5. PICK offset : Blocks(offset)
  BY ChunksAre
<1> DEFINE o == offset[i - 1]
<1>6. o \in Nat /\ Len(C) \in Nat /\ own = o + 1 .. o + Len(C)
  BY <1>2, <1>5, OwnChunks
<1>7. \A k \in 1 .. Len(C) : chunks[o + k] = C[k]
  BY <1>2, <1>5 DEF Blocks
<1>8. InOrder(n, C)
  <2> HIDE DEF n
  <2> QED
    BY <1>3, ChunksOfNode
<1>9. LineCount(n) >= MinLines => LeavesRest(n, C)
  <2> HIDE DEF n
  <2> QED
    BY <1>3, ChunksOfNode
<1> HIDE DEF n, C, span, own, o
<1>10. ASSUME NEW j \in own
       PROVE  /\ j \in Int /\ j - o \in 1 .. Len(C) /\ chunks[j] = C[j - o]
  <2>1. j \in Int /\ j - o \in 1 .. Len(C) /\ o + (j - o) = j
    BY <1>6
  <2> QED
    BY <1>7, <2>1
<1>11. \A k \in 1 .. Len(C) :
          /\ C[k].first \in Int /\ C[k].last \in Int
          /\ n.first <= C[k].first /\ C[k].first <= C[k].last
          /\ C[k].last <= n.last /\ LineCount(C[k]) \in MinLines .. MaxLines
          /\ C[k].part # 0 => C[k].part = k
          /\ C[k].signed <=> C[k].first = n.first
  <2> DEFINE R == ChunkRecord
  <2>1. \A r \in R : r.first \in Int /\ r.last \in Int
    BY DEF ChunkRecord
  <2> HIDE DEF R
  <2>2. C \in Seq(R)
    BY <1>8 DEF InOrder, R
  <2>3. \A k \in 1 .. Len(C) : C[k] \in R
    BY <2>2
  <2> QED
    BY <1>8, <2>1, <2>3 DEF InOrder
<1>12. \A k, l \in 1 .. Len(C) : k < l => C[k].last < C[l].first
  BY <1>8 DEF InOrder
<1>13. Min(span) = n.first
  BY <1>3, <1>4, MinOfInterval
<1>14. ASSUME NEW j \in own
       PROVE  LET c == chunks[j] before == {l \in own : l < j} IN
                  /\ LineCount(c) \in MinLines .. MaxLines /\ ChunkSpan(c) \subseteq span
                  /\ \A l \in before : chunks[l].last < c.first
                  /\ c.part # 0 => c.part = Cardinality(before) + 1
                  /\ c.signed <=> c.first = Min(span)
  <2> DEFINE k == j - o
             before == {l \in own : l < j}
  <2>1. k \in 1 .. Len(C) /\ chunks[j] = C[k] /\ j \in Int
    BY <1>10
  <2>2. before = o + 1 .. j - 1
    <3>1. o + 1 \in Int /\ o + Len(C) \in Int /\ j <= o + Len(C) /\ o + 1 <= j
      BY <1>6, <2>1
    <3>2. \A l \in Int : l \in own /\ l < j <=> l \in o + 1 .. j - 1
      BY <1>6, <2>1, <3>1
    <3>3. \A l \in own : l \in Int
      BY <1>6
    <3>4. \A l : l \in o + 1 .. j - 1 => l \in Int
      OBVIOUS
    <3>5. \A l : l \in own /\ l < j <=> l \in o + 1 .. j - 1
      BY <3>2, <3>3, <3>4
    <3> QED
      BY ONLY <3>5 DEF before
  <2>3. Cardinality(before) = k - 1
    <3>1. o + 1 \in Int /\ j - 1 \in Int
      BY <1>6, <2>1
    <3>2. Cardinality(o + 1 .. j - 1) = IF o + 1 > j - 1 THEN 0 ELSE (j - 1) - (o + 1) + 1
      BY <3>1, FS_Interval
    <3>3. (IF o + 1 > j - 1 THEN 0 ELSE (j - 1) - (o + 1) + 1) = j - o - 1
      BY <1>6, <2>1
    <3> QED
      BY <2>2, <3>2, <3>3
  <2>4. ASSUME NEW l \in before PROVE chunks[l].last < chunks[j].first
    <3>1. l \in own /\ l < j /\ l - o \in 1 .. Len(C) /\ chunks[l] = C[l - o] /\ l \in Int
      BY <1>10
    <3>2. l - o < k
      BY <1>6, <2>1, <3>1
    <3> QED
      BY <1>12, <2>1, <3>1, <3>2
  <2> HIDE DEF k
  <2>5. ChunkSpan(C[k]) \subseteq span
    BY <1>3, <1>4, <1>11, <2>1 DEF ChunkSpan
  <2>6. chunks[j].part # 0 => chunks[j].part = Cardinality(before) + 1
    <3>1. k \in Int /\ (k - 1) + 1 = k
      BY <1>6, <2>1
    <3> QED
      BY <1>11, <2>1, <2>3, <3>1
  <2>7. chunks[j].signed <=> chunks[j].first = Min(span)
    BY <1>11, <1>13, <2>1
  <2>8. LineCount(chunks[j]) \in MinLines .. MaxLines
    BY <1>11, <2>1
  <2> QED
    BY <2>1, <2>4, <2>5, <2>6, <2>7, <2>8
<1>15. ASSUME Cardinality(span) >= MinLines
       PROVE  /\ Cardinality(missing) < MinLines
              /\ \A line \in missing : \A j \in own : chunks[j].last < line
  <2>1. LineCount(n) >= MinLines
    <3>1. Cardinality(n.first .. n.last) = IF n.first > n.last THEN 0 ELSE n.last - n.first + 1
      BY <1>4, FS_Interval
    <3>2. Cardinality(span) = n.last - n.first + 1
      BY <1>3, <1>4, <3>1
    <3> QED
      BY <1>15, <3>2 DEF LineCount
  <2>2. PICK rest \in 0 .. MinLines - 1 :
          /\ \A x \in n.first .. n.last - rest : \E k \in 1 .. Len(C) : C[k].first <= x /\ x <= C[k].last
          /\ \A k \in 1 .. Len(C) : C[k].last <= n.last - rest
    BY <1>9, <2>1 DEF LeavesRest
  <2>3. missing \subseteq n.last - rest + 1 .. n.last
    <3> SUFFICES ASSUME NEW x \in missing, x \notin n.last - rest + 1 .. n.last PROVE FALSE
      OBVIOUS
    <3>1. x \in n.first .. n.last
      BY <1>3
    <3>2. x \in n.first .. n.last - rest
      BY <1>4, <3>1
    <3>3. PICK k \in 1 .. Len(C) : C[k].first <= x /\ x <= C[k].last
      BY <2>2, <3>2
    <3>4. o + k \in own /\ chunks[o + k] = C[k]
      BY <1>6, <1>7
    <3>5. x \in ChunkSpan(chunks[o + k])
      BY <1>11, <3>1, <3>3, <3>4 DEF ChunkSpan
    <3> QED
      BY <3>4, <3>5
  <2>4. Cardinality(missing) < MinLines
    <3>1. IsFiniteSet(n.last - rest + 1 .. n.last)
          /\ Cardinality(n.last - rest + 1 .. n.last)
               = IF n.last - rest + 1 > n.last THEN 0 ELSE n.last - (n.last - rest + 1) + 1
      <4>1. n.last - rest + 1 \in Int
        BY <1>4
      <4> QED
        BY <1>4, <4>1, FS_Interval
    <3>2. Cardinality(n.last - rest + 1 .. n.last) = rest
      BY <1>4, <3>1
    <3>3. Cardinality(missing) <= rest /\ Cardinality(missing) \in Nat
      <4> HIDE DEF missing
      <4>1. IsFiniteSet(missing) /\ Cardinality(missing) <= Cardinality(n.last - rest + 1 .. n.last)
        BY <2>3, <3>1, FS_Subset
      <4>2. Cardinality(missing) \in Nat
        BY <4>1, FS_CardinalityType
      <4> QED
        BY <3>2, <4>1, <4>2
    <3> HIDE DEF missing
    <3> QED
      BY <1>4, <3>3
  <2>5. ASSUME NEW line \in missing, NEW j \in own PROVE chunks[j].last < line
    <3>1. line \in n.last - rest + 1 .. n.last
      BY <2>3
    <3>2. j - o \in 1 .. Len(C) /\ chunks[j] = C[j - o]
      BY <1>10
    <3>3. C[j - o].last <= n.last - rest /\ C[j - o].last \in Int
      BY <1>11, <2>2, <3>2
    <3> QED
      BY <1>4, <3>1, <3>2, <3>3
  <2> QED
    BY <2>4, <2>5
<1> QED
  BY <1>14, <1>15 DEF span, own, n

\* The chunks of a node tile it.  The code checks neither setting against the other; with
\* a minimum above the maximum no full part would be kept.
THEOREM ChunksTileHolds ==
  ASSUME MinLines <= MaxLines
  PROVE  Spec => []ChunksTile
<1>1. IInv => ChunksTile
  BY TileByInv
<1> QED
  BY <1>1, Inductive, PTL
=============================================================================
