--------------------------- MODULE SearchProperties ---------------------------
(***************************************************************************)
(* What a search promises of its answer.                                   *)
(***************************************************************************)
EXTENDS Search

Fused == kind # "semantic" /\ stage \in {"group", "rerank", "done"}
KeyAt(i) == KeyOf[results[i].point]

\* The formula: the sum, over both lists, of 1/(k + rank) for the ranks of a key.
SumOfRanks(list, k) ==
  LET Sum[rank \in 0 .. Len(list)] ==
        IF rank = 0 THEN 0
        ELSE Sum[rank - 1] + (IF rank \in RanksIn(list, k) THEN Weight(rank) ELSE 0)
  IN Sum[Len(list)]
ReferenceScore(k) == SumOfRanks(vector, k) + SumOfRanks(fts, k)

\* Fusion returns the best keys of the two lists, each once: as many as the limit allows,
\* best first, and none left out that scores more than one returned.
FusedTop ==
  Fused =>
    LET seen == {KeyOf[p] : p \in ToSet(vector) \cup ToSet(fts)}
        kept == {KeyAt(i) : i \in 1 .. Len(results)}
    IN /\ kept \subseteq seen
       /\ Len(results) = Cardinality(kept)
       /\ Len(results) = Min({FusedLimit, Cardinality(seen)})
       /\ \A i, j \in 1 .. Len(results) :
            i < j => ReferenceScore(KeyAt(i)) >= ReferenceScore(KeyAt(j))
       /\ \A k \in kept, l \in seen \ kept : ReferenceScore(k) >= ReferenceScore(l)

\* The positions of a group's members among the results: those of its file, in their order.
IsGroup(group, f) ==
  \E place \in [1 .. Len(group) -> {i \in 1 .. Len(results) : File(results[i]) = f}] :
    /\ \A n \in 1 .. Len(group) : group[n] = results[place[n]]
    /\ \A m, n \in 1 .. Len(group) : m < n => place[m] < place[n]
    /\ \A i \in 1 .. Len(results) :
         File(results[i]) = f => \E n \in 1 .. Len(group) : place[n] = i

\* Grouping neither loses nor repeats a result, keeps their order within a file, and
\* shows the files in the order in which the results first mention them.
GroupsFollowResults ==
  stage = "done" /\ kind # "chat" =>
    /\ \A i \in 1 .. Len(results) : \E g \in 1 .. Len(groups) :
         File(groups[g][1]) = File(results[i])
    /\ \A g \in 1 .. Len(groups) : groups[g] # << >> /\ IsGroup(groups[g], File(groups[g][1]))
    /\ \A g, h \in 1 .. Len(groups) : g < h =>
         \E i \in 1 .. Len(results) :
           /\ File(results[i]) = File(groups[g][1])
           /\ \A j \in 1 .. i : File(results[j]) # File(groups[h][1])

\* For a query of few terms the keywords decide the order of the citations: a fused score is
\* so small that, of two citations, that with more of the terms is first whatever their
\* ranks were; ranks decide between equals, which no rounding reorders.  It fails of a long
\* query, or of many copies of one chunk: with top_k = 20 and one point to a key, one of 21
\* terms weighs no more, once rounded, than the ranks may.
KeywordsDecide ==
  stage = "done" /\ kind = "chat" =>
    LET At(p) == CHOOSE i \in 1 .. Len(results) : results[i].point = p
        Better(p, q) ==
          \/ matches[KeyOf[p]] > matches[KeyOf[q]]
          \/ matches[KeyOf[p]] = matches[KeyOf[q]] /\ At(p) < At(q)
        cited == {answer[i].point : i \in 1 .. Len(answer)}
    IN /\ \A i, j \in 1 .. Len(answer) : i < j => Better(answer[i].point, answer[j].point)
       /\ \A p \in cited, r \in ToSet(results) : r.point \notin cited => Better(p, r.point)

\* "All search endpoints support" chunk_types (src/services/search/README.md:34-37), but for
\* this: a search shows a chunk of a type that was not asked for only when the full-text
\* search, which does not filter by type, is the only one to have found the chunk.
OnlyTextStrays ==
  stage = "done" /\ kind # "chat" =>
    \A i \in 1 .. Len(results) : results[i].point \in OffType =>
      /\ results[i].point \in ToSet(fts)
      /\ RanksIn(vector, KeyAt(i)) = {}

-----------------------------------------------------------------------------
(* The inductive invariant.                                                *)

TypeOK ==
  /\ kind \in Kinds /\ stage \in Stages
  /\ vector \in Seq(Points) /\ fts \in Seq(Points)
  /\ results \in Seq(Result) /\ groups \in Seq(Seq(Result)) /\ answer \in Seq(Result)
  /\ matches \in [Keys -> 0 .. Terms]

\* The stages that the endpoints do not share.
StageInv ==
  /\ stage \in {"fts", "fuse"} => kind # "semantic"
  /\ stage = "group" => kind # "chat"
  /\ stage = "rerank" => kind = "chat"

\* A store returns a point at most once.
ListsInv == IsInjective(vector) /\ IsInjective(fts)

FilterInv == kind # "chat" => \A i \in 1 .. Len(vector) : vector[i] \notin OffType

\* The results are in the order of their scores.
BestScoreFirst ==
  \A i, j \in 1 .. Len(results) : i < j => results[i].score >= results[j].score

SemanticInv ==
  kind = "semantic" /\ stage \in {"group", "done"} =>
    /\ Len(results) = Len(vector) /\ BestScoreFirst
    /\ \A i \in 1 .. Len(results) : results[i].point = vector[i]

FusedInv == Fused => results = FusedResults

GroupedInv == stage = "done" /\ kind # "chat" => groups = GroupedByFile

AnswerInv == stage = "done" /\ kind = "chat" => answer = Reranked(Rescored(matches))

SearchInv ==
  /\ TypeOK /\ StageInv /\ ListsInv /\ FilterInv
  /\ SemanticInv /\ FusedInv /\ GroupedInv /\ AnswerInv
=============================================================================
