-------------------------------- MODULE Search --------------------------------
(***************************************************************************)
(* Semantic and hybrid search (services/search/app/domain/services.py) and *)
(* the retrieval of the RAG service, which fuses in the same way and then  *)
(* reranks (services/rag/app/infrastructure/hybrid_retriever.py and        *)
(* reranker.py).                                                           *)
(*                                                                         *)
(* A request embeds its query, searches the vectors, then the full text,   *)
(* and fuses the two lists.  What the stores return is any ranked list:    *)
(* how well points match is theirs to say, and the two are read at         *)
(* different times.  Several points may have one key                       *)
(* (repository:file:start_line): an index that is built again adds points  *)
(* for the same chunks.                                                    *)
(*                                                                         *)
(* Scores are exact: sums of 1/(k + rank) over a common denominator, in    *)
(* whole units of the digit they are rounded to.                           *)
(***************************************************************************)
EXTENDS Integers, Sequences, FiniteSets, SequencesExt

CONSTANTS
  Points,    \* points of the vector store and rows of the full-text table
  Keys,      \* repository:file:start_line
  KeyOf,     \* the key of each point
  FileOf,    \* the repository:file of each key
  OffType,   \* points outside the chunk_types that are asked for
  Cosines,   \* similarities
  Limit,     \* the limit of a search
  TopK,      \* top_k of the RAG service
  TopN,      \* top_n of its reranker
  K,         \* rrf_k
  Terms      \* the terms of the query

ASSUME PointsAssumption ==
  /\ IsFiniteSet(Points) /\ KeyOf \in [Points -> Keys]
  /\ DOMAIN FileOf = Keys /\ OffType \subseteq Points
ASSUME NumbersAssumption ==
  /\ Cosines \subseteq Nat /\ Limit \in Nat \ {0} /\ TopK \in Nat \ {0} /\ TopN \in Nat
  /\ K \in Nat /\ Terms \in Nat \ {0}

VARIABLES
  kind,     \* the endpoint: "semantic", "hybrid" or "chat"
  stage,    \* where the request is
  vector,   \* vector_results
  fts,      \* fts_results
  results,  \* the results, each with its score
  groups,   \* grouped_results
  matches,  \* how many of the terms each chunk has
  answer    \* what the reranker returns

vars == <<kind, stage, vector, fts, results, groups, matches, answer>>

Kinds == {"semantic", "hybrid", "chat"}
Stages == {"embed", "vector", "fts", "fuse", "group", "rerank", "done", "error"}
Result == [point : Points, score : Nat]

FusedLimit == IF kind = "chat" THEN TopK ELSE Limit
VectorLimit == IF kind = "hybrid" THEN 2 * Limit ELSE FusedLimit

-----------------------------------------------------------------------------
(* Lists and scores.                                                       *)

\* The ranked lists of at most n points of S.
RankedLists(S, n) ==
  UNION {Injection(1 .. m, S) : m \in 0 .. Min({n, Cardinality(S)})}
Descending(n) == {s \in [1 .. n -> Cosines] : \A i \in 1 .. n - 1 : s[i] >= s[i + 1]}

FirstItems(s, n) == [i \in 1 .. Min({n, Len(s)}) |-> s[i]]

\* The members of S as a sequence, when before[i] are those that come before i.
Arranged(S, before) ==
  [n \in 1 .. Cardinality(S) |-> CHOOSE i \in S : Cardinality(before[i]) = n - 1]

\* The items of a sequence at some of its positions.
AtPlaces(s, S) ==
  LET places == Arranged(S, [i \in S |-> {j \in S : j < i}]) IN
  [n \in 1 .. Cardinality(S) |-> s[places[n]]]

\* sorted(..., reverse=True): the best first, equals in their order.
SortedBy(s, score) ==
  LET Positions == 1 .. Len(s)
      better == [i \in Positions |->
                   {j \in Positions : score[j] > score[i] \/ (score[j] = score[i] /\ j < i)}]
      places == Arranged(Positions, better)
  IN [n \in Positions |-> s[places[n]]]

\* The order in which a dictionary is filled.
FirstSeen(s) == AtPlaces(s, {i \in 1 .. Len(s) : \A j \in 1 .. i - 1 : s[j] # s[i]})

\* A multiple of every K + rank; no list has more ranks than there are points.
Denominator ==
  LET ranks == Min({Max({2 * Limit, TopK}), Cardinality(Points)})
      Product[n \in 0 .. ranks] == IF n = 0 THEN 1 ELSE (K + n) * Product[n - 1]
  IN Product[ranks]
Unit == Max({1, Denominator \div 1000000})
\* round(): to the nearest unit.
Nearest(score, unit) == (score + unit \div 2) \div unit
\* round(score, 6)
Rounded(score) == Nearest(score, Unit)

\* Mutant: k is forgotten.
Weight_NoK(rank) == Denominator \div rank

Weight(rank) == Denominator \div (K + rank)

\* rrf_scores[key] += 1 / (k + rank)
AddRanks(list, scores) ==
  LET After[rank \in 0 .. Len(list)] ==
        IF rank = 0 THEN scores
        ELSE [After[rank - 1] EXCEPT ![KeyOf[list[rank]]] = @ + Weight(rank)]
  IN After[Len(list)]

Scores == AddRanks(fts, AddRanks(vector, [k \in Keys |-> 0]))
Found == vector \o fts
KeysSeen == FirstSeen([i \in 1 .. Len(Found) |-> KeyOf[Found[i]]])
ByScore(keys) == SortedBy(keys, [i \in 1 .. Len(keys) |-> Scores[keys[i]]])

\* The ranks of a chunk in a list.
RanksIn(list, k) == {i \in 1 .. Len(list) : KeyOf[list[i]] = k}

\* Mutant: what the full-text search has found is shown first.
Shown_Text(k) ==
  IF RanksIn(fts, k) # {} THEN fts[Min(RanksIn(fts, k))] ELSE vector[Max(RanksIn(vector, k))]

\* result_map: the last vector result with the key, or else the first full-text result.
Shown(k) ==
  IF RanksIn(vector, k) # {} THEN vector[Max(RanksIn(vector, k))] ELSE fts[Min(RanksIn(fts, k))]
ResultOf(k) == [point |-> Shown(k), score |-> Rounded(Scores[k])]

\* Mutant: the list is cut before it is sorted.
FusedKeys_CutFirst == ByScore(FirstItems(KeysSeen, FusedLimit))

FusedKeys == FirstItems(ByScore(KeysSeen), FusedLimit)
FusedResults == [i \in 1 .. Len(FusedKeys) |-> ResultOf(FusedKeys[i])]

File(r) == FileOf[KeyOf[r.point]]
BestScore(group) == Max({group[i].score : i \in 1 .. Len(group)})
InFile(f) == AtPlaces(results, {i \in 1 .. Len(results) : File(results[i]) = f})
Files == FirstSeen([i \in 1 .. Len(results) |-> File(results[i])])
FileGroups == [n \in 1 .. Len(Files) |-> InFile(Files[n])]

\* Mutant: the groups with most results first.
GroupedByFile_Largest == SortedBy(FileGroups, [n \in 1 .. Len(FileGroups) |-> Len(FileGroups[n])])

\* _group_results
GroupedByFile == SortedBy(FileGroups, [n \in 1 .. Len(FileGroups) |-> BestScore(FileGroups[n])])

\* round(0.7 * score + 0.3 * matches / terms, 4)
FinalScore(r, found) ==
  Nearest(7 * Terms * Unit * r.score + 3 * Denominator * found[KeyOf[r.point]],
          Max({1, (Terms * Denominator) \div 1000}))
Rescored(found) ==
  [i \in 1 .. Len(results) |->
     [point |-> results[i].point, score |-> FinalScore(results[i], found)]]
Reranked(list) == FirstItems(SortedBy(list, [i \in 1 .. Len(list) |-> list[i].score]), TopN)

-----------------------------------------------------------------------------
(* The request.                                                            *)

Init ==
  /\ kind \in Kinds
  /\ stage = "embed"
  /\ vector = << >> /\ fts = << >> /\ results = << >> /\ groups = << >> /\ answer = << >>
  /\ matches = [k \in Keys |-> 0]

\* A query that cannot be embedded, or a vector store that fails, fails the request.
Fail ==
  /\ stage \in {"embed", "vector"}
  /\ stage' = "error"
  /\ UNCHANGED <<kind, vector, fts, results, groups, matches, answer>>

Embed ==
  /\ stage = "embed" /\ stage' = "vector"
  /\ UNCHANGED <<kind, vector, fts, results, groups, matches, answer>>

\* The filters are on the repository, the language and the type of the chunk; the RAG
\* service does not ask for types.
VectorSearch ==
  /\ stage = "vector"
  /\ \E list \in RankedLists(IF kind = "chat" THEN Points ELSE Points \ OffType, VectorLimit) :
       /\ vector' = list
       /\ IF kind = "semantic"
          THEN /\ stage' = "group"
               /\ \E cosine \in Descending(Len(list)) :
                    results' = [i \in 1 .. Len(list) |->
                                  [point |-> list[i], score |-> cosine[i]]]
          ELSE stage' = "fts" /\ UNCHANGED results
  /\ UNCHANGED <<kind, fts, groups, matches, answer>>

\* The full-text search has no filter on the type.  When it fails it has found nothing.
FullTextSearch ==
  /\ stage = "fts" /\ stage' = "fuse"
  /\ \E list \in RankedLists(Points, FusedLimit) : fts' = list
  /\ UNCHANGED <<kind, vector, results, groups, matches, answer>>

\* Reciprocal rank fusion.
Fuse ==
  /\ stage = "fuse"
  /\ stage' = IF kind = "hybrid" THEN "group" ELSE "rerank"
  /\ results' = FusedResults
  /\ UNCHANGED <<kind, vector, fts, groups, matches, answer>>

Group ==
  /\ stage = "group" /\ stage' = "done"
  /\ groups' = GroupedByFile
  /\ UNCHANGED <<kind, vector, fts, results, matches, answer>>

Rerank ==
  /\ stage = "rerank" /\ stage' = "done"
  /\ \E found \in [Keys -> 0 .. Terms] :
       /\ matches' = found
       /\ answer' = Reranked(Rescored(found))
  /\ UNCHANGED <<kind, vector, fts, results, groups>>

Next == Fail \/ Embed \/ VectorSearch \/ FullTextSearch \/ Fuse \/ Group \/ Rerank

Spec == Init /\ [][Next]_vars
=============================================================================
