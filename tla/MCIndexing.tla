----------------------------- MODULE MCIndexing -----------------------------
(* Instances of Indexing: two jobs of a repository, and a deletion of it or  *)
(* of another.                                                               *)
EXTENDS IndexingProperties, TLC

CONSTANTS r1, r2, j1, j2, d1, f1

SameRepo == [j \in Jobs |-> r1]
DeleteFirst == [d \in Deletes |-> r1]
DeleteOther == [d \in Deletes |-> r2]
Symmetry == Permutations(Jobs)
=============================================================================
