--------------------------- MODULE IndexingProofs ---------------------------
(***************************************************************************)
(* TLAPS proofs that the indexing pipeline is correct for any number of    *)
(* repositories, jobs and deletions, every batch size and every fault.     *)
(***************************************************************************)
EXTENDS IndexingProperties, FiniteSetTheorems, TLAPS

USE DEF Discovered, ChunkCounts, Upsert

(* The batch that starts at i holds the chunks from i + 1 on, at most       *)
(* BatchSize of them and none past the last.                               *)
LEMMA BatchCardinality ==
  ASSUME TypeOK, NEW j \in Jobs
  PROVE  /\ Cardinality(Batch(j)) \in Nat
         /\ next[j] < chunks[j] =>
              Cardinality(Batch(j)) = Least(next[j] + BatchSize, chunks[j]) - next[j]
<1> DEFINE hi == Least(next[j] + BatchSize, chunks[j])
<1>1. next[j] \in Nat /\ chunks[j] \in Nat /\ hi \in Nat
  BY BatchAssumption, BoundsAssumption DEF TypeOK, Least
<1>2. Batch(j) = (next[j] + 1) .. hi
  BY DEF Batch
<1> HIDE DEF hi
<1>3. next[j] + 1 \in Int /\ hi \in Int
  BY <1>1
<1>4. Cardinality(Batch(j)) = IF next[j] + 1 > hi THEN 0 ELSE hi - (next[j] + 1) + 1
  BY <1>2, <1>3, FS_Interval
<1>5. Cardinality(Batch(j)) \in Nat
  BY <1>1, <1>4
<1>6. next[j] < chunks[j] => Cardinality(Batch(j)) = hi - next[j]
  BY <1>1, <1>4, BatchAssumption DEF Least, hi
<1> QED
  BY <1>5, <1>6 DEF hi

(* Every variable keeps its type.                                          *)
LEMMA TypeStep == TypeOK /\ [Next]_vars => TypeOK'
<1> SUFFICES ASSUME TypeOK, [Next]_vars PROVE TypeOK'
  OBVIOUS
<1> USE ReposAssumption, FaultsAssumption, BatchAssumption, BoundsAssumption
<1> USE DEF TypeOK, rowVars, storeVars, localVars, RowStates, RepositoryStatus
<1>1. ASSUME NEW r \in Repos, CreateRepository(r) PROVE TypeOK'
  BY <1>1 DEF CreateRepository
<1>2. ASSUME NEW r \in Repos, Push(r) PROVE TypeOK'
  BY <1>2 DEF Push, Revisions
<1>3. ASSUME NEW j \in Jobs, AcceptIndex(j) PROVE TypeOK'
  BY <1>3 DEF AcceptIndex, Goto, JobSteps
<1>4. ASSUME NEW j \in Jobs, StartCloning(j) PROVE TypeOK'
  BY <1>4 DEF StartCloning, Goto, Try, JobSteps, UpdateStatus
<1>5. ASSUME NEW j \in Jobs, LookupRepository(j) PROVE TypeOK'
  BY <1>5 DEF LookupRepository, Goto, Try, JobSteps
<1>6. ASSUME NEW j \in Jobs, MakeCloneDir(j) PROVE TypeOK'
  BY <1>6 DEF MakeCloneDir, Goto, JobSteps
<1>7. ASSUME NEW j \in Jobs, GitClone(j) PROVE TypeOK'
  <2>1. pc' \in [Jobs -> JobSteps]
    BY <1>7 DEF GitClone, Goto, JobSteps
  <2>2. upstream[JobRepo[j]] \in Revisions
    OBVIOUS
  <2>3. snap' \in [Jobs -> Revisions] /\ cloned' \subseteq Jobs
    BY <1>7, <2>2 DEF GitClone
  <2> QED
    BY <1>7, <2>1, <2>3 DEF GitClone
<1>8. ASSUME NEW j \in Jobs, ParseAndChunk(j) PROVE TypeOK'
  <2> PICK out \in Outcomes, fs \in SUBSET Files, n \in 0 .. MaxChunks :
         ParseAndChunk(j)!(out, fs, n)
    BY <1>8 DEF ParseAndChunk
  <2>1. pc' \in [Jobs -> JobSteps]
    BY DEF Goto, Try, JobSteps
  <2>2. status' \in [Repos -> RowStates]
    BY DEF UpdateStatus
  <2>3. parsed' \in [Jobs -> SUBSET Files]
    BY Zenon
  <2>4. chunks' \in [Jobs -> 0 .. MaxChunks]
    BY Zenon
  <2> QED
    BY <2>1, <2>2, <2>3, <2>4
<1>9. ASSUME NEW j \in Jobs, SaveIndexedFiles(j) PROVE TypeOK'
  <2> PICK out \in Outcomes : SaveIndexedFiles(j)!(out)
    BY <1>9 DEF SaveIndexedFiles
  <2>1. pc' \in [Jobs -> JobSteps]
    BY DEF Goto, Try, JobSteps
  <2> DEFINE row == [f \in Files |->
        IF fileRows[JobRepo[j]][f] = NoRow /\ f \in parsed[j]
        THEN snap[j] ELSE fileRows[JobRepo[j]][f]]
  <2>2. row \in [Files -> Revisions \cup {NoRow}]
    OBVIOUS
  <2>3. fileRows' = [fileRows EXCEPT ![JobRepo[j]] = row] \/ fileRows' = fileRows
    OBVIOUS
  <2>4. fileRows' \in [Repos -> [Files -> Revisions \cup {NoRow}]]
    BY <2>2, <2>3
  <2> QED
    BY <2>1, <2>4
<1>10. ASSUME NEW j \in Jobs, StartEmbedding(j) PROVE TypeOK'
  BY <1>10 DEF StartEmbedding, Goto, Try, JobSteps, UpdateStatus
<1>11. ASSUME NEW j \in Jobs, CheckCollection(j) PROVE TypeOK'
  BY <1>11 DEF CheckCollection, Goto, Try, JobSteps, NextBatch
<1>12. ASSUME NEW j \in Jobs, CreateCollection(j) PROVE TypeOK'
  BY <1>12 DEF CreateCollection, Goto, Try, JobSteps, NextBatch
<1>13. ASSUME NEW j \in Jobs, EmbedBatch(j) PROVE TypeOK'
  <2> PICK out \in Outcomes : EmbedBatch(j)!(out)
    BY <1>13 DEF EmbedBatch
  <2>1. points' \subseteq Jobs \X Nat
    BY BatchCardinality DEF Batch, Least
  <2> DEFINE n == Cardinality(Batch(j))
  <2>2. n \in Nat
    BY BatchCardinality
  <2> HIDE DEF n
  <2>3. CASE out = "ok"
    <3>1. next' \in [Jobs -> Nat]
      <4>1. next[j] + BatchSize \in Nat
        OBVIOUS
      <4>2. next' = [next EXCEPT ![j] = next[j] + BatchSize]
        BY <2>3
      <4> QED
        BY <4>1, <4>2
    <3>2. embedded' = [embedded EXCEPT ![j] = embedded[j] + n]
      BY <2>3 DEF n
    <3>3. embedded' \in [Jobs -> Nat]
      BY <2>2, <3>2
    <3> QED
      BY <2>1, <3>1, <3>3 DEF Goto, Try, JobSteps, NextBatch
  <2>4. CASE out # "ok"
    BY <2>1, <2>4 DEF Goto, Try, JobSteps
  <2> QED
    BY <2>3, <2>4
<1>14. ASSUME NEW j \in Jobs, UpdateStats(j) PROVE TypeOK'
  BY <1>14 DEF UpdateStats, Goto, Try, JobSteps
<1>15. ASSUME NEW j \in Jobs, MarkReady(j) PROVE TypeOK'
  BY <1>15 DEF MarkReady, Goto, Try, JobSteps, UpdateStatus
<1>16. ASSUME NEW j \in Jobs, PublishIndexed(j) PROVE TypeOK'
  BY <1>16 DEF PublishIndexed, Goto, Try, JobSteps, Publish, Event
<1>17. ASSUME NEW j \in Jobs, MarkFailed(j) PROVE TypeOK'
  BY <1>17 DEF MarkFailed, Goto, JobSteps, UpdateStatus
<1>18. ASSUME NEW j \in Jobs, PublishFailed(j) PROVE TypeOK'
  BY <1>18 DEF PublishFailed, Goto, JobSteps, Publish, Event
<1>19. ASSUME NEW j \in Jobs, Cleanup(j) PROVE TypeOK'
  BY <1>19 DEF Cleanup, Goto, JobSteps
<1>20. ASSUME NEW d \in Deletes, AcceptDelete(d) PROVE TypeOK'
  BY <1>20 DEF AcceptDelete, GotoD, DeleteSteps
<1>21. ASSUME NEW d \in Deletes, MarkDeleting(d) PROVE TypeOK'
  BY <1>21 DEF MarkDeleting, GotoD, TryD, DeleteSteps, UpdateStatus
<1>22. ASSUME NEW d \in Deletes, PurgeVectors(d) PROVE TypeOK'
  BY <1>22 DEF PurgeVectors, GotoD, TryD, DeleteSteps
<1>23. ASSUME NEW d \in Deletes, DropRow(d) PROVE TypeOK'
  <2> PICK out \in Outcomes : DropRow(d)!(out)
    BY <1>23 DEF DropRow
  <2>1. dpc' \in [Deletes -> DeleteSteps]
    BY DEF GotoD, TryD, DeleteSteps
  <2>2. [f \in Files |-> NoRow] \in [Files -> Revisions \cup {NoRow}]
    OBVIOUS
  <2>3. fileRows' \in [Repos -> [Files -> Revisions \cup {NoRow}]]
    BY <2>2
  <2>4. stats' \in [Repos -> [chunks : Nat, embedded : Nat]]
    OBVIOUS
  <2> QED
    BY <2>1, <2>3, <2>4
<1>24. CASE Crash
  BY <1>24 DEF Crash, JobSteps, DeleteSteps
<1>25. CASE UNCHANGED vars
  BY <1>25 DEF vars
<1> QED
  BY <1>1, <1>2, <1>3, <1>4, <1>5, <1>6, <1>7, <1>8, <1>9, <1>10, <1>11, <1>12, <1>13, <1>14,
     <1>15, <1>16, <1>17, <1>18, <1>19, <1>20, <1>21, <1>22, <1>23, <1>24, <1>25 DEF Next,
     JobStep, DeleteStep

-----------------------------------------------------------------------------
(* Who writes what.                                                        *)

(* A job's plan is written by ParseAndChunk, its progress by EmbedBatch and  *)
(* its clone by GitClone; nothing else touches them.                       *)
LEMMA LocalFrames ==
  ASSUME [Next]_vars
  PROVE  /\ (\A j \in Jobs : ~ParseAndChunk(j)) => UNCHANGED <<parsed, chunks>>
         /\ (\A j \in Jobs : ~EmbedBatch(j)) => UNCHANGED <<next, embedded>>
         /\ (\A j \in Jobs : ~GitClone(j)) => UNCHANGED <<cloned, snap>>
<1> USE DEF vars, storeVars, rowVars, localVars
<1>1. CASE UNCHANGED vars
  BY <1>1
<1>2. CASE Crash
  BY <1>2 DEF Crash
<1>3. CASE \E r \in Repos : CreateRepository(r) \/ Push(r)
  BY <1>3 DEF CreateRepository, Push
<1>4. CASE \E d \in Deletes : AcceptDelete(d) \/ DeleteStep(d)
  BY <1>4 DEF AcceptDelete, DeleteStep, MarkDeleting, PurgeVectors, DropRow
<1>5. ASSUME NEW j \in Jobs, AcceptIndex(j) \/ JobStep(j) PROVE
        /\ (\A k \in Jobs : ~ParseAndChunk(k)) => UNCHANGED <<parsed, chunks>>
        /\ (\A k \in Jobs : ~EmbedBatch(k)) => UNCHANGED <<next, embedded>>
        /\ (\A k \in Jobs : ~GitClone(k)) => UNCHANGED <<cloned, snap>>
  <2>1. CASE ParseAndChunk(j)
    BY <2>1 DEF ParseAndChunk
  <2>2. CASE EmbedBatch(j)
    BY <2>2 DEF EmbedBatch
  <2>3. CASE GitClone(j)
    BY <2>3 DEF GitClone
  <2>4. CASE ~ParseAndChunk(j) /\ ~EmbedBatch(j) /\ ~GitClone(j)
    BY <1>5, <2>4 DEF JobStep, AcceptIndex, StartCloning, LookupRepository, MakeCloneDir,
       SaveIndexedFiles, StartEmbedding, CheckCollection, CreateCollection, UpdateStats,
       MarkReady, PublishIndexed, MarkFailed, PublishFailed, Cleanup
  <2> QED
    BY <2>1, <2>2, <2>3, <2>4
<1> QED
  BY <1>1, <1>2, <1>3, <1>4, <1>5 DEF Next

(* Rows' statistics and file records, the points, the events, the outcomes   *)
(* and the directories each have their writers.                            *)
LEMMA StoreFrames ==
  ASSUME [Next]_vars
  PROVE  /\ (\A j \in Jobs : ~UpdateStats(j)) /\ (\A d \in Deletes : ~DropRow(d))
              => UNCHANGED stats
         /\ (\A j \in Jobs : ~SaveIndexedFiles(j)) /\ (\A d \in Deletes : ~DropRow(d))
              => UNCHANGED fileRows
         /\ (\A j \in Jobs : ~EmbedBatch(j)) /\ (\A d \in Deletes : ~PurgeVectors(d))
              => UNCHANGED points
         /\ (\A j \in Jobs : ~PublishIndexed(j) /\ ~PublishFailed(j)) => UNCHANGED events
         /\ (\A j \in Jobs : ~PublishIndexed(j) /\ ~PublishFailed(j) /\ ~MarkFailed(j))
              => UNCHANGED outcome
         /\ (\A j \in Jobs : ~MakeCloneDir(j) /\ ~Cleanup(j)) => UNCHANGED dirs
<1> USE DEF vars, storeVars, rowVars, localVars
<1>1. CASE UNCHANGED vars
  BY <1>1
<1>2. CASE Crash
  BY <1>2 DEF Crash
<1>3. CASE \E r \in Repos : CreateRepository(r) \/ Push(r)
  BY <1>3 DEF CreateRepository, Push
<1>4. CASE \E d \in Deletes : AcceptDelete(d) \/ DeleteStep(d)
  <2>1. PICK d \in Deletes : AcceptDelete(d) \/ DeleteStep(d)
    BY <1>4
  <2>2. CASE DropRow(d)
    BY <2>2 DEF DropRow
  <2>3. CASE PurgeVectors(d)
    BY <2>3 DEF PurgeVectors
  <2> QED
    BY <2>1, <2>2, <2>3 DEF AcceptDelete, DeleteStep, MarkDeleting
<1>5. CASE \E j \in Jobs : AcceptIndex(j) \/ JobStep(j)
  <2>1. PICK j \in Jobs : AcceptIndex(j) \/ JobStep(j)
    BY <1>5
  <2>2. CASE UpdateStats(j)
    BY <2>2 DEF UpdateStats
  <2>3. CASE SaveIndexedFiles(j)
    BY <2>3 DEF SaveIndexedFiles
  <2>4. CASE EmbedBatch(j)
    BY <2>4 DEF EmbedBatch
  <2>5. CASE PublishIndexed(j)
    BY <2>5 DEF PublishIndexed
  <2>6. CASE PublishFailed(j)
    BY <2>6 DEF PublishFailed
  <2>7. CASE MarkFailed(j)
    BY <2>7 DEF MarkFailed
  <2>8. CASE MakeCloneDir(j)
    BY <2>8 DEF MakeCloneDir
  <2>9. CASE Cleanup(j)
    BY <2>9 DEF Cleanup
  <2> QED
    BY <2>1, <2>2, <2>3, <2>4, <2>5, <2>6, <2>7, <2>8, <2>9
    DEF JobStep, AcceptIndex, StartCloning, LookupRepository, GitClone, ParseAndChunk,
       StartEmbedding, CheckCollection, CreateCollection, MarkReady
<1> QED
  BY <1>1, <1>2, <1>3, <1>4, <1>5 DEF Next

(* A deletion that may have removed vectors may have for good.             *)
LEMMA PurgeMonotone ==
  ASSUME TypeOK, [Next]_vars, NEW r \in Repos, MayBePurged(r)
  PROVE  MayBePurged(r)'
<1> USE DEF vars, storeVars, rowVars, localVars, MayBePurged, TypeOK
<1>1. CASE UNCHANGED dpc
  BY <1>1
<1>2. CASE Crash
  BY <1>2 DEF Crash, Deleting
<1>3. CASE \E d \in Deletes : AcceptDelete(d) \/ DeleteStep(d)
  BY <1>3 DEF AcceptDelete, DeleteStep, MarkDeleting, PurgeVectors, DropRow, GotoD, TryD
<1>4. CASE \E x \in Repos : CreateRepository(x) \/ Push(x)
  BY <1>1, <1>4 DEF CreateRepository, Push
<1>5. CASE \E j \in Jobs : AcceptIndex(j) \/ JobStep(j)
  BY <1>1, <1>5 DEF JobStep, AcceptIndex, StartCloning, LookupRepository, MakeCloneDir, GitClone,
       ParseAndChunk, SaveIndexedFiles, StartEmbedding, CheckCollection,
       CreateCollection, EmbedBatch, UpdateStats, MarkReady, PublishIndexed,
       MarkFailed, PublishFailed, Cleanup
<1> QED
  BY <1>1, <1>2, <1>3, <1>4, <1>5 DEF Next

(* A point stays until a deletion of its repository reaches the collection.  *)
LEMMA PointsKept ==
  ASSUME TypeOK, [Next]_vars, NEW p \in points, ~MayBePurged(JobRepo[p[1]])'
  PROVE  p \in points'
<1>1. CASE \E d \in Deletes : PurgeVectors(d)
  BY <1>1 DEF PurgeVectors, MayBePurged, GotoD, TryD, TypeOK
<1>2. CASE \E j \in Jobs : EmbedBatch(j)
  BY <1>2 DEF EmbedBatch
<1> QED
  BY <1>1, <1>2, StoreFrames

(* Once a job is late it stays late, with the plan, progress and clone it has. *)
LEMMA LateFrozen ==
  ASSUME TypeOK, [Next]_vars, NEW k \in Jobs, pc[k] \in Late
  PROVE  /\ pc'[k] \in Late
         /\ chunks'[k] = chunks[k] /\ parsed'[k] = parsed[k]
         /\ next'[k] = next[k] /\ embedded'[k] = embedded[k]
         /\ k \in cloned => k \in cloned'
<1> USE DEF TypeOK, Late, Over, Goto
<1>1. CASE \E j \in Jobs : ParseAndChunk(j)
  BY <1>1 DEF ParseAndChunk, Try
<1>2. CASE \E j \in Jobs : EmbedBatch(j)
  BY <1>2 DEF EmbedBatch, Try
<1>3. CASE \E j \in Jobs : GitClone(j)
  BY <1>3 DEF GitClone
<1>4. CASE \A j \in Jobs : ~ParseAndChunk(j) /\ ~EmbedBatch(j) /\ ~GitClone(j)
  <2>1. UNCHANGED <<parsed, chunks, next, embedded, cloned>>
    BY <1>4, LocalFrames
  <2>2. pc'[k] \in Late
    <3>1. CASE UNCHANGED pc
      BY <3>1
    <3>2. CASE Crash
      BY <3>2 DEF Crash
    <3>3. ASSUME NEW j \in Jobs, AcceptIndex(j) \/ JobStep(j) PROVE pc'[k] \in Late
      <4>1. CASE PublishIndexed(j)
        BY <4>1 DEF PublishIndexed, Try
      <4>2. CASE MarkFailed(j)
        BY <4>2 DEF MarkFailed
      <4>3. CASE PublishFailed(j)
        BY <4>3 DEF PublishFailed
      <4>4. CASE Cleanup(j)
        BY <4>4 DEF Cleanup
      <4>5. CASE MarkReady(j)
        BY <4>5 DEF MarkReady
      <4>6. CASE UpdateStats(j) \/ CreateCollection(j) \/ CheckCollection(j)
        BY <4>6 DEF UpdateStats, CreateCollection, CheckCollection
      <4>7. CASE AcceptIndex(j) \/ StartCloning(j) \/ LookupRepository(j)
        BY <4>7 DEF AcceptIndex, StartCloning, LookupRepository
      <4>8. CASE MakeCloneDir(j) \/ SaveIndexedFiles(j) \/ StartEmbedding(j)
        BY <4>8 DEF MakeCloneDir, SaveIndexedFiles, StartEmbedding
      <4> QED
        BY <1>4, <3>3, <4>1, <4>2, <4>3, <4>4, <4>5, <4>6, <4>7, <4>8 DEF JobStep
    <3> QED
      BY <3>1, <3>2, <3>3 DEF Next, vars, CreateRepository, Push, AcceptDelete, DeleteStep,
         MarkDeleting, PurgeVectors, DropRow
  <2> QED
    BY <2>1, <2>2
<1> QED
  BY <1>1, <1>2, <1>3, <1>4

(* A job's step changes no other job.                                      *)
LEMMA OthersFrozen ==
  ASSUME TypeOK, NEW j \in Jobs, AcceptIndex(j) \/ JobStep(j), NEW k \in Jobs, k # j
  PROVE  /\ pc'[k] = pc[k] /\ outcome'[k] = outcome[k]
         /\ chunks'[k] = chunks[k] /\ parsed'[k] = parsed[k]
         /\ next'[k] = next[k] /\ embedded'[k] = embedded[k]
         /\ (k \in cloned' <=> k \in cloned) /\ snap'[k] = snap[k]
<1> USE DEF TypeOK, localVars, Goto
<1>1. CASE AcceptIndex(j) \/ StartCloning(j) \/ LookupRepository(j)
  BY <1>1 DEF AcceptIndex, StartCloning, LookupRepository
<1>2. CASE MakeCloneDir(j) \/ SaveIndexedFiles(j) \/ StartEmbedding(j)
  BY <1>2 DEF MakeCloneDir, SaveIndexedFiles, StartEmbedding
<1>3. CASE GitClone(j)
  BY <1>3 DEF GitClone
<1>4. CASE ParseAndChunk(j)
  BY <1>4 DEF ParseAndChunk
<1>5. CASE CheckCollection(j) \/ CreateCollection(j) \/ UpdateStats(j) \/ MarkReady(j)
  BY <1>5 DEF CheckCollection, CreateCollection, UpdateStats, MarkReady
<1>6. CASE EmbedBatch(j)
  BY <1>6 DEF EmbedBatch
<1>7. CASE PublishIndexed(j) \/ PublishFailed(j)
  BY <1>7 DEF PublishIndexed, PublishFailed
<1>8. CASE MarkFailed(j) \/ Cleanup(j)
  BY <1>8 DEF MarkFailed, Cleanup
<1> QED
  BY <1>1, <1>2, <1>3, <1>4, <1>5, <1>6, <1>7, <1>8 DEF JobStep

-----------------------------------------------------------------------------
(* Each part of the inductive invariant is preserved.                      *)

LEMMA LoopStep == TypeOK /\ LoopInv /\ [Next]_vars => LoopInv'
<1> SUFFICES ASSUME TypeOK, LoopInv, [Next]_vars, NEW k \in Jobs PROVE LocalsMatchStep(k)'
  BY DEF LoopInv
<1>0. LocalsMatchStep(k) /\ TypeOK'
  BY TypeStep DEF LoopInv
<1> USE DEF LocalsMatchStep, TypeOK, Early, Preparing, Stored, localVars, Goto, Try
<1>1. CASE AcceptIndex(k)
  BY <1>0, <1>1 DEF AcceptIndex
<1>2. CASE StartCloning(k)
  BY <1>0, <1>2 DEF StartCloning
<1>3. CASE LookupRepository(k)
  BY <1>0, <1>3 DEF LookupRepository
<1>4. CASE MakeCloneDir(k)
  BY <1>0, <1>4 DEF MakeCloneDir
<1>5. CASE GitClone(k)
  BY <1>0, <1>5 DEF GitClone
<1>6. CASE ParseAndChunk(k)
  BY <1>0, <1>6 DEF ParseAndChunk, Least
<1>7. CASE SaveIndexedFiles(k)
  BY <1>0, <1>7 DEF SaveIndexedFiles
<1>8. CASE StartEmbedding(k)
  BY <1>0, <1>8 DEF StartEmbedding
<1>9. CASE CheckCollection(k)
  BY <1>0, <1>9 DEF CheckCollection, NextBatch, Least
<1>10. CASE CreateCollection(k)
  BY <1>0, <1>10 DEF CreateCollection, NextBatch, Least
<1>11. CASE EmbedBatch(k)
  <2> PICK out \in Outcomes : EmbedBatch(k)!(out)
    BY <1>11 DEF EmbedBatch
  <2> DEFINE n == Cardinality(Batch(k))
  <2>1. /\ next[k] \in Nat /\ chunks[k] \in Nat /\ BatchSize \in Nat \ {0}
        /\ pc[k] = "embedding" /\ next[k] < chunks[k] /\ embedded[k] = next[k]
    BY <1>0, BatchAssumption, BoundsAssumption DEF Least
  <2>2. n = Least(next[k] + BatchSize, chunks[k]) - next[k]
    BY <2>1, BatchCardinality DEF Least
  <2> HIDE DEF n
  <2>3. CASE out = "ok"
    <3>1. next'[k] = next[k] + BatchSize
      BY <2>3
    <3>2. embedded'[k] = embedded[k] + n
      BY <2>3 DEF n
    <3>3. embedded'[k] = Least(next'[k], chunks'[k])
      BY <2>1, <2>2, <3>1, <3>2 DEF Least
    <3>4. pc'[k] = IF next'[k] < chunks'[k] THEN "embedding" ELSE "updateStats"
      BY <2>3, <3>1 DEF NextBatch
    <3> QED
      BY <1>0, <2>1, <3>1, <3>3, <3>4
  <2>4. CASE out # "ok"
    BY <1>0, <2>1, <2>4
  <2> QED
    BY <2>3, <2>4
<1>12. CASE UpdateStats(k)
  BY <1>0, <1>12 DEF UpdateStats
<1>13. CASE MarkReady(k)
  BY <1>0, <1>13 DEF MarkReady
<1>14. CASE PublishIndexed(k)
  BY <1>0, <1>14 DEF PublishIndexed
<1>15. CASE MarkFailed(k)
  BY <1>0, <1>15 DEF MarkFailed
<1>16. CASE PublishFailed(k)
  BY <1>0, <1>16 DEF PublishFailed
<1>17. CASE Cleanup(k)
  BY <1>0, <1>17 DEF Cleanup
<1>18. CASE \E j \in Jobs \ {k} : AcceptIndex(j) \/ JobStep(j)
  BY <1>0, <1>18, OthersFrozen
<1>19. CASE Crash
  BY <1>0, <1>19 DEF Crash
<1>20. CASE UNCHANGED <<pc, localVars>>
  BY <1>0, <1>20
<1> QED
  BY <1>1, <1>2, <1>3, <1>4, <1>5, <1>6, <1>7, <1>8, <1>9, <1>10, <1>11, <1>12, <1>13, <1>14,
     <1>15, <1>16, <1>17, <1>18, <1>19, <1>20
  DEF Next, JobStep, vars, CreateRepository, Push, AcceptDelete, DeleteStep, MarkDeleting,
      PurgeVectors, DropRow

(* A job that neither plans nor embeds in a step keeps its plan and progress. *)
LEMMA PlanKept ==
  ASSUME TypeOK, [Next]_vars, NEW k \in Jobs, ~ParseAndChunk(k), ~EmbedBatch(k)
  PROVE  chunks'[k] = chunks[k] /\ next'[k] = next[k] /\ embedded'[k] = embedded[k]
<1>1. CASE \E j \in Jobs : ParseAndChunk(j) \/ EmbedBatch(j)
  BY <1>1, OthersFrozen DEF JobStep
<1>2. CASE \A j \in Jobs : ~ParseAndChunk(j) /\ ~EmbedBatch(j)
  BY <1>2, LocalFrames
<1> QED
  BY <1>1, <1>2

LEMMA VectorsStep == TypeOK /\ LoopInv /\ VectorsAccounted /\ [Next]_vars => VectorsAccounted'
<1> SUFFICES ASSUME TypeOK, LoopInv, VectorsAccounted, [Next]_vars, NEW k \in Jobs
             PROVE  /\ ~MayBePurged(JobRepo[k])' => PointsOf(k, embedded[k])' \subseteq points'
                    /\ \A p \in points' : p[1] = k =>
                         p[2] \in 1 .. Least(next'[k] + BatchSize, chunks'[k])
  BY DEF VectorsAccounted, PointsOf
<1> DEFINE bound == Least(next[k] + BatchSize, chunks[k])
<1>1. /\ ~MayBePurged(JobRepo[k]) => PointsOf(k, embedded[k]) \subseteq points
      /\ \A p \in points : p[1] = k => p[2] \in 1 .. bound
  BY DEF VectorsAccounted
<1>2. /\ next[k] \in Nat /\ chunks[k] \in Nat /\ BatchSize \in Nat \ {0}
      /\ embedded[k] = Least(next[k], chunks[k]) /\ JobRepo[k] \in Repos
  BY BatchAssumption, BoundsAssumption, ReposAssumption
  DEF TypeOK, LoopInv, LocalsMatchStep
<1>3. ~MayBePurged(JobRepo[k])' => PointsOf(k, embedded[k]) \subseteq points'
  <2> SUFFICES ASSUME ~MayBePurged(JobRepo[k])', NEW p \in PointsOf(k, embedded[k])
               PROVE  p \in points'
    OBVIOUS
  <2>1. p \in points
    BY <1>1, <1>2, PurgeMonotone
  <2>2. p[1] = k
    BY DEF PointsOf
  <2> QED
    BY <2>1, <2>2, PointsKept
<1>4. ASSUME ~ParseAndChunk(k), ~EmbedBatch(k) PROVE
        /\ ~MayBePurged(JobRepo[k])' => PointsOf(k, embedded[k])' \subseteq points'
        /\ \A p \in points' : p[1] = k =>
             p[2] \in 1 .. Least(next'[k] + BatchSize, chunks'[k])
  <2>1. chunks'[k] = chunks[k] /\ next'[k] = next[k] /\ embedded'[k] = embedded[k]
    BY <1>4, PlanKept
  <2>2. ASSUME NEW p \in points', p[1] = k PROVE p \in points
    <3>1. CASE \E j \in Jobs : EmbedBatch(j)
      BY <1>4, <2>2, <3>1 DEF EmbedBatch
    <3>2. CASE \E d \in Deletes : PurgeVectors(d)
      BY <2>2, <3>2 DEF PurgeVectors
    <3> QED
      BY <2>2, <3>1, <3>2, StoreFrames
  <2> QED
    BY <1>1, <1>3, <2>1, <2>2 DEF PointsOf
<1>5. CASE ParseAndChunk(k)
  <2>1. /\ chunks[k] = 0 /\ next[k] = 0 /\ embedded[k] = 0
        /\ next'[k] = 0 /\ embedded'[k] = 0 /\ points' = points
    BY <1>2, <1>5 DEF ParseAndChunk, Goto, LoopInv, LocalsMatchStep, Early, Least
  <2>2. \A p \in points : p[1] # k
    BY <1>1, <1>2, <2>1 DEF Least
  <2>3. PointsOf(k, embedded[k])' = {}
    BY <2>1 DEF PointsOf
  <2> QED
    BY <2>1, <2>2, <2>3
<1>6. CASE EmbedBatch(k)
  <2> PICK out \in Outcomes : EmbedBatch(k)!(out)
    BY <1>6 DEF EmbedBatch
  <2>1. next[k] < chunks[k] /\ embedded[k] = next[k] /\ chunks'[k] = chunks[k]
    BY <1>2 DEF Goto, LoopInv, LocalsMatchStep, Least
  <2>2. next'[k] = next[k] \/ next'[k] = next[k] + BatchSize
    BY DEF TypeOK
  <2>3. next'[k] \in Nat /\ bound <= Least(next'[k] + BatchSize, chunks'[k])
    BY <1>2, <2>1, <2>2 DEF Least
  <2>4. \A p \in points' : p[1] = k => p[2] \in 1 .. bound
    <3>1. \A i \in Batch(k) : i \in 1 .. bound
      BY <1>2 DEF Batch, Least
    <3> QED
      BY <1>1, <3>1
  <2>5. ASSUME ~MayBePurged(JobRepo[k])' PROVE PointsOf(k, embedded[k])' \subseteq points'
    <3>1. CASE out # "ok"
      BY <1>3, <2>5, <3>1 DEF PointsOf
    <3>2. CASE out = "ok"
      <4>1. embedded'[k] = bound
        <5>1. embedded'[k] = embedded[k] + Cardinality(Batch(k))
          BY <3>2 DEF TypeOK
        <5> QED
          BY <1>2, <2>1, <5>1, BatchCardinality DEF Least
      <4>2. 1 .. bound = (1 .. embedded[k]) \cup Batch(k)
        BY <1>2, <2>1 DEF Batch, Least
      <4>3. {k} \X Batch(k) \subseteq points'
        BY <3>2 DEF Applied
      <4> QED
        BY <1>3, <2>5, <4>1, <4>2, <4>3 DEF PointsOf
    <3> QED
      BY <3>1, <3>2
  <2> QED
    BY <1>2, <2>1, <2>3, <2>4, <2>5 DEF Least
<1> QED
  BY <1>4, <1>5, <1>6

(* Only MarkReady writes "ready".                                          *)
LEMMA ReadyWriter ==
  ASSUME TypeOK, [Next]_vars, NEW r \in Repos, status'[r] = "ready", status[r] # "ready"
  PROVE  \E j \in JobsOf(r) : MarkReady(j)
<1> USE DEF TypeOK, vars, storeVars, rowVars, UpdateStatus
<1>1. CASE \E j \in Jobs : MarkReady(j)
  BY <1>1, ReposAssumption DEF MarkReady, JobsOf
<1>2. CASE \E j \in Jobs : StartCloning(j) \/ ParseAndChunk(j) \/ StartEmbedding(j)
  BY <1>2, ReposAssumption DEF StartCloning, ParseAndChunk, StartEmbedding
<1>3. CASE \E j \in Jobs : MarkFailed(j)
  BY <1>3, ReposAssumption DEF MarkFailed
<1>4. CASE \E d \in Deletes : MarkDeleting(d) \/ DropRow(d)
  BY <1>4, ReposAssumption DEF MarkDeleting, DropRow
<1>5. CASE \E x \in Repos : CreateRepository(x)
  BY <1>5 DEF CreateRepository
<1>6. CASE UNCHANGED status
  BY <1>6
<1> QED
  BY <1>1, <1>2, <1>3, <1>4, <1>5, <1>6
  DEF Next, JobStep, DeleteStep, Crash, Push, AcceptIndex, AcceptDelete, PurgeVectors,
      LookupRepository, MakeCloneDir, GitClone, SaveIndexedFiles, CheckCollection,
      CreateCollection, EmbedBatch, UpdateStats, PublishIndexed, PublishFailed, Cleanup

LEMMA ReadyStep ==
  TypeOK /\ LoopInv /\ VectorsAccounted /\ ReadyInv /\ [Next]_vars => ReadyInv'
<1> SUFFICES ASSUME TypeOK, LoopInv, VectorsAccounted, ReadyInv, [Next]_vars,
                    NEW r \in Repos, status'[r] = "ready"
             PROVE  \E j \in JobsOf(r) :
                      /\ pc'[j] \in Late /\ j \in cloned' /\ embedded'[j] = chunks'[j]
                      /\ MayBePurged(r)' \/ PointsOf(j, chunks[j])' \subseteq points'
  BY DEF ReadyInv, JobsOf
<1>1. PICK j \in JobsOf(r) :
        /\ j \in cloned /\ embedded[j] = chunks[j]
        /\ pc[j] \in Late \/ (MarkReady(j) /\ pc'[j] \in Late)
        /\ MayBePurged(r) \/ PointsOf(j, chunks[j]) \subseteq points
  <2>1. CASE status[r] = "ready"
    BY <2>1 DEF ReadyInv
  <2>2. CASE status[r] # "ready"
    <3>1. PICK j \in JobsOf(r) : MarkReady(j)
      BY <2>2, ReadyWriter
    <3>2. /\ j \in Jobs /\ pc[j] = "markReady" /\ next[j] \in Nat /\ chunks[j] \in Nat
          /\ next[j] >= chunks[j] /\ j \in cloned /\ embedded[j] = Least(next[j], chunks[j])
      BY <3>1, BoundsAssumption
      DEF JobsOf, MarkReady, Goto, TypeOK, LoopInv, LocalsMatchStep, Stored
    <3>3. embedded[j] = chunks[j]
      BY <3>2 DEF Least
    <3>4. pc'[j] \in Late
      BY <3>1, <3>2 DEF MarkReady, Goto, Try, Late, TypeOK
    <3>5. MayBePurged(r) \/ PointsOf(j, chunks[j]) \subseteq points
      BY <3>2, <3>3 DEF VectorsAccounted, JobsOf
    <3> QED
      BY <3>1, <3>2, <3>3, <3>4, <3>5
  <2> QED
    BY <2>1, <2>2
<1>2. j \in Jobs /\ JobRepo[j] = r
  BY DEF JobsOf
<1>3. /\ pc'[j] \in Late /\ j \in cloned'
      /\ chunks'[j] = chunks[j] /\ embedded'[j] = embedded[j]
  <2>1. CASE pc[j] \in Late
    BY <1>1, <1>2, <2>1, LateFrozen
  <2>2. CASE MarkReady(j) /\ pc'[j] \in Late
    BY <1>1, <2>2 DEF MarkReady, localVars
  <2> QED
    BY <1>1, <2>1, <2>2
<1>4. MayBePurged(r)' \/ PointsOf(j, chunks[j])' \subseteq points'
  <2>1. CASE MayBePurged(r)
    BY <2>1, PurgeMonotone
  <2>2. CASE ~MayBePurged(r)' /\ PointsOf(j, chunks[j]) \subseteq points
    <3>1. \A p \in PointsOf(j, chunks[j]) : p[1] = j
      BY DEF PointsOf
    <3>2. PointsOf(j, chunks[j]) \subseteq points'
      BY <1>2, <2>2, <3>1, PointsKept
    <3> QED
      BY <1>3, <3>2 DEF PointsOf
  <2> QED
    BY <1>1, <2>1, <2>2
<1> QED
  BY <1>1, <1>3, <1>4

(* A job that has written its statistics keeps its place behind them, its plan *)
(* and its progress.                                                       *)
LEMMA CountedFrozen ==
  ASSUME TypeOK, [Next]_vars, NEW k \in Jobs, pc[k] \in Late \cup {"markReady"}
  PROVE  /\ pc'[k] \in Late \cup {"markReady"}
         /\ chunks'[k] = chunks[k] /\ embedded'[k] = embedded[k]
<1>1. CASE pc[k] \in Late
  BY <1>1, LateFrozen
<1>2. CASE pc[k] = "markReady"
  <2> USE DEF TypeOK, Late, Over, localVars
  <2>1. CASE \E i \in Jobs \ {k} : AcceptIndex(i) \/ JobStep(i)
    BY <1>2, <2>1, OthersFrozen
  <2>2. CASE AcceptIndex(k) \/ JobStep(k)
    <3>1. MarkReady(k)
      BY <1>2, <2>2 DEF JobStep, AcceptIndex, StartCloning, LookupRepository, MakeCloneDir,
         GitClone, ParseAndChunk, SaveIndexedFiles, StartEmbedding, CheckCollection,
         CreateCollection, EmbedBatch, UpdateStats, PublishIndexed, MarkFailed,
         PublishFailed, Cleanup, Goto
    <3> QED
      BY <3>1 DEF MarkReady, Goto, Try
  <2>3. CASE Crash
    BY <1>2, <2>3 DEF Crash, Running
  <2>4. CASE UNCHANGED <<pc, localVars>>
    BY <1>2, <2>4
  <2> QED
    BY <2>1, <2>2, <2>3, <2>4
    DEF Next, vars, CreateRepository, Push, AcceptDelete, DeleteStep, MarkDeleting,
        PurgeVectors, DropRow
<1> QED
  BY <1>1, <1>2

LEMMA StatsStep == TypeOK /\ LoopInv /\ StatsInv /\ [Next]_vars => StatsInv'
<1> SUFFICES ASSUME TypeOK, LoopInv, StatsInv, [Next]_vars, NEW r \in Repos
             PROVE  /\ stats'[r].embedded = stats'[r].chunks
                    /\ stats'[r].chunks # 0 =>
                         \E j \in JobsOf(r) :
                           /\ pc'[j] \in Late \cup {"markReady"} /\ embedded'[j] = chunks'[j]
                           /\ stats'[r].chunks = chunks'[j]
  BY DEF StatsInv, JobsOf
<1>1. CASE stats'[r] = stats[r]
  <2>1. CASE stats[r].chunks # 0
    <3>1. PICK j \in JobsOf(r) :
            /\ pc[j] \in Late \cup {"markReady"} /\ embedded[j] = chunks[j]
            /\ stats[r].chunks = chunks[j]
      BY <2>1 DEF StatsInv
    <3>2. j \in Jobs
      BY DEF JobsOf
    <3> QED
      BY <1>1, <3>1, <3>2, CountedFrozen DEF StatsInv
  <2> QED
    BY <1>1, <2>1 DEF StatsInv
<1>2. CASE \E d \in Deletes : DropRow(d)
  <2>1. stats'[r] = stats[r] \/ stats'[r] = [chunks |-> 0, embedded |-> 0]
    BY <1>2, ReposAssumption DEF DropRow, rowVars, TypeOK
  <2> QED
    BY <1>1, <2>1
<1>3. ASSUME NEW j \in Jobs, UpdateStats(j), stats'[r] # stats[r] PROVE
        /\ stats'[r].embedded = stats'[r].chunks
        /\ j \in JobsOf(r) /\ pc'[j] \in Late \cup {"markReady"}
        /\ embedded'[j] = chunks'[j] /\ stats'[r].chunks = chunks'[j]
  <2>1. /\ JobRepo[j] = r /\ pc[j] = "updateStats" /\ UNCHANGED <<chunks, embedded>>
        /\ stats'[r] = [chunks |-> chunks[j], embedded |-> embedded[j]]
        /\ pc'[j] \in {"markReady", "markFailed"}
    BY <1>3, ReposAssumption DEF UpdateStats, Goto, Try, localVars, TypeOK
  <2>2. embedded[j] = chunks[j]
    <3>1. /\ next[j] \in Nat /\ chunks[j] \in Nat /\ next[j] >= chunks[j]
          /\ embedded[j] = Least(next[j], chunks[j])
      BY <2>1, BoundsAssumption DEF TypeOK, LoopInv, LocalsMatchStep, Stored
    <3> QED
      BY <3>1 DEF Least
  <2> QED
    BY <2>1, <2>2 DEF JobsOf, Late
<1> QED
  BY <1>1, <1>2, <1>3, StoreFrames

(* The ways out: from publishing success to failing or cleaning up, from     *)
(* failing to cleaning up, and never back.                                 *)
LEMMA LateMoves ==
  ASSUME TypeOK, [Next]_vars, NEW k \in Jobs, pc[k] \in Late \ {"publishIndexed"}
  PROVE  /\ pc'[k] \in Late \ {"publishIndexed"}
         /\ pc'[k] \in {"markFailed", "publishFailed"} => pc[k] \in {"markFailed", "publishFailed"}
         /\ pc[k] \in Over => pc'[k] \in Over
<1> USE DEF TypeOK, Late, Over, Goto
<1>1. CASE pc'[k] = pc[k]
  BY <1>1
<1>2. CASE Crash
  BY <1>2 DEF Crash
<1>3. CASE MarkFailed(k)
  BY <1>3 DEF MarkFailed
<1>4. CASE PublishFailed(k)
  BY <1>4 DEF PublishFailed
<1>5. CASE Cleanup(k)
  BY <1>5 DEF Cleanup
<1>6. CASE \E j \in Jobs : AcceptIndex(j) \/ JobStep(j)
  <2>1. PICK j \in Jobs : AcceptIndex(j) \/ JobStep(j)
    BY <1>6
  <2>2. CASE j # k
    BY <1>1, <2>1, <2>2, OthersFrozen
  <2>3. CASE j = k
    <3>1. MarkFailed(k) \/ PublishFailed(k) \/ Cleanup(k)
      BY <2>1, <2>3 DEF JobStep, AcceptIndex, StartCloning, LookupRepository, MakeCloneDir,
         GitClone, ParseAndChunk, SaveIndexedFiles, StartEmbedding, CheckCollection,
         CreateCollection, EmbedBatch, UpdateStats, MarkReady, PublishIndexed
    <3> QED
      BY <1>3, <1>4, <1>5, <3>1
  <2> QED
    BY <2>2, <2>3
<1> QED
  BY <1>1, <1>2, <1>6
  DEF Next, vars, CreateRepository, Push, AcceptDelete, DeleteStep, MarkDeleting,
      PurgeVectors, DropRow

(* An event is new only when its job publishes it, with the type and count of  *)
(* that call.                                                              *)
LEMMA NewEvent ==
  ASSUME [Next]_vars, NEW e \in events', e \notin events
  PROVE  \E j \in Jobs :
           \/ PublishIndexed(j) /\ e = [type |-> "indexed", job |-> j, count |-> embedded[j]]
           \/ PublishFailed(j) /\ e = [type |-> "failed", job |-> j, count |-> 0]
<1>1. PICK j \in Jobs : PublishIndexed(j) \/ PublishFailed(j)
  BY StoreFrames
<1> QED
  BY <1>1 DEF PublishIndexed, PublishFailed, Publish

LEMMA EventsStep ==
  /\ TypeOK /\ LoopInv /\ VectorsAccounted /\ EventsTruthful /\ EventsInv /\ [Next]_vars
  => EventsTruthful' /\ EventsInv'
<1> SUFFICES ASSUME TypeOK, LoopInv, VectorsAccounted, EventsTruthful, EventsInv, [Next]_vars
             PROVE  EventsTruthful' /\ EventsInv'
  OBVIOUS
<1>0. \A e \in events : e.job \in Jobs /\ JobRepo[e.job] \in Repos
  BY ReposAssumption DEF TypeOK, Event
<1>1. ASSUME NEW j \in Jobs, PublishIndexed(j) PROVE
        /\ pc[j] = "publishIndexed" /\ embedded[j] = chunks[j]
        /\ chunks' = chunks /\ points' = points /\ dpc' = dpc
  BY <1>1, BoundsAssumption
  DEF PublishIndexed, Goto, Try, Outcomes, TypeOK, LoopInv, LocalsMatchStep, Stored, Least
<1>2. EventsInv'
  <2> SUFFICES ASSUME NEW e \in events' PROVE
                 /\ e.type = "indexed" =>
                      /\ pc'[e.job] \in Late \ {"publishIndexed"}
                      /\ pc'[e.job] \in {"markFailed", "publishFailed"} => "lost" \in Faults
                 /\ e.type = "failed" => pc'[e.job] \in Over /\ e.count = 0
    BY DEF EventsInv
  <2>1. CASE e \in events
    BY <1>0, <2>1, LateMoves DEF EventsInv, Late, Over
  <2>2. ASSUME NEW j \in Jobs, PublishIndexed(j),
               e = [type |-> "indexed", job |-> j, count |-> embedded[j]], e \notin events
        PROVE  /\ e.type = "indexed" =>
                    /\ pc'[e.job] \in Late \ {"publishIndexed"}
                    /\ pc'[e.job] \in {"markFailed", "publishFailed"} => "lost" \in Faults
               /\ e.type = "failed" => pc'[e.job] \in Over /\ e.count = 0
    <3>1. PICK out \in Outcomes : PublishIndexed(j)!(out)
      BY <2>2 DEF PublishIndexed
    <3>2. out # "error"
      BY <2>2, <3>1 DEF Publish, Applied
    <3>3. pc'[j] = IF out = "ok" THEN "cleanup" ELSE "markFailed"
      BY <3>1 DEF Goto, Try, TypeOK
    <3> QED
      BY <2>2, <3>2, <3>3, FaultsAssumption DEF Outcomes, Late, Over
  <2>3. ASSUME NEW j \in Jobs, PublishFailed(j),
               e = [type |-> "failed", job |-> j, count |-> 0]
        PROVE  /\ e.type # "indexed" /\ pc'[e.job] \in Over /\ e.count = 0
    BY <2>3 DEF PublishFailed, Goto, TypeOK, Over
  <2> QED
    BY <2>1, <2>2, <2>3, NewEvent
<1>3. ASSUME NEW e \in events', e.type = "indexed" PROVE
        /\ e.count = chunks'[e.job]
        /\ MayBePurged(JobRepo[e.job])' \/ PointsOf(e.job, e.count) \subseteq points'
  <2>1. CASE e \in events
    <3>1. e.job \in Jobs /\ pc[e.job] \in Late
      BY <1>0, <1>3, <2>1 DEF EventsInv
    <3>2. e.count = chunks'[e.job]
      BY <1>3, <2>1, <3>1, LateFrozen DEF EventsTruthful
    <3>3. MayBePurged(JobRepo[e.job]) => MayBePurged(JobRepo[e.job])'
      BY <1>0, <2>1, PurgeMonotone
    <3>4. ASSUME ~MayBePurged(JobRepo[e.job])', PointsOf(e.job, e.count) \subseteq points,
                 NEW p \in PointsOf(e.job, e.count)
          PROVE  p \in points'
      BY <3>4, PointsKept DEF PointsOf
    <3> QED
      BY <1>3, <2>1, <3>2, <3>3, <3>4 DEF EventsTruthful
  <2>2. CASE e \notin events
    <3>1. PICK j \in Jobs : PublishIndexed(j) /\ e.job = j /\ e.count = embedded[j]
      BY <1>3, <2>2, NewEvent
    <3>2. MayBePurged(JobRepo[j]) \/ PointsOf(j, embedded[j]) \subseteq points
      BY DEF VectorsAccounted
    <3> QED
      BY <1>1, <3>1, <3>2 DEF MayBePurged
  <2> QED
    BY <2>1, <2>2
<1>4. ASSUME NEW e \in events', NEW f \in events',
             e.type = "indexed", f.type = "failed", f.job = e.job
      PROVE  "lost" \in Faults
  <2>1. CASE e \in events /\ f \in events
    BY <1>4, <2>1 DEF EventsTruthful
  <2>2. CASE e \notin events /\ f \in events
    <3>1. PublishIndexed(e.job)
      BY <1>4, <2>2, NewEvent
    <3> QED
      BY <1>0, <1>1, <1>4, <2>2, <3>1 DEF EventsInv, Over
  <2>3. CASE f \notin events /\ e \in events
    <3>1. PublishFailed(e.job)
      BY <1>4, <2>3, NewEvent
    <3> QED
      BY <1>4, <2>3, <3>1 DEF EventsInv, PublishFailed, Goto
  <2>4. CASE e \notin events /\ f \notin events
    <3>1. PublishIndexed(e.job) /\ PublishFailed(e.job)
      BY <1>4, <2>4, NewEvent
    <3> QED
      BY <3>1 DEF PublishIndexed, PublishFailed, Goto
  <2> QED
    BY <2>1, <2>2, <2>3, <2>4
<1> QED
  BY <1>2, <1>3, <1>4 DEF EventsTruthful, PointsOf

LEMMA OutcomeStep ==
  TypeOK /\ EventsInv /\ OutcomeInv /\ [Next]_vars => OutcomeInv'
<1> SUFFICES ASSUME TypeOK, EventsInv, OutcomeInv, [Next]_vars, NEW k \in Jobs
             PROVE  /\ pc'[k] \notin Over => outcome'[k] = "none"
                    /\ pc'[k] \in {"cleanup", "ended"} =>
                         /\ outcome'[k] # "none"
                         /\ outcome'[k] = "ready" =>
                              /\ \E e \in events' : e.job = k /\ e.type = "indexed"
                              /\ \A e \in events' : e.job = k => e.type = "indexed"
                         /\ outcome'[k] = "failed" =>
                              \E e \in events' : e.job = k /\ e.type = "failed"
  BY DEF OutcomeInv
<1> USE DEF Over
<1>1. events \subseteq events'
  BY StoreFrames DEF PublishIndexed, PublishFailed, Publish
<1>2. CASE PublishIndexed(k)
  <2> PICK out \in Outcomes : PublishIndexed(k)!(out)
    BY <1>2 DEF PublishIndexed
  <2>1. /\ pc[k] = "publishIndexed" /\ outcome[k] = "none"
        /\ pc'[k] = IF out = "ok" THEN "cleanup" ELSE "markFailed"
    BY DEF Goto, Try, TypeOK, OutcomeInv
  <2>2. CASE out # "ok"
    BY <2>1, <2>2
  <2>3. CASE out = "ok"
    <3>1. outcome'[k] = "ready"
      BY <2>3 DEF TypeOK
    <3>2. events' = events \cup {[type |-> "indexed", job |-> k, count |-> embedded[k]]}
      BY <2>3 DEF Publish, Applied
    <3>3. \A e \in events : e.job = k => e.type = "indexed"
      BY <2>1 DEF EventsInv, TypeOK, Event
    <3>4. \A e \in events' : e.job = k => e.type = "indexed"
      BY <3>2, <3>3
    <3>5. \E e \in events' : e.job = k /\ e.type = "indexed"
      <4> DEFINE ev == [type |-> "indexed", job |-> k, count |-> embedded[k]]
      <4>1. ev \in events' /\ ev.job = k /\ ev.type = "indexed"
        BY <3>2
      <4> QED
        BY <4>1
    <3>6. pc'[k] = "cleanup"
      BY <2>1, <2>3
    <3> HIDE DEF Over
    <3> QED
      BY <3>1, <3>4, <3>5, <3>6 DEF Over
  <2> QED
    BY <2>2, <2>3
<1>3. CASE PublishFailed(k)
  <2> PICK out \in Outcomes : PublishFailed(k)!(out)
    BY <1>3 DEF PublishFailed
  <2>1. pc'[k] = "cleanup" /\ outcome'[k] = IF out = "ok" THEN "failed" ELSE "raised"
    BY DEF Goto, TypeOK
  <2>2. out = "ok" => [type |-> "failed", job |-> k, count |-> 0] \in events'
    BY DEF Publish, Applied
  <2> QED
    BY <2>1, <2>2
<1>4. CASE MarkFailed(k)
  BY <1>4 DEF MarkFailed, Goto, TypeOK, OutcomeInv
<1>5. CASE ~PublishIndexed(k) /\ ~PublishFailed(k) /\ ~MarkFailed(k)
  <2>1. outcome'[k] = outcome[k]
    <3>1. CASE \E j \in Jobs \ {k} : AcceptIndex(j) \/ JobStep(j)
      BY <3>1, OthersFrozen
    <3>2. CASE \A j \in Jobs \ {k} : ~(AcceptIndex(j) \/ JobStep(j))
      BY <1>5, <3>2, StoreFrames DEF JobStep
    <3> QED
      BY <3>1, <3>2
  <2>2. \A e \in events' : e.job = k => e \in events
    BY <1>5, NewEvent
  <2>3. pc'[k] = pc[k] \/ Cleanup(k) \/ (pc[k] \notin Over /\ pc'[k] \notin Over) \/ pc'[k] = "dead"
    <3>1. CASE \E j \in Jobs \ {k} : AcceptIndex(j) \/ JobStep(j)
      BY <3>1, OthersFrozen
    <3>2. CASE AcceptIndex(k) \/ JobStep(k)
      <4>1. CASE AcceptIndex(k) \/ StartCloning(k) \/ LookupRepository(k) \/ MakeCloneDir(k)
        BY <4>1 DEF AcceptIndex, StartCloning, LookupRepository, MakeCloneDir, Goto, Try, TypeOK
      <4>2. CASE GitClone(k) \/ ParseAndChunk(k) \/ SaveIndexedFiles(k) \/ StartEmbedding(k)
        BY <4>2 DEF GitClone, ParseAndChunk, SaveIndexedFiles, StartEmbedding, Goto, Try, TypeOK
      <4>3. CASE CheckCollection(k) \/ CreateCollection(k) \/ EmbedBatch(k)
        BY <4>3 DEF CheckCollection, CreateCollection, EmbedBatch, NextBatch, Goto, Try, TypeOK
      <4>4. CASE UpdateStats(k) \/ MarkReady(k)
        BY <4>4 DEF UpdateStats, MarkReady, Goto, Try, TypeOK
      <4> QED
        BY <1>5, <3>2, <4>1, <4>2, <4>3, <4>4 DEF JobStep
    <3>3. CASE Crash
      BY <3>3 DEF Crash
    <3> QED
      BY <3>1, <3>2, <3>3
      DEF Next, vars, CreateRepository, Push, AcceptDelete, DeleteStep, MarkDeleting,
          PurgeVectors, DropRow
  <2>4. Cleanup(k) => pc[k] = "cleanup" /\ pc'[k] = "ended"
    BY DEF Cleanup, Goto, TypeOK
  <2> QED
    BY <1>1, <2>1, <2>2, <2>3, <2>4 DEF OutcomeInv
<1> QED
  BY <1>2, <1>3, <1>4, <1>5

(* A status that appears in a step is written by a job's or a deletion's call,  *)
(* or is the first one of a new row.                                       *)
LEMMA TransientWriter ==
  ASSUME TypeOK, [Next]_vars, NEW r \in Repos, status'[r] \in Transient
  PROVE  \/ status[r] = status'[r]
         \/ \E j \in JobsOf(r) : StartCloning(j) \/ ParseAndChunk(j) \/ StartEmbedding(j)
<1> USE DEF TypeOK, vars, storeVars, rowVars, UpdateStatus, Transient
<1>1. CASE \E j \in Jobs : MarkReady(j) \/ MarkFailed(j)
  BY <1>1, ReposAssumption DEF MarkReady, MarkFailed
<1>2. CASE \E j \in Jobs : StartCloning(j) \/ ParseAndChunk(j) \/ StartEmbedding(j)
  BY <1>2, ReposAssumption DEF StartCloning, ParseAndChunk, StartEmbedding, JobsOf
<1>3. CASE \E d \in Deletes : MarkDeleting(d) \/ DropRow(d)
  BY <1>3, ReposAssumption DEF MarkDeleting, DropRow
<1>4. CASE \E x \in Repos : CreateRepository(x)
  BY <1>4 DEF CreateRepository
<1>5. CASE UNCHANGED status
  BY <1>5
<1> QED
  BY <1>1, <1>2, <1>3, <1>4, <1>5
  DEF Next, JobStep, DeleteStep, Crash, Push, AcceptIndex, AcceptDelete, PurgeVectors,
      LookupRepository, MakeCloneDir, GitClone, SaveIndexedFiles, CheckCollection,
      CreateCollection, EmbedBatch, UpdateStats, PublishIndexed, PublishFailed, Cleanup

LEMMA SettledStep ==
  TypeOK /\ OutcomeInv /\ SettledInv /\ [Next]_vars => SettledInv'
<1> SUFFICES ASSUME TypeOK, OutcomeInv, SettledInv, [Next]_vars,
                    NEW r \in Repos, status'[r] \in Transient
             PROVE  \E j \in JobsOf(r) :
                      pc'[j] \in Unsettled \cup {"dead"} \/ outcome'[j] = "raised"
  BY DEF SettledInv, JobsOf
<1> USE DEF Over
<1>1. ASSUME NEW j \in JobsOf(r), StartCloning(j) \/ ParseAndChunk(j) \/ StartEmbedding(j)
      PROVE  pc'[j] \in Unsettled
  BY <1>1 DEF JobsOf, StartCloning, ParseAndChunk, StartEmbedding, Goto, Try, TypeOK,
     Unsettled
<1>2. CASE status'[r] = status[r]
  <2>1. PICK j \in JobsOf(r) : pc[j] \in Unsettled \cup {"dead"} \/ outcome[j] = "raised"
    BY <1>2 DEF SettledInv
  <2>2. j \in Jobs /\ JobRepo[j] = r
    BY DEF JobsOf
  <2>3. CASE outcome[j] = "raised"
    <3>1. pc[j] \in Over
      BY <2>2, <2>3 DEF OutcomeInv
    <3>2. ~PublishIndexed(j) /\ ~PublishFailed(j) /\ ~MarkFailed(j)
      BY <3>1 DEF PublishIndexed, PublishFailed, MarkFailed, Goto
    <3>3. outcome'[j] = outcome[j]
      <4>1. CASE \E i \in Jobs \ {j} : AcceptIndex(i) \/ JobStep(i)
        BY <2>2, <4>1, OthersFrozen
      <4>2. CASE \A i \in Jobs \ {j} : ~(AcceptIndex(i) \/ JobStep(i))
        BY <3>2, <4>2, StoreFrames DEF JobStep
      <4> QED
        BY <4>1, <4>2
    <3> QED
      BY <2>3, <3>3
  <2>4. CASE pc[j] = "dead"
    <3>1. pc'[j] = "dead"
      <4>1. CASE \E i \in Jobs \ {j} : AcceptIndex(i) \/ JobStep(i)
        BY <2>2, <2>4, <4>1, OthersFrozen
      <4>2. ~AcceptIndex(j) /\ ~JobStep(j)
        BY <2>4 DEF JobStep, AcceptIndex, StartCloning, LookupRepository, MakeCloneDir,
           GitClone, ParseAndChunk, SaveIndexedFiles, StartEmbedding, CheckCollection,
           CreateCollection, EmbedBatch, UpdateStats, MarkReady, PublishIndexed, MarkFailed,
           PublishFailed, Cleanup, Goto
      <4>3. CASE Crash
        BY <2>2, <2>4, <4>3 DEF Crash, Running
      <4> QED
        BY <2>2, <2>4, <4>1, <4>2, <4>3
        DEF Next, vars, CreateRepository, Push, AcceptDelete, DeleteStep, MarkDeleting,
            PurgeVectors, DropRow
    <3> QED
      BY <3>1
  <2>5. CASE pc[j] \in Unsettled
    <3> USE DEF Unsettled, Goto, Try, TypeOK
    <3>1. CASE MarkReady(j)
      <4> PICK out \in Outcomes : MarkReady(j)!(out)
        BY <3>1 DEF MarkReady
      <4>1. CASE out = "ok"
        <5>1. status'[r] = "ready"
          BY <1>2, <2>2, <4>1
          DEF UpdateStatus, Applied, Exists, RepositoryStatus, Transient
        <5> QED
          BY <5>1 DEF Transient
      <4>2. CASE out # "ok"
        BY <2>2, <4>2
      <4> QED
        BY <4>1, <4>2
    <3>2. CASE MarkFailed(j)
      <4> PICK out \in Outcomes : MarkFailed(j)!(out)
        BY <3>2 DEF MarkFailed
      <4>1. CASE out = "ok"
        <5>1. status'[r] = "failed"
          BY <1>2, <2>2, <4>1
          DEF UpdateStatus, Applied, Exists, RepositoryStatus, Transient
        <5> QED
          BY <5>1 DEF Transient
      <4>2. CASE out # "ok"
        BY <2>2, <4>2
      <4> QED
        BY <4>1, <4>2
    <3>3. CASE AcceptIndex(j) \/ StartCloning(j) \/ LookupRepository(j) \/ MakeCloneDir(j)
      BY <2>2, <2>5, <3>3 DEF AcceptIndex, StartCloning, LookupRepository, MakeCloneDir
    <3>4. CASE GitClone(j) \/ ParseAndChunk(j) \/ SaveIndexedFiles(j) \/ StartEmbedding(j)
      BY <2>2, <3>4 DEF GitClone, ParseAndChunk, SaveIndexedFiles, StartEmbedding
    <3>5. CASE CheckCollection(j) \/ CreateCollection(j) \/ EmbedBatch(j) \/ UpdateStats(j)
      BY <2>2, <3>5 DEF CheckCollection, CreateCollection, EmbedBatch, UpdateStats, NextBatch
    <3>6. ~PublishIndexed(j) /\ ~PublishFailed(j) /\ ~Cleanup(j)
      BY <2>5 DEF PublishIndexed, PublishFailed, Cleanup
    <3>7. CASE \E i \in Jobs \ {j} : AcceptIndex(i) \/ JobStep(i)
      BY <2>2, <2>5, <3>7, OthersFrozen
    <3>8. CASE Crash
      BY <2>2, <2>5, <3>8 DEF Crash
    <3>9. CASE UNCHANGED pc
      BY <2>5, <3>9
    <3> QED
      BY <2>2, <3>1, <3>2, <3>3, <3>4, <3>5, <3>6, <3>7, <3>8, <3>9
      DEF Next, JobStep, vars, CreateRepository, Push, AcceptDelete, DeleteStep,
          MarkDeleting, PurgeVectors, DropRow
  <2> QED
    BY <2>1, <2>3, <2>4, <2>5
<1> QED
  BY <1>1, <1>2, TransientWriter DEF JobsOf

(* Only MarkDeleting writes "deleting".                                    *)
LEMMA DeletingWriter ==
  ASSUME TypeOK, [Next]_vars, NEW r \in Repos, status'[r] = "deleting"
  PROVE  status[r] = "deleting" \/ \E d \in Deletes : DelRepo[d] = r /\ MarkDeleting(d)
<1> USE DEF TypeOK, vars, storeVars, rowVars, UpdateStatus
<1>1. CASE \E j \in Jobs : MarkReady(j) \/ MarkFailed(j)
  BY <1>1, ReposAssumption DEF MarkReady, MarkFailed
<1>2. CASE \E j \in Jobs : StartCloning(j) \/ ParseAndChunk(j) \/ StartEmbedding(j)
  BY <1>2, ReposAssumption DEF StartCloning, ParseAndChunk, StartEmbedding
<1>3. CASE \E d \in Deletes : MarkDeleting(d) \/ DropRow(d)
  BY <1>3, ReposAssumption DEF MarkDeleting, DropRow
<1>4. CASE \E x \in Repos : CreateRepository(x)
  BY <1>4 DEF CreateRepository
<1>5. CASE UNCHANGED status
  BY <1>5
<1> QED
  BY <1>1, <1>2, <1>3, <1>4, <1>5
  DEF Next, JobStep, DeleteStep, Crash, Push, AcceptIndex, AcceptDelete, PurgeVectors,
      LookupRepository, MakeCloneDir, GitClone, SaveIndexedFiles, CheckCollection,
      CreateCollection, EmbedBatch, UpdateStats, PublishIndexed, PublishFailed, Cleanup

LEMMA DeletingStep == TypeOK /\ DeletingInv /\ [Next]_vars => DeletingInv'
<1> SUFFICES ASSUME TypeOK, DeletingInv, [Next]_vars, NEW r \in Repos, status'[r] = "deleting"
             PROVE  \E d \in Deletes : DelRepo[d] = r /\ dpc'[d] \in Begun
  BY DEF DeletingInv
<1> USE DEF TypeOK, Begun, GotoD, TryD
<1>1. ASSUME NEW d \in Deletes, DelRepo[d] = r, MarkDeleting(d) PROVE dpc'[d] \in Begun
  BY <1>1 DEF MarkDeleting
<1>2. CASE status[r] = "deleting"
  <2>1. PICK d \in Deletes : DelRepo[d] = r /\ dpc[d] \in Begun
    BY <1>2 DEF DeletingInv
  <2>2. dpc'[d] \in Begun
    <3>1. CASE Crash
      BY <2>1, <3>1 DEF Crash, Deleting
    <3>2. CASE \E e \in Deletes : AcceptDelete(e) \/ MarkDeleting(e) \/ PurgeVectors(e)
      BY <2>1, <3>2 DEF AcceptDelete, MarkDeleting, PurgeVectors
    <3>3. ASSUME NEW e \in Deletes, DropRow(e) PROVE dpc'[d] \in Begun
      <4>1. CASE e = d
        <5> PICK out \in Outcomes : DropRow(d)!(out)
          BY <3>3, <4>1 DEF DropRow
        <5>1. out = "error"
          BY <2>1 DEF Applied
        <5> QED
          BY <2>1, <5>1
      <4>2. CASE e # d
        BY <2>1, <3>3, <4>2 DEF DropRow
      <4> QED
        BY <4>1, <4>2
    <3>4. CASE UNCHANGED dpc
      BY <2>1, <3>4
    <3> QED
      BY <3>1, <3>2, <3>3, <3>4
      DEF Next, vars, DeleteStep, CreateRepository, Push, JobStep, AcceptIndex, StartCloning,
          LookupRepository, MakeCloneDir, GitClone, ParseAndChunk, SaveIndexedFiles,
          StartEmbedding, CheckCollection, CreateCollection, EmbedBatch, UpdateStats,
          MarkReady, PublishIndexed, MarkFailed, PublishFailed, Cleanup
  <2> QED
    BY <2>1, <2>2
<1> QED
  BY <1>1, <1>2, DeletingWriter

LEMMA RowStep == TypeOK /\ RowInv /\ [Next]_vars => RowInv'
<1> SUFFICES ASSUME TypeOK, RowInv, [Next]_vars, NEW r \in Repos, ~Exists(r)'
             PROVE  /\ stats'[r] = [chunks |-> 0, embedded |-> 0]
                    /\ \A f \in Files : fileRows'[r][f] = NoRow
  BY DEF RowInv
<1> USE DEF TypeOK, vars, storeVars, rowVars
<1>1. CASE \E d \in Deletes : DropRow(d) /\ DelRepo[d] = r
  BY <1>1 DEF DropRow, RowInv, Exists
<1>2. CASE ~\E d \in Deletes : DropRow(d) /\ DelRepo[d] = r
  <2>1. ~Exists(r)
    <3>1. CASE \E d \in Deletes : DropRow(d) /\ DelRepo[d] # r
      BY <3>1, ReposAssumption DEF DropRow, Exists
    <3>2. CASE \E j \in Jobs : StartCloning(j) \/ ParseAndChunk(j) \/ StartEmbedding(j)
      BY <3>2, ReposAssumption
      DEF StartCloning, ParseAndChunk, StartEmbedding, UpdateStatus, Exists, RepositoryStatus
    <3>3. CASE \E j \in Jobs : MarkReady(j) \/ MarkFailed(j)
      BY <3>3, ReposAssumption DEF MarkReady, MarkFailed, UpdateStatus, Exists, RepositoryStatus
    <3>4. CASE \E d \in Deletes : MarkDeleting(d)
      BY <3>4, ReposAssumption DEF MarkDeleting, UpdateStatus, Exists, RepositoryStatus
    <3>5. CASE \E x \in Repos : CreateRepository(x)
      BY <3>5 DEF CreateRepository, Exists, RepositoryStatus
    <3>6. CASE UNCHANGED status
      BY <3>6 DEF Exists
    <3> QED
      BY <1>2, <3>1, <3>2, <3>3, <3>4, <3>5, <3>6
      DEF Next, JobStep, DeleteStep, Crash, Push, AcceptIndex, AcceptDelete, PurgeVectors,
          LookupRepository, MakeCloneDir, GitClone, SaveIndexedFiles, CheckCollection,
          CreateCollection, EmbedBatch, UpdateStats, PublishIndexed, PublishFailed, Cleanup
  <2>2. stats'[r] = stats[r]
    <3>1. CASE \E j \in Jobs : UpdateStats(j)
      BY <2>1, <3>1, ReposAssumption DEF UpdateStats
    <3>2. CASE \E d \in Deletes : DropRow(d)
      BY <1>2, <3>2, ReposAssumption DEF DropRow
    <3> QED
      BY <3>1, <3>2, StoreFrames
  <2>3. fileRows'[r] = fileRows[r]
    <3>1. CASE \E j \in Jobs : SaveIndexedFiles(j)
      BY <2>1, <3>1, ReposAssumption DEF SaveIndexedFiles
    <3>2. CASE \E d \in Deletes : DropRow(d)
      BY <1>2, <3>2, ReposAssumption DEF DropRow
    <3> QED
      BY <3>1, <3>2, StoreFrames
  <2> QED
    BY <2>1, <2>2, <2>3 DEF RowInv
<1> QED
  BY <1>1, <1>2
(* What a job parsed, and from which clone, no longer changes once it is set. *)
LEMMA HashStep ==
  TypeOK /\ LoopInv /\ HashesFromClones /\ [Next]_vars => HashesFromClones'
<1> SUFFICES ASSUME TypeOK, LoopInv, HashesFromClones, [Next]_vars,
                    NEW r \in Repos, NEW f \in Files, fileRows'[r][f] # NoRow
             PROVE  \E j \in JobsOf(r) :
                      f \in parsed'[j] /\ snap'[j] = fileRows'[r][f] /\ j \in cloned'
  BY DEF HashesFromClones, JobsOf
<1>1. ASSUME NEW j \in Jobs, f \in parsed[j], j \in cloned
      PROVE  f \in parsed'[j] /\ snap'[j] = snap[j] /\ j \in cloned'
  <2>1. pc[j] \notin Early
    BY <1>1 DEF LoopInv, LocalsMatchStep
  <2>2. ~ParseAndChunk(j) /\ ~GitClone(j)
    BY <2>1 DEF Early, ParseAndChunk, GitClone, Goto
  <2>3. CASE \E i \in Jobs \ {j} : AcceptIndex(i) \/ JobStep(i)
    BY <1>1, <2>3, OthersFrozen
  <2>4. CASE \A i \in Jobs \ {j} : ~(AcceptIndex(i) \/ JobStep(i))
    BY <1>1, <2>2, <2>4, LocalFrames DEF JobStep
  <2> QED
    BY <2>3, <2>4
<1>2. CASE fileRows'[r][f] = fileRows[r][f]
  <2>1. PICK j \in JobsOf(r) : f \in parsed[j] /\ snap[j] = fileRows[r][f] /\ j \in cloned
    BY <1>2 DEF HashesFromClones
  <2> QED
    BY <1>1, <1>2, <2>1 DEF JobsOf
<1>3. CASE \E d \in Deletes : DropRow(d)
  <2>1. fileRows'[r] = fileRows[r] \/ fileRows'[r] = [x \in Files |-> NoRow]
    BY <1>3, ReposAssumption DEF DropRow, rowVars, TypeOK
  <2> QED
    BY <1>2, <2>1
<1>4. ASSUME NEW j \in Jobs, SaveIndexedFiles(j), fileRows'[r][f] # fileRows[r][f]
      PROVE  j \in JobsOf(r) /\ f \in parsed[j] /\ j \in cloned /\ snap[j] = fileRows'[r][f]
  <2>1. pc[j] = "saving" /\ j \in cloned
    BY <1>4 DEF SaveIndexedFiles, Goto, LoopInv, LocalsMatchStep, Preparing
  <2> DEFINE row == [x \in Files |->
        IF fileRows[JobRepo[j]][x] = NoRow /\ x \in parsed[j]
        THEN snap[j] ELSE fileRows[JobRepo[j]][x]]
  <2>2. fileRows' = [fileRows EXCEPT ![JobRepo[j]] = row]
    BY <1>4 DEF SaveIndexedFiles
  <2>3. JobRepo[j] = r /\ fileRows'[r] = row
    BY <1>4, <2>2, ReposAssumption DEF TypeOK
  <2>4. f \in parsed[j] /\ fileRows'[r][f] = snap[j]
    BY <1>4, <2>3
  <2> QED
    BY <2>1, <2>3, <2>4 DEF JobsOf
<1> QED
  BY <1>1, <1>2, <1>3, <1>4, StoreFrames DEF JobsOf

(* A directory appears when its job starts git, and a job that ends removes it if *)
(* it knows of it.                                                         *)
LEMMA CloneStep ==
  TypeOK /\ ClonesReclaimed /\ [Next]_vars => ClonesReclaimed'
<1> SUFFICES ASSUME TypeOK, ClonesReclaimed, [Next]_vars, NEW k \in dirs'
             PROVE  \/ Running(k)' \/ pc'[k] = "dead"
                    \/ pc'[k] = "ended" /\ k \notin cloned'
  BY DEF ClonesReclaimed
<1> USE DEF TypeOK
<1>1. CASE \E j \in Jobs : MakeCloneDir(j) /\ k \notin dirs
  BY <1>1 DEF MakeCloneDir, Goto, Running
<1>2. CASE k \in dirs
  <2>0. k \in Jobs /\ (Running(k) \/ pc[k] = "dead" \/ (pc[k] = "ended" /\ k \notin cloned))
    BY <1>2 DEF ClonesReclaimed
  <2>1. CASE Cleanup(k)
    BY <1>2, <2>1 DEF Cleanup, localVars, Goto, Running
  <2>2. CASE Crash
    BY <2>0, <2>2 DEF Crash, Running, localVars
  <2>3. CASE \E j \in Jobs \ {k} : AcceptIndex(j) \/ JobStep(j)
    BY <2>0, <2>3, OthersFrozen DEF Running
  <2>4. CASE (AcceptIndex(k) \/ JobStep(k)) /\ ~Cleanup(k)
    <3>1. pc'[k] \notin {"idle", "ended", "dead"}
      <4>1. CASE AcceptIndex(k) \/ StartCloning(k) \/ LookupRepository(k) \/ MakeCloneDir(k)
        BY <2>0, <4>1 DEF AcceptIndex, StartCloning, LookupRepository, MakeCloneDir, Goto, Try
      <4>2. CASE GitClone(k) \/ ParseAndChunk(k) \/ SaveIndexedFiles(k) \/ StartEmbedding(k)
        BY <2>0, <4>2 DEF GitClone, ParseAndChunk, SaveIndexedFiles, StartEmbedding, Goto, Try
      <4>3. CASE CheckCollection(k) \/ CreateCollection(k) \/ EmbedBatch(k)
        BY <2>0, <4>3 DEF CheckCollection, CreateCollection, EmbedBatch, NextBatch, Goto, Try
      <4>4. CASE UpdateStats(k) \/ MarkReady(k)
        BY <2>0, <4>4 DEF UpdateStats, MarkReady, Goto, Try
      <4>5. CASE PublishIndexed(k) \/ MarkFailed(k) \/ PublishFailed(k)
        BY <2>0, <4>5 DEF PublishIndexed, MarkFailed, PublishFailed, Goto, Try
      <4> QED
        BY <2>4, <4>1, <4>2, <4>3, <4>4, <4>5 DEF JobStep
    <3> QED
      BY <3>1 DEF Running
  <2>5. CASE UNCHANGED <<pc, cloned>>
    BY <2>0, <2>5 DEF Running
  <2> QED
    BY <2>1, <2>2, <2>3, <2>4, <2>5
    DEF Next, vars, localVars, CreateRepository, Push, AcceptDelete, DeleteStep, MarkDeleting,
        PurgeVectors, DropRow
<1>3. CASE \E j \in Jobs : Cleanup(j)
  BY <1>2, <1>3 DEF Cleanup
<1> QED
  BY <1>1, <1>2, <1>3, StoreFrames DEF MakeCloneDir

LEMMA InitIInv == Init => IInv
<1> SUFFICES ASSUME Init PROVE IInv
  OBVIOUS
<1> USE BatchAssumption, BoundsAssumption DEF Init
<1>1. TypeOK
  <2>1. status \in [Repos -> RowStates] /\ stats \in [Repos -> [chunks : Nat, embedded : Nat]]
    BY DEF RowStates
  <2>2. fileRows \in [Repos -> [Files -> Revisions \cup {NoRow}]]
    OBVIOUS
  <2>3. upstream \in [Repos -> Revisions] /\ snap \in [Jobs -> Revisions]
    BY DEF Revisions
  <2>4. pc \in [Jobs -> JobSteps] /\ dpc \in [Deletes -> DeleteSteps]
    BY DEF JobSteps, DeleteSteps
  <2>5. parsed \in [Jobs -> SUBSET Files] /\ chunks \in [Jobs -> 0 .. MaxChunks]
    OBVIOUS
  <2>6. /\ next \in [Jobs -> Nat] /\ embedded \in [Jobs -> Nat]
        /\ outcome \in [Jobs -> {"none", "ready", "failed", "raised"}]
    OBVIOUS
  <2>7. /\ collection \in BOOLEAN /\ points \subseteq Jobs \X Nat /\ events \subseteq Event
        /\ dirs \subseteq Jobs /\ cloned \subseteq Jobs
    OBVIOUS
  <2>8. crashes \in 0 .. MaxCrashes
    OBVIOUS
  <2> HIDE DEF Init
  <2> QED
    BY <2>1, <2>2, <2>3, <2>4, <2>5, <2>6, <2>7, <2>8 DEF TypeOK
<1>2. LoopInv
  BY DEF LoopInv, LocalsMatchStep, Least, Early, Preparing, Stored
<1>3. VectorsAccounted
  <2>1. ASSUME NEW j \in Jobs PROVE PointsOf(j, embedded[j]) = {}
    BY DEF PointsOf
  <2> QED
    BY <2>1 DEF VectorsAccounted
<1>4. ReadyInv /\ SettledInv /\ DeletingInv
  BY DEF ReadyInv, SettledInv, DeletingInv, Transient
<1>5. StatsInv /\ RowInv
  BY DEF StatsInv, RowInv
<1>6. EventsTruthful /\ EventsInv /\ OutcomeInv
  BY DEF EventsTruthful, EventsInv, OutcomeInv, Over
<1>7. HashesFromClones
  BY DEF HashesFromClones
<1>8. ClonesReclaimed
  BY DEF ClonesReclaimed
<1> QED
  BY <1>1, <1>2, <1>3, <1>4, <1>5, <1>6, <1>7, <1>8 DEF IInv

(* IInv is inductive: it holds at first and every step preserves it.        *)
THEOREM Inductive == Spec => []IInv
<1>1. IInv /\ [Next]_vars => IInv'
  BY TypeStep, LoopStep, VectorsStep, ReadyStep, StatsStep, EventsStep, OutcomeStep,
     SettledStep, DeletingStep, RowStep, HashStep, CloneStep DEF IInv
<1> QED
  BY InitIInv, <1>1, PTL DEF Spec
-----------------------------------------------------------------------------
(* The safety properties, for every number of jobs, deletions and faults.  *)

\* Rows, points, events and the locals of jobs always have their types.
THEOREM TypeCorrect == Spec => []TypeOK
<1>1. IInv => TypeOK
  BY DEF IInv
<1> QED
  BY Inductive, <1>1, PTL

\* The chunks a job counted are points, and no point lies beyond the batch in flight.
THEOREM VectorsAccountedHolds == Spec => []VectorsAccounted
<1>1. IInv => VectorsAccounted
  BY DEF IInv
<1> QED
  BY Inductive, <1>1, PTL

\* A ready row has a job that stored every chunk.
THEOREM ReadyMeansStoredHolds == Spec => []ReadyMeansStored
<1>1. IInv => ReadyMeansStored
  BY DEF IInv, ReadyInv, ReadyMeansStored
<1> QED
  BY Inductive, <1>1, PTL

\* The statistics of a row are those of one whole job whose chunks are stored.
THEOREM StatsOfOneJobHolds == Spec => []StatsOfOneJob
<1>1. IInv => StatsOfOneJob
  <2> SUFFICES ASSUME IInv, NEW r \in Repos, stats[r].chunks # 0
               PROVE  \E j \in JobsOf(r) :
                        /\ stats[r].chunks = chunks[j]
                        /\ MayBePurged(r) \/ PointsOf(j, chunks[j]) \subseteq points
    BY DEF StatsOfOneJob, IInv, StatsInv
  <2>1. PICK j \in JobsOf(r) : embedded[j] = chunks[j] /\ stats[r].chunks = chunks[j]
    BY DEF IInv, StatsInv
  <2>2. j \in Jobs /\ JobRepo[j] = r
    BY DEF JobsOf
  <2> QED
    BY <2>1, <2>2 DEF IInv, VectorsAccounted
<1> QED
  BY Inductive, <1>1, PTL

\* Events tell the truth about the job they name.
THEOREM EventsTruthfulHolds == Spec => []EventsTruthful
<1>1. IInv => EventsTruthful
  BY DEF IInv
<1> QED
  BY Inductive, <1>1, PTL

\* How a job ended and what it announced agree.
THEOREM OutcomeAnnouncedHolds == Spec => []OutcomeAnnounced
<1>1. IInv => OutcomeAnnounced
  BY DEF IInv, OutcomeInv, OutcomeAnnounced
<1> QED
  BY Inductive, <1>1, PTL

\* A row is stuck in an intermediate status only by a crash or a lost failure record, and
\* "deleting" only by a deletion that raised or died.
THEOREM StuckOnlyByCrashHolds == Spec => []StuckOnlyByCrash
<1>1. IInv => StuckOnlyByCrash
  <2>1. Unsettled \cap {"idle", "ended", "dead"} = {}
    BY DEF Unsettled
  <2> QED
    BY <2>1 DEF IInv, SettledInv, DeletingInv, StuckOnlyByCrash, Running, JobsOf
<1> QED
  BY Inductive, <1>1, PTL

\* No indexed_files row is without its repository.
THEOREM NoOrphanFileRowsHolds == Spec => []NoOrphanFileRows
<1>1. IInv => NoOrphanFileRows
  BY DEF IInv, RowInv, NoOrphanFileRows
<1> QED
  BY Inductive, <1>1, PTL

\* Stored hashes come from clones of the same repository.
THEOREM HashesFromClonesHolds == Spec => []HashesFromClones
<1>1. IInv => HashesFromClones
  BY DEF IInv
<1> QED
  BY Inductive, <1>1, PTL

\* A directory outlives its job only if the clone failed or the process died.
THEOREM ClonesReclaimedHolds == Spec => []ClonesReclaimed
<1>1. IInv => ClonesReclaimed
  BY DEF IInv
<1> QED
  BY Inductive, <1>1, PTL

\* A dropped row never comes back, nor its statistics and files.
THEOREM NeverResurrectedHolds == Spec => NeverResurrected
<1>1. IInv /\ [Next]_vars =>
        [\A r \in Repos : status[r] = "dropped" =>
           status'[r] = "dropped" /\ UNCHANGED <<stats[r], fileRows[r]>>]_vars
  <2> SUFFICES ASSUME IInv, [Next]_vars, NEW r \in Repos, status[r] = "dropped"
               PROVE  status'[r] = "dropped" /\ stats'[r] = stats[r] /\ fileRows'[r] = fileRows[r]
    OBVIOUS
  <2>0. TypeOK /\ RowInv /\ TypeOK' /\ RowInv'
    BY TypeStep, RowStep DEF IInv
  <2>1. status'[r] = "dropped"
    <3> USE <2>0 DEF TypeOK, UpdateStatus, Exists, RepositoryStatus
    <3>1. CASE \E d \in Deletes : DropRow(d) \/ MarkDeleting(d)
      BY <3>1, ReposAssumption DEF DropRow, MarkDeleting, rowVars
    <3>2. CASE \E j \in Jobs : StartCloning(j) \/ ParseAndChunk(j) \/ StartEmbedding(j)
      BY <3>2, ReposAssumption DEF StartCloning, ParseAndChunk, StartEmbedding
    <3>3. CASE \E j \in Jobs : MarkReady(j) \/ MarkFailed(j)
      BY <3>3, ReposAssumption DEF MarkReady, MarkFailed
    <3>4. CASE \E x \in Repos : CreateRepository(x)
      BY <3>4 DEF CreateRepository
    <3>5. CASE UNCHANGED status
      BY <3>5
    <3> HIDE DEF TypeOK, UpdateStatus, Exists, RepositoryStatus
    <3> QED
      BY <3>1, <3>2, <3>3, <3>4, <3>5
      DEF Next, JobStep, DeleteStep, Crash, Push, AcceptIndex, AcceptDelete, PurgeVectors,
          LookupRepository, MakeCloneDir, GitClone, SaveIndexedFiles, CheckCollection,
          CreateCollection, EmbedBatch, UpdateStats, PublishIndexed, PublishFailed, Cleanup,
          vars, storeVars, rowVars
  <2>2. ~Exists(r) /\ ~Exists(r)'
    BY <2>1 DEF Exists, RepositoryStatus
  <2>3. stats'[r] = stats[r]
    BY <2>0, <2>2 DEF RowInv
  <2>4. fileRows[r] \in [Files -> Revisions \cup {NoRow}]
        /\ fileRows'[r] \in [Files -> Revisions \cup {NoRow}]
    BY <2>0 DEF TypeOK
  <2>5. \A f \in Files : fileRows'[r][f] = fileRows[r][f]
    BY <2>0, <2>2 DEF RowInv
  <2> QED
    BY <2>1, <2>3, <2>4, <2>5
<1> QED
  BY Inductive, <1>1, PTL DEF Spec, NeverResurrected

-----------------------------------------------------------------------------
(* The refinement: under the mapping of IndexingProperties, every step of  *)
(* the pipeline is a step of IndexingContract or leaves its variables      *)
(* alone.                                                                  *)

USE DEF Discovered, ChunkCounts, Upsert

Resting == {"idle", "ended", "dead"}

(* Between its start and its cleanup a job is running for its readers.      *)
LEMMA StepRuns ==
  ASSUME TypeOK, NEW j \in Jobs, JobStep(j)
  PROVE  /\ pc[j] \notin Resting
         /\ IF Cleanup(j) THEN pc'[j] = "ended" ELSE pc'[j] \notin Resting
<1> USE DEF Resting, TypeOK, Goto, Try
<1>1. CASE StartCloning(j) \/ LookupRepository(j) \/ MakeCloneDir(j)
  BY <1>1 DEF StartCloning, LookupRepository, MakeCloneDir, Cleanup
<1>2. CASE GitClone(j) \/ ParseAndChunk(j) \/ SaveIndexedFiles(j) \/ StartEmbedding(j)
  BY <1>2 DEF GitClone, ParseAndChunk, SaveIndexedFiles, StartEmbedding, Cleanup
<1>3. CASE CheckCollection(j) \/ CreateCollection(j) \/ EmbedBatch(j)
  BY <1>3 DEF CheckCollection, CreateCollection, EmbedBatch, NextBatch, Cleanup
<1>4. CASE UpdateStats(j) \/ MarkReady(j)
  BY <1>4 DEF UpdateStats, MarkReady, Cleanup
<1>5. CASE PublishIndexed(j) \/ MarkFailed(j) \/ PublishFailed(j)
  BY <1>5 DEF PublishIndexed, MarkFailed, PublishFailed, Cleanup
<1>6. CASE Cleanup(j)
  BY <1>6 DEF Cleanup
<1> QED
  BY <1>1, <1>2, <1>3, <1>4, <1>5, <1>6 DEF JobStep

(* A step of a job other than its cleanup leaves every phase as it is.      *)
LEMMA PhaseKept ==
  ASSUME TypeOK, NEW j \in Jobs, JobStep(j), ~Cleanup(j)
  PROVE  phase' = phase
<1>1. pc[j] \notin Resting /\ pc'[j] \notin Resting
  BY StepRuns
<1>2. \A k \in Jobs \ {j} : pc'[k] = pc[k] /\ outcome'[k] = outcome[k]
  BY OthersFrozen
<1>3. ASSUME NEW k \in Jobs
      PROVE  (CASE pc'[k] = "ended" -> outcome'[k]
                [] pc'[k] \in {"idle", "dead"} -> pc'[k]
                [] OTHER -> "running") =
             (CASE pc[k] = "ended" -> outcome[k]
                [] pc[k] \in {"idle", "dead"} -> pc[k]
                [] OTHER -> "running")
  BY <1>1, <1>2 DEF Resting
<1> QED
  BY <1>3 DEF phase

(* What the contract sees of a step that publishes nothing and ends no job.  *)
LEMMA AnnouncedKept ==
  ASSUME events' = events
  PROVE  announced' = announced
BY DEF announced

LEMMA AnnouncedGrows ==
  ASSUME NEW e, events' = events \cup {e}
  PROVE  announced' = announced \cup {<<e.type, e.job, e.count>>}
BY DEF announced

-----------------------------------------------------------------------------
LEMMA BeginStep ==
  ASSUME TypeOK, NEW j \in Jobs, AcceptIndex(j)
  PROVE  Contract!Begin(j)
<1>1. pc[j] = "idle" /\ pc' = [pc EXCEPT ![j] = "queued"]
  BY DEF AcceptIndex, Goto
<1>2. UNCHANGED <<outcome, chunks, embedded, events>>
  BY DEF AcceptIndex, storeVars, localVars
<1>3. \A k \in Jobs : phase'[k] = IF k = j THEN "running" ELSE phase[k]
  BY <1>1, <1>2 DEF phase, TypeOK
<1>4. phase' = [phase EXCEPT ![j] = "running"]
  BY <1>3 DEF phase
<1>5. phase[j] = "idle"
  BY <1>1 DEF phase
<1> QED
  BY <1>2, <1>4, <1>5, AnnouncedKept DEF Contract!Begin

LEMMA MeasureStep ==
  ASSUME IInv, NEW j \in Jobs, ParseAndChunk(j)
  PROVE  Contract!Measure(j) \/ UNCHANGED Contract!vars
<1>1. PICK out \in Outcomes, fs \in SUBSET Files, n \in 0 .. MaxChunks :
        ParseAndChunk(j)!(out, fs, n)
  BY DEF ParseAndChunk
<1>2. JobStep(j) /\ ~Cleanup(j) /\ TypeOK
  BY <1>1 DEF JobStep, Cleanup, Goto, IInv
<1>3. phase' = phase /\ announced' = announced /\ embedded' = embedded
  BY <1>1, <1>2, PhaseKept, AnnouncedKept
<1>4. CASE out = "ok"
  <2>1. pc[j] = "parsing" /\ chunks[j] = 0 /\ next[j] = 0
    BY <1>1 DEF Goto, IInv, LoopInv, LocalsMatchStep, Early
  <2>2. embedded[j] = 0
    BY <2>1 DEF IInv, LoopInv, LocalsMatchStep, Least
  <2>3. phase[j] = "running"
    BY <2>1 DEF phase
  <2>4. chunks' = [chunks EXCEPT ![j] = n] /\ n \in Nat
    BY <1>1, <1>4, BoundsAssumption
  <2>5. chunks'[j] = n
    BY <1>2, <2>4 DEF TypeOK
  <2> QED
    BY <1>3, <2>1, <2>2, <2>3, <2>4, <2>5 DEF Contract!Measure
<1>5. CASE out # "ok"
  BY <1>1, <1>3, <1>5 DEF Contract!vars
<1> QED
  BY <1>4, <1>5

LEMMA WriteStep ==
  ASSUME IInv, NEW j \in Jobs, EmbedBatch(j)
  PROVE  Contract!Write(j) \/ UNCHANGED Contract!vars
<1>1. PICK out \in Outcomes : EmbedBatch(j)!(out)
  BY DEF EmbedBatch
<1>2. JobStep(j) /\ ~Cleanup(j) /\ TypeOK
  BY <1>1 DEF JobStep, Cleanup, Goto, IInv
<1>3. phase' = phase /\ announced' = announced /\ chunks' = chunks
  BY <1>1, <1>2, PhaseKept, AnnouncedKept
<1>4. CASE out = "ok"
  <2> DEFINE n == Cardinality(Batch(j))
  <2>1. pc[j] = "embedding"
    BY <1>1 DEF Goto
  <2>2. /\ next[j] < chunks[j] /\ embedded[j] = Least(next[j], chunks[j])
        /\ next[j] \in Nat /\ chunks[j] \in Nat /\ embedded[j] \in Nat
    BY <1>2, <2>1, BoundsAssumption DEF IInv, LoopInv, LocalsMatchStep, TypeOK
  <2>3. n = Least(next[j] + BatchSize, chunks[j]) - next[j]
    BY <1>2, <2>2, BatchCardinality
  <2>4. embedded' = [embedded EXCEPT ![j] = embedded[j] + n]
    BY <1>1, <1>4
  <2> HIDE DEF n
  <2>5. embedded[j] + n \in (embedded[j] + 1) .. chunks[j]
    BY <2>2, <2>3, BatchAssumption DEF Least
  <2>6. phase[j] = "running"
    BY <2>1 DEF phase
  <2> QED
    BY <1>3, <2>4, <2>5, <2>6 DEF Contract!Write
<1>5. CASE out # "ok"
  BY <1>1, <1>3, <1>5 DEF Contract!vars
<1> QED
  BY <1>4, <1>5

LEMMA AnnounceIndexedStep ==
  ASSUME IInv, NEW j \in Jobs, PublishIndexed(j)
  PROVE  Contract!AnnounceIndexed(j) \/ UNCHANGED Contract!vars
<1>1. PICK out \in Outcomes : PublishIndexed(j)!(out)
  BY DEF PublishIndexed
<1>2. JobStep(j) /\ ~Cleanup(j) /\ TypeOK /\ pc[j] = "publishIndexed"
  BY <1>1 DEF JobStep, Cleanup, Goto, IInv
<1>3. phase' = phase /\ chunks' = chunks /\ embedded' = embedded
  BY <1>1, <1>2, PhaseKept
<1>4. embedded[j] = chunks[j]
  <2>1. /\ next[j] >= chunks[j] /\ embedded[j] = Least(next[j], chunks[j])
        /\ next[j] \in Nat /\ chunks[j] \in Nat
    BY <1>2, BoundsAssumption DEF IInv, LoopInv, LocalsMatchStep, Stored, TypeOK
  <2> QED
    BY <2>1 DEF Least
<1>5. CASE Applied(out)
  <2> DEFINE ev == [type |-> "indexed", job |-> j, count |-> embedded[j]]
  <2>1. events' = events \cup {ev}
    BY <1>1, <1>5 DEF Publish
  <2>a. ev.type = "indexed" /\ ev.job = j /\ ev.count = embedded[j]
    OBVIOUS
  <2> HIDE DEF ev
  <2>2. announced' = announced \cup {<<"indexed", j, chunks[j]>>}
    BY <1>4, <2>1, <2>a, AnnouncedGrows
  <2>3. <<"failed", j, 0>> \notin announced
    <3> SUFFICES ASSUME NEW e \in events, <<e.type, e.job, e.count>> = <<"failed", j, 0>>
                 PROVE  FALSE
      BY DEF announced
    <3>1. e.type = "failed" /\ e.job = j
      OBVIOUS
    <3> QED
      BY <1>2, <3>1 DEF IInv, EventsInv, Over
  <2>4. phase[j] = "running"
    BY <1>2 DEF phase
  <2> QED
    BY <1>3, <1>4, <2>2, <2>3, <2>4 DEF Contract!AnnounceIndexed, Contract!FailedAnnounced
<1>6. CASE ~Applied(out)
  BY <1>1, <1>3, <1>6, AnnouncedKept DEF Publish, Contract!vars
<1> QED
  BY <1>5, <1>6

LEMMA AnnounceFailedStep ==
  ASSUME IInv, NEW j \in Jobs, PublishFailed(j)
  PROVE  Contract!AnnounceFailed(j) \/ UNCHANGED Contract!vars
<1>1. PICK out \in Outcomes : PublishFailed(j)!(out)
  BY DEF PublishFailed
<1>2. JobStep(j) /\ ~Cleanup(j) /\ TypeOK /\ pc[j] = "publishFailed"
  BY <1>1 DEF JobStep, Cleanup, Goto, IInv
<1>3. phase' = phase /\ chunks' = chunks /\ embedded' = embedded
  BY <1>1, <1>2, PhaseKept
<1>4. CASE Applied(out)
  <2> DEFINE ev == [type |-> "failed", job |-> j, count |-> 0]
  <2>0. events' = events \cup {ev}
    BY <1>1, <1>4 DEF Publish
  <2>a. ev.type = "failed" /\ ev.job = j /\ ev.count = 0
    OBVIOUS
  <2> HIDE DEF ev
  <2>1. announced' = announced \cup {<<"failed", j, 0>>}
    BY <2>0, <2>a, AnnouncedGrows
  <2>2. phase[j] = "running"
    BY <1>2 DEF phase
  <2> QED
    BY <1>3, <2>1, <2>2 DEF Contract!AnnounceFailed
<1>5. CASE ~Applied(out)
  BY <1>1, <1>3, <1>5, AnnouncedKept DEF Publish, Contract!vars
<1> QED
  BY <1>4, <1>5

LEMMA FinishStep ==
  ASSUME IInv, NEW j \in Jobs, Cleanup(j)
  PROVE  Contract!Finish(j)
<1>1. /\ pc[j] = "cleanup" /\ pc' = [pc EXCEPT ![j] = "ended"]
      /\ UNCHANGED <<outcome, chunks, embedded, events>>
  BY DEF Cleanup, Goto, storeVars, localVars
<1>2. TypeOK /\ outcome[j] \in {"ready", "failed", "raised"}
  BY <1>1 DEF IInv, OutcomeInv, TypeOK
<1>3. \A k \in Jobs : phase'[k] = IF k = j THEN outcome[j] ELSE phase[k]
  BY <1>1, <1>2 DEF phase, TypeOK
<1>4. phase' = [phase EXCEPT ![j] = outcome[j]] /\ phase[j] = "running"
  BY <1>1, <1>3 DEF phase
<1>5. announced' = announced
  BY <1>1, AnnouncedKept
<1>6. CASE outcome[j] = "ready"
  <2>1. PICK e \in events : e.job = j /\ e.type = "indexed"
    BY <1>1, <1>6 DEF IInv, OutcomeInv
  <2>2. e.count = chunks[j]
    BY <2>1 DEF IInv, EventsTruthful
  <2>3. <<"indexed", j, chunks[j]>> \in announced
    BY <2>1, <2>2 DEF announced
  <2>4. <<"failed", j, 0>> \notin announced
    <3> SUFFICES ASSUME NEW x \in events, <<x.type, x.job, x.count>> = <<"failed", j, 0>>
                 PROVE  FALSE
      BY DEF announced
    <3> QED
      BY <1>1, <1>6 DEF IInv, OutcomeInv
  <2> QED
    BY <1>1, <1>4, <1>5, <1>6, <2>3, <2>4 DEF Contract!Finish, Contract!FailedAnnounced
<1>7. CASE outcome[j] = "failed"
  <2>1. PICK e \in events : e.job = j /\ e.type = "failed"
    BY <1>1, <1>7 DEF IInv, OutcomeInv
  <2>2. e.count = 0
    BY <2>1 DEF IInv, EventsInv
  <2>3. <<"failed", j, 0>> \in announced
    BY <2>1, <2>2 DEF announced
  <2> QED
    BY <1>1, <1>4, <1>5, <1>7, <2>3 DEF Contract!Finish, Contract!FailedAnnounced
<1>8. CASE outcome[j] = "raised"
  BY <1>1, <1>4, <1>5, <1>8 DEF Contract!Finish
<1> QED
  BY <1>2, <1>6, <1>7, <1>8

LEMMA DieStep ==
  ASSUME TypeOK, Crash
  PROVE  Contract!Die
<1>1. UNCHANGED <<outcome, chunks, embedded, events>>
  BY DEF Crash, storeVars, localVars
<1>2. pc' = [j \in Jobs |-> IF Running(j) THEN "dead" ELSE pc[j]]
  BY DEF Crash
<1>3. \A j \in Jobs : outcome[j] # "running"
  BY DEF TypeOK
<1>4. ASSUME NEW k \in Jobs
      PROVE  phase'[k] = IF phase[k] = "running" THEN "dead" ELSE phase[k]
  BY <1>1, <1>2, <1>3 DEF phase, Running
<1>5. phase' = [j \in Jobs |-> IF phase[j] = "running" THEN "dead" ELSE phase[j]]
  BY <1>4 DEF phase
<1> QED
  BY <1>1, <1>5, AnnouncedKept DEF Contract!Die

(* The other steps are invisible to the reader of a contract.               *)
LEMMA InvisibleStep ==
  ASSUME TypeOK, [Next]_vars, ~Crash,
         \A j \in Jobs : /\ ~AcceptIndex(j) /\ ~ParseAndChunk(j) /\ ~EmbedBatch(j)
                         /\ ~PublishIndexed(j) /\ ~PublishFailed(j) /\ ~Cleanup(j)
  PROVE  UNCHANGED Contract!vars
<1>1. chunks' = chunks /\ embedded' = embedded
  BY LocalFrames
<1>2. announced' = announced
  BY StoreFrames, AnnouncedKept
<1>3. phase' = phase
  <2>1. CASE \E j \in Jobs : JobStep(j)
    BY <2>1, PhaseKept
  <2>2. CASE UNCHANGED <<pc, outcome>>
    BY <2>2 DEF phase
  <2> QED
    BY <2>1, <2>2
    DEF Next, vars, localVars, CreateRepository, Push, AcceptDelete, DeleteStep, MarkDeleting,
        PurgeVectors, DropRow
<1> QED
  BY <1>1, <1>2, <1>3 DEF Contract!vars

\* The pipeline implements the contract of a job: whatever other jobs, deletions,
\* faults and crashes do, a job plans its chunks once, writes no more than that,
\* announces only what happened, and ends as it announced.
THEOREM Refinement == Spec => ImplementsContract
<1>1. Init => Contract!Init
  BY DEF Init, Contract!Init, phase, announced
<1>2. IInv /\ [Next]_vars => [Contract!Next]_(Contract!vars)
  <2> SUFFICES ASSUME IInv, [Next]_vars PROVE Contract!Next \/ UNCHANGED Contract!vars
    OBVIOUS
  <2>0. TypeOK
    BY DEF IInv
  <2>1. ASSUME NEW j \in Jobs, AcceptIndex(j) PROVE Contract!Next
    BY <2>0, <2>1, BeginStep DEF Contract!Next
  <2>2. ASSUME NEW j \in Jobs, ParseAndChunk(j) PROVE Contract!Next \/ UNCHANGED Contract!vars
    BY <2>2, MeasureStep DEF Contract!Next
  <2>3. ASSUME NEW j \in Jobs, EmbedBatch(j) PROVE Contract!Next \/ UNCHANGED Contract!vars
    BY <2>3, WriteStep DEF Contract!Next
  <2>4. ASSUME NEW j \in Jobs, PublishIndexed(j) PROVE Contract!Next \/ UNCHANGED Contract!vars
    BY <2>4, AnnounceIndexedStep DEF Contract!Next
  <2>5. ASSUME NEW j \in Jobs, PublishFailed(j) PROVE Contract!Next \/ UNCHANGED Contract!vars
    BY <2>5, AnnounceFailedStep DEF Contract!Next
  <2>6. ASSUME NEW j \in Jobs, Cleanup(j) PROVE Contract!Next
    BY <2>6, FinishStep DEF Contract!Next
  <2>7. CASE Crash
    BY <2>0, <2>7, DieStep DEF Contract!Next
  <2> QED
    BY <2>0, <2>1, <2>2, <2>3, <2>4, <2>5, <2>6, <2>7, InvisibleStep
<1> QED
  BY Inductive, <1>1, <1>2, PTL DEF Spec, ImplementsContract, Contract!Spec
=============================================================================
