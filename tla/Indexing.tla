------------------------------ MODULE Indexing ------------------------------
(***************************************************************************)
(* The indexing pipeline of the embedding service                          *)
(* (services/embedding/app/domain/services.py), the two routes that start  *)
(* and delete work, and the stores they share: the repositories and        *)
(* indexed_files tables, the Qdrant collection, the Kafka topic and the    *)
(* temporary directories of the host.                                      *)
(*                                                                         *)
(* index_repository runs as a background task of the event loop, so any    *)
(* number of jobs and deletions interleave at their awaits.  One action is *)
(* one awaited call with the straight-line code up to the next await.      *)
(*                                                                         *)
(* A job's chunk k is the point <<j, k>>: chunk ids are fresh UUIDs, so    *)
(* two jobs never write the same point.  A revision number stands for the  *)
(* content of an upstream repository, and for the SHA-256 of a file of it. *)
(***************************************************************************)
EXTENDS Integers, FiniteSets

CONSTANTS
  Repos,        \* repository ids
  Jobs,         \* accepted POST /repositories/{id}/index requests
  Deletes,      \* DELETE /repositories/{id} requests
  JobRepo,      \* the repository each index request names
  DelRepo,      \* the repository each delete request names
  Files,        \* source file paths
  Faults,       \* how an awaited call may go wrong, see Outcomes
  BatchSize,    \* embedding_batch_size
  MaxChunks,    \* bound: chunks one job creates
  MaxRev,       \* bound: upstream revisions after the first
  MaxCrashes    \* bound: crashes of the service process

ASSUME ReposAssumption == JobRepo \in [Jobs -> Repos] /\ DelRepo \in [Deletes -> Repos]
ASSUME FaultsAssumption == Faults \subseteq {"error", "lost"}
ASSUME BatchAssumption == BatchSize \in Nat \ {0}
ASSUME BoundsAssumption == MaxChunks \in Nat /\ MaxRev \in Nat /\ MaxCrashes \in Nat

VARIABLES
  status,       \* repositories.status, or why there is no row
  stats,        \* repositories.chunk_count and embedding_count
  fileRows,     \* indexed_files: content_hash per path, NoRow if there is none
  upstream,     \* the revision a clone would fetch now
  collection,   \* does the code_chunks collection exist?
  points,       \* the points of the collection
  events,       \* the events the topic holds
  dirs,         \* jobs whose temporary directory is on disk
  pc,           \* where each job is
  cloned,       \* jobs whose local clone_dir is set
  snap,         \* the revision the job cloned
  parsed,       \* the paths in the job's indexed_files list
  chunks,       \* len(all_chunks)
  next,         \* i, the first chunk of the next batch
  embedded,     \* job.chunks_embedded
  outcome,      \* how index_repository ended
  dpc,          \* where each deletion is
  crashes       \* crashes so far

rowVars   == <<status, stats, fileRows>>
storeVars == <<rowVars, collection, points, events>>
localVars == <<cloned, snap, parsed, chunks, next, embedded, outcome>>
vars == <<storeVars, upstream, dirs, pc, localVars, dpc, crashes>>

\* A call succeeds, raises without effect, or raises after taking effect (the
\* answer is lost).
Outcomes == {"ok"} \cup Faults
Applied(out) == out # "error"

NoRow == -1
Revisions == 0 .. MaxRev
RepositoryStatus ==
  {"pending", "cloning", "parsing", "embedding", "ready", "failed", "deleting"}
RowStates == RepositoryStatus \cup {"uncreated", "dropped"}
JobSteps ==
  {"idle", "queued", "lookup", "mkdtemp", "cloning", "parsing", "saving",
   "startEmbedding", "checkCollection", "createCollection", "embedding",
   "updateStats", "markReady", "publishIndexed", "markFailed",
   "publishFailed", "cleanup", "ended", "dead"}
DeleteSteps == {"idle", "marking", "purging", "dropping", "done", "errored", "dead"}
Event == [type : {"indexed", "failed"}, job : Jobs, count : Nat]

Least(a, b) == IF a < b THEN a ELSE b
Running(j) == pc[j] \notin {"idle", "ended", "dead"}
Deleting(d) == dpc[d] \in {"marking", "purging", "dropping"}
Exists(r) == status[r] \in RepositoryStatus
Goto(j, from, to) == pc[j] = from /\ pc' = [pc EXCEPT ![j] = to]

\* Mutant: the exception is ignored.
Try_Ignores(out, step) == step

\* An exception inside the try block goes to the except block.
Try(out, step) == IF out = "ok" THEN step ELSE "markFailed"

\* Mutant: an upsert in place of the update.
UpdateStatus_Upsert(out, r, s) ==
  status' = IF Applied(out) THEN [status EXCEPT ![r] = s] ELSE status

\* UPDATE ... WHERE id = $1 touches no row when there is none.
UpdateStatus(out, r, s) ==
  status' = IF Applied(out) /\ Exists(r) THEN [status EXCEPT ![r] = s] ELSE status

\* Mutant: the loop drops a last batch that is not full.
NextBatch_FullOnly(j, i) == IF i + BatchSize <= chunks[j] THEN "embedding" ELSE "updateStats"

NextBatch(j, i) == IF i < chunks[j] THEN "embedding" ELSE "updateStats"

Init ==
  /\ status = [r \in Repos |-> "uncreated"]
  /\ stats = [r \in Repos |-> [chunks |-> 0, embedded |-> 0]]
  /\ fileRows = [r \in Repos |-> [f \in Files |-> NoRow]]
  /\ upstream = [r \in Repos |-> 0]
  /\ collection = FALSE
  /\ points = {}
  /\ events = {}
  /\ dirs = {}
  /\ pc = [j \in Jobs |-> "idle"]
  /\ cloned = {}
  /\ snap = [j \in Jobs |-> 0]
  /\ parsed = [j \in Jobs |-> {}]
  /\ chunks = [j \in Jobs |-> 0]
  /\ next = [j \in Jobs |-> 0]
  /\ embedded = [j \in Jobs |-> 0]
  /\ outcome = [j \in Jobs |-> "none"]
  /\ dpc = [d \in Deletes |-> "idle"]
  /\ crashes = 0

-----------------------------------------------------------------------------
(* The routes that create a repository and queue a job, and the world.     *)

\* Each of these, as the code means it: at this commit the INSERT of create raises, since
\* it reads .value of a source that use_enum_values has made a string, and so would reading
\* a row back, whose ids and metadata are no strings and dicts (postgres_repository.py:32,
\* 103-124).  With these repaired the model is what runs; till then it allows more.
CreateRepository(r) ==
  /\ status[r] = "uncreated"
  /\ status' = [status EXCEPT ![r] = "pending"]
  /\ UNCHANGED <<stats, fileRows, collection, points, events, upstream, dirs, pc,
                 localVars, dpc, crashes>>

AcceptIndex(j) ==
  /\ Goto(j, "idle", "queued")
  /\ Exists(JobRepo[j])
  /\ UNCHANGED <<storeVars, upstream, dirs, localVars, dpc, crashes>>

Push(r) ==
  /\ upstream[r] < MaxRev
  /\ upstream' = [upstream EXCEPT ![r] = @ + 1]
  /\ UNCHANGED <<storeVars, dirs, pc, localVars, dpc, crashes>>

-----------------------------------------------------------------------------
(* index_repository, one awaited call at a time.                           *)

StartCloning(j) == \E out \in Outcomes :
  /\ Goto(j, "queued", Try(out, "lookup"))
  /\ UpdateStatus(out, JobRepo[j], "cloning")
  /\ UNCHANGED <<stats, fileRows, collection, points, events, upstream, dirs,
                 localVars, dpc, crashes>>

LookupRepository(j) == \E out \in Outcomes :
  /\ Goto(j, "lookup",
          IF Exists(JobRepo[j]) THEN Try(out, "mkdtemp") ELSE "markFailed")
  /\ UNCHANGED <<storeVars, upstream, dirs, localVars, dpc, crashes>>

\* GitCloner.clone: no URL (or no directory) raises, else the directory is made
\* and git starts.
MakeCloneDir(j) ==
  /\ \/ Goto(j, "mkdtemp", "cloning") /\ dirs' = dirs \cup {j}
     \/ Goto(j, "mkdtemp", "markFailed") /\ UNCHANGED dirs
  /\ UNCHANGED <<storeVars, upstream, localVars, dpc, crashes>>

\* git exits with 0, or it fails or times out: clone then raises, clone_dir stays
\* None in index_repository, and nobody removes the directory.
GitClone(j) ==
  /\ \/ /\ Goto(j, "cloning", "parsing")
        /\ cloned' = cloned \cup {j}
        /\ snap' = [snap EXCEPT ![j] = upstream[JobRepo[j]]]
     \/ /\ Goto(j, "cloning", "markFailed")
        /\ UNCHANGED <<cloned, snap>>
  /\ UNCHANGED <<storeVars, upstream, dirs, parsed, chunks, next, embedded, outcome,
                 dpc, crashes>>

\* The indexable files the walk may find, those that fail to parse left out.
Discovered == SUBSET Files

\* A file gives a chunk for each of its functions, classes and so on that is long enough,
\* several for one that is too long, or none.
ChunkCounts(fs) == IF fs = {} THEN {0} ELSE 0 .. MaxChunks

\* PARSING is set; then files are discovered, parsed and chunked with no further
\* await on a store.
ParseAndChunk(j) == \E out \in Outcomes, fs \in Discovered, n \in 0 .. MaxChunks :
  /\ Goto(j, "parsing", Try(out, IF fs = {} THEN "startEmbedding" ELSE "saving"))
  /\ UpdateStatus(out, JobRepo[j], "parsing")
  /\ n \in ChunkCounts(fs)
  /\ IF out = "ok"
     THEN /\ parsed' = [parsed EXCEPT ![j] = fs]
          /\ chunks' = [chunks EXCEPT ![j] = n]
     ELSE fs = {} /\ UNCHANGED <<parsed, chunks>>
  /\ UNCHANGED <<stats, fileRows, collection, points, events, upstream, dirs,
                 cloned, snap, next, embedded, outcome, dpc, crashes>>

\* Mutant: the hash of what is upstream when the row is written.
SaveIndexedFiles_HashesNow(j) ==
  LET r == JobRepo[j] IN
  /\ Goto(j, "saving", IF Exists(r) THEN "startEmbedding" ELSE "markFailed")
  /\ fileRows' = IF Exists(r)
                 THEN [fileRows EXCEPT ![r] = [f \in Files |->
                         IF @[f] = NoRow /\ f \in parsed[j] THEN upstream[r] ELSE @[f]]]
                 ELSE fileRows
  /\ UNCHANGED <<status, stats, collection, points, events, upstream, dirs,
                 localVars, dpc, crashes>>

\* One transaction of INSERT ... ON CONFLICT DO NOTHING: a path that has a row
\* keeps it, and the foreign key refuses a repository without a row.
SaveIndexedFiles(j) == \E out \in Outcomes :
  LET r == JobRepo[j] IN
  /\ Goto(j, "saving", IF Exists(r) THEN Try(out, "startEmbedding") ELSE "markFailed")
  /\ fileRows' = IF Exists(r) /\ Applied(out)
                 THEN [fileRows EXCEPT ![r] = [f \in Files |->
                         IF @[f] = NoRow /\ f \in parsed[j] THEN snap[j] ELSE @[f]]]
                 ELSE fileRows
  /\ UNCHANGED <<status, stats, collection, points, events, upstream, dirs,
                 localVars, dpc, crashes>>

StartEmbedding(j) == \E out \in Outcomes :
  /\ Goto(j, "startEmbedding", Try(out, "checkCollection"))
  /\ UpdateStatus(out, JobRepo[j], "embedding")
  /\ UNCHANGED <<stats, fileRows, collection, points, events, upstream, dirs,
                 localVars, dpc, crashes>>

\* ensure_collection reads, and only then creates.
CheckCollection(j) == \E out \in Outcomes :
  /\ Goto(j, "checkCollection",
          Try(out, IF collection THEN NextBatch(j, 0) ELSE "createCollection"))
  /\ UNCHANGED <<storeVars, upstream, dirs, localVars, dpc, crashes>>

\* Qdrant refuses to create a collection that exists.
CreateCollection(j) == \E out \in Outcomes :
  /\ Goto(j, "createCollection",
          IF collection THEN "markFailed" ELSE Try(out, NextBatch(j, 0)))
  /\ collection' = (collection \/ Applied(out))
  /\ UNCHANGED <<rowVars, points, events, upstream, dirs, localVars, dpc, crashes>>

\* Mutant: chunks are numbered from 0.
Batch_FromZero(j) == next[j] .. (Least(next[j] + BatchSize, chunks[j]) - 1)

\* The slice of the loop: all_chunks[i : i + batch_size].
Batch(j) == (next[j] + 1) .. Least(next[j] + BatchSize, chunks[j])

\* Mutants: the count grows by the batch size whatever the slice holds; or the loop
\* forgets to advance.
EmbedBatch_CountsSize(j) == \E out \in Outcomes :
  /\ Goto(j, "embedding", Try(out, NextBatch(j, next[j] + BatchSize)))
  /\ points' = IF Applied(out) THEN points \cup ({j} \X Batch(j)) ELSE points
  /\ IF out = "ok"
     THEN /\ next' = [next EXCEPT ![j] = @ + BatchSize]
          /\ embedded' = [embedded EXCEPT ![j] = @ + BatchSize]
     ELSE UNCHANGED <<next, embedded>>
  /\ UNCHANGED <<rowVars, collection, events, upstream, dirs, cloned, snap, parsed,
                 chunks, outcome, dpc, crashes>>
EmbedBatch_NoAdvance(j) ==
  /\ Goto(j, "embedding", NextBatch(j, next[j]))
  /\ points' = points \cup ({j} \X Batch(j))
  /\ UNCHANGED <<rowVars, collection, events, upstream, dirs, localVars, dpc, crashes>>

\* Chunk ids are fresh, so an upsert only ever adds points.
Upsert(out, j) ==
  points' = IF Applied(out) THEN points \cup ({j} \X Batch(j)) ELSE points

\* embed_batch touches no store, so it is one step with the upsert it feeds.
EmbedBatch(j) == \E out \in Outcomes :
  /\ Goto(j, "embedding", Try(out, NextBatch(j, next[j] + BatchSize)))
  /\ Upsert(out, j)
  /\ IF out = "ok"
     THEN /\ next' = [next EXCEPT ![j] = @ + BatchSize]
          /\ embedded' = [embedded EXCEPT ![j] = @ + Cardinality(Batch(j))]
     ELSE UNCHANGED <<next, embedded>>
  /\ UNCHANGED <<rowVars, collection, events, upstream, dirs, cloned, snap, parsed,
                 chunks, outcome, dpc, crashes>>

UpdateStats(j) == \E out \in Outcomes :
  LET r == JobRepo[j] IN
  /\ Goto(j, "updateStats", Try(out, "markReady"))
  /\ stats' = IF Applied(out) /\ Exists(r)
              THEN [stats EXCEPT ![r] = [chunks |-> chunks[j], embedded |-> embedded[j]]]
              ELSE stats
  /\ UNCHANGED <<status, fileRows, collection, points, events, upstream, dirs,
                 localVars, dpc, crashes>>

MarkReady(j) == \E out \in Outcomes :
  /\ Goto(j, "markReady", Try(out, "publishIndexed"))
  /\ UpdateStatus(out, JobRepo[j], "ready")
  /\ UNCHANGED <<stats, fileRows, collection, points, events, upstream, dirs,
                 localVars, dpc, crashes>>

Publish(out, type, j, n) ==
  events' = IF Applied(out)
            THEN events \cup {[type |-> type, job |-> j, count |-> n]} ELSE events

PublishIndexed(j) == \E out \in Outcomes :
  /\ Goto(j, "publishIndexed", Try(out, "cleanup"))
  /\ Publish(out, "indexed", j, embedded[j])
  /\ outcome' = IF out = "ok" THEN [outcome EXCEPT ![j] = "ready"] ELSE outcome
  /\ UNCHANGED <<rowVars, collection, points, upstream, dirs, cloned, snap, parsed,
                 chunks, next, embedded, dpc, crashes>>

\* Mutants: the except block publishes nothing; or it records nothing in the row.
MarkFailed_Silent(j) ==
  /\ Goto(j, "markFailed", "cleanup")
  /\ UpdateStatus("ok", JobRepo[j], "failed")
  /\ outcome' = [outcome EXCEPT ![j] = "failed"]
  /\ UNCHANGED <<stats, fileRows, collection, points, events, upstream, dirs,
                 cloned, snap, parsed, chunks, next, embedded, dpc, crashes>>
MarkFailed_NoStatus(j) ==
  /\ Goto(j, "markFailed", "publishFailed")
  /\ UNCHANGED <<storeVars, upstream, dirs, localVars, dpc, crashes>>

\* The except block; an exception of its own escapes through the finally block.
MarkFailed(j) == \E out \in Outcomes :
  /\ Goto(j, "markFailed", IF out = "ok" THEN "publishFailed" ELSE "cleanup")
  /\ UpdateStatus(out, JobRepo[j], "failed")
  /\ outcome' = IF out = "ok" THEN outcome ELSE [outcome EXCEPT ![j] = "raised"]
  /\ UNCHANGED <<stats, fileRows, collection, points, events, upstream, dirs,
                 cloned, snap, parsed, chunks, next, embedded, dpc, crashes>>

PublishFailed(j) == \E out \in Outcomes :
  /\ Goto(j, "publishFailed", "cleanup")
  /\ Publish(out, "failed", j, 0)
  /\ outcome' = [outcome EXCEPT ![j] = IF out = "ok" THEN "failed" ELSE "raised"]
  /\ UNCHANGED <<rowVars, collection, points, upstream, dirs, cloned, snap, parsed,
                 chunks, next, embedded, dpc, crashes>>

\* Mutant: the directory is removed on the way of success only.
Cleanup_OnSuccess(j) ==
  /\ Goto(j, "cleanup", "ended")
  /\ dirs' = IF outcome[j] = "ready" THEN dirs \ {j} ELSE dirs
  /\ UNCHANGED <<storeVars, upstream, localVars, dpc, crashes>>

\* The finally block.  (rmtree ignores errors; it is taken to remove the directory.)
Cleanup(j) ==
  /\ Goto(j, "cleanup", "ended")
  /\ dirs' = IF j \in cloned THEN dirs \ {j} ELSE dirs
  /\ UNCHANGED <<storeVars, upstream, localVars, dpc, crashes>>

-----------------------------------------------------------------------------
(* delete_repository.  An exception at any call ends the request.          *)

GotoD(d, from, to) == dpc[d] = from /\ dpc' = [dpc EXCEPT ![d] = to]
TryD(out, step) == IF out = "ok" THEN step ELSE "errored"

AcceptDelete(d) ==
  /\ GotoD(d, "idle", "marking")
  /\ Exists(DelRepo[d])
  /\ UNCHANGED <<storeVars, upstream, dirs, pc, localVars, crashes>>

MarkDeleting(d) == \E out \in Outcomes :
  /\ GotoD(d, "marking", TryD(out, "purging"))
  /\ UpdateStatus(out, DelRepo[d], "deleting")
  /\ UNCHANGED <<stats, fileRows, collection, points, events, upstream, dirs, pc,
                 localVars, crashes>>

\* Mutant: the filter is left out.
PurgeVectors_NoFilter(d) ==
  /\ GotoD(d, "purging", IF collection THEN "dropping" ELSE "errored")
  /\ points' = {}
  /\ UNCHANGED <<rowVars, collection, events, upstream, dirs, pc, localVars, crashes>>

\* Qdrant refuses to delete from a collection that does not exist yet.
PurgeVectors(d) == \E out \in Outcomes :
  /\ GotoD(d, "purging", IF collection THEN TryD(out, "dropping") ELSE "errored")
  /\ points' = IF Applied(out)
               THEN {p \in points : JobRepo[p[1]] # DelRepo[d]} ELSE points
  /\ UNCHANGED <<rowVars, collection, events, upstream, dirs, pc, localVars, crashes>>

\* DELETE FROM repositories cascades to indexed_files.
DropRow(d) == \E out \in Outcomes :
  LET r == DelRepo[d] IN
  /\ GotoD(d, "dropping", TryD(out, "done"))
  /\ IF Applied(out)
     THEN /\ status' = [status EXCEPT ![r] = "dropped"]
          /\ stats' = [stats EXCEPT ![r] = [chunks |-> 0, embedded |-> 0]]
          /\ fileRows' = [fileRows EXCEPT ![r] = [f \in Files |-> NoRow]]
     ELSE UNCHANGED rowVars
  /\ UNCHANGED <<collection, points, events, upstream, dirs, pc, localVars, crashes>>

-----------------------------------------------------------------------------
\* Background tasks and requests live in the process: a crash ends them all, runs
\* no except or finally block, and nothing resumes them.
Crash ==
  /\ crashes < MaxCrashes
  /\ crashes' = crashes + 1
  /\ (\E j \in Jobs : Running(j)) \/ (\E d \in Deletes : Deleting(d))
  /\ pc' = [j \in Jobs |-> IF Running(j) THEN "dead" ELSE pc[j]]
  /\ dpc' = [d \in Deletes |-> IF Deleting(d) THEN "dead" ELSE dpc[d]]
  /\ UNCHANGED <<storeVars, upstream, dirs, localVars>>

JobStep(j) ==
  \/ StartCloning(j) \/ LookupRepository(j) \/ MakeCloneDir(j) \/ GitClone(j)
  \/ ParseAndChunk(j) \/ SaveIndexedFiles(j) \/ StartEmbedding(j)
  \/ CheckCollection(j) \/ CreateCollection(j) \/ EmbedBatch(j) \/ UpdateStats(j)
  \/ MarkReady(j) \/ PublishIndexed(j) \/ MarkFailed(j) \/ PublishFailed(j)
  \/ Cleanup(j)

DeleteStep(d) == MarkDeleting(d) \/ PurgeVectors(d) \/ DropRow(d)

Next ==
  \/ \E r \in Repos : CreateRepository(r) \/ Push(r)
  \/ \E j \in Jobs : AcceptIndex(j) \/ JobStep(j)
  \/ \E d \in Deletes : AcceptDelete(d) \/ DeleteStep(d)
  \/ Crash

Spec == Init /\ [][Next]_vars

\* Every awaited call returns or raises and the event loop resumes every task that is ready.
\* git clone, Qdrant and Kafka have timeouts; the PostgreSQL pool has none for a command, so
\* its server is taken to answer or to drop the connection.
Fairness == (\A j \in Jobs : WF_vars(JobStep(j))) /\ (\A d \in Deletes : WF_vars(DeleteStep(d)))
FairSpec == Spec /\ Fairness
=============================================================================
