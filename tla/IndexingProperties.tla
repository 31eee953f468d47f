------------------------- MODULE IndexingProperties -------------------------
(***************************************************************************)
(* What the indexing pipeline guarantees, and the inductive invariant its  *)
(* safety properties follow from.                                          *)
(***************************************************************************)
EXTENDS Indexing

JobsOf(r) == {j \in Jobs : JobRepo[j] = r}
PointsOf(j, n) == {j} \X (1 .. n)
\* A deletion of r may already have removed vectors of r.
MayBePurged(r) ==
  \E d \in Deletes : DelRepo[d] = r /\ dpc[d] \notin {"idle", "marking", "purging"}
Transient == {"cloning", "parsing", "embedding"}
\* A deletion that has marked its row, and not dropped it.
Begun == {"purging", "dropping", "errored", "dead"}

\* Every variable has its type: rows, points and events speak of known
\* repositories and jobs, and every counter is a natural number.
TypeOK ==
  /\ status \in [Repos -> RowStates]
  /\ stats \in [Repos -> [chunks : Nat, embedded : Nat]]
  /\ fileRows \in [Repos -> [Files -> Revisions \cup {NoRow}]]
  /\ upstream \in [Repos -> Revisions]
  /\ collection \in BOOLEAN
  /\ points \subseteq Jobs \X Nat
  /\ events \subseteq Event
  /\ dirs \subseteq Jobs
  /\ pc \in [Jobs -> JobSteps]
  /\ cloned \subseteq Jobs
  /\ snap \in [Jobs -> Revisions]
  /\ parsed \in [Jobs -> SUBSET Files]
  /\ chunks \in [Jobs -> 0 .. MaxChunks]
  /\ next \in [Jobs -> Nat]
  /\ embedded \in [Jobs -> Nat]
  /\ outcome \in [Jobs -> {"none", "ready", "failed", "raised"}]
  /\ dpc \in [Deletes -> DeleteSteps]
  /\ crashes \in 0 .. MaxCrashes

-----------------------------------------------------------------------------
(* Safety.                                                                 *)

\* The store never disagrees with a job's own count: unless a deletion of the
\* repository removed some, every chunk the job counted as embedded is a point,
\* and no point lies beyond the batch in flight.  (The loop of step 8.)
VectorsAccounted ==
  \A j \in Jobs :
    /\ ~MayBePurged(JobRepo[j]) => PointsOf(j, embedded[j]) \subseteq points
    /\ \A p \in points : p[1] = j => p[2] \in 1 .. Least(next[j] + BatchSize, chunks[j])

\* A row says ready only when some job of that repository has embedded and stored
\* every chunk it created: nothing else, in whatever interleaving of jobs, failures
\* and deletions, makes an unindexed repository look searchable.
ReadyMeansStored ==
  \A r \in Repos : status[r] = "ready" =>
    \E j \in JobsOf(r) :
      /\ j \in cloned /\ embedded[j] = chunks[j]
      /\ MayBePurged(r) \/ PointsOf(j, chunks[j]) \subseteq points

\* The statistics of a row are those of one whole job whose chunks are all stored (unless
\* deleted since): no failure between two batches leaves a partial count in the table, and
\* two jobs of a repository that end in any order no mixed one.
StatsOfOneJob ==
  \A r \in Repos :
    /\ stats[r].embedded = stats[r].chunks
    /\ stats[r].chunks # 0 =>
         \E j \in JobsOf(r) :
           /\ stats[r].chunks = chunks[j]
           /\ MayBePurged(r) \/ PointsOf(j, chunks[j]) \subseteq points

\* Consumers may trust an event: repository.indexed carries the number of chunks
\* the job created, all of them stored (unless deleted since); and a job that was
\* announced as failed is never announced as indexed, except when the broker took
\* the event and its acknowledgement was lost.
EventsTruthful ==
  \A e \in events : e.type = "indexed" =>
    /\ e.count = chunks[e.job]
    /\ MayBePurged(JobRepo[e.job]) \/ PointsOf(e.job, e.count) \subseteq points
    /\ (\E f \in events : f.type = "failed" /\ f.job = e.job) => "lost" \in Faults

\* How a job ended and what it told the other services agree.
OutcomeAnnounced ==
  \A j \in Jobs : pc[j] = "ended" =>
    /\ outcome[j] # "none"
    /\ outcome[j] = "ready" =>
         /\ \E e \in events : e.job = j /\ e.type = "indexed"
         /\ \A e \in events : e.job = j => e.type = "indexed"
    /\ outcome[j] = "failed" => \E e \in events : e.job = j /\ e.type = "failed"

\* A row is in an intermediate status only while a job of that repository is still
\* under way, or because one crashed or could not even record its failure: no
\* interleaving of complete jobs leaves a repository "indexing" for ever.  And it is
\* "deleting" only while a deletion is at work, or because one of them raised or died.
StuckOnlyByCrash ==
  \A r \in Repos :
    /\ status[r] \in Transient =>
         \E j \in JobsOf(r) : Running(j) \/ pc[j] = "dead" \/ outcome[j] = "raised"
    /\ status[r] = "deleting" =>
         \E d \in Deletes : DelRepo[d] = r /\ dpc[d] \in Begun

\* Deletion cascades and the foreign key hold whatever a running job does: there is
\* no indexed_files row without its repository.
NoOrphanFileRows ==
  \A r \in Repos : ~Exists(r) => \A f \in Files : fileRows[r][f] = NoRow

\* The hash stored for a file is that of a revision some job of the repository cloned
\* and parsed: a push during the run does not leak into the records.
HashesFromClones ==
  \A r \in Repos, f \in Files : fileRows[r][f] # NoRow =>
    \E j \in JobsOf(r) : f \in parsed[j] /\ snap[j] = fileRows[r][f] /\ j \in cloned

\* The finally block reclaims a directory on every path out of the pipeline once
\* clone has returned it: one that is still there after the job's end is that of a
\* job whose clone failed or whose process died.
ClonesReclaimed ==
  \A j \in dirs : Running(j) \/ pc[j] = "dead" \/ (pc[j] = "ended" /\ j \notin cloned)

-----------------------------------------------------------------------------
(* The inductive invariant: what the position of a job says of its locals, *)
(* and each property above in a form that one step preserves.              *)

Early == {"idle", "queued", "lookup", "mkdtemp", "cloning", "parsing"}
Preparing == {"saving", "startEmbedding", "checkCollection", "createCollection"}
Stored == {"updateStats", "markReady", "publishIndexed"}
Over == {"cleanup", "ended", "dead"}
\* A job at one of these has nothing left to parse or embed.
Late == {"publishIndexed", "markFailed", "publishFailed"} \cup Over
\* A job at one of these still has a final status to write.
Unsettled ==
  {"lookup", "mkdtemp", "cloning", "parsing", "saving", "startEmbedding",
   "checkCollection", "createCollection", "embedding", "updateStats", "markReady",
   "markFailed"}

LocalsMatchStep(j) ==
  /\ embedded[j] = Least(next[j], chunks[j])
  /\ pc[j] \in Early => chunks[j] = 0 /\ parsed[j] = {}
  /\ pc[j] \in Early \cup Preparing => next[j] = 0
  /\ pc[j] = "embedding" => next[j] < chunks[j]
  /\ pc[j] \in Stored => next[j] >= chunks[j]
  /\ pc[j] \in {"parsing", "embedding"} \cup Preparing \cup Stored => j \in cloned

LoopInv == \A j \in Jobs : LocalsMatchStep(j)

ReadyInv ==
  \A r \in Repos : status[r] = "ready" =>
    \E j \in JobsOf(r) :
      /\ pc[j] \in Late /\ j \in cloned /\ embedded[j] = chunks[j]
      /\ MayBePurged(r) \/ PointsOf(j, chunks[j]) \subseteq points

EventsInv ==
  \A e \in events :
    /\ e.type = "indexed" =>
         /\ pc[e.job] \in Late \ {"publishIndexed"}
         /\ pc[e.job] \in {"markFailed", "publishFailed"} => "lost" \in Faults
    /\ e.type = "failed" => pc[e.job] \in Over /\ e.count = 0

OutcomeInv ==
  \A j \in Jobs :
    /\ pc[j] \notin Over => outcome[j] = "none"
    /\ pc[j] \in {"cleanup", "ended"} =>
         /\ outcome[j] # "none"
         /\ outcome[j] = "ready" =>
              /\ \E e \in events : e.job = j /\ e.type = "indexed"
              /\ \A e \in events : e.job = j => e.type = "indexed"
         /\ outcome[j] = "failed" => \E e \in events : e.job = j /\ e.type = "failed"

StatsInv ==
  \A r \in Repos :
    /\ stats[r].embedded = stats[r].chunks
    /\ stats[r].chunks # 0 =>
         \E j \in JobsOf(r) :
           pc[j] \in Late \cup {"markReady"} /\ embedded[j] = chunks[j] /\ stats[r].chunks = chunks[j]

SettledInv ==
  \A r \in Repos : status[r] \in Transient =>
    \E j \in JobsOf(r) : pc[j] \in Unsettled \cup {"dead"} \/ outcome[j] = "raised"

DeletingInv ==
  \A r \in Repos : status[r] = "deleting" =>
    \E d \in Deletes : DelRepo[d] = r /\ dpc[d] \in Begun

RowInv ==
  \A r \in Repos : ~Exists(r) =>
    /\ stats[r] = [chunks |-> 0, embedded |-> 0]
    /\ \A f \in Files : fileRows[r][f] = NoRow

IInv ==
  /\ TypeOK
  /\ LoopInv
  /\ VectorsAccounted
  /\ ReadyInv
  /\ StatsInv
  /\ EventsTruthful
  /\ EventsInv
  /\ OutcomeInv
  /\ SettledInv
  /\ DeletingInv
  /\ RowInv
  /\ HashesFromClones
  /\ ClonesReclaimed

-----------------------------------------------------------------------------
(* What a step may never do.                                               *)

\* A deleted repository stays deleted, and its statistics and files with it: the
\* jobs still running for it update no row.
NeverResurrected ==
  [][\A r \in Repos : status[r] = "dropped" =>
       status'[r] = "dropped" /\ UNCHANGED <<stats[r], fileRows[r]>>]_vars

-----------------------------------------------------------------------------
(* Liveness, under Fairness.                                               *)

\* Every job that was accepted ends, by itself or with its process, and every deletion is
\* answered, whatever the others do to the rows and vectors it works on.
JobsAndDeletesEnd ==
  /\ \A j \in Jobs : pc[j] = "queued" ~> pc[j] \in {"ended", "dead"}
  /\ \A d \in Deletes : dpc[d] = "marking" ~> ~Deleting(d)

-----------------------------------------------------------------------------
(* The contract of a job.                                                  *)

phase == [j \in Jobs |-> CASE pc[j] = "ended" -> outcome[j]
                           [] pc[j] \in {"idle", "dead"} -> pc[j]
                           [] OTHER -> "running"]
announced == {<<e.type, e.job, e.count>> : e \in events}
Contract == INSTANCE IndexingContract WITH size <- chunks, written <- embedded

\* The pipeline implements the contract.
ImplementsContract == Contract!Spec

-----------------------------------------------------------------------------
(* A claim of the repository that the pipeline does not keep.              *)

\* delete_repository: "Delete a repository and all associated data (files, vectors,
\* DB records)."
DeletedLeavesNothing ==
  \A d \in Deletes : dpc[d] = "done" => \A p \in points : JobRepo[p[1]] # DelRepo[d]
=============================================================================
