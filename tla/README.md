# AgesAI in TLA+

AgesAI answers questions about source code. A Go **gateway** authenticates and
limits requests and proxies them to three Python services: **embedding** clones
repositories, cuts them into chunks and stores their vectors; **search** finds
chunks by meaning and by words; **rag** chats about them with a language model.
They share PostgreSQL, Qdrant, Redis and Kafka.

This directory models the parts of the system that are hard to test, checks the
models on small instances with TLC, and proves the main results for instances of
every size with TLAPS. `PROJECT.json` lists the runs, the properties, the source
lines each definition stands for, the hazards and the theorems. Paths below are
relative to `src/` or, where it is clear, to `src/services/`.

## 1. Inventory

### Indexing pipeline (`services/embedding`)

*State.* The row of a repository (status, statistics), the `indexed_files` rows,
the points of the Qdrant collection `code_chunks`, the events of the topic
`repository.events`, a temporary directory per clone, and the locals of each job.
*Operations.* `POST /repositories`, `POST /repositories/{id}/index` (queues
`index_repository` as a background task), `DELETE /repositories/{id}`.
*Interaction.* Jobs and deletions are coroutines of one event loop and interleave at
every await; nothing keeps two jobs of a repository, or a job and a deletion, apart.
*Hard.* Calls fail or lose their answers at any await; the except and finally
blocks run on some paths only; the process may end with its jobs; deletions overtake
jobs; batches end short.
*Correct when* a row, its vectors, its events and the job's outcome agree, deletions
take away what is theirs and nothing else, and every job ends.

### Parser and chunker (`services/embedding`)

*State.* A table of parsers, one attempt to load each per process; the file at hand.
*Operations.* `TreeSitterParser.parse`, `SemanticChunker.chunk`, called by a job for
each file; they never suspend.
*Hard.* Declarations nested in declarations, lines that two nodes share, parts of
large nodes, remainders shorter than the minimum, files without a grammar.
*Correct when* every declaration that no function, interface or enum encloses is found once
and under its class, the chunks of a node tile it, and the key by which search tells chunks apart does.

### Chat pipeline (`services/rag`)

*State.* Rows of `conversations` and `messages`, a Redis list per conversation with a
time-to-live, the locals of each chat.
*Operations.* `POST /chat` (a server-sent event stream), `DELETE /conversations/{id}`.
*Interaction.* The generator runs in the event loop; retrieval uses the stores the
embedding service fills; the client may go away at any event, which cancels it.
*Hard.* Check-then-insert of the conversation, INSERT and UPDATE that are not one
transaction, read-modify-write of the memory, a memory that expires.
*Correct when* messages are stored once and in order, the count follows them, the
memory holds what the table holds, the prompt says nothing twice, and every chat ends.

### Search (`services/search`, and the retriever and reranker of `services/rag`)

*State.* None between requests; a request carries two ranked lists, the fused list,
the groups, the reranked list.
*Hard.* Several points of one chunk in one list, scores rounded after they are sorted,
ties, limits, groups that must not disturb the order, a filter one of the lists ignores.
*Correct when* the answer holds the best chunks by the formula, each once, best first.

### Gateway (`gateway`)

*State.* A counter and a window start per rate-limit key, under a mutex; the cached key
set and its age, under a read-write mutex; per request its status and body; the phase
of `main` and the write deadline of each connection.
*Operations.* `InMemoryRateLimiter.Allow`, `jwksCache.getKey`, the middleware chain,
`ReverseProxy`, the server's start and shutdown.
*Interaction.* A goroutine per request; Clerk publishes and retires keys; a signal.
*Hard.* Windows that end between two requests, a key set that is replaced while others
read it or wait to fetch it, a lock held during a network call, streams that break,
deadlines of three kinds over one response, and no deadline at all for connecting to a
service and writing the request to it.
*Correct when* the budget is kept, only tokens of recent keys pass, new keys are accepted
at once, no lookup hangs, a service that has the request and stays silent is answered for,
and a shutdown ends.

### Clerk verifier of the Python services (`shared/ages_common/auth`)

*State.* The cached key set and its age, without a lock.
*Operations.* `ClerkJWTVerifier.verify`. No route calls it: the services trust the
gateway's `X-User-ID`, and the verifier is for a deployment without the gateway.
*Interaction.* Tasks that miss all fetch, and their replies overtake one another.
*Correct when* it promises what the gateway's cache promises.

### Kafka consumer base class (`shared/ages_common/events/consumer.py`)

*State.* The client, `_running`; at the broker the assignment and the committed offsets.
*Operations.* `start`, `consume`, `stop`. No service subclasses it.
*Hard.* Offsets that are committed on a timer, whatever the handler is doing; crashes
and rebalances; messages that are no events, or not even JSON.
*Correct when* a committed offset stands for messages that came to something, nothing
comes twice without a reason, and nothing is passed over.

### Lifespan of the Python services (`main.py`)

*State.* The clients of the process, each connected or not.
*Operations.* The start in its order, the stop in its own, under uvicorn.
*Hard.* Failures half-way through either; requests, and background jobs that outlive
their answers, while the process drains; a second signal.
*Correct when* no request and no job meets a client that is not connected.

### Without a model

**Configuration and shared models**: values, no state after start; the values are the
CONSTANTS of the modules. **Observability**: output only. **Agent, review, diagram and
planner services**: the gateway has routes and migrations have tables for them, the
repository has no code.

## 2. Modules

| Module | Models | From |
|:--|:--|:--|
| `Indexing` | jobs, deletions, and the stores they share | `embedding/app/domain/services.py` and its adapters |
| `IndexingContract` | what a job promises to the readers of its outcome and events (abstract) | |
| `IndexingProperties`, `IndexingProofs` | properties, inductive invariant, refinement mapping; proofs | |
| `Chunking`, `…Properties`, `…Proofs` | a file's way to nodes and chunks | `embedding/app/infrastructure/tree_sitter_parser.py`, `semantic_chunker.py` |
| `RagChat`, `…Properties`, `…Proofs` | chats, messages, memory, deletion | `rag/app/domain/services.py` and its adapters |
| `Search`, `…Properties`, `…Proofs` | fusion, grouping, reranking over any ranked lists | `search/app/domain/services.py`, `rag/app/infrastructure/hybrid_retriever.py`, `reranker.py` |
| `RateLimiter` | the limiter with its clock, and its properties | `gateway/internal/middleware/ratelimit.go` |
| `KeyLookup` | what a cache of Clerk's keys promises (abstract) | |
| `JwksCache` | lookups under the lock, and the environment (Clerk, the clock) | `gateway/internal/middleware/auth.go` |
| `Gateway`, `…Properties`, `…Proofs` | extends `JwksCache` with the chain, the proxy and the recovery of panics | `gateway/internal/router/router.go`, `proxy`, `middleware` |
| `GatewayServer` | the deadlines of the server and its proxies, and its shutdown | `gateway/cmd/server/main.go`, `config`, `proxy` |
| `ClerkVerifier`, `…Properties` | lookups without a lock | `shared/ages_common/auth/clerk.py` |
| `EventConsumer`, `…Properties` | a consumer group | `shared/ages_common/events/consumer.py` |
| `Lifespan` | start and stop of each service, and its properties | `*/app/main.py` and the clients' `connect` and `disconnect` |
| `GatewayLimitsProofs` | proofs about `RateLimiter` and `GatewayServer` | |
| `ServicesProofs` | proofs about `Lifespan`, `EventConsumer` and `ClerkVerifier` | |
| `RecursionLemmas` | lemmas on induction, recursive functions and concatenation that the proofs share | |
| `MC*` | values for the constants, symmetry | |

`KeyLookup` is implemented twice, by `Gateway` (through `JwksCache`) and by
`ClerkVerifier`: the two caches, one in Go with a lock and one in Python without, are
shown to promise the same, with different ages (`MaxAge`).

The two modules of proofs about several components extend them all, so the names of
`RateLimiter`, `Lifespan` and `EventConsumer` that others have too carry a prefix
(`LimiterInit`, `LifespanNext`, `ConsumerSpec`).

How the modules correspond to the code:

* **One action is one awaited call** (Python) or the code between two points where a
  goroutine may wait (Go), with the straight-line code up to the next one. `pc`, `at`
  and `dpc` say which call is next; each value is named for the call.
* **A call has an outcome**: `ok`, `error` (it raised and nothing happened), `lost` (it
  took effect, and then raised). `Faults` is the set of the last two that an instance
  allows. A cancelled request in `RagChat` is such a call.
* **Data are what the properties tell apart.** A chunk is a job and a number (chunk ids
  are fresh UUIDs), a file's hash is the revision it was read at, a message is its chat
  and its role, a token is its kid, a score is a whole number of units, a file in
  `Chunking` is its number of lines and a tree of line ranges, a message on a topic is
  its kind.
* **The stores are modelled by the statements the code sends them**: `UPDATE ... WHERE
  id` touches no row when there is none, `ON CONFLICT DO NOTHING` keeps the old row,
  foreign keys refuse and cascade, Qdrant refuses to create a collection twice or to
  delete from one that is not there.
* **Libraries are modelled by how the code uses them** and marked external in the map:
  aiokafka's position moves when a message is handed over, before the handler runs, and
  is committed on a timer, before a rebalance and when the client stops; uvicorn waits
  for requests and background tasks at the first signal and drops them at the second;
  net/http sets a connection's write deadline when it has read a request; httpx's timeout
  is for each read of a response, not for the response; Go's transport counts
  `ResponseHeaderTimeout` from the moment the request is written, may send it again on
  another connection, and puts no bound on the time before; net/http may keep the headers of
  a response in its buffer until the body fills it or ends.
* **History variables** are kept only where a property needs the past: `retired` and
  `steady` in the key caches (when Clerk retired a key; the keys published throughout a
  fetch), `admitted` and `refused` in `RateLimiter`, `fates` and `handed` in
  `EventConsumer`, `missed` and `refused` in `Lifespan`.
* In `Indexing`, parsing and chunking are one step that gives any number of chunks,
  because the parser never suspends; what they compute is `Chunking`. Embedding a batch
  and storing it are one step, because the embedding call touches no store (its failure
  is the `error` outcome).
* In `Gateway` what a request is and whether the limiter lets it pass are choices: the
  limiter's own state is `RateLimiter`, which no other part of the gateway reads. Time is
  left to `GatewayServer`, which in turn leaves the chain to `Gateway`.

Mutated forms of an action stand beside it, under the comment "Mutant", with the
operator's name and a suffix; nothing uses them in `Next`.

## 3. Plan

Done, in this order: `Indexing` with its contract and proofs; `RateLimiter` with its
proofs; `RagChat`; `JwksCache` and `Gateway`; `Search`; then `Chunking`, `EventConsumer`,
`KeyLookup` with its two implementations, `GatewayServer`, `Lifespan`, and the proofs
about all of these, those about `Chunking` and `Search` last.

What is left would be:

1. Composition of `EventConsumer` with the topic of `Indexing`, when a service consumes it.
2. An abstract specification of a conversation (an append-only log with a cache) that
   `RagChat` implements; its parts are `MessagesAppended` and `MemoryBacked` now.
3. Retry of an indexing job, which the code leaves to the user.

## 4. Runs

Bounds are constants: model values for ids, and `Max...`, `Horizon` for counters.

| Run | Instance | Asks |
|:--|:--|:--|
| `MCIndexing` | 2 jobs and 1 deletion of 1 repository, both faults at every call, batches of 2, up to 3 chunks, 1 crash; jobs symmetric | whether rows, vectors, statistics, events, outcomes and clones agree; `NeverResurrected`; the refinement of the contract |
| `MCIndexingLive` | 2 jobs of 1 repository whose upstream changes once, 1 deletion of a second repository, fair | whether a deletion leaves the vectors of another repository alone; what hash a file keeps that is indexed twice; whether jobs and deletions end |
| `MCIndexingOrphans` | 1 job and 1 deletion, no fault | expected violation, see below |
| `MCChunking` | every tree of 3 nodes over 5 lines, and of 2 nodes with interfaces too, minimum 2, maximum 3 lines, with a parser and without | what is found, how it is tiled, what is told apart |
| `MCRagChat` | 2 chats of one conversation (a chat names it or has the service make it) and 2 deletions of it, both faults, memory of two exchanges, 1 expiry, fair | messages, count, memory, prompts; termination |
| `MCSearch` | 4 points, 3 chunks (one with two points), 2 files, limit 3, top_k 2, top_n 1, k = 60, 3 terms | fusion, grouping, reranking on every pair of lists |
| `MCRateLimiter` | 2 keys, limit 2, window 4, 2 ticks to a second, time 0..6 | what is let through and refused, and when to come back |
| `MCGateway` | 2 connections, a usable and an unusable key, TTL 1, stale limit 2, timeout 1, time 0..3, fair | key freshness, rotation, authenticity, needless fetches, no hanging lookup |
| `MCGatewayServer` | 2 connections, write timeout 2, proxy timeouts 1 and 3, grace 1, time 0..4, fair | shutdown, 502 in time; connecting and writing take any time |
| `MCClerkVerifier` | 2 tasks, a usable and an unusable key, TTL 1, timeout 1, documents of 2 reads, time 0..4, fair | the promise of `KeyLookup`, termination |
| `MCEventConsumer` | 2 processes with 2 lives each, 1 partition with an invalid message, an event and an undecodable one, 1 unforced rebalance, fair | what a committed offset stands for, duplicates, progress |
| `MCLifespan` | each of the 3 services, 3 connections, any failure, two signals | clients against requests and jobs |

Why the bounds are enough: two jobs and a deletion of one repository give every pair of
actors that share a row, and the actors of a third job meet no state that two do not (this
is what the proofs confirm, for any number). Three chunks in batches of two make a full
batch, a short one, and no batch. Two chats overlap in each of their calls; the memory has
room for both of their exchanges, so that one may be missing from it (with room for one,
the loss would look like the window's own; that a window which overflows keeps whole
exchanges rests on the proof); two deletions let a conversation be deleted, created again
by a chat that names it, and deleted again. A repository with two jobs and one that is
deleted are all that `VectorsAccounted` can tell of a collection that is shared. A window
of four ticks and two seconds, with time for one and a half of them, has requests at each
side of a boundary, and a Retry-After with and without a fraction to drop. TTL 1, stale
limit 2 and time 3 let a cache be fresh, stale, and too stale to use; time 4 lets a
document of two reads be late and its keys outlive their TTL. The proxy timeouts lie below
and above the write timeout, and a response may outlast each of them and the shutdown's
grace. A log with each kind of message has the undecodable one last, since nothing passes
it. `EveryMessageSeen` is about a process that consumes and is left alone; with this log
such a process ends where it raises, at the undecodable message, and must have got there:
TLC finds fair behaviours in which the premise holds, and a process that stalls before
would refute the property. Two lives of two processes lose the partition by a crash and by
a rebalance. Three connections are one for each state a request leaves behind: running,
indexing, gone. Trees of three nodes nest twice, put two siblings on one line, and split a
node with a remainder that is too short, long enough, and none; two nodes are enough for
an interface with something in it, which a function is like as far as the descent goes.
The lists of `MCSearch` see more chunks than `top_k` keeps and more citations than `top_n`
keeps, three results of two files, equal scores, shared chunks and duplicates.

Deadlock is not checked where the system rests when all requests are answered, or the
clock has reached its bound; in `MCRateLimiter` it is.

### What the code does not do

`MCIndexingOrphans` checks a statement of the code that TLC finds violated: the
docstring of `delete_repository` (`embedding/app/domain/services.py:217`) says that it
deletes "all associated data (files, vectors, DB records)", but a job in flight stores
vectors after the deletion has succeeded, and nothing ever removes them.

Some of the code cannot run at this commit, and the models are of what it would do once it
can. Where a model lets such a call succeed it has more behaviours than the code; its
invariants hold of the code all the same, and what the violation shows waits for the repair:

* `PostgresRepository.create` reads `repository.source.value` (`postgres_repository.py:32`)
  and `save_message` reads `message.role.value` (`postgres_conversation_repository.py:61`),
  both of fields that `use_enum_values=True` has made strings: both raise. `_row_to_entity`
  (`postgres_repository.py:103`) does not accept the UUIDs and JSON that asyncpg returns, and
  the INSERTs of conversations and messages name columns that migration 003 does not have.
* No migration creates `code_chunks`, which both full-text searches read; they swallow the
  error and find nothing, so that hybrid search is vector search.
* The RAG service passes `RedisClient` a parameter it does not have and never starts
  (`Lifespan` has it).

Met while modelling, without a run of its own; the models follow the code:

* `RateLimiter`: the comment says "sliding window" (`ratelimit.go:21`), the code has
  fixed ones, so `TwiceLimitPerWindow` is the bound that holds. The limiter runs before
  authentication, so its key is the remote address with the port: a limit per connection.
  `int(retryAfter.Seconds())` (`ratelimit.go:91`, `103`) drops the fraction of a second, so
  that a client which waits as long as it is told may be refused by the same window once more;
  `RetryAfterClose` says that a second more is enough, and that no Retry-After is too long.
* `Indexing`: a clone that fails or times out leaves its directory (`git_cloner.py:38`),
  which `ClonesReclaimed` excepts; a second run keeps the file hashes of the first (`ON
  CONFLICT DO NOTHING`), so `HashesFromClones` promises no more than a hash of some clone.
* `RagChat`: the memory is called a "Sliding window of past messages" (`rag/app/config.py:35`).
  `append_memory` (`redis_memory.py:35`) reads, awaits and writes back: of two chats that end
  together the second writes over the first, whose exchange is missing from a window that has
  room for it. `MemoryBacked` promises whole exchanges, not all of them.
* `Search`: "All search endpoints support [...] `chunk_types`" (`search/README.md:34-37`), but
  the full-text search of a hybrid search has no such parameter (`postgres_fts.py:25`).
  `OnlyTextStrays` says that it alone strays.
* `EventConsumer`: `consume` "Runs until stop() is called" (`consumer.py:81`), but a message
  that cannot be decoded raises in the iterator (`consumer.py:61`), outside the try block that
  skips bad messages, and ends the loop; it is met again at every restart. `EveryMessageSeen`
  is about the messages before it.
* `Gateway`: when a stream breaks, `Recovery` stops `http.ErrAbortHandler` and appends a
  problem document to a response that is already a 200. `X-Request-ID` is set on the
  response, not on the request that is proxied.
* `GatewayServer`: the write timeout (30 s) cuts the event streams whose proxy allows 300 s,
  and equals the default proxy timeout, so that the 502 of a silent service comes too late;
  `AnsweredInTime` is about routes whose timeout ends before the deadline. The transport
  (`proxy.go:57-62`) has no timeout to connect, and `ResponseHeaderTimeout` begins when the
  request is written: a service that cannot be reached, or does not read, is answered for only
  when the system gives up, which may be after the deadline. `AnsweredInTime` therefore begins
  at the written request, and nothing is promised before it.
* `Chunking`: `tree_sitter_typescript` has no `language()`, so TypeScript files always
  become one module; declarations in functions, interfaces and enums are not extracted; code beside the
  declarations of a file is not indexed; a grammar that fails to load once is not tried
  again; a name is the first identifier of a node, which need not be its name.
* `ClerkVerifier`: errors of a fetch are not turned into `AuthenticationError`.
* `Lifespan`: a producer whose start was refused is kept, and each of its sends fails;
  `ClientsOutliveRequests` counts only clients without a handle. Readiness always says ready.

`KeywordsDecide` is about queries of a few terms. With `top_k` at its default of 20, and 21
distinct terms, a keyword weighs no more, once rounded, than the largest difference of fused
scores (0.7 times the first rank in both lists less the last in one), and ranks count again;
several points of one chunk in a list add up and lower that number. `KeywordsDecideHolds` has a
bound on terms and points under which the property holds for every `top_k`.

## 5. Fairness

* `Indexing` (`FairSpec`) and `RagChat` (`FairSpec`): weak fairness of each job, deletion
  and chat. Each awaited call returns or raises (`git clone` runs under `wait_for`; the
  clients of Qdrant, Redis, Kafka and the models have timeouts or fail with their connection;
  a model that fails ends the stream) and the event loop resumes what is ready. The asyncpg
  pool is made without a `command_timeout`: that PostgreSQL answers each statement, or its
  connection breaks, is an assumption about the server which the code does not back. No fairness is assumed of arrivals, pushes, expiry or crashes, nor of
  which outcome a call has.
* `Gateway` (`FairSpec`): strong fairness of each lookup. A fetch ends by the client's
  timeout (`Tick` never passes it), and `sync.RWMutex` starves nobody: a waiting writer
  keeps new readers out, and a mutex waited for too long is handed over in order. Weak
  fairness would not do: the lock is taken and released by others in between. Nothing is
  assumed of the rest of a request, of Clerk, or of the clock.
* `GatewayServer`: weak fairness of the clock, of a service's headers or the proxy's
  timeout once the request is written, and of `main`. No connection to a service has to come
  about and no stream has to end: `ShutdownEnds` rests on the context alone.
* `ClerkVerifier`: weak fairness of each verification: a read ends by its timeout, a
  document has finitely many, and the event loop runs every task.
* `EventConsumer`: weak fairness of each process's steps (a handler returns or raises) and
  of the group's giving each partition to a member that asks for messages, when there is one
  and its owner is gone or asks no more: aiokafka leaves the group after
  `max_poll_interval_ms`. Nothing makes a process start again, stop or commit.
  `EveryMessageSeen` has as its premise that a process has called `consume` and nobody stops
  or kills it.

## 6. Proofs

Each component has an inductive invariant (`IInv`, or the component's name and `Inv` where
modules are extended together), which its proofs show to hold for any values of the
constants, with a lemma per action or per conjunct, and from which they derive the
properties. The type invariants are conjuncts of it and theorems (`TypeCorrect`), and are
not run. What the properties lack to be inductive:

* **`IndexingProofs`.** `LoopInv`: what the locals are at each call (nothing embedded before
  the loop, the index below the number of chunks inside it, `embedded = min(next, chunks)`
  throughout). `ReadyInv`: `ReadyMeansStored` with a witness no later step can change, a job
  past its last status update. `EventsInv`, `OutcomeInv`: where a job is once an event of its
  is out. `SettledInv`: a row in an intermediate status has a job that owes it a final one.
  `RowInv`: a repository without a row has no statistics and no file rows. `StatsInv`: the
  statistics of a row are those of a job that is past `UpdateStats`, whose plan no longer
  changes. `DeletingInv`: a row that is being deleted has a deletion behind it. `Refinement` then
  shows that `Indexing` implements `IndexingContract`: parsing is `Measure`, a batch is
  `Write`, the two publications are the announcements, the end of `cleanup` is `Finish`, a
  crash is `Die`, and everything else is a stutter. The step that needs the invariant is
  `AnnounceIndexed`: all chunks are written, and `failed` was not announced before.
* **`RagChatProofs`.** `FreshInv`: what a chat has not stored yet is in no table, memory or
  local. `UniqueInv`: no message twice anywhere. `StoredInv`: what the position of a chat
  says is stored. From these the order, the prompt and the done event follow. `CountInv`
  adds a lower bound that `CountAccounted` lacks: the count, plus one for every chat whose
  UPDATE is due (`Owing`), is at most the rows; without it an UPDATE might overtake the
  rows. It counts sets of chats, hence the assumption that `Chats` is finite. `MemoryInv`
  says that memories, and what a chat has read of them, are sequences of whole exchanges
  (`Whole`); the truncation keeps this only if `max_memory_messages` is even, which
  `MemoryBackedHolds` assumes (the default is 10).
* **`RateLimiter`** (`GatewayLimitsProofs`). Admissions of a key lie in windows that do not
  overlap, numbered without gaps from 1 to at most the limit (`InOwnWindow`, `WindowsApart`,
  `Numbered`, `NoGap`). An interval as long as a window meets at most two windows, hence
  `TwiceLimitPerWindow`; a full window has `Limit` admissions, hence `RefusedOnlyAtLimit`.
  `RefusedInFullWindow` bounds a truncated Retry-After from both sides (`WholeSeconds`), hence
  `RetryAfterClose`.
* **`GatewayProofs`.** `KeysInv`, `ReplyInv`: a cached key was published until no more than
  the client's timeout before it was stored, and a reply holds every usable key that was
  published throughout its fetch. `FetchInv`: whoever fetches has found no fresh key under
  the lock. `AuthenticInv`, `ResponseInv`: what the position of a request says of its key and
  response. `RefinesKeyLookup`: a request between its lookup and its next one stutters, both
  reads of the cache are `Found`, taking the lock is `Look`, a store is `Found` or `NotFound`.
* **`ClerkVerifier`** (`ServicesProofs`). `CacheInv`, `ReplyInv` say the same without a
  lock, with an age that grows by one timeout for each read (`Aged`); the products this
  brings are dealt with in one lemma. The age is relative to when a reply was stored, so
  that a slow old reply that replaces a newer one does no harm to the promise, only to the
  age: `MaxAge` is the TTL and `Reads` timeouts. `RefinesKeyLookup` then is the same theorem
  as the gateway's.
* **`EventConsumer`** (`ServicesProofs`). `PassedInv`: all that an owner is past has come to
  something, not only what is committed. `OnceInv`: a partition nobody owns is where the
  group committed it, and a position never lost has handed out each message before it once.
* **`Lifespan`** (`ServicesProofs`). `StartInv`, `ServeInv`, `StopInv`: which clients are
  connected at each point of the two orders, from a lemma about the tables of the three
  services.
* **`GatewayServer`** (`GatewayLimitsProofs`). `TypeOK`, which bounds each wait for
  headers by its timeout from the written request on, is inductive; `AnsweredInTime` follows,
  since an answer within that time is before the deadline.
* **`ChunkingProofs`.** The steps are few and the work is in the operators. `Flatten` says
  where the elements of `FlattenSeq` lie. `VisitFinds`, by induction from the last node of a
  tree to the first, says what the recursive descent returns below any node: every declaration
  that only classes and nodes which are no declarations enclose, once, in the order of the file, with the class around it; this
  is `DeclarationsFound`. `Parts` and `SplitChunks` say which lines the parts of a long node
  have, `ChunksOfNode` that they tile it but for a rest below the minimum; this is
  `ChunksTile`, which assumes that the minimum is no more than the maximum. The code does not
  validate the two (they are 3 and 200 by default); with a greater minimum a long node would
  lose every part. `TreeApart` (two nodes share more than a line only if one lies in the other)
  with the tiling gives `SharedOnlyByNesting`.
* **`SearchProofs`.** `FusedInv`, `GroupedInv`, `AnswerInv`: results, groups and answer are what
  the operators make of the lists; `ListsInv`, `FilterInv`: what the stores return. Then,
  of the operators: `Arrangement` says that a strict order on a finite set puts each member in
  one place, from which follow the sort (`SortedBySorts`: sorted, stable, a permutation), the
  order of a dictionary (`FirstSeenLists`) and the selection of a group (`AtPlacesSelects`).
  `AddRanksAdds` says that the loop over the ranks computes the formula, so that `FusedTop`, which
  is stated with the formula, holds of what is sorted by the loop's scores. `GroupsInOrder`:
  since the results come best first, the groups are in the order of their best scores before
  they are sorted, which is why `GroupsFollowResults` can name the results' order.
  `KeywordsDecideHolds` bounds a fused score by the points a key may have (`ScoreBound`), and
  rounding by half a unit (`NearestType`), and compares the rest with what a keyword adds
  (`KeywordOutweighs`). Its hypotheses are that a key has at most `copies` points and
  `FewTerms(copies)`: with one point to a key and k = 60, up to 13 terms, whatever `top_k`.
* **`RecursionLemmas`.** The induction theorems of the library take an operator as a parameter,
  which the provers cannot instantiate. A set can be instantiated: `LeastOf` (a set of numbers
  that is not empty has a least member) comes from the well-foundedness of `<`, and gives
  induction over an interval in both directions (`InductTo`, `InductDown`, `InductUp`) and the
  existence of functions that are defined by recursion (`Recursion`, `CountingUp`). With these
  what a recursive function returns can be proved for every input; the operators of `Chunking`
  and `Search` are recursive functions for that reason.

Assumptions: the named ASSUMEs of the modules (the maps from requests to ids, positive batch
size, limits, windows and timeouts, finite `Chats` and `Points`), which TLC evaluates in every run.

Model-checked only: liveness (`JobsAndDeletesEnd`, `ChatsEnd`, `LookupsEnd`,
`VerificationsEnd`, `ShutdownEnds`, `EveryMessageSeen`), which is out of the prover's reach,
as is anything about ENABLED. Every invariant and action property of a passing run is proved.

## 7. Not modelled

* **Configuration and shared models, observability, schemas without code** (section 1).
* **`Indexing`**: the git child process that a timeout leaves running in the directory; a
  removal of a clone that fails (`rmtree` ignores errors, `services.py:212`); order
  and partitions of the topic; a producer that is used before it has started; health checks.
* **`Gateway`**: the growth of the limiter's map and of the misses the key cache does not
  remember; the queue of lookups that each wait their own 10 s when Clerk is down, against
  the write deadline (the two are in different modules); request ids, logging and tracing, which change no state.
* **`RagChat`**: a limit of 0 (`history[-0:]` keeps everything) or an odd one (the memory
  starts with an answer); what the model answers.
* **`EventConsumer`**: `stop` while `start` still awaits the brokers, and `consume` called
  again on a client whose loop has raised.
* **`Chunking`**: text, hashes, and names; what a grammar makes of a text is any tree of
  nested, ordered line ranges.
* **`Search`**: embeddings and the text search's ranking; the stores return any ranked list.
