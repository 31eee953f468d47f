------------------------------- MODULE Lifespan -------------------------------
(***************************************************************************)
(* The lifespan of a Python service (main.py of embedding, rag and search) *)
(* under uvicorn: its clients are constructed and connected one after      *)
(* another, requests and the jobs they leave behind use them, and after a  *)
(* signal and the last of these they are disconnected.                     *)
(***************************************************************************)
EXTENDS Naturals, Sequences, Functions

CONSTANTS
  Connections,  \* connections, each with one request at a time
  NoClient

VARIABLES
  service,  \* which service this is
  phase,
  step,     \* the position in its order of starting or stopping
  handle,   \* what each client holds: nothing, a connection, or one that never opened
  place,       \* where each request is
  refused,  \* history: the clients whose servers refused
  missed,   \* history: the clients that a request found unconnected
  broken    \* history: the client whose disconnect raised

lifespanVars == <<service, phase, step, handle, place, refused, missed, broken>>

Client(name, args) == [name |-> name, args |-> args]

EmbeddingStart ==
  <<Client("pg", {"dsn"}), Client("qdrant", {"url", "api_key"}),
    Client("kafka", {"bootstrap_servers", "client_id"})>>
RagStart ==
  <<Client("qdrant", {"url", "api_key"}), Client("pg", {"dsn"}),
    Client("redis", {"redis_url"})>>
SearchStart == <<Client("qdrant", {"url", "api_key"}), Client("pg", {"dsn"})>>

EmbeddingStop == <<"kafka", "qdrant", "pg">>
RagStop == <<"redis", "qdrant", "pg">>
SearchStop == <<"qdrant", "pg">>

\* The clients that the adapters of each service are given.
EmbeddingWiring == {"pg", "qdrant", "kafka"}
RagWiring == {"qdrant", "pg", "redis"}
SearchWiring == {"qdrant", "pg"}

\* The parameters of the clients' constructors.
PostgresParameters == {"dsn", "min_size", "max_size", "max_inactive_connection_lifetime"}
QdrantParameters == {"url", "api_key", "prefer_grpc"}
KafkaParameters == {"bootstrap_servers", "client_id"}
RedisParameters == {"url", "decode_responses"}

Services == {"embedding", "rag", "search"}
Clients == {"pg", "qdrant", "kafka", "redis"}
ASSUME NoClientAssumption == NoClient \notin Clients
StartOrder == [embedding |-> EmbeddingStart, rag |-> RagStart, search |-> SearchStart]
StopOrder == [embedding |-> EmbeddingStop, rag |-> RagStop, search |-> SearchStop]
Wired == [embedding |-> EmbeddingWiring, rag |-> RagWiring, search |-> SearchWiring]
Parameters ==
  [pg |-> PostgresParameters, qdrant |-> QdrantParameters,
   kafka |-> KafkaParameters, redis |-> RedisParameters]

\* Every construction of a client.
Constructions == UNION {Range(StartOrder[s]) : s \in Services}

LifespanInit ==
  /\ service \in Services
  /\ phase = "starting" /\ step = 1
  /\ handle = [c \in Clients |-> "none"] /\ place = [r \in Connections |-> "idle"]
  /\ refused = {} /\ missed = {} /\ broken = NoClient

-----------------------------------------------------------------------------
(* Startup.                                                                *)

Starting(c) ==
  /\ phase = "starting" /\ step <= Len(StartOrder[service])
  /\ c = StartOrder[service][step]

\* A call with an argument that __init__ does not have is a TypeError.
Constructs(c) == c.args \subseteq Parameters[c.name]

\* Nothing catches what the lifespan raises: uvicorn gives up.
ConstructRaises(c) ==
  /\ Starting(c) /\ ~Constructs(c)
  /\ phase' = "failed"
  /\ UNCHANGED <<service, step, handle, place, refused, missed, broken>>

Connect(c) ==
  /\ Starting(c) /\ Constructs(c)
  /\ handle' = [handle EXCEPT ![c.name] = "open"] /\ step' = step + 1
  /\ UNCHANGED <<service, phase, place, refused, missed, broken>>

\* create_pool opens connections at once (Qdrant's client and Redis's open none): it raises
\* before there is a pool to keep.
PoolRefused(c) ==
  /\ Starting(c) /\ Constructs(c) /\ c.name = "pg"
  /\ phase' = "failed" /\ refused' = refused \cup {"pg"}
  /\ UNCHANGED <<service, step, handle, place, missed, broken>>

\* The producer is kept before it is started, and the lifespan goes on without it.
ProducerRefused(c) ==
  /\ Starting(c) /\ Constructs(c) /\ c.name = "kafka"
  /\ refused' = refused \cup {"kafka"}
  /\ handle' = [handle EXCEPT !["kafka"] = "dead"] /\ step' = step + 1
  /\ UNCHANGED <<service, phase, place, missed, broken>>

Serve ==
  /\ phase = "starting" /\ step > Len(StartOrder[service])
  /\ phase' = "serving"
  /\ UNCHANGED <<service, step, handle, place, refused, missed, broken>>

-----------------------------------------------------------------------------
(* Requests, and the jobs they leave to run after the answer.              *)

Passes(r, from, to) ==
  /\ place[r] = from /\ place' = [place EXCEPT ![r] = to]
  /\ UNCHANGED <<service, phase, step, handle, refused, missed, broken>>

Request(r) == phase = "serving" /\ Passes(r, "idle", "running")

\* A handler or a job calls one of its clients.
Call(r, c) ==
  /\ place[r] # "idle" /\ c \in Wired[service]
  /\ missed' = IF handle[c] = "none" THEN missed \cup {c} ELSE missed
  /\ UNCHANGED <<service, phase, step, handle, place, refused, broken>>

Answer(r) == Passes(r, "running", "idle")
AnswerAndIndex(r) == service = "embedding" /\ Passes(r, "running", "indexing")
JobEnds(r) == Passes(r, "indexing", "idle")

-----------------------------------------------------------------------------
(* Shutdown.                                                               *)

Signal ==
  /\ phase = "serving" /\ phase' = "draining"
  /\ UNCHANGED <<service, step, handle, place, refused, missed, broken>>

\* Mutant: a job is a task of its own, that nobody waits for.
Tracked_NoJobs(r) == place[r] = "running"

\* A background task is part of its response: uvicorn waits for both.
Tracked(r) == place[r] # "idle"

Drained ==
  /\ phase = "draining" /\ \A r \in Connections : ~Tracked(r)
  /\ phase' = "stopping" /\ step' = 1
  /\ UNCHANGED <<service, handle, place, refused, missed, broken>>

\* A second signal: uvicorn skips the rest of the lifespan.
ForceExit ==
  /\ phase = "draining" /\ phase' = "killed"
  /\ place' = [r \in Connections |-> "idle"]
  /\ UNCHANGED <<service, step, handle, refused, missed, broken>>

Stopping(c) ==
  /\ phase = "stopping" /\ step <= Len(StopOrder[service])
  /\ c = StopOrder[service][step]

\* Without a handle, disconnect does nothing.
Disconnect(c) ==
  /\ Stopping(c)
  /\ handle' = [handle EXCEPT ![c] = "none"] /\ step' = step + 1
  /\ UNCHANGED <<service, phase, place, refused, missed, broken>>

\* Closing raises: the handle is kept, and so are those that would be next.
DisconnectRaises(c) ==
  /\ Stopping(c) /\ handle[c] # "none"
  /\ phase' = "stopped" /\ broken' = c
  /\ UNCHANGED <<service, step, handle, place, refused, missed>>

StopServing ==
  /\ phase = "stopping" /\ step > Len(StopOrder[service])
  /\ phase' = "stopped"
  /\ UNCHANGED <<service, step, handle, place, refused, missed, broken>>

LifespanNext ==
  \/ \E c \in Constructions :
       ConstructRaises(c) \/ Connect(c) \/ PoolRefused(c) \/ ProducerRefused(c)
  \/ Serve
  \/ \E r \in Connections :
       \/ Request(r) \/ Answer(r) \/ AnswerAndIndex(r) \/ JobEnds(r)
       \/ \E c \in Clients : Call(r, c)
  \/ Signal \/ Drained \/ ForceExit \/ StopServing
  \/ \E c \in Clients : Disconnect(c) \/ DisconnectRaises(c)

LifespanSpec == LifespanInit /\ [][LifespanNext]_lifespanVars
-----------------------------------------------------------------------------
Phases ==
  {"starting", "failed", "serving", "draining", "killed", "stopping", "stopped"}

\* Every variable has its type; only the producer is ever kept without a connection, and
\* only a service that has started has requests.
LifespanTypeOK ==
  /\ service \in Services /\ phase \in Phases /\ step \in 1 .. 4
  /\ handle \in [Clients -> {"none", "open", "dead"}]
  /\ place \in [Connections -> {"idle", "running", "indexing"}]
  /\ refused \subseteq Clients /\ missed \subseteq Clients
  /\ broken \in Clients \cup {NoClient}
  /\ \A c \in Clients : handle[c] = "dead" => c = "kafka" /\ "kafka" \in refused
  /\ phase \notin {"serving", "draining"} => \A r \in Connections : place[r] = "idle"

\* Neither a request nor a job that outlives its answer and the signal ever meets a client
\* that is not connected yet, or no longer: that has no handle.  A producer whose start was
\* refused has one, whose every send fails at once (the publishers of Indexing and RagChat
\* swallow that), and is not counted.
ClientsOutliveRequests == missed = {}

\* A service that stops leaves a connection open only if closing one has raised, and then
\* only that one and those after it in its order of stopping.
StopCloses ==
  phase = "stopped" => \A i \in 1 .. Len(StartOrder[service]) :
    LET c == StartOrder[service][i].name IN
    handle[c] # "none" =>
      /\ broken # NoClient
      /\ \E j, k \in 1 .. Len(StopOrder[service]) :
           j <= k /\ StopOrder[service][j] = broken /\ StopOrder[service][k] = c

\* A service gives up its start only when PostgreSQL is down -- or because it constructs
\* its Redis client with a parameter that this does not have, as the RAG service does,
\* which therefore never serves.
StartsWithPostgres ==
  /\ phase = "failed" /\ "pg" \notin refused =>
       service = "rag" /\ StartOrder[service][step].name = "redis"
  /\ service = "rag" => phase \in {"starting", "failed"}
=============================================================================
