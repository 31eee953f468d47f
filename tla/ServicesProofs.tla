---------------------------- MODULE ServicesProofs ----------------------------
(***************************************************************************)
(* TLAPS proofs about what the Python services have in common: their       *)
(* lifespan, the Kafka consumer and the verifier of tokens, for any number *)
(* of connections, processes, partitions, keys and tasks.                  *)
(***************************************************************************)
EXTENDS Lifespan, EventConsumerProperties, ClerkVerifierProperties, TLAPS

(* The lifespan.                                                           *)

Opened(i) == StartOrder[service][i].name
Closed(i) == StopOrder[service][i]
StartSteps == 1 .. Len(StartOrder[service])
StopSteps == 1 .. Len(StopOrder[service])

\* The clients before the one that is next are connected; RAG does not get past its third.
StartInv ==
  phase = "starting" =>
    /\ step \in 1 .. Len(StartOrder[service]) + 1
    /\ \A i \in StartSteps : i < step => handle[Opened(i)] # "none"
    /\ service = "rag" => step <= 3

FailedInv ==
  phase = "failed" => "pg" \in refused \/ (service = "rag" /\ step = 3)

ServeInv ==
  /\ service = "rag" => phase \in {"starting", "failed"}
  /\ phase \in {"serving", "draining"} => \A c \in Wired[service] : handle[c] # "none"

\* The clients before the one that is next, or has raised, are disconnected.
StopInv ==
  /\ phase = "stopping" =>
       /\ step \in 1 .. Len(StopOrder[service]) + 1
       /\ \A i \in StopSteps : i < step => handle[Closed(i)] = "none"
  /\ phase = "stopped" =>
       \/ \A i \in StopSteps : handle[Closed(i)] = "none"
       \/ broken # NoClient /\ \E j \in StopSteps :
            Closed(j) = broken /\ \A i \in StopSteps : i < j => handle[Closed(i)] = "none"

LifespanInv ==
  LifespanTypeOK /\ ClientsOutliveRequests /\ StartInv /\ FailedInv /\ ServeInv /\ StopInv

(* What the tables say: the order of each service, and that only the RAG   *)
(* service's third construction raises.                                    *)
LEMMA Orders ==
  ASSUME NEW s \in Services
  PROVE  /\ Len(StartOrder[s]) = (IF s = "search" THEN 2 ELSE 3)
         /\ Len(StopOrder[s]) = (IF s = "search" THEN 2 ELSE 3)
         /\ Wired[s] \subseteq Clients
         /\ \A i \in 1 .. Len(StartOrder[s]) :
              /\ StartOrder[s][i].name \in Clients
              /\ Constructs(StartOrder[s][i]) <=> ~(s = "rag" /\ i = 3)
         /\ \A i \in 1 .. Len(StopOrder[s]) : StopOrder[s][i] \in Clients
         /\ \A c \in Wired[s] : \E i \in 1 .. Len(StartOrder[s]) : StartOrder[s][i].name = c
         /\ \A i \in 1 .. Len(StartOrder[s]) :
              \E j \in 1 .. Len(StopOrder[s]) : StopOrder[s][j] = StartOrder[s][i].name
         /\ s = "rag" => StartOrder[s][3].name = "redis"
<1> USE DEF StartOrder, StopOrder, Wired, Clients, Constructs, Parameters, Client
<1>1. CASE s = "embedding"
  BY <1>1 DEF EmbeddingStart, EmbeddingStop, EmbeddingWiring, PostgresParameters,
              QdrantParameters, KafkaParameters
<1>2. CASE s = "rag"
  BY <1>2 DEF RagStart, RagStop, RagWiring, PostgresParameters, QdrantParameters,
              RedisParameters
<1>3. CASE s = "search"
  BY <1>3 DEF SearchStart, SearchStop, SearchWiring, PostgresParameters, QdrantParameters
<1> QED
  BY <1>1, <1>2, <1>3 DEF Services

LEMMA LifespanInitInv == LifespanInit => LifespanInv
<1> SUFFICES ASSUME LifespanInit PROVE LifespanInv
  OBVIOUS
<1>1. LifespanTypeOK /\ ClientsOutliveRequests
  BY NoClientAssumption DEF LifespanInit, LifespanTypeOK, ClientsOutliveRequests, Phases, Clients
<1>2. StartInv /\ FailedInv /\ ServeInv /\ StopInv
  BY Orders DEF LifespanInit, StartInv, FailedInv, ServeInv, StopInv, StartSteps
<1> QED
  BY <1>1, <1>2 DEF LifespanInv

LEMMA StutterInv == ASSUME LifespanInv, UNCHANGED lifespanVars PROVE LifespanInv'
  BY DEF LifespanInv, LifespanTypeOK, ClientsOutliveRequests, StartInv, FailedInv, ServeInv,
     StopInv,
         StartSteps, StopSteps, Opened, Closed, lifespanVars

LEMMA StartingInv ==
  ASSUME LifespanInv, NEW c \in Constructions,
         ConstructRaises(c) \/ Connect(c) \/ PoolRefused(c) \/ ProducerRefused(c)
  PROVE  LifespanInv'
<1>1. /\ phase = "starting" /\ step \in StartSteps /\ c = StartOrder[service][step]
      /\ UNCHANGED <<service, place, missed, broken>>
  BY DEF ConstructRaises, Connect, PoolRefused, ProducerRefused, Starting, LifespanInv, StartInv,
     StartSteps
<1>2. /\ service \in Services /\ c.name \in Clients
      /\ Constructs(c) <=> ~(service = "rag" /\ step = 3)
      /\ Len(StartOrder[service]) \in 2 .. 3
  <2>1. service \in Services
    BY DEF LifespanInv, LifespanTypeOK
  <2>2. /\ Len(StartOrder[service]) = (IF service = "search" THEN 2 ELSE 3)
        /\ \A i \in 1 .. Len(StartOrder[service]) :
             /\ StartOrder[service][i].name \in Clients
             /\ Constructs(StartOrder[service][i]) <=> ~(service = "rag" /\ i = 3)
    BY <2>1, Orders
  <2> QED
    BY <1>1, <2>1, <2>2 DEF StartSteps
<1>3. LifespanTypeOK'
  <2>1. step \in 1 .. 3
    BY <1>1, <1>2 DEF StartSteps
  <2>2. CASE ConstructRaises(c) \/ PoolRefused(c)
    BY <1>1, <2>1, <2>2 DEF ConstructRaises, PoolRefused, LifespanInv, LifespanTypeOK, Phases,
       Clients
  <2>3. CASE Connect(c)
    BY <1>1, <1>2, <2>1, <2>3 DEF Connect, LifespanInv, LifespanTypeOK
  <2>4. CASE ProducerRefused(c)
    BY <1>1, <1>2, <2>1, <2>4 DEF ProducerRefused, LifespanInv, LifespanTypeOK, Clients
  <2> QED
    BY <2>2, <2>3, <2>4
<1>4. ClientsOutliveRequests' /\ ServeInv' /\ StopInv'
  BY <1>1 DEF ConstructRaises, Connect, PoolRefused, ProducerRefused, LifespanInv,
              ClientsOutliveRequests, ServeInv, StopInv
<1>5. FailedInv'
  BY <1>1, <1>2 DEF ConstructRaises, Connect, PoolRefused, ProducerRefused, LifespanInv, FailedInv
<1>6. StartInv'
  <2>1. CASE ConstructRaises(c) \/ PoolRefused(c)
    BY <2>1 DEF ConstructRaises, PoolRefused, StartInv
  <2>2. CASE Connect(c) \/ ProducerRefused(c)
    <3>1. /\ step' = step + 1 /\ handle'[Opened(step)] # "none" /\ Constructs(c)
          /\ \A d \in Clients : handle[d] # "none" => handle'[d] # "none"
      BY <1>1, <1>2, <2>2 DEF Connect, ProducerRefused, LifespanInv, LifespanTypeOK, Opened
    <3>2. step \in Nat /\ Len(StartOrder[service]) \in Nat
      BY <1>1, <1>2 DEF StartSteps
    <3>3. \A i \in StartSteps : i < step + 1 => handle'[Opened(i)] # "none"
      <4> SUFFICES ASSUME NEW i \in StartSteps, i < step + 1
                   PROVE  handle'[Opened(i)] # "none"
        OBVIOUS
      <4>1. Opened(i) \in Clients
        <5>1. \A n \in 1 .. Len(StartOrder[service]) : StartOrder[service][n].name \in Clients
          BY <1>2, Orders
        <5> QED
          BY <5>1 DEF StartSteps, Opened
      <4>2. CASE i = step
        BY <3>1, <4>2
      <4>3. CASE i < step
        BY <1>1, <3>1, <4>1, <4>3 DEF LifespanInv, StartInv
      <4> QED
        BY <3>2, <4>2, <4>3 DEF StartSteps
    <3> QED
      BY <1>1, <1>2, <3>1, <3>2, <3>3 DEF LifespanInv, StartInv, StartSteps, Opened
  <2> QED
    BY <2>1, <2>2
<1> QED
  BY <1>3, <1>4, <1>5, <1>6 DEF LifespanInv

LEMMA ServingInv ==
  ASSUME LifespanInv,
         \/ Serve \/ Signal \/ Drained \/ ForceExit
         \/ \E r \in Connections : \/ Request(r) \/ Answer(r) \/ AnswerAndIndex(r) \/ JobEnds(r)
                               \/ \E c \in Clients : Call(r, c)
  PROVE  LifespanInv'
<1> USE DEF LifespanInv
<1>1. CASE Serve
  <2>1. /\ phase = "starting" /\ step > Len(StartOrder[service]) /\ phase' = "serving"
        /\ UNCHANGED <<service, step, handle, place, refused, missed, broken>>
    BY <1>1 DEF Serve
  <2>2. service # "rag" /\ \A c \in Wired[service] : handle[c] # "none"
    <3>1. /\ service \in Services /\ Len(StartOrder[service]) \in {2, 3}
          /\ service = "rag" => Len(StartOrder[service]) = 3
      BY Orders DEF LifespanTypeOK
    <3>2. step \in Nat
      BY DEF LifespanTypeOK
    <3>3. \A i \in StartSteps : handle[Opened(i)] # "none"
      BY <2>1, <3>1, <3>2 DEF StartInv, StartSteps
    <3>4. ASSUME service = "rag" PROVE FALSE
      <4>1. step <= 3
        BY <2>1, <3>4 DEF StartInv
      <4>2. step > 3
        BY <2>1, <3>1, <3>4
      <4> QED
        BY <3>2, <4>1, <4>2
    <3>5. ASSUME NEW c \in Wired[service] PROVE handle[c] # "none"
      <4>1. PICK i \in StartSteps : Opened(i) = c
        BY <3>1, <3>5, Orders DEF StartSteps, Opened
      <4> QED
        BY <3>3, <4>1
    <3> QED
      BY <3>4, <3>5
  <2> QED
    BY <2>1, <2>2 DEF LifespanTypeOK, Phases, ClientsOutliveRequests, StartInv, FailedInv, ServeInv,
                      StopInv
<1>2. CASE Signal \/ ForceExit
  BY <1>2 DEF Signal, ForceExit, LifespanTypeOK, Phases, ClientsOutliveRequests, StartInv,
     FailedInv,
              ServeInv, StopInv
<1>3. CASE Drained
  <2>1. /\ phase = "draining" /\ phase' = "stopping" /\ step' = 1
        /\ \A r \in Connections : place[r] = "idle"
        /\ UNCHANGED <<service, handle, place, refused, missed, broken>>
    BY <1>3 DEF Drained, Tracked
  <2>2. Len(StopOrder[service]) \in {2, 3}
    BY Orders DEF LifespanTypeOK
  <2>3. LifespanTypeOK'
    BY <2>1 DEF LifespanTypeOK, Phases
  <2>4. ClientsOutliveRequests' /\ StartInv' /\ FailedInv' /\ ServeInv'
    BY <2>1 DEF ClientsOutliveRequests, StartInv, FailedInv, ServeInv
  <2>5. StopInv'
    BY <2>1, <2>2 DEF StopInv, StopSteps
  <2> QED
    BY <2>3, <2>4, <2>5
<1>4. ASSUME NEW r \in Connections, Request(r) \/ Answer(r) \/ AnswerAndIndex(r) \/ JobEnds(r)
      PROVE  LifespanInv'
  <2>1. /\ UNCHANGED <<service, phase, step, handle, refused, missed, broken>>
        /\ phase \in {"serving", "draining"}
        /\ place' \in [Connections -> {"idle", "running", "indexing"}]
    BY <1>4 DEF Request, Answer, AnswerAndIndex, JobEnds, Passes, LifespanTypeOK, Phases
  <2> QED
    BY <2>1 DEF LifespanTypeOK, ClientsOutliveRequests, StartInv, FailedInv, ServeInv, StopInv
<1>5. ASSUME NEW r \in Connections, NEW c \in Clients, Call(r, c) PROVE LifespanInv'
  <2>1. handle[c] # "none"
    BY <1>5 DEF Call, LifespanTypeOK, ServeInv, Phases
  <2>2. UNCHANGED lifespanVars
    BY <1>5, <2>1 DEF Call, lifespanVars
  <2> QED
    BY <2>2, StutterInv
<1> QED
  BY <1>1, <1>2, <1>3, <1>4, <1>5

LEMMA StoppingInv ==
  ASSUME LifespanInv, StopServing \/ \E c \in Clients : Disconnect(c) \/ DisconnectRaises(c)
  PROVE  LifespanInv'
<1> USE DEF LifespanInv
<1>1. phase = "stopping" /\ service \in Services /\ UNCHANGED <<service, place, refused, missed>>
  BY DEF StopServing, Disconnect, DisconnectRaises, Stopping, LifespanTypeOK
<1>2. StartInv' /\ FailedInv' /\ ServeInv' /\ ClientsOutliveRequests'
  BY <1>1 DEF StopServing, Disconnect, DisconnectRaises, StartInv, FailedInv, ServeInv,
              ClientsOutliveRequests
<1>3. CASE StopServing
  <2>1. /\ step > Len(StopOrder[service]) /\ phase' = "stopped"
        /\ UNCHANGED <<step, handle, broken>>
    BY <1>3 DEF StopServing
  <2>2. Len(StopOrder[service]) \in {2, 3}
    BY <1>1, Orders
  <2>3. step \in Nat
    BY DEF LifespanTypeOK
  <2>4. \A i \in StopSteps : handle[Closed(i)] = "none"
    BY <1>1, <2>1, <2>2, <2>3 DEF StopInv, StopSteps
  <2>5. LifespanTypeOK'
    BY <1>1, <2>1 DEF LifespanTypeOK, Phases
  <2>6. StopInv'
    BY <1>1, <2>1, <2>4 DEF StopInv, StopSteps, Closed
  <2> QED
    BY <1>2, <2>5, <2>6
<1>4. ASSUME NEW c \in Clients, Disconnect(c) PROVE LifespanInv'
  <2>1. /\ step \in StopSteps /\ c = Closed(step) /\ step' = step + 1 /\ phase' = phase
        /\ handle' = [handle EXCEPT ![c] = "none"] /\ broken' = broken
    BY <1>1, <1>4 DEF Disconnect, Stopping, StopInv, StopSteps, Closed
  <2>2. Len(StopOrder[service]) \in {2, 3}
    BY <1>1, Orders
  <2>3. \A i \in StopSteps : i < step + 1 => handle'[Closed(i)] = "none"
    <3> SUFFICES ASSUME NEW i \in StopSteps, i < step + 1 PROVE handle'[Closed(i)] = "none"
      OBVIOUS
    <3>1. /\ Closed(i) \in Clients
          /\ handle'[Closed(i)] = IF Closed(i) = c THEN "none" ELSE handle[Closed(i)]
      BY <1>1, <2>1, Orders DEF StopSteps, Closed, LifespanTypeOK
    <3>2. i = step \/ i < step
      BY <2>1, <2>2 DEF StopSteps
    <3> QED
      BY <1>1, <2>1, <3>1, <3>2 DEF StopInv
  <2> QED
    BY <1>1, <1>2, <2>1, <2>2, <2>3 DEF LifespanTypeOK, StopInv, StopSteps, Closed
<1>5. ASSUME NEW c \in Clients, DisconnectRaises(c) PROVE LifespanInv'
  <2>1. /\ step \in StopSteps /\ c = Closed(step) /\ broken' = c /\ phase' = "stopped"
        /\ UNCHANGED <<step, handle>>
    BY <1>1, <1>5, Orders DEF DisconnectRaises, Stopping, StopInv, StopSteps, Closed
  <2>2. \A i \in StopSteps : i < step => handle'[Closed(i)] = "none"
    BY <1>1, <2>1 DEF StopInv, Closed, StopSteps
  <2> QED
    BY <1>1, <1>2, <2>1, <2>2, NoClientAssumption
       DEF LifespanTypeOK, Phases, StopInv, StopSteps, Closed
<1> QED
  BY <1>3, <1>4, <1>5

LEMMA LifespanNextInv == LifespanInv /\ [LifespanNext]_lifespanVars => LifespanInv'
<1> SUFFICES ASSUME LifespanInv, [LifespanNext]_lifespanVars PROVE LifespanInv'
  OBVIOUS
<1>1. CASE UNCHANGED lifespanVars
  BY <1>1, StutterInv
<1>2. CASE LifespanNext
  BY <1>2, StartingInv, ServingInv, StoppingInv DEF LifespanNext
<1> QED
  BY <1>1, <1>2

\* What a service has connected, at each point of its life.
THEOREM LifespanInductive == LifespanSpec => []LifespanInv
<1>1. LifespanInit => LifespanInv
  BY LifespanInitInv
<1>2. LifespanInv /\ [LifespanNext]_lifespanVars => LifespanInv'
  BY LifespanNextInv
<1> QED
  BY <1>1, <1>2, PTL DEF LifespanSpec

\* Every variable has its type; only the producer is ever kept without a connection, and
\* only a service that has started has requests.
THEOREM LifespanTypeCorrect == LifespanSpec => []LifespanTypeOK
<1>1. LifespanInv => LifespanTypeOK
  BY DEF LifespanInv
<1> QED
  BY <1>1, LifespanInductive, PTL

\* No request and no job meets a client that is not connected.
THEOREM ClientsOutliveRequestsHolds == LifespanSpec => []ClientsOutliveRequests
<1>1. LifespanInv => ClientsOutliveRequests
  BY DEF LifespanInv
<1> QED
  BY <1>1, LifespanInductive, PTL

\* A service that stops leaves a connection open only if closing one has raised.
THEOREM StopClosesHolds == LifespanSpec => []StopCloses
<1>1. LifespanInv => StopCloses
  <2> SUFFICES ASSUME LifespanInv, phase = "stopped", NEW i \in StartSteps,
                      handle[Opened(i)] # "none"
               PROVE  /\ broken # NoClient
                      /\ \E j, k \in StopSteps :
                           j <= k /\ Closed(j) = broken /\ Closed(k) = Opened(i)
    BY DEF StopCloses, StartSteps, StopSteps, Opened, Closed
  <2>1. PICK k \in StopSteps : Closed(k) = Opened(i)
    BY Orders DEF LifespanInv, LifespanTypeOK, StartSteps, StopSteps, Opened, Closed
  <2>2. broken # NoClient
    BY <2>1 DEF LifespanInv, StopInv
  <2>3. PICK j \in StopSteps :
          Closed(j) = broken /\ \A h \in StopSteps : h < j => handle[Closed(h)] = "none"
    BY <2>1 DEF LifespanInv, StopInv
  <2>4. j <= k
    BY <2>1, <2>3 DEF StopSteps
  <2> QED
    BY <2>1, <2>2, <2>3, <2>4
<1> QED
  BY <1>1, LifespanInductive, PTL

\* A service gives up its start for PostgreSQL, or it is the RAG service.
THEOREM StartsWithPostgresHolds == LifespanSpec => []StartsWithPostgres
<1>1. LifespanInv => StartsWithPostgres
  BY Orders DEF LifespanInv, LifespanTypeOK, FailedInv, ServeInv, StartsWithPostgres
<1> QED
  BY <1>1, LifespanInductive, PTL

-----------------------------------------------------------------------------
(* The Kafka consumer.                                                     *)

(* What the logs and their messages are.                                   *)
LEMMA Logs ==
  /\ \A p \in Partitions : Len(Log[p]) \in Nat /\ Offsets(p) \subseteq Nat \ {0}
  /\ \A p \in Partitions : \A o \in Offsets(p) : <<p, o>> \in Message
  /\ none \notin Members /\ none \notin Message
<1>1. \A p \in Partitions : Len(Log[p]) \in Nat
  BY LogAssumption
<1> QED
  BY <1>1, NoneAssumption DEF Offsets, Message

LEMMA ConsumerInitInv == ConsumerInit => ConsumerInv
<1> SUFFICES ASSUME ConsumerInit PROVE ConsumerInv
  OBVIOUS
<1>1. ConsumerTypeOK
  BY Logs, BoundsAssumption DEF ConsumerInit, ConsumerTypeOK, States, Fates
<1>2. HandInv
  BY DEF ConsumerInit, HandInv
<1>3. PassedInv
  BY Logs DEF ConsumerInit, PassedInv, Offsets
<1>4. OnceInv
  BY Logs DEF ConsumerInit, OnceInv
<1> QED
  BY <1>1, <1>2, <1>3, <1>4 DEF ConsumerInv

(* The member that loses a partition commits where it is, or what it has   *)
(* not committed is forgotten.                                             *)
LEMMA Revoking ==
  ASSUME ConsumerInv, NEW m \in Members \cup {none}, Revoke(m)
  PROVE  /\ committed' \in [Partitions -> Nat \ {0}]
         /\ forgotten \subseteq forgotten' /\ forgotten' \subseteq Partitions
         /\ \A p \in Partitions :
              /\ committed[p] <= committed'[p] /\ committed'[p] <= position[p]
              /\ owner[p] = m /\ m # none /\ committed'[p] # position[p] => p \in forgotten'
<1> USE DEF ConsumerInv, ConsumerTypeOK
<1>1. CASE m # none /\ Joined(m) /\ committed' = Committing(m) /\ forgotten' = forgotten
  BY <1>1 DEF Committing
<1>2. CASE /\ committed' = committed
           /\ forgotten' = forgotten \cup {p \in Owned(m) : m # none /\ position[p] # committed[p]}
  BY <1>2 DEF Owned
<1> QED
  BY <1>1, <1>2 DEF Revoke

(* A partition goes to another owner, and back to what is committed.       *)
LEMMA GroupStep ==
  ASSUME ConsumerInv, NEW p \in Partitions, NEW m \in Members, Joined(m),
         owner[p] # m, Revoke(owner[p]), Assign(p, m), moves' \in 0 .. MaxMoves,
         UNCHANGED <<membership, inHand, fates, handed>>
  PROVE  ConsumerInv'
<1> USE Logs DEF membership
<1>1. owner[p] \in Members \cup {none}
  BY DEF ConsumerInv, ConsumerTypeOK
<1>2. /\ committed' \in [Partitions -> Nat \ {0}]
      /\ forgotten \subseteq forgotten' /\ forgotten' \subseteq Partitions
      /\ \A q \in Partitions :
           /\ committed[q] <= committed'[q] /\ committed'[q] <= position[q]
           /\ owner[q] = owner[p] /\ owner[p] # none /\ committed'[q] # position[q] =>
                q \in forgotten'
  BY <1>1, Revoking
<1>3. /\ position' \in [Partitions -> Nat \ {0}]
      /\ owner' \in [Partitions -> Members \cup {none}]
      /\ \A q \in Partitions :
           /\ position'[q] = IF q = p THEN committed'[q] ELSE position[q]
           /\ owner'[q] = IF q = p THEN m ELSE owner[q]
  BY <1>2 DEF Assign, ConsumerInv, ConsumerTypeOK
<1>0. ASSUME NEW q \in Partitions
      PROVE  /\ position[q] \in Nat /\ position'[q] \in Nat /\ committed'[q] \in Nat
             /\ committed'[q] <= position'[q] /\ position'[q] <= position[q]
  <2>1. position[q] \in Nat /\ committed'[q] \in Nat /\ position'[q] \in Nat
    BY <1>2, <1>3 DEF ConsumerInv, ConsumerTypeOK
  <2>2. committed'[q] <= position[q]
    BY <1>2
  <2>3. position'[q] = committed'[q] \/ position'[q] = position[q]
    BY <1>3
  <2> QED
    BY <2>1, <2>2, <2>3
<1>4. ConsumerTypeOK'
  <2>1. ASSUME NEW q \in Partitions
        PROVE  /\ committed'[q] <= position'[q] /\ position'[q] <= Len(Log[q]) + 1
               /\ owner'[q] # none => client'[owner'[q]] = "started"
    <3>1. position'[q] <= Len(Log[q]) + 1
      BY <1>0 DEF ConsumerInv, ConsumerTypeOK
    <3>2. owner'[q] # none => client'[owner'[q]] = "started"
      BY <1>3 DEF ConsumerInv, ConsumerTypeOK, Joined
    <3> QED
      BY <1>0, <3>1, <3>2
  <2> QED
    BY <1>2, <1>3, <2>1 DEF ConsumerInv, ConsumerTypeOK, Joined
<1>5. HandInv'
  BY DEF ConsumerInv, HandInv
<1>6. PassedInv'
  <2> SUFFICES ASSUME NEW q \in Partitions, NEW o \in Offsets(q), o < position'[q]
               PROVE  Accounted(q, o)'
    BY DEF PassedInv
  <2>1. o < position[q]
    <3>1. o \in Nat
      OBVIOUS
    <3> QED
      BY <1>0, <3>1
  <2> QED
    BY <2>1 DEF ConsumerInv, PassedInv, Accounted
<1>7. OnceInv'
  <2> SUFFICES ASSUME NEW q \in Partitions
               PROVE  /\ owner'[q] = none => position'[q] = committed'[q]
                      /\ q \notin forgotten' => \A o \in Offsets(q) :
                           handed[<<q, o>>] <= IF o < position'[q] THEN 1 ELSE 0
    BY DEF OnceInv
  <2>1. CASE q = p
    <3>1. q \notin forgotten' => position'[q] = position[q] /\ q \notin forgotten
      BY <1>1, <1>2, <1>3, <2>1 DEF ConsumerInv, ConsumerTypeOK, OnceInv
    <3> QED
      BY <1>3, <2>1, <3>1 DEF ConsumerInv, OnceInv
  <2>2. CASE q # p
    BY <1>1, <1>2, <1>3, <2>2 DEF ConsumerInv, OnceInv
  <2> QED
    BY <2>1, <2>2
<1> QED
  BY <1>4, <1>5, <1>6, <1>7 DEF ConsumerInv

(* A process starts, begins to consume, stops or is started again: it      *)
(* keeps its message and its partitions.                                   *)
LEMMA LifeStep ==
  ASSUME ConsumerInv, NEW m \in Members,
         \/ StartAgain(m) \/ Start(m) \/ Started(m) \/ StartFails(m) \/ Consume(m)
         \/ Stop(m) \/ Restart(m) \/ \E p \in Partitions : TakeUndecodable(m, p)
  PROVE  ConsumerInv'
<1>1. /\ UNCHANGED <<progress, group>>
      /\ lives' \in [Members -> 1 .. MaxLives]
  BY BoundsAssumption DEF StartAgain, Start, Started, StartFails, Consume, Stop, Restart,
     TakeUndecodable, ConsumerInv, ConsumerTypeOK
<1>2. /\ state' \in [Members -> States] /\ client' \in [Members -> {"none", "made", "started"}]
      /\ running' \in [Members -> BOOLEAN] /\ stopping' \in [Members -> BOOLEAN]
  BY DEF StartAgain, Start, Started, StartFails, Consume, Stop, Restart, TakeUndecodable, Enters,
     ConsumerInv, ConsumerTypeOK, States
<1>3. ASSUME NEW q \in Members
      PROVE  /\ state'[q] = "handling" <=> state[q] = "handling"
             /\ client[q] = "started" => client'[q] = "started"
  BY DEF StartAgain, Start, Started, StartFails, Consume, Stop, Restart, TakeUndecodable,
     Available, Enters, ConsumerInv, ConsumerTypeOK
<1>4. ConsumerTypeOK'
  BY <1>1, <1>2, <1>3 DEF ConsumerInv, ConsumerTypeOK, Joined, progress, group
<1>5. HandInv'
  BY <1>1, <1>3 DEF ConsumerInv, HandInv, progress
<1>6. PassedInv' /\ OnceInv'
  BY <1>1 DEF ConsumerInv, PassedInv, OnceInv, Accounted, progress, group
<1> QED
  BY <1>4, <1>5, <1>6 DEF ConsumerInv

(* A message is handed to the loop of a member: it is the first that the   *)
(* position is not past.                                                   *)
LEMMA TakeStep ==
  ASSUME ConsumerInv, NEW m \in Members, NEW p \in Partitions,
         TakeLast(m, p) \/ TakeInvalid(m, p) \/ TakeEvent(m, p)
  PROVE  ConsumerInv'
<1> DEFINE e == <<p, position[p]>>
<1> USE Logs
<1>1. /\ state[m] = "loop" /\ owner[p] = m /\ position[p] \in Offsets(p) /\ e \in Message
      /\ Log[p][position[p]] # "undecodable" /\ inHand[m] = none
      /\ position' = [position EXCEPT ![p] = @ + 1]
      /\ handed' = [handed EXCEPT ![e] = @ + 1]
      /\ UNCHANGED <<client, running, stopping, lives, owner, committed, moves, forgotten>>
  BY DEF TakeLast, TakeInvalid, TakeEvent, Available, Took, membership, group, ConsumerInv, HandInv
<1>2. PICK fate \in {{"dropped"}, {"invalid"}, {}} :
        /\ fates' = [fates EXCEPT ![e] = @ \cup fate]
        /\ \/ fate # {} /\ inHand' = inHand /\ state' = [state EXCEPT ![m] = "ended"]
           \/ fate # {} /\ inHand' = inHand /\ state' = state
           \/ fate = {} /\ inHand' = [inHand EXCEPT ![m] = e] /\ state' = [state EXCEPT ![m] = "handling"]
  BY DEF TakeLast, TakeInvalid, TakeEvent, Took, Enters, membership
<1>3. /\ \A q \in Partitions : position'[q] = IF q = p THEN position[p] + 1 ELSE position[q]
      /\ position' \in [Partitions -> Nat \ {0}]
  BY <1>1 DEF ConsumerInv, ConsumerTypeOK
<1>4. /\ \A d \in Message : fates'[d] = IF d = e THEN fates[d] \cup fate ELSE fates[d]
      /\ \A d \in Message : handed'[d] = IF d = e THEN handed[d] + 1 ELSE handed[d]
      /\ fates' \in [Message -> SUBSET Fates] /\ handed' \in [Message -> Nat]
  <2>1. fate \subseteq Fates
    BY DEF Fates
  <2>2. fates \in [Message -> SUBSET Fates] /\ handed \in [Message -> Nat]
    BY DEF ConsumerInv, ConsumerTypeOK
  <2>3. fates' = [fates EXCEPT ![e] = @ \cup fate]
    BY <1>2
  <2>4. handed' = [handed EXCEPT ![e] = @ + 1] /\ e \in Message
    BY <1>1
  <2> HIDE DEF e
  <2>5. /\ fates' \in [Message -> SUBSET Fates]
        /\ \A d \in Message : fates'[d] = IF d = e THEN fates[d] \cup fate ELSE fates[d]
    BY <2>1, <2>2, <2>3
  <2>6. /\ handed' \in [Message -> Nat]
        /\ \A d \in Message : handed'[d] = IF d = e THEN handed[d] + 1 ELSE handed[d]
    BY <2>2, <2>4
  <2> QED
    BY <2>5, <2>6
<1>5. /\ inHand' \in [Members -> Message \cup {none}] /\ state' \in [Members -> States]
      /\ fates'[e] # {} \/ inHand'[m] = e
      /\ \A q \in Members : inHand[q] # none => inHand'[q] = inHand[q]
  <2>1. e \in Message /\ inHand[m] = none
    BY <1>1
  <2>2. inHand \in [Members -> Message \cup {none}] /\ state \in [Members -> States]
    BY DEF ConsumerInv, ConsumerTypeOK
  <2> HIDE DEF e
  <2>3. CASE fate # {} /\ inHand' = inHand
    <3>1. fates'[e] = fates[e] \cup fate
      BY <1>4, <2>1
    <3>2. state' \in [Members -> States]
      BY <1>2, <2>2, <2>3 DEF States
    <3> QED
      BY <2>2, <2>3, <3>1, <3>2
  <2>4. CASE inHand' = [inHand EXCEPT ![m] = e] /\ state' = [state EXCEPT ![m] = "handling"]
    BY <2>1, <2>2, <2>4 DEF States
  <2> QED
    BY <1>2, <2>3, <2>4
<1>6. ConsumerTypeOK'
  <2>1. ASSUME NEW q \in Partitions
        PROVE  committed[q] <= position'[q] /\ position'[q] <= Len(Log[q]) + 1
    BY <1>1, <1>3 DEF ConsumerInv, ConsumerTypeOK, Offsets
  <2> QED
    BY <1>1, <1>3, <1>4, <1>5, <2>1 DEF ConsumerInv, ConsumerTypeOK, Joined
<1>7. HandInv'
  BY <1>1, <1>2 DEF ConsumerInv, ConsumerTypeOK, HandInv
<1>8. PassedInv'
  <2> SUFFICES ASSUME NEW q \in Partitions, NEW o \in Offsets(q), o < position'[q]
               PROVE  Accounted(q, o)'
    BY DEF PassedInv
  <2>1. CASE q = p /\ o = position[p]
    BY <1>1, <1>5, <2>1 DEF Accounted
  <2>2. CASE ~(q = p /\ o = position[p])
    <3>1. o < position[q] /\ <<q, o>> \in Message
      BY <1>1, <1>3, <2>2 DEF ConsumerInv, ConsumerTypeOK
    <3>2. Accounted(q, o)
      BY <3>1 DEF ConsumerInv, PassedInv
    <3>3. fates[<<q, o>>] # {} => fates'[<<q, o>>] # {}
      BY <1>4, <3>1
    <3>4. \A d \in Members : inHand[d] = <<q, o>> => inHand'[d] = <<q, o>>
      BY <1>5, <3>1
    <3> QED
      BY <3>2, <3>3, <3>4 DEF Accounted
  <2> QED
    BY <2>1, <2>2
<1>9. OnceInv'
  <2> SUFFICES ASSUME NEW q \in Partitions
               PROVE  /\ owner[q] = none => position'[q] = committed[q]
                      /\ q \notin forgotten => \A o \in Offsets(q) :
                           handed'[<<q, o>>] <= IF o < position'[q] THEN 1 ELSE 0
    BY <1>1 DEF OnceInv
  <2>1. owner[q] = none => position'[q] = committed[q]
    BY <1>1, <1>3 DEF ConsumerInv, OnceInv
  <2>2. ASSUME q \notin forgotten, NEW o \in Offsets(q)
        PROVE  handed'[<<q, o>>] <= IF o < position'[q] THEN 1 ELSE 0
    <3>1. /\ handed[<<q, o>>] <= IF o < position[q] THEN 1 ELSE 0
          /\ handed[<<q, o>>] \in Nat /\ <<q, o>> \in Message /\ o \in Nat
          /\ position[q] \in Nat
      BY <2>2 DEF ConsumerInv, ConsumerTypeOK, OnceInv
    <3>2. CASE q = p
      <4>1. position'[q] = position[q] + 1
        BY <1>3, <3>2
      <4>2. handed'[<<q, o>>] = IF o = position[q] THEN handed[<<q, o>>] + 1 ELSE handed[<<q, o>>]
        BY <1>4, <3>1, <3>2
      <4> QED
        BY <3>1, <4>1, <4>2
    <3>3. CASE q # p
      BY <1>3, <1>4, <3>1, <3>3
    <3> QED
      BY <3>2, <3>3
  <2> QED
    BY <2>1, <2>2
<1> QED
  BY <1>6, <1>7, <1>8, <1>9 DEF ConsumerInv

LEMMA CommitStep ==
  ASSUME ConsumerInv, NEW m \in Members, AutoCommit(m)
  PROVE  ConsumerInv'
<1> USE DEF AutoCommit, membership, progress
<1>1. /\ committed' \in [Partitions -> Nat \ {0}]
      /\ \A p \in Partitions : committed'[p] = IF owner[p] = m THEN position[p] ELSE committed[p]
  BY DEF Committing, ConsumerInv, ConsumerTypeOK
<1>2. ConsumerTypeOK'
  <2>1. ASSUME NEW p \in Partitions PROVE committed'[p] <= position[p]
    <3>1. position[p] \in Nat /\ committed[p] <= position[p]
      BY DEF ConsumerInv, ConsumerTypeOK
    <3>2. committed'[p] = position[p] \/ committed'[p] = committed[p]
      BY <1>1
    <3> QED
      BY <3>1, <3>2
  <2> QED
    BY <1>1, <2>1 DEF ConsumerInv, ConsumerTypeOK, Joined
<1>3. HandInv' /\ PassedInv'
  BY DEF ConsumerInv, HandInv, PassedInv, Accounted
<1>4. OnceInv'
  BY <1>1, Logs DEF ConsumerInv, OnceInv
<1> QED
  BY <1>2, <1>3, <1>4 DEF ConsumerInv

LEMMA HandleStep ==
  ASSUME ConsumerInv, NEW m \in Members, HandleEvent(m)
  PROVE  ConsumerInv'
<1> DEFINE e == inHand[m]
<1> USE Logs
<1>1. /\ state[m] = "handling" /\ e \in Message
      /\ \E fate \in {"handled", "failed"} : fates' = [fates EXCEPT ![e] = @ \cup {fate}]
      /\ inHand' = [inHand EXCEPT ![m] = none]
      /\ \E s \in {"loop", "ended"} : state' = [state EXCEPT ![m] = s]
      /\ UNCHANGED <<client, running, stopping, lives, position, handed, group>>
  BY DEF HandleEvent, Enters, ConsumerInv, HandInv
<1>2. /\ fates' \in [Message -> SUBSET Fates] /\ fates'[e] # {}
      /\ \A d \in Message : fates[d] \subseteq fates'[d]
  <2>1. fates \in [Message -> SUBSET Fates]
    BY DEF ConsumerInv, ConsumerTypeOK
  <2>2. PICK fate \in {"handled", "failed"} : fates' = [fates EXCEPT ![e] = @ \cup {fate}]
    BY <1>1
  <2>3. e \in Message /\ fate \in Fates
    BY <1>1 DEF Fates
  <2> HIDE DEF e
  <2> QED
    BY <2>1, <2>2, <2>3
<1>3. ConsumerTypeOK'
  BY <1>1, <1>2 DEF ConsumerInv, ConsumerTypeOK, States, Joined, group
<1>4. HandInv'
  BY <1>1 DEF ConsumerInv, ConsumerTypeOK, HandInv
<1>5. PassedInv'
  <2> SUFFICES ASSUME NEW q \in Partitions, NEW o \in Offsets(q), o < position[q]
               PROVE  Accounted(q, o)'
    BY <1>1 DEF PassedInv
  <2>1. Accounted(q, o) /\ <<q, o>> \in Message
    BY DEF ConsumerInv, PassedInv
  <2>2. CASE <<q, o>> = e
    BY <1>2, <2>1, <2>2 DEF Accounted
  <2>3. CASE <<q, o>> # e
    <3>1. fates[<<q, o>>] # {} => fates'[<<q, o>>] # {}
      BY <1>2, <2>1
    <3>2. \A d \in Members : inHand[d] = <<q, o>> => inHand'[d] = <<q, o>>
      BY <1>1, <2>3 DEF ConsumerInv, ConsumerTypeOK
    <3> QED
      BY <2>1, <3>1, <3>2 DEF Accounted
  <2> QED
    BY <2>2, <2>3
<1>6. OnceInv'
  BY <1>1 DEF ConsumerInv, OnceInv, group
<1> QED
  BY <1>3, <1>4, <1>5, <1>6 DEF ConsumerInv

(* A member leaves the group, with a last commit or without.               *)
LEMMA Leaving ==
  ASSUME ConsumerInv, NEW m \in Members, Leave(m), handed' = handed,
         committed' \in [Partitions -> Nat \ {0}],
         forgotten \subseteq forgotten',
         \A p \in Partitions :
           /\ committed[p] <= committed'[p] /\ committed'[p] <= position[p]
           /\ owner[p] = m /\ committed'[p] # position[p] => p \in forgotten',
         \A p \in Partitions : owner[p] # m => committed'[p] = committed[p]
  PROVE  /\ owner' \in [Partitions -> Members \cup {none}]
         /\ position' \in [Partitions -> Nat \ {0}]
         /\ \A p \in Partitions :
              /\ owner'[p] # none => owner'[p] # m /\ owner'[p] = owner[p]
              /\ committed'[p] <= position'[p] /\ position'[p] <= position[p]
              /\ position'[p] <= Len(Log[p]) + 1
         /\ OnceInv'
<1> USE Logs
<1>1. /\ owner' \in [Partitions -> Members \cup {none}]
      /\ position' \in [Partitions -> Nat \ {0}]
  BY DEF Leave, ConsumerInv, ConsumerTypeOK
<1>2. ASSUME NEW p \in Partitions
      PROVE  /\ owner'[p] = IF owner[p] = m THEN none ELSE owner[p]
             /\ position'[p] = IF owner[p] = m THEN committed'[p] ELSE position[p]
             /\ position[p] \in Nat /\ committed'[p] \in Nat /\ committed[p] \in Nat
  BY DEF Leave, ConsumerInv, ConsumerTypeOK
<1>3. ASSUME NEW p \in Partitions
      PROVE  /\ committed'[p] <= position'[p] /\ position'[p] <= position[p]
             /\ position'[p] <= Len(Log[p]) + 1
  <2>1. committed'[p] <= position'[p] /\ position'[p] <= position[p]
    <3>1. committed'[p] <= position[p] /\ (owner[p] # m => committed'[p] = committed[p])
      OBVIOUS
    <3> QED
      BY <1>2, <3>1
  <2>2. position[p] <= Len(Log[p]) + 1 /\ position[p] \in Nat /\ position'[p] \in Nat
    BY <1>1 DEF ConsumerInv, ConsumerTypeOK
  <2> QED
    BY <2>1, <2>2
<1>4. ASSUME NEW p \in Partitions
      PROVE  /\ owner'[p] = none => position'[p] = committed'[p]
             /\ p \notin forgotten' => position'[p] = position[p] /\ p \notin forgotten
  BY <1>2 DEF ConsumerInv, OnceInv
<1>5. OnceInv'
  BY <1>4 DEF ConsumerInv, OnceInv
<1> QED
  BY <1>1, <1>2, <1>3, <1>5

LEMMA StopStep ==
  ASSUME ConsumerInv, NEW m \in Members, Stopped(m)
  PROVE  ConsumerInv'
<1> USE Logs
<1>1. Revoke(m) /\ Leave(m) /\ UNCHANGED <<running, lives, inHand, fates, handed, moves>>
  BY DEF Stopped
<1>2. /\ committed' \in [Partitions -> Nat \ {0}]
      /\ forgotten \subseteq forgotten' /\ forgotten' \subseteq Partitions
      /\ \A p \in Partitions :
           /\ committed[p] <= committed'[p] /\ committed'[p] <= position[p]
           /\ owner[p] = m /\ committed'[p] # position[p] => p \in forgotten'
  BY <1>1, Revoking
<1>3. \A p \in Partitions : owner[p] # m => committed'[p] = committed[p]
  BY <1>1 DEF Revoke, Committing
<1>4. /\ owner' \in [Partitions -> Members \cup {none}]
      /\ position' \in [Partitions -> Nat \ {0}]
      /\ \A p \in Partitions :
           /\ owner'[p] # none => owner'[p] # m /\ owner'[p] = owner[p]
           /\ committed'[p] <= position'[p] /\ position'[p] <= position[p]
           /\ position'[p] <= Len(Log[p]) + 1
      /\ OnceInv'
  BY <1>1, <1>2, <1>3, Leaving
<1>5. ConsumerTypeOK'
  BY <1>1, <1>2, <1>4 DEF Stopped, ConsumerInv, ConsumerTypeOK, States, Joined
<1>6. HandInv'
  BY <1>1 DEF Stopped, ConsumerInv, ConsumerTypeOK, HandInv
<1>7. PassedInv'
  <2> SUFFICES ASSUME NEW q \in Partitions, NEW o \in Offsets(q), o < position'[q]
               PROVE  Accounted(q, o)'
    BY DEF PassedInv
  <2>1. o < position[q]
    BY <1>4 DEF ConsumerInv, ConsumerTypeOK
  <2> QED
    BY <1>1, <2>1 DEF ConsumerInv, PassedInv, Accounted
<1> QED
  BY <1>4, <1>5, <1>6, <1>7 DEF ConsumerInv

LEMMA CrashStep ==
  ASSUME ConsumerInv, NEW m \in Members, Crash(m)
  PROVE  ConsumerInv'
<1> USE Logs
<1>1. /\ Leave(m) /\ handed' = handed /\ committed' = committed
      /\ forgotten' = forgotten \cup {p \in Owned(m) : position[p] # committed[p]}
  BY DEF Crash
<1>2. /\ forgotten \subseteq forgotten' /\ forgotten' \subseteq Partitions
      /\ \A p \in Partitions :
           /\ committed[p] <= position[p] /\ committed[p] <= committed[p]
           /\ owner[p] = m /\ committed[p] # position[p] => p \in forgotten'
  BY <1>1 DEF Owned, ConsumerInv, ConsumerTypeOK
<1>3. committed \in [Partitions -> Nat \ {0}]
  BY DEF ConsumerInv, ConsumerTypeOK
<1>4. /\ owner' \in [Partitions -> Members \cup {none}]
      /\ position' \in [Partitions -> Nat \ {0}]
      /\ \A p \in Partitions :
           /\ owner'[p] # none => owner'[p] # m /\ owner'[p] = owner[p]
           /\ committed'[p] <= position'[p] /\ position'[p] <= position[p]
           /\ position'[p] <= Len(Log[p]) + 1
      /\ OnceInv'
  BY <1>1, <1>2, <1>3, Leaving
<1>5. /\ fates' \in [Message -> SUBSET Fates]
      /\ \A d \in Message : /\ fates[d] \subseteq fates'[d]
                            /\ inHand[m] = d => fates'[d] # {}
  BY DEF Crash, Held, ConsumerInv, ConsumerTypeOK, Fates
<1>6. ConsumerTypeOK'
  BY <1>1, <1>2, <1>3, <1>4, <1>5 DEF Crash, Enters, ConsumerInv, ConsumerTypeOK, States, Joined
<1>7. HandInv'
  BY DEF Crash, Enters, ConsumerInv, ConsumerTypeOK, HandInv
<1>8. PassedInv'
  <2> SUFFICES ASSUME NEW q \in Partitions, NEW o \in Offsets(q), o < position'[q]
               PROVE  Accounted(q, o)'
    BY DEF PassedInv
  <2>1. o < position[q]
    BY <1>4 DEF ConsumerInv, ConsumerTypeOK
  <2>2. Accounted(q, o) /\ <<q, o>> \in Message
    BY <2>1 DEF ConsumerInv, PassedInv
  <2>3. \A d \in Members \ {m} : inHand'[d] = inHand[d]
    BY DEF Crash, ConsumerInv, ConsumerTypeOK
  <2> QED
    BY <1>5, <2>2, <2>3 DEF Accounted
<1> QED
  BY <1>4, <1>6, <1>7, <1>8 DEF ConsumerInv

LEMMA ConsumerNextInv == ConsumerInv /\ [ConsumerNext]_consumerVars => ConsumerInv'
<1> SUFFICES ASSUME ConsumerInv, [ConsumerNext]_consumerVars PROVE ConsumerInv'
  OBVIOUS
<1>1. CASE UNCHANGED consumerVars
  <2> USE <1>1 DEF consumerVars, membership, progress, group, ConsumerInv
  <2>1. ConsumerTypeOK'
    BY DEF ConsumerTypeOK, Joined
  <2>2. HandInv' /\ PassedInv' /\ OnceInv'
    BY DEF HandInv, PassedInv, OnceInv, Accounted
  <2> QED
    BY <2>1, <2>2
<1>2. ASSUME NEW m \in Members,
             Step(m) \/ StartFails(m) \/ Stop(m) \/ AutoCommit(m) \/ Crash(m) \/ Restart(m)
      PROVE  ConsumerInv'
  BY <1>2, LifeStep, TakeStep, HandleStep, StopStep, CommitStep, CrashStep DEF Step
<1>3. ASSUME NEW p \in Partitions, NEW m \in Members, TakeOver(p, m) \/ Move(p, m)
      PROVE  ConsumerInv'
  <2>1. /\ Joined(m) /\ owner[p] # m /\ Revoke(owner[p]) /\ Assign(p, m)
        /\ moves' \in 0 .. MaxMoves /\ UNCHANGED <<membership, inHand, fates, handed>>
    BY <1>3, BoundsAssumption DEF TakeOver, Move, Consuming, ConsumerInv, ConsumerTypeOK
  <2> QED
    BY <2>1, GroupStep
<1> QED
  BY <1>1, <1>2, <1>3 DEF ConsumerNext

\* What the group has passed, committed and forgotten, in every reachable state.
THEOREM ConsumerInductive == ConsumerSpec => []ConsumerInv
<1>1. ConsumerInit => ConsumerInv
  BY ConsumerInitInv
<1>2. ConsumerInv /\ [ConsumerNext]_consumerVars => ConsumerInv'
  BY ConsumerNextInv
<1> QED
  BY <1>1, <1>2, PTL DEF ConsumerSpec

\* Every variable has its type, and an owner is never behind what the group committed.
THEOREM ConsumerTypeCorrect == ConsumerSpec => []ConsumerTypeOK
<1>1. ConsumerInv => ConsumerTypeOK
  BY DEF ConsumerInv
<1> QED
  BY <1>1, ConsumerInductive, PTL

\* No commit gets ahead of what has become of the messages.
THEOREM CommittedAccountedHolds == ConsumerSpec => []CommittedAccounted
<1>1. ConsumerInv => CommittedAccounted
  <2> SUFFICES ASSUME ConsumerInv, NEW p \in Partitions, NEW o \in 1 .. committed[p] - 1
               PROVE  Accounted(p, o)
    BY DEF CommittedAccounted
  <2>1. o \in Offsets(p) /\ o < position[p]
    BY Logs DEF ConsumerInv, ConsumerTypeOK, Offsets
  <2> QED
    BY <2>1 DEF ConsumerInv, PassedInv
<1> QED
  BY <1>1, ConsumerInductive, PTL

\* Only a partition that was lost uncommitted hands a message out again.
THEOREM OnceUnlessForgottenHolds == ConsumerSpec => []OnceUnlessForgotten
<1>1. ConsumerInv => OnceUnlessForgotten
  <2> SUFFICES ASSUME ConsumerInv, NEW p \in Partitions, NEW o \in Offsets(p), handed[<<p, o>>] > 1,
                      p \notin forgotten
               PROVE  FALSE
    BY DEF OnceUnlessForgotten
  <2>1. handed[<<p, o>>] <= IF o < position[p] THEN 1 ELSE 0
    BY DEF ConsumerInv, OnceInv
  <2>2. handed[<<p, o>>] \in Nat
    BY Logs DEF ConsumerInv, ConsumerTypeOK
  <2> QED
    BY <2>1, <2>2
<1> QED
  BY <1>1, ConsumerInductive, PTL

\* The group's offsets never go back, and no committed message is handed out again.
THEOREM NeverBackBeforeCommitHolds == ConsumerSpec => NeverBackBeforeCommit
<1>1. ConsumerInv /\ [ConsumerNext]_consumerVars =>
        [\A p \in Partitions :
           /\ committed'[p] >= committed[p]
           /\ \A o \in Offsets(p) :
                handed'[<<p, o>>] # handed[<<p, o>>] => o >= committed[p]]_consumerVars
  <2> SUFFICES ASSUME ConsumerInv, ConsumerNext, NEW p \in Partitions
               PROVE  /\ committed'[p] >= committed[p]
                      /\ \A o \in Offsets(p) :
                           handed'[<<p, o>>] # handed[<<p, o>>] => o >= committed[p]
    OBVIOUS
  <2> DEFINE Kept == committed'[p] >= committed[p]
             Late == \A o \in Offsets(p) :
                       handed'[<<p, o>>] # handed[<<p, o>>] => o >= committed[p]
  <2>1. committed[p] \in Nat /\ position[p] \in Nat /\ committed[p] <= position[p]
    BY DEF ConsumerInv, ConsumerTypeOK
  <2>2. ASSUME NEW m \in Members,
               \/ StartAgain(m) \/ Start(m) \/ Started(m) \/ StartFails(m) \/ Consume(m)
               \/ Stop(m) \/ Restart(m) \/ \E q \in Partitions : TakeUndecodable(m, q)
        PROVE  Kept /\ Late
    BY <2>1, <2>2 DEF StartAgain, Start, Started, StartFails, Consume, Stop, Restart,
       TakeUndecodable, progress, group
  <2>3. ASSUME NEW m \in Members, NEW q \in Partitions,
               TakeLast(m, q) \/ TakeInvalid(m, q) \/ TakeEvent(m, q)
        PROVE  Kept /\ Late
    <3>1. committed' = committed /\ handed' = [handed EXCEPT ![<<q, position[q]>>] = @ + 1]
      BY <2>3 DEF TakeLast, TakeInvalid, TakeEvent, Took, group
    <3>2. \A o \in Offsets(p) : <<p, o>> # <<q, position[q]>> => handed'[<<p, o>>] = handed[<<p, o>>]
      BY <3>1, Logs DEF ConsumerInv, ConsumerTypeOK
    <3> QED
      BY <2>1, <3>1, <3>2
  <2>4. ASSUME NEW m \in Members, HandleEvent(m) \/ AutoCommit(m) \/ Crash(m)
        PROVE  Kept /\ Late
    BY <2>1, <2>4 DEF HandleEvent, AutoCommit, Committing, Crash, progress, group
  <2>5. ASSUME NEW m \in Members \cup {none}, Revoke(m), handed' = handed
        PROVE  Kept /\ Late
    <3>1. committed[p] <= committed'[p] /\ committed'[p] \in Nat
      BY <2>5, Revoking
    <3> QED
      BY <2>1, <2>5, <3>1
  <2>6. ASSUME NEW m \in Members, Stopped(m) PROVE Kept /\ Late
    BY <2>5, <2>6 DEF Stopped
  <2>7. ASSUME NEW q \in Partitions, NEW m \in Members, TakeOver(q, m) \/ Move(q, m)
        PROVE  Kept /\ Late
    <3>1. owner[q] \in Members \cup {none}
      BY DEF ConsumerInv, ConsumerTypeOK
    <3> QED
      BY <2>5, <2>7, <3>1 DEF TakeOver, Move
  <2> QED
    BY <2>2, <2>3, <2>4, <2>6, <2>7 DEF ConsumerNext, Step
<1> QED
  BY <1>1, ConsumerInductive, PTL DEF ConsumerSpec, NeverBackBeforeCommit

-----------------------------------------------------------------------------
(* The verifier.                                                           *)

(* How long n reads take: the only products in the model.                  *)
LEMMA Products ==
  ASSUME NEW n \in 1 .. Reads
  PROVE  /\ (n - 1) * Timeout \in Nat /\ Reads * Timeout \in Nat
         /\ (n - 1) * Timeout + Timeout = n * Timeout
         /\ n * Timeout <= Reads * Timeout
<1> USE TimesAssumption
<1>1. (n - 1) * Timeout + Timeout = n * Timeout
  OBVIOUS
<1>2. (n - 1) * Timeout \in Nat /\ Reads * Timeout \in Nat
  OBVIOUS
<1>3. (Reads - n) * Timeout \in Nat
  OBVIOUS
<1>4. n * Timeout + (Reads - n) * Timeout = Reads * Timeout
  OBVIOUS
<1>5. n * Timeout \in Nat
  OBVIOUS
<1> QED
  BY <1>1, <1>2, <1>3, <1>4, <1>5

LEMMA InitInv == Init => IInv
<1> SUFFICES ASSUME Init PROVE IInv
  OBVIOUS
<1> USE KidsAssumption, TimesAssumption DEF Init, Never
<1>1. TypeOK
  BY DEF TypeOK
<1>2. ClerkInv /\ CacheInv
  BY DEF ClerkInv, CacheInv
<1>3. ReplyInv /\ KidInv
  BY DEF ReplyInv, KidInv, Fetching
<1> QED
  BY <1>1, <1>2, <1>3 DEF IInv

(* A task's step that leaves Clerk, the clock and the cache alone: what is *)
(* left to show is what becomes of that task.                              *)
LEMMA TaskStep ==
  ASSUME IInv, NEW r \in Requests,
         UNCHANGED <<now, clerkVars, cacheVars>>,
         at' \in [Requests -> {"idle", "asked"} \cup Fetching \cup Answers],
         kid' \in [Requests -> Kids \cup {None}],
         reply' \in [Requests -> SUBSET Usable], steady' \in [Requests -> SUBSET Kids],
         since' \in [Requests -> 0 .. Horizon], reads' \in [Requests -> 0 .. Reads],
         \A q \in Requests \ {r} :
           /\ at'[q] = at[q] /\ kid'[q] = kid[q] /\ reply'[q] = reply[q]
           /\ steady'[q] = steady[q] /\ since'[q] = since[q] /\ reads'[q] = reads[q],
         at'[r] \notin Fetching => steady'[r] = {},
         steady'[r] \subseteq published,
         at'[r] = "read" =>
           /\ now <= since'[r] + Timeout
           /\ reads'[r] \in 1 .. Reads /\ since'[r] <= now
           /\ Usable \cap steady'[r] \subseteq reply'[r]
           /\ \A k \in reply'[r] : Aged(k, since'[r], (reads'[r] - 1) * Timeout),
         at'[r] = "idle" => kid'[r] = None,
         at'[r] \notin {"idle", "invalid"} => kid'[r] \in Kids
  PROVE  IInv'
<1> USE DEF IInv, clerkVars, cacheVars
<1>1. TypeOK'
  BY DEF TypeOK
<1>2. ClerkInv' /\ CacheInv'
  BY DEF ClerkInv, CacheInv, Aged
<1>3. ReplyInv'
  <2> SUFFICES ASSUME NEW q \in Requests
               PROVE  /\ at'[q] \notin Fetching => steady'[q] = {}
                      /\ steady'[q] \subseteq published
                      /\ at'[q] = "read" =>
                           /\ reads'[q] \in 1 .. Reads /\ since'[q] <= now
                           /\ Usable \cap steady'[q] \subseteq reply'[q]
                           /\ \A k \in reply'[q] : Aged(k, since'[q], (reads'[q] - 1) * Timeout)
    BY DEF ReplyInv, Aged
  <2> QED
    BY DEF ReplyInv
<1>4. KidInv'
  BY DEF KidInv
<1> QED
  BY <1>1, <1>2, <1>3, <1>4

LEMMA NoKidInv ==
  ASSUME IInv, NEW r \in Requests, NoKid(r)
  PROVE  IInv'
  BY TaskStep DEF NoKid, Goto, fetchVars, IInv, TypeOK, ReplyInv, KidInv, Fetching, Answers

LEMMA AskInv ==
  ASSUME IInv, NEW r \in Requests, Ask(r)
  PROVE  IInv'
  BY TaskStep DEF Ask, Goto, fetchVars, IInv, TypeOK, ReplyInv, KidInv, Fetching, Answers

LEMMA UseCachedInv ==
  ASSUME IInv, NEW r \in Requests, UseCached(r)
  PROVE  IInv'
  BY TaskStep DEF UseCached, Goto, fetchVars, IInv, TypeOK, ReplyInv, KidInv, Fetching, Answers

LEMMA SendInv ==
  ASSUME IInv, NEW r \in Requests, Send(r)
  PROVE  IInv'
  BY TaskStep DEF Send, Goto, clerkVars, IInv, TypeOK, ReplyInv, KidInv, Fetching, Answers

LEMMA RespondInv ==
  ASSUME IInv, NEW r \in Requests, Respond(r)
  PROVE  IInv'
<1> USE KidsAssumption, TimesAssumption
<1>1. /\ at' = [at EXCEPT ![r] = "read"] /\ at[r] = "send"
      /\ reply' = [reply EXCEPT ![r] = published \cap Usable]
      /\ since' = [since EXCEPT ![r] = now] /\ reads' = [reads EXCEPT ![r] = 1]
      /\ UNCHANGED <<now, clerkVars, cacheVars, steady, kid>>
  BY DEF Respond, Goto
<1>2. \A k \in reply'[r] : Aged(k, since'[r], (reads'[r] - 1) * Timeout)
  BY <1>1 DEF IInv, TypeOK, Aged
<1> QED
  BY <1>1, <1>2, TaskStep DEF IInv, TypeOK, ReplyInv, KidInv, Fetching

LEMMA ReadMoreInv ==
  ASSUME IInv, NEW r \in Requests, ReadMore(r)
  PROVE  IInv'
<1> USE TimesAssumption
<1>1. /\ at[r] = "read" /\ reads[r] < Reads
      /\ since' = [since EXCEPT ![r] = now] /\ reads' = [reads EXCEPT ![r] = @ + 1]
      /\ UNCHANGED <<now, clerkVars, cacheVars, reply, steady, at, kid>>
  BY DEF ReadMore
<1>2. /\ reads[r] \in 1 .. Reads /\ since[r] \in Nat /\ now \in Nat
      /\ now <= since[r] + Timeout
      /\ reads'[r] = reads[r] + 1 /\ since'[r] = now
  BY <1>1 DEF IInv, TypeOK, ReplyInv
<1>3. (reads[r] - 1) * Timeout \in Nat /\ (reads[r] - 1) * Timeout + Timeout = reads[r] * Timeout
  BY <1>2, Products
<1>4. (reads'[r] - 1) * Timeout = (reads[r] - 1) * Timeout + Timeout
  <2>1. reads'[r] - 1 = reads[r]
    BY <1>2
  <2> QED
    BY <1>3, <2>1
<1>5. \A k \in reply'[r] : Aged(k, since'[r], (reads'[r] - 1) * Timeout)
  <2> SUFFICES ASSUME NEW k \in reply[r]
               PROVE  Aged(k, now, (reads[r] - 1) * Timeout + Timeout)
    BY <1>1, <1>2, <1>4
  <2>1. Aged(k, since[r], (reads[r] - 1) * Timeout)
    BY <1>1 DEF IInv, ReplyInv
  <2>2. retired[k] \in Nat
    BY KidsAssumption DEF IInv, TypeOK, Never
  <2> QED
    BY <1>2, <1>3, <2>1, <2>2 DEF Aged
<1> QED
  BY <1>1, <1>2, <1>5, TaskStep DEF IInv, TypeOK, ReplyInv, KidInv

LEMMA FetchFailsInv ==
  ASSUME IInv, NEW r \in Requests, FetchFails(r)
  PROVE  IInv'
  BY TimesAssumption, TaskStep
     DEF FetchFails, Forget, Goto, IInv, TypeOK, ReplyInv, KidInv, Fetching, Answers

LEMMA NextTokenInv ==
  ASSUME IInv, NEW r \in Requests, NextToken(r)
  PROVE  IInv'
  BY TaskStep DEF NextToken, fetchVars, IInv, TypeOK, ReplyInv, KidInv, Fetching, Answers

(* How old the keys of a response are once it has been read.               *)
LEMMA ReadInTime ==
  ASSUME IInv, NEW r \in Requests, at[r] = "read", NEW k \in reply[r]
  PROVE  k \in Usable /\ Aged(k, now, Reads * Timeout)
<1> USE TimesAssumption
<1>1. /\ reads[r] \in 1 .. Reads /\ since[r] \in Nat /\ now \in Nat /\ now <= since[r] + Timeout
      /\ Aged(k, since[r], (reads[r] - 1) * Timeout) /\ k \in Usable
  BY DEF IInv, TypeOK, ReplyInv
<1>2. retired[k] \in Nat
  BY <1>1, KidsAssumption DEF IInv, TypeOK, Never
<1>3. /\ (reads[r] - 1) * Timeout \in Nat /\ Reads * Timeout \in Nat
      /\ (reads[r] - 1) * Timeout + Timeout = reads[r] * Timeout
      /\ reads[r] * Timeout <= Reads * Timeout
  BY <1>1, Products
<1>4. reads[r] * Timeout \in Nat
  BY <1>1
<1> QED
  BY <1>1, <1>2, <1>3, <1>4 DEF Aged

LEMMA StoreInv ==
  ASSUME IInv, NEW r \in Requests, Store(r)
  PROVE  IInv'
<1> USE KidsAssumption, TimesAssumption
<1>1. /\ jwks' = reply[r] /\ lastFetched' = now /\ at[r] = "read"
      /\ \E answer \in Answers : at' = [at EXCEPT ![r] = answer]
      /\ Forget(r) /\ UNCHANGED <<now, published, retired, kid>>
  BY DEF Store, Goto, Answers, clerkVars
<1>2. \A q \in Requests \ {r} :
        /\ at'[q] = at[q] /\ reply'[q] = reply[q] /\ steady'[q] = steady[q]
        /\ since'[q] = since[q] /\ reads'[q] = reads[q]
  BY <1>1 DEF Forget, IInv, TypeOK
<1>3. at'[r] \in Answers /\ steady'[r] = {}
  BY <1>1 DEF Forget, IInv, TypeOK
<1>4. TypeOK'
  BY <1>1 DEF Forget, IInv, TypeOK, Answers, Fetching
<1>5. ClerkInv'
  BY <1>1 DEF IInv, ClerkInv
<1>6. CacheInv'
  <2> SUFFICES ASSUME NEW k \in reply[r] PROVE Aged(k, now, Reads * Timeout)
    BY <1>1 DEF CacheInv, Aged
  <2> QED
    BY <1>1, ReadInTime
<1>7. ReplyInv'
  <2> SUFFICES ASSUME NEW q \in Requests
               PROVE  /\ at'[q] \notin Fetching => steady'[q] = {}
                      /\ steady'[q] \subseteq published
                      /\ at'[q] = "read" =>
                           /\ reads'[q] \in 1 .. Reads /\ since'[q] <= now
                           /\ Usable \cap steady'[q] \subseteq reply'[q]
                           /\ \A k \in reply'[q] : Aged(k, since'[q], (reads'[q] - 1) * Timeout)
    BY <1>1 DEF ReplyInv, Aged
  <2>1. CASE q = r
    BY <1>3, <2>1 DEF Answers
  <2>2. CASE q # r
    BY <1>2, <2>2 DEF IInv, ReplyInv
  <2> QED
    BY <2>1, <2>2
<1>8. KidInv'
  BY <1>1, <1>2, <1>3 DEF IInv, TypeOK, KidInv, Answers
<1> QED
  BY <1>4, <1>5, <1>6, <1>7, <1>8 DEF IInv

(* A key that Clerk publishes or retires is no older than before; one that *)
(* it has just retired has an age of 0.                                    *)
LEMMA KeysAge ==
  ASSUME IInv, NEW j \in Kids, Publish(j) \/ Retire(j),
         NEW k \in Kids, NEW t \in Nat, t <= now, NEW age \in Nat, Aged(k, t, age)
  PROVE  (k \in published' \/ retired'[k] # Never) /\ (k \notin published' => t - retired'[k] <= age)
<1> USE TimesAssumption DEF IInv, TypeOK, Never, Aged
<1>1. CASE Publish(j)
  BY <1>1 DEF Publish
<1>2. CASE Retire(j)
  BY <1>2 DEF Retire
<1> QED
  BY <1>1, <1>2

LEMMA ClerkStep ==
  ASSUME IInv, NEW j \in Kids, Publish(j) \/ Retire(j)
  PROVE  IInv'
<1> USE KidsAssumption, TimesAssumption
<1>1. /\ UNCHANGED <<now, jwks, lastFetched, reply, since, reads, at, kid>>
      /\ \A r \in Requests : steady'[r] \in SUBSET (steady[r] \cap published')
      /\ steady' \in [Requests -> SUBSET Kids]
  BY DEF Publish, Retire, cacheVars, fetchVars, IInv, TypeOK, ReplyInv
<1>2. TypeOK' /\ ClerkInv'
  <2>1. CASE Publish(j)
    BY <1>1, <2>1 DEF Publish, IInv, TypeOK, ClerkInv, Never
  <2>2. CASE Retire(j)
    BY <1>1, <2>2 DEF Retire, IInv, TypeOK, ClerkInv, Never
  <2> QED
    BY <2>1, <2>2
<1>3. CacheInv'
  <2> SUFFICES ASSUME NEW k \in jwks
               PROVE  /\ k \in published' \/ retired'[k] # Never
                      /\ k \notin published' => lastFetched - retired'[k] <= Reads * Timeout
    BY <1>1 DEF CacheInv, Aged
  <2>1. k \in Kids /\ lastFetched \in Nat /\ lastFetched <= now
    BY DEF IInv, TypeOK
  <2>2. Aged(k, lastFetched, Reads * Timeout) /\ Reads * Timeout \in Nat
    BY DEF IInv, CacheInv
  <2> QED
    BY <2>1, <2>2, KeysAge
<1>4. ReplyInv'
  <2> SUFFICES ASSUME NEW r \in Requests
               PROVE  /\ at[r] \notin Fetching => steady'[r] = {}
                      /\ steady'[r] \subseteq published'
                      /\ at[r] = "read" =>
                           /\ reads[r] \in 1 .. Reads /\ since[r] <= now
                           /\ Usable \cap steady'[r] \subseteq reply[r]
                           /\ \A k \in reply[r] :
                                /\ k \in published' \/ retired'[k] # Never
                                /\ k \notin published' =>
                                     since[r] - retired'[k] <= (reads[r] - 1) * Timeout
    BY <1>1 DEF ReplyInv, Aged
  <2>1. ASSUME at[r] = "read", NEW k \in reply[r]
        PROVE  /\ k \in published' \/ retired'[k] # Never
               /\ k \notin published' => since[r] - retired'[k] <= (reads[r] - 1) * Timeout
    <3>1. k \in Kids /\ since[r] \in Nat /\ since[r] <= now /\ reads[r] \in 1 .. Reads
      BY <2>1 DEF IInv, TypeOK, ReplyInv
    <3>2. Aged(k, since[r], (reads[r] - 1) * Timeout) /\ (reads[r] - 1) * Timeout \in Nat
      BY <2>1, <3>1, Products DEF IInv, ReplyInv
    <3> QED
      BY <3>1, <3>2, KeysAge
  <2> QED
    BY <1>1, <2>1 DEF IInv, ReplyInv
<1>5. KidInv'
  BY <1>1 DEF IInv, KidInv
<1> QED
  BY <1>2, <1>3, <1>4, <1>5 DEF IInv

LEMMA TickInv ==
  ASSUME IInv, Tick
  PROVE  IInv'
<1> USE TimesAssumption DEF IInv, Tick, clerkVars, cacheVars, fetchVars
<1>1. TypeOK'
  BY DEF TypeOK
<1>2. ClerkInv' /\ CacheInv'
  BY DEF TypeOK, ClerkInv, CacheInv, Aged, Never
<1>3. ReplyInv' /\ KidInv'
  BY DEF TypeOK, ReplyInv, KidInv, Aged
<1> QED
  BY <1>1, <1>2, <1>3

\* The invariant is inductive: whatever the tasks do between two awaits, no key that is
\* kept or under way is older than the reads that brought it.
THEOREM Inductive == Spec => []IInv
<1>1. IInv /\ [Next]_vars => IInv'
  <2> SUFFICES ASSUME IInv, [Next]_vars PROVE IInv'
    OBVIOUS
  <2>1. ASSUME NEW r \in Requests, NoKid(r) \/ Ask(r) \/ VerifyStep(r) \/ NextToken(r)
        PROVE  IInv'
    BY <2>1, NoKidInv, AskInv, UseCachedInv, SendInv, RespondInv, ReadMoreInv, StoreInv,
       FetchFailsInv, NextTokenInv DEF VerifyStep
  <2>2. ASSUME NEW k \in Kids, Publish(k) \/ Retire(k) PROVE IInv'
    BY <2>2, ClerkStep
  <2>3. CASE UNCHANGED vars
    BY <2>3 DEF vars, clerkVars, cacheVars, fetchVars, IInv, TypeOK, ClerkInv, CacheInv,
                ReplyInv, KidInv, Aged
  <2> QED
    BY <2>1, <2>2, <2>3, TickInv DEF Next
<1> QED
  BY <1>1, InitInv, PTL DEF Spec

\* Every variable keeps its type, and no response is read for longer than its reads take.
THEOREM TypeCorrect == Spec => []TypeOK
<1>1. IInv => TypeOK
  BY DEF IInv
<1> QED
  BY <1>1, Inductive, PTL

-----------------------------------------------------------------------------
(* The promise of KeyLookup.                                               *)

LEMMA PhasesOf ==
  /\ \A k : PhaseOf("idle", k) = "idle"
  /\ PhaseOf("invalid", None) = "idle"
  /\ \A k \in Kids :
       /\ PhaseOf("asked", k) = "asked"
       /\ \A s \in Fetching : PhaseOf(s, k) = "looking"
       /\ \A s \in {"verified", "invalid"} : PhaseOf(s, k) = "found"
       /\ PhaseOf("unknown", k) = "not found"
       /\ PhaseOf("raised", k) = "failed"
  BY KidsAssumption DEF PhaseOf, Fetching

(* What one task's move does to the mapped phases.                         *)
LEMMA PhaseMoves ==
  ASSUME TypeOK, NEW r \in Requests, NEW entered,
         PhaseOf(at'[r], kid'[r]) = entered,
         \A q \in Requests \ {r} : at'[q] = at[q] /\ kid'[q] = kid[q]
  PROVE  PromisePhase' = [PromisePhase EXCEPT ![r] = entered]
<1>1. \A q \in Requests :
        PhaseOf(at'[q], kid'[q]) = IF q = r THEN entered ELSE PhaseOf(at[q], kid[q])
  OBVIOUS
<1>2. PromisePhase' = [q \in Requests |-> IF q = r THEN entered ELSE PhaseOf(at[q], kid[q])]
  BY <1>1, Zenon DEF PromisePhase
<1> QED
  BY <1>2 DEF PromisePhase

LEMMA InitRefines == Init => Promise!Init
<1> SUFFICES ASSUME Init PROVE Promise!Init
  OBVIOUS
<1> USE DEF Init
<1>1. PromisePhase = [r \in Requests |-> "idle"]
  BY PhasesOf DEF PromisePhase
<1> QED
  BY <1>1 DEF Promise!Init

(* The key is in a cache that is younger than its time-to-live.            *)
LEMMA UseCachedRefines ==
  ASSUME IInv, NEW r \in Requests, UseCached(r)
  PROVE  Promise!Found(r)
<1>1. /\ at[r] = "asked" /\ at'[r] \in {"verified", "invalid"}
      /\ \A q \in Requests \ {r} : at'[q] = at[q] /\ kid'[q] = kid[q]
      /\ UNCHANGED <<now, published, retired, kid, steady>>
  BY DEF UseCached, Goto, clerkVars, fetchVars, IInv, TypeOK
<1>2. TypeOK /\ kid[r] \in Kids /\ steady[r] = {}
  BY <1>1 DEF IInv, KidInv, ReplyInv, Fetching
<1>3. PromisePhase[r] = "asked"
  BY <1>1, <1>2, PhasesOf DEF PromisePhase
<1>4. PromisePhase' = [PromisePhase EXCEPT ![r] = "found"]
  <2>1. PhaseOf(at'[r], kid'[r]) = "found"
    BY <1>1, <1>2, PhasesOf
  <2> QED
    BY <1>1, <1>2, <2>1, PhaseMoves
<1>5. kid[r] \in Usable /\ Promise!Recent(kid[r])
  <2>1. /\ kid[r] \in jwks /\ now - lastFetched < TTL
        /\ Aged(kid[r], lastFetched, Reads * Timeout)
    BY DEF UseCached, Cached, IInv, CacheInv
  <2>2. /\ now \in Nat /\ lastFetched \in Nat /\ retired[kid[r]] \in Nat /\ kid[r] \in Usable
        /\ Reads * Timeout \in Nat
    BY <1>2, <2>1, TimesAssumption DEF TypeOK, Never
  <2> QED
    BY <2>1, <2>2, TimesAssumption DEF Aged, Promise!Recent, Promise!Issued
<1>6. steady' = [steady EXCEPT ![r] = {}]
  BY <1>1, <1>2 DEF TypeOK
<1> QED
  BY <1>1, <1>3, <1>4, <1>5, <1>6 DEF Promise!Found, Promise!clerk

(* The key is in the reply, which took no longer than its reads, or was    *)
(* not published throughout.                                               *)
LEMMA StoreRefines ==
  ASSUME IInv, NEW r \in Requests, Store(r)
  PROVE  Promise!Found(r) \/ Promise!NotFound(r)
<1>1. /\ at[r] = "read" /\ jwks' = reply[r]
      /\ \A q \in Requests \ {r} : at'[q] = at[q] /\ kid'[q] = kid[q]
      /\ UNCHANGED <<now, published, retired, kid>>
      /\ steady' = [steady EXCEPT ![r] = {}]
  BY DEF Store, Forget, Goto, clerkVars, IInv, TypeOK
<1>2. at'[r] \in IF kid[r] \in reply[r] THEN {"verified", "invalid"} ELSE {"unknown"}
  BY DEF Store, Goto, IInv, TypeOK
<1>3. TypeOK /\ kid[r] \in Kids /\ Usable \cap steady[r] \subseteq reply[r]
  BY <1>1 DEF IInv, KidInv, ReplyInv
<1>4. PromisePhase[r] = "looking"
  BY <1>1, <1>3, PhasesOf DEF PromisePhase, Fetching
<1>5. CASE kid[r] \in reply[r]
  <2>1. PromisePhase' = [PromisePhase EXCEPT ![r] = "found"]
    <3>1. PhaseOf(at'[r], kid'[r]) = "found"
      BY <1>1, <1>2, <1>3, <1>5, PhasesOf
    <3> QED
      BY <1>1, <1>3, <3>1, PhaseMoves
  <2>2. kid[r] \in Usable /\ Promise!Recent(kid[r])
    <3>1. kid[r] \in Usable /\ Aged(kid[r], now, Reads * Timeout)
      BY <1>1, <1>5, ReadInTime
    <3>2. now \in Nat /\ retired[kid[r]] \in Nat /\ Reads * Timeout \in Nat
      BY <1>3, TimesAssumption DEF TypeOK, Never
    <3> QED
      BY <3>1, <3>2, TimesAssumption DEF Aged, Promise!Recent, Promise!Issued
  <2> QED
    BY <1>1, <1>4, <2>1, <2>2 DEF Promise!Found, Promise!clerk
<1>6. CASE kid[r] \notin reply[r]
  <2>1. PromisePhase' = [PromisePhase EXCEPT ![r] = "not found"]
    <3>1. PhaseOf(at'[r], kid'[r]) = "not found"
      BY <1>1, <1>2, <1>3, <1>6, PhasesOf
    <3> QED
      BY <1>1, <1>3, <3>1, PhaseMoves
  <2> QED
    BY <1>1, <1>3, <1>4, <1>6, <2>1 DEF Promise!NotFound, Promise!Goto, Promise!clerk
<1> QED
  BY <1>5, <1>6

(* The rest of a verification.                                             *)
LEMMA TaskRefines ==
  ASSUME IInv, NEW r \in Requests,
         NoKid(r) \/ Ask(r) \/ Send(r) \/ Respond(r) \/ ReadMore(r) \/ FetchFails(r) \/ NextToken(r)
  PROVE  \/ \E k \in Kids : Promise!Ask(r, k)
         \/ Promise!Look(r) \/ Promise!Failed(r) \/ Promise!Done(r)
         \/ UNCHANGED Promise!vars
<1> USE DEF Promise!clerk, Goto, clerkVars, fetchVars
<1>1. /\ TypeOK /\ (at[r] = "idle" => kid[r] = None)
      /\ at[r] \notin {"idle", "invalid"} => kid[r] \in Kids
      /\ UNCHANGED <<now, published, retired>>
      /\ \A q \in Requests \ {r} : at'[q] = at[q] /\ kid'[q] = kid[q]
  BY DEF IInv, KidInv, NoKid, Ask, Send, Respond, ReadMore, FetchFails, NextToken, TypeOK
<1>2. PromisePhase[r] = PhaseOf(at[r], kid[r])
  BY DEF PromisePhase
<1>3. ASSUME UNCHANGED <<kid, steady>>, PhaseOf(at'[r], kid'[r]) = PhaseOf(at[r], kid[r])
      PROVE  UNCHANGED Promise!vars
  <2>1. PromisePhase' = [PromisePhase EXCEPT ![r] = PhaseOf(at[r], kid[r])]
    BY <1>1, <1>3, PhaseMoves
  <2>2. PromisePhase' = PromisePhase
    BY <1>2, <2>1 DEF PromisePhase
  <2> QED
    BY <1>1, <1>3, <2>2 DEF Promise!vars, Promise!lookups
<1>4. CASE NoKid(r)
  <2>1. at[r] = "idle" /\ at'[r] = "invalid" /\ UNCHANGED <<kid, steady>>
    BY <1>1, <1>4 DEF NoKid, TypeOK
  <2>2. PhaseOf(at'[r], kid'[r]) = PhaseOf(at[r], kid[r])
    BY <1>1, <2>1, PhasesOf
  <2> QED
    BY <1>3, <2>1, <2>2
<1>5. CASE Ask(r)
  <2>1. PICK k \in Kids : kid' = [kid EXCEPT ![r] = k]
    BY <1>5 DEF Ask
  <2>2. at[r] = "idle" /\ at'[r] = "asked" /\ kid'[r] = k /\ steady' = steady
    BY <1>1, <1>5, <2>1 DEF Ask, TypeOK
  <2>3. PhaseOf(at'[r], kid'[r]) = "asked" /\ PromisePhase[r] = "idle"
    BY <1>2, <2>2, PhasesOf
  <2>4. PromisePhase' = [PromisePhase EXCEPT ![r] = "asked"]
    BY <1>1, <2>3, PhaseMoves
  <2> QED
    BY <1>1, <2>1, <2>2, <2>3, <2>4 DEF Promise!Ask, Promise!Goto
<1>6. CASE Send(r)
  <2>1. /\ at[r] = "asked" /\ at'[r] = "send" /\ kid' = kid
        /\ steady' = [steady EXCEPT ![r] = published]
    BY <1>1, <1>6 DEF Send, TypeOK
  <2>2. PhaseOf(at'[r], kid'[r]) = "looking" /\ PromisePhase[r] = "asked"
    BY <1>1, <1>2, <2>1, PhasesOf DEF Fetching
  <2>3. PromisePhase' = [PromisePhase EXCEPT ![r] = "looking"]
    BY <1>1, <2>2, PhaseMoves
  <2> QED
    BY <1>1, <2>1, <2>2, <2>3 DEF Promise!Look, Promise!Goto
<1>7. CASE Respond(r) \/ ReadMore(r)
  <2>1. at[r] \in Fetching /\ at'[r] \in Fetching /\ UNCHANGED <<kid, steady>>
    BY <1>1, <1>7 DEF Respond, ReadMore, Fetching, TypeOK
  <2>2. PhaseOf(at'[r], kid'[r]) = PhaseOf(at[r], kid[r])
    BY <1>1, <2>1, PhasesOf DEF Fetching
  <2> QED
    BY <1>3, <2>1, <2>2
<1>8. CASE FetchFails(r)
  <2>1. /\ at[r] \in Fetching /\ at'[r] = "raised" /\ kid' = kid
        /\ steady' = [steady EXCEPT ![r] = {}]
    BY <1>1, <1>8 DEF FetchFails, Forget, TypeOK
  <2>2. PhaseOf(at'[r], kid'[r]) = "failed" /\ PromisePhase[r] = "looking"
    BY <1>1, <1>2, <2>1, PhasesOf DEF Fetching
  <2>3. PromisePhase' = [PromisePhase EXCEPT ![r] = "failed"]
    BY <1>1, <2>2, PhaseMoves
  <2> QED
    BY <1>1, <2>1, <2>2, <2>3 DEF Promise!Failed, Promise!Goto
<1>9. CASE NextToken(r)
  <2>1. /\ at[r] \in Answers /\ at'[r] = "idle" /\ steady' = steady
        /\ kid' = [kid EXCEPT ![r] = None]
    BY <1>1, <1>9 DEF NextToken, TypeOK
  <2>2. PhaseOf(at'[r], kid'[r]) = "idle"
    BY <1>1, <2>1, PhasesOf
  <2>3. CASE kid[r] = None
    <3>1. kid' = kid /\ PhaseOf(at[r], kid[r]) = "idle"
      BY <1>1, <2>1, <2>3, PhasesOf, KidsAssumption DEF TypeOK, Answers
    <3> QED
      BY <1>3, <2>1, <2>2, <3>1
  <2>4. CASE kid[r] \in Kids
    <3>1. PromisePhase[r] \in {"found", "not found", "failed"}
      BY <1>2, <2>1, <2>4, PhasesOf DEF Answers
    <3>2. PromisePhase' = [PromisePhase EXCEPT ![r] = "idle"]
      BY <1>1, <2>2, PhaseMoves
    <3> QED
      BY <1>1, <2>1, <3>1, <3>2 DEF Promise!Done
  <2> QED
    BY <1>1, <2>3, <2>4 DEF TypeOK
<1> QED
  BY <1>4, <1>5, <1>6, <1>7, <1>8, <1>9

LEMMA ClerkRefines ==
  ASSUME IInv, NEW k \in Kids
  PROVE  /\ Publish(k) => Promise!Publish(k)
         /\ Retire(k) => Promise!Retire(k)
<1> USE DEF Promise!lookups, cacheVars, clerkVars, fetchVars
<1>1. Publish(k) \/ Retire(k) => PromisePhase' = PromisePhase
  BY DEF Publish, Retire, PromisePhase
<1>2. Publish(k) => Promise!Publish(k)
  BY <1>1 DEF Publish, Promise!Publish, Promise!Issued
<1>3. Retire(k) => Promise!Retire(k)
  BY <1>1 DEF Retire, Promise!Retire
<1> QED
  BY <1>2, <1>3

\* The cache without a lock keeps KeyLookup's promise, with any number of tasks that
\* overtake one another.
THEOREM RefinesKeyLookup == Spec => ImplementsKeyLookup
<1>1. Init => Promise!Init
  BY InitRefines
<1>2. IInv /\ [Next]_vars => [Promise!Next]_(Promise!vars)
  <2> SUFFICES ASSUME IInv, [Next]_vars PROVE Promise!Next \/ UNCHANGED Promise!vars
    OBVIOUS
  <2>1. ASSUME NEW r \in Requests, UseCached(r) \/ Store(r) PROVE Promise!Next
    BY <2>1, UseCachedRefines, StoreRefines DEF Promise!Next
  <2>2. ASSUME NEW r \in Requests,
               NoKid(r) \/ Ask(r) \/ Send(r) \/ Respond(r) \/ ReadMore(r) \/ FetchFails(r)
                 \/ NextToken(r)
        PROVE  Promise!Next \/ UNCHANGED Promise!vars
    BY <2>2, TaskRefines DEF Promise!Next
  <2>3. ASSUME NEW k \in Kids, Publish(k) \/ Retire(k) PROVE Promise!Next
    BY <2>3, ClerkRefines DEF Promise!Next
  <2>4. CASE Tick
    <3>1. PromisePhase' = PromisePhase
      BY <2>4 DEF Tick, PromisePhase
    <3> QED
      BY <2>4, <3>1 DEF Tick, cacheVars, clerkVars, fetchVars, Promise!lookups, Promise!Tick,
                        Promise!Next
  <2>5. CASE UNCHANGED vars
    BY <2>5 DEF vars, clerkVars, fetchVars, Promise!vars, Promise!clerk, Promise!lookups,
                PromisePhase
  <2> QED
    BY <2>1, <2>2, <2>3, <2>4, <2>5 DEF Next, VerifyStep
<1> QED
  BY <1>1, <1>2, Inductive, PTL DEF Spec, ImplementsKeyLookup, Promise!Spec
=============================================================================
