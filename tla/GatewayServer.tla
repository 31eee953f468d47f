----------------------------- MODULE GatewayServer -----------------------------
(***************************************************************************)
(* The gateway's HTTP server as a process (cmd/server/main.go): the        *)
(* deadlines of its connections against those of its proxies, and its      *)
(* shutdown while responses are streaming.  What happens to a request on   *)
(* its way to a proxy is in Gateway.                                       *)
(*                                                                         *)
(* net/http sets the write deadline of a connection when it has read a     *)
(* request; what is written later never arrives, and the first write that  *)
(* fails ends the handler.  A proxy's only timeout is for the service's    *)
(* headers, from the moment the request is written: connecting to the      *)
(* service and writing the request to it take as long as they take.        *)
(***************************************************************************)
EXTENDS Naturals

CONSTANTS
  Connections,
  WriteTimeout,         \* GATEWAY_WRITE_TIMEOUT
  DefaultProxyTimeout,  \* GATEWAY_DEFAULT_PROXY_TIMEOUT
  SSEProxyTimeout,      \* GATEWAY_SSE_PROXY_TIMEOUT
  Grace,                \* the timeout of the shutdown's context
  Horizon               \* bound: the last instant

ASSUME DeadlinesAssumption ==
  /\ WriteTimeout \in Nat \ {0} /\ DefaultProxyTimeout \in Nat \ {0}
  /\ SSEProxyTimeout \in Nat \ {0} /\ Grace \in Nat \ {0} /\ Horizon \in Nat

VARIABLES
  now,
  phase,     \* where main is
  signalAt,  \* when the signal came
  at,        \* where the handler of each connection is
  route,     \* the route of its request
  start,     \* when its request was read
  asked,     \* when the proxy had written it to the service
  client     \* what the client has got

mainVars == <<phase, signalAt>>
requestVars == <<route, start, asked>>
vars == <<now, mainVars, at, requestVars, client>>

Never == Horizon + 1
Routes == {"default", "sse"}
Handling == {"received", "sending", "waiting", "streaming"}
Received == {"nothing", "headers", "whole", "cut", "502", "gone"}

\* The Timeout that New gives the proxy of each route.
Timeout(rt) == IF rt = "sse" THEN SSEProxyTimeout ELSE DefaultProxyTimeout

InTime(c) == now < start[c] + WriteTimeout

Init ==
  /\ now = 0 /\ phase = "serving" /\ signalAt = Never
  /\ at = [c \in Connections |-> "idle"] /\ route = [c \in Connections |-> "default"]
  /\ start = [c \in Connections |-> 0] /\ asked = [c \in Connections |-> 0]
  /\ client = [c \in Connections |-> "nothing"]

Running == phase # "exited"
Goto(c, from, to) == Running /\ at[c] = from /\ at' = [at EXCEPT ![c] = to]
Gets(c, what) == client' = [client EXCEPT ![c] = IF InTime(c) THEN what ELSE @]

-----------------------------------------------------------------------------
(* Requests.                                                               *)

Receive(c) ==
  /\ phase = "serving" /\ Goto(c, "idle", "received")
  /\ \E rt \in Routes : route' = [route EXCEPT ![c] = rt]
  /\ start' = [start EXCEPT ![c] = now] /\ client' = [client EXCEPT ![c] = "nothing"]
  /\ UNCHANGED <<now, mainVars, asked>>

\* The chain has let it through, maybe after a wait for Clerk's keys; the transport looks
\* for a connection to the service, or dials one, and writes the request.
Forward(c) ==
  /\ Goto(c, "received", "sending")
  /\ UNCHANGED <<now, mainVars, requestVars, client>>

\* The request is written: ResponseHeaderTimeout begins.
Written(c) ==
  /\ Goto(c, "sending", "waiting") /\ asked' = [asked EXCEPT ![c] = now]
  /\ UNCHANGED <<now, mainVars, route, start, client>>

\* A kept connection breaks before anything has come back: the transport takes another.
Resend(c) ==
  /\ Goto(c, "waiting", "sending")
  /\ UNCHANGED <<now, mainVars, requestVars, client>>

\* The service's headers may come before the request is written to its end.  They go on to
\* the client at once, or stay in the server's buffer until the body fills it or ends.
Headers(c) ==
  /\ \E step \in {"sending", "waiting"} : Goto(c, step, "streaming")
  /\ Gets(c, "headers") \/ UNCHANGED client
  /\ UNCHANGED <<now, mainVars, requestVars>>

Flush(c) ==
  /\ Goto(c, "streaming", "streaming") /\ client[c] = "nothing" /\ Gets(c, "headers")
  /\ UNCHANGED <<now, mainVars, requestVars>>

\* Mutant: an ErrorHandler that answers nothing.
Unavailable_Silent(c) ==
  /\ \E step \in {"sending", "waiting"} : Goto(c, step, "idle")
  /\ UNCHANGED <<now, mainVars, requestVars, client>>

\* No connection, a failing write, or no headers within ResponseHeaderTimeout.
Unavailable(c) ==
  /\ \E step \in {"sending", "waiting"} : Goto(c, step, "idle")
  /\ Gets(c, "502")
  /\ UNCHANGED <<now, mainVars, requestVars>>

\* A response that stays incomplete, if any of it has been sent or still can be.
Cut(c) ==
  client' = [client EXCEPT ![c] = IF @ = "headers" \/ (@ = "nothing" /\ InTime(c))
                               THEN "cut" ELSE @]

\* The body ends; past the deadline the client never gets its end.
BodyEnds(c) ==
  /\ Goto(c, "streaming", "idle")
  /\ IF InTime(c) THEN Gets(c, "whole") ELSE Cut(c)
  /\ UNCHANGED <<now, mainVars, requestVars>>

\* The service breaks off, or a write comes after the deadline.
BodyBreaks(c) ==
  /\ Goto(c, "streaming", "idle") /\ Cut(c)
  /\ UNCHANGED <<now, mainVars, requestVars>>

\* The client goes, and the context of the request with it.
ClientGoes(c) ==
  /\ \E step \in Handling : Goto(c, step, "idle")
  /\ client' = [client EXCEPT ![c] = "gone"]
  /\ UNCHANGED <<now, mainVars, requestVars>>

-----------------------------------------------------------------------------
(* The process.                                                            *)

\* When a process ends, its connections do.
Exit ==
  /\ phase' = "exited" /\ at' = [c \in Connections |-> "idle"]
  /\ client' = [c \in Connections |->
                  IF at[c] = "streaming" /\ client[c] = "headers" THEN "cut" ELSE client[c]]

\* The listener fails: os.Exit(1).
ListenFails ==
  /\ phase = "serving" /\ Exit
  /\ UNCHANGED <<now, signalAt, requestVars>>

\* SIGINT or SIGTERM: Shutdown closes the listener and waits for the handlers.
\* (The bound leaves time for its context.)
Signal ==
  /\ phase = "serving" /\ phase' = "draining" /\ signalAt' = now
  /\ now + Grace <= Horizon
  /\ UNCHANGED <<now, at, requestVars, client>>

Drained ==
  /\ phase = "draining" /\ \A c \in Connections : at[c] = "idle"
  /\ phase' = "telemetry"
  /\ UNCHANGED <<now, signalAt, at, requestVars, client>>

\* Mutant: a context without a timeout.
DrainTimesOut_Never == Drained

\* The context is over: Shutdown gives up and leaves the handlers as they are.
DrainTimesOut ==
  /\ phase = "draining" /\ now = signalAt + Grace
  /\ phase' = "telemetry"
  /\ UNCHANGED <<now, signalAt, at, requestVars, client>>

\* The exporter is flushed within the same context, and main returns.
FlushTelemetry ==
  /\ phase = "telemetry" /\ Exit
  /\ UNCHANGED <<now, signalAt, requestVars>>

\* Time stops for nobody but a timer that is due: that of a proxy that waits for headers,
\* and the context of a shutdown.
Tick ==
  /\ now < Horizon
  /\ \A c \in Connections : at[c] = "waiting" => now < asked[c] + Timeout(route[c])
  /\ phase \in {"draining", "telemetry"} => now < signalAt + Grace
  /\ now' = now + 1
  /\ UNCHANGED <<mainVars, at, requestVars, client>>

Next ==
  \/ \E c \in Connections :
       \/ Receive(c) \/ Forward(c) \/ Written(c) \/ Resend(c) \/ Headers(c) \/ Flush(c)
       \/ Unavailable(c) \/ BodyEnds(c) \/ BodyBreaks(c) \/ ClientGoes(c)
  \/ ListenFails \/ Signal \/ Drained \/ DrainTimesOut \/ FlushTelemetry
  \/ Tick

\* Time passes, a wait for headers ends with them or with its timeout, and main does not
\* stop; no connection to a service has to come about and no stream has to end.
Spec ==
  /\ Init /\ [][Next]_vars
  /\ WF_vars(Tick)
  /\ \A c \in Connections : WF_vars(at[c] = "waiting" /\ (Headers(c) \/ Unavailable(c)))
  /\ WF_vars(Drained) /\ WF_vars(DrainTimesOut) /\ WF_vars(FlushTelemetry)
-----------------------------------------------------------------------------
\* Every variable has its type, the instants are in order, and a shutdown never outlasts
\* its context.
TypeOK ==
  /\ now \in 0 .. Horizon /\ phase \in {"serving", "draining", "telemetry", "exited"}
  /\ signalAt \in (0 .. now) \cup {Never}
  /\ phase \in {"draining", "telemetry"} => signalAt <= now /\ now <= signalAt + Grace
  /\ at \in [Connections -> {"idle"} \cup Handling]
  /\ route \in [Connections -> Routes] /\ client \in [Connections -> Received]
  /\ start \in [Connections -> 0 .. now] /\ asked \in [Connections -> 0 .. now]
  /\ \A c \in Connections :
       at[c] = "waiting" => start[c] <= asked[c] /\ now <= asked[c] + Timeout(route[c])

\* A graceful shutdown is one: it takes a response from nobody, unless that was still
\* being written when the shutdown's context was over.
ShutdownCutsOnlyLate ==
  [][\A c \in Connections :
       phase = "telemetry" /\ phase' = "exited" /\ at[c] # "idle" =>
         now >= signalAt + Grace]_vars

\* A shutdown ends, also when a stream or the wait for a connection to a service does not.
ShutdownEnds == phase = "draining" ~> phase = "exited"

\* A service that stays silent is not passed on to the client: where the timeout of the
\* route, from the moment the request was written, ends before the server's deadline, the
\* wait for headers ends in time, with time left for the service's body or with a 502 that
\* arrives.  (The timeout of a default route is as long as the deadline, that of an event
\* stream longer: for these nothing is promised; nor is it while the gateway connects and
\* writes, for which proxy.go sets no timeout.)
AnsweredInTime ==
  [][\A c \in Connections :
       /\ at[c] = "waiting" /\ at'[c] \in {"streaming", "idle"} /\ phase' # "exited"
       /\ asked[c] + Timeout(route[c]) < start[c] + WriteTimeout
       => IF at'[c] = "streaming" THEN InTime(c) ELSE client'[c] # "nothing"]_vars
=============================================================================
