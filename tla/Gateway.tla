------------------------------- MODULE Gateway -------------------------------
(***************************************************************************)
(* A request through the gateway: the chain that gateway/internal/router/  *)
(* router.go builds (RequestID, Recovery, Logging, CORS, RateLimit,        *)
(* Tracing, Auth) and the reverse proxy behind it (internal/proxy), over   *)
(* the key cache of JwksCache.                                             *)
(*                                                                         *)
(* What a request is (its method, path and token) and what the limiter     *)
(* says (RateLimiter) are choices; the response is its status and what the *)
(* client gets of the body.                                                *)
(***************************************************************************)
EXTENDS JwksCache

VARIABLES
  status,   \* the status of each response; none before it is written
  body      \* what has been sent of its body

responseVars == <<status, body>>
vars == <<jwksVars, responseVars>>
NoStatus == 0
GatewayStatuses == {204, 401, 404, 429, 500, 502}
UpstreamStatus == 200
Bodies == {"none", "open", "whole", "cut", "problem", "mixed"}
ProxySteps == {"authorized", "streaming", "panicking", "ended"}

Init ==
  /\ JwksInit
  /\ status = [r \in Requests |-> NoStatus]
  /\ body = [r \in Requests |-> "none"]

\* The handler returns.
End(r, from) == Goto(r, from, "ended") /\ kid' = [kid EXCEPT ![r] = None]

\* A response the gateway writes itself.
Answer(r, from, code, text) ==
  /\ End(r, from)
  /\ status' = [status EXCEPT ![r] = code]
  /\ body' = [body EXCEPT ![r] = text]
  /\ UNCHANGED <<now, clerkVars, cacheVars, fetchVars>>

-----------------------------------------------------------------------------
(* The chain.                                                              *)

\* CORS answers every OPTIONS request itself, before the limiter counts it.
Preflight(r) == Answer(r, "idle", 204, "none")
Limited(r) == Answer(r, "idle", 429, "problem")
Health(r) == Answer(r, "idle", 200, "whole")
\* No route; under /api/v1 that is found out after authentication.
NotFound(r) == \E step \in {"idle", "authorized"} : Answer(r, step, 404, "whole")
\* No Authorization header, no bearer token, no RSA signature, or no kid.
NoToken(r) == Answer(r, "idle", 401, "problem")

\* A token with a kid: its key is looked up.
Authenticate(r) == Lookup(r) /\ UNCHANGED responseVars

\* Mutant: a key that is not found refuses nobody.
Verified_NoKey(r) == \E found \in Answers :
  /\ Goto(r, found, "authorized")
  /\ UNCHANGED <<now, clerkVars, cacheVars, fetchVars, kid, responseVars>>

\* The signature, the times and the subject are good: the request goes to a service
\* with X-User-ID.
Verified(r) == \E found \in {"fresh", "stale"} :
  /\ Goto(r, found, "authorized")
  /\ UNCHANGED <<now, clerkVars, cacheVars, fetchVars, kid, responseVars>>

\* The key was not found, or the token does not verify with it.
Refused(r) ==
  \/ \E answer \in {"unknown", "failed"} : Answer(r, answer, 401, "problem")
  \/ \E found \in {"fresh", "stale"} : Answer(r, found, 401, "problem")

-----------------------------------------------------------------------------
(* ReverseProxy.                                                           *)

\* The service sends its status and headers, which are passed on at once.
Headers(r) ==
  /\ Goto(r, "authorized", "streaming")
  /\ status' = [status EXCEPT ![r] = UpstreamStatus]
  /\ body' = [body EXCEPT ![r] = "open"]
  /\ UNCHANGED <<now, clerkVars, cacheVars, fetchVars, kid>>

\* No connection, no headers within ResponseHeaderTimeout, or the client has gone:
\* ErrorHandler.
Unavailable(r) == Answer(r, "authorized", 502, "problem")

BodyEnds(r) ==
  /\ End(r, "streaming")
  /\ body' = [body EXCEPT ![r] = "whole"]
  /\ UNCHANGED <<now, clerkVars, cacheVars, fetchVars, status>>

\* The body breaks off: the service has gone, or the client has, or the server's
\* WriteTimeout has passed.  ReverseProxy panics with http.ErrAbortHandler, for the
\* server to cut the connection.
BodyBreaks(r) == \E reachable \in BOOLEAN :
  /\ Goto(r, "streaming", "panicking")
  /\ body' = IF reachable THEN body ELSE [body EXCEPT ![r] = "cut"]
  /\ UNCHANGED <<now, clerkVars, cacheVars, fetchVars, kid, status>>

\* Recovery stops every panic and writes a problem: its status is the response's only
\* if none was written, and its text follows what was sent, if the client still gets it.
Recover(r) ==
  /\ End(r, "panicking")
  /\ status' = [status EXCEPT ![r] = IF @ = NoStatus THEN 500 ELSE @]
  /\ body' = [body EXCEPT ![r] = IF @ = "none" THEN "problem"
                                   ELSE IF @ = "open" THEN "mixed" ELSE @]
  /\ UNCHANGED <<now, clerkVars, cacheVars, fetchVars>>

\* The connection is used, or opened, again.
NextRequest(r) ==
  /\ Goto(r, "ended", "idle")
  /\ status' = [status EXCEPT ![r] = NoStatus]
  /\ body' = [body EXCEPT ![r] = "none"]
  /\ UNCHANGED <<now, clerkVars, cacheVars, fetchVars, kid>>

Next ==
  \/ \E r \in Requests :
       \/ Preflight(r) \/ Limited(r) \/ Health(r) \/ NotFound(r) \/ NoToken(r)
       \/ Authenticate(r)
       \/ LookupStep(r) /\ UNCHANGED responseVars
       \/ Verified(r) \/ Refused(r)
       \/ Headers(r) \/ Unavailable(r) \/ BodyEnds(r) \/ BodyBreaks(r) \/ Recover(r)
       \/ NextRequest(r)
  \/ Environment /\ UNCHANGED responseVars

Spec == Init /\ [][Next]_vars

\* A fetch ends, at the latest by its timeout.  A sync.RWMutex starves nobody: a waiting
\* writer keeps new readers out, and a mutex that is waited for too long is handed over.
FairSpec ==
  Spec /\ \A r \in Requests : SF_vars(LookupStep(r) /\ UNCHANGED responseVars)
=============================================================================
