---------------------------- MODULE ClerkVerifier ----------------------------
(***************************************************************************)
(* ClerkJWTVerifier (shared/ages_common/auth/clerk.py), with which a       *)
(* Python service verifies tokens when the gateway is bypassed: a cache of *)
(* the key set without a lock, so that every request that misses fetches   *)
(* for itself, whichever reply comes last is kept, and nothing old is used *)
(* when a fetch fails.                                                     *)
(*                                                                         *)
(* One action is the code between two awaits.  The client's timeout is for *)
(* each read, not for the whole response, which takes up to Reads of them. *)
(***************************************************************************)
EXTENDS Integers, FiniteSets

CONSTANTS
  Kids,      \* key ids
  Usable,    \* the kids of keys that PyJWKSet decodes
  Requests,  \* tasks, each verifying one token at a time
  TTL,       \* cache_ttl
  Timeout,   \* httpx's timeout
  Reads,     \* the reads that the key set's document takes
  None,      \* no kid
  Horizon    \* bound: the last instant

ASSUME KidsAssumption == Usable \subseteq Kids /\ None \notin Kids
ASSUME TimesAssumption ==
  TTL \in Nat \ {0} /\ Timeout \in Nat \ {0} /\ Reads \in Nat \ {0} /\ Horizon \in Nat

VARIABLES
  now,          \* the clock
  published,    \* the keys Clerk publishes
  retired,      \* when Clerk has retired each key
  jwks,         \* _jwks, empty before the first fetch
  lastFetched,  \* _last_fetched
  at,           \* where each task is
  kid,          \* the kid of its token
  reply,        \* the key set in the response to its fetch
  since,        \* when its last read began
  reads,        \* the reads of the document so far
  steady        \* history: the keys published ever since its fetch was sent

clerkVars == <<published, retired>>
cacheVars == <<jwks, lastFetched>>
fetchVars == <<reply, since, reads, steady>>
vars == <<now, clerkVars, cacheVars, fetchVars, at, kid>>

Never == Horizon + 1
Fetching == {"send", "read"}
Answers == {"verified", "invalid", "unknown", "raised"}

Init ==
  /\ now = 0 /\ published \in SUBSET Kids /\ retired = [k \in Kids |-> Never]
  /\ jwks = {} /\ lastFetched = 0
  /\ at = [r \in Requests |-> "idle"] /\ kid = [r \in Requests |-> None]
  /\ reply = [r \in Requests |-> {}] /\ steady = [r \in Requests |-> {}]
  /\ since = [r \in Requests |-> 0] /\ reads = [r \in Requests |-> 0]

Goto(r, from, to) == at[r] = from /\ at' = [at EXCEPT ![r] = to]

\* The end of a fetch: nothing of it is kept but what it has stored.
Forget(r) ==
  /\ reply' = [reply EXCEPT ![r] = {}] /\ steady' = [steady EXCEPT ![r] = {}]
  /\ since' = [since EXCEPT ![r] = 0] /\ reads' = [reads EXCEPT ![r] = 0]

-----------------------------------------------------------------------------
(* verify                                                                  *)

\* A token without a kid, or that is no token: AuthenticationError.
NoKid(r) ==
  /\ Goto(r, "idle", "invalid")
  /\ UNCHANGED <<now, clerkVars, cacheVars, fetchVars, kid>>

\* A request with a token comes in; its task runs later.
Ask(r) ==
  /\ Goto(r, "idle", "asked") /\ \E k \in Kids : kid' = [kid EXCEPT ![r] = k]
  /\ UNCHANGED <<now, clerkVars, cacheVars, fetchVars>>

\* Mutant: no age is too great.
Cached_AnyAge(k) == k \in jwks

Cached(k) == k \in jwks /\ now - lastFetched < TTL

\* The key is in the cache and the token is decoded, or does not verify.
UseCached(r) ==
  /\ Cached(kid[r])
  /\ \E answer \in {"verified", "invalid"} : Goto(r, "asked", answer)
  /\ UNCHANGED <<now, clerkVars, cacheVars, fetchVars, kid>>

\* It is not: the key set is asked for.
Send(r) ==
  /\ ~Cached(kid[r]) /\ Goto(r, "asked", "send")
  /\ steady' = [steady EXCEPT ![r] = published]
  /\ UNCHANGED <<now, clerkVars, cacheVars, reply, since, reads, kid>>

\* Clerk answers with the keys it publishes.
Respond(r) ==
  /\ Goto(r, "send", "read")
  /\ reply' = [reply EXCEPT ![r] = published \cap Usable]
  /\ since' = [since EXCEPT ![r] = now] /\ reads' = [reads EXCEPT ![r] = 1]
  /\ UNCHANGED <<now, clerkVars, cacheVars, steady, kid>>

\* Some of the document comes; the next read has a timeout of its own.
ReadMore(r) ==
  /\ at[r] = "read" /\ reads[r] < Reads
  /\ since' = [since EXCEPT ![r] = now] /\ reads' = [reads EXCEPT ![r] = @ + 1]
  /\ UNCHANGED <<now, clerkVars, cacheVars, reply, steady, at, kid>>

\* The reply replaces the cache, and the key is looked for in it.
Store(r) ==
  /\ reply[r] # {}
  /\ jwks' = reply[r] /\ lastFetched' = now
  /\ \E answer \in IF kid[r] \in jwks' THEN {"verified", "invalid"} ELSE {"unknown"} :
       Goto(r, "read", answer)
  /\ Forget(r)
  /\ UNCHANGED <<now, clerkVars, kid>>

\* Mutant: nothing fails once the headers are there.
FetchFails_Sent(r) ==
  /\ Goto(r, "send", "raised")
  /\ Forget(r)
  /\ UNCHANGED <<now, clerkVars, cacheVars, kid>>

\* A timeout, no connection, an error status, a body that is no JSON or has no usable key:
\* verify catches none of these.  An URL that is not configured is found before anything
\* is sent, and is an AuthenticationError.
FetchFails(r) ==
  /\ \E step \in Fetching : Goto(r, step, "raised")
  /\ Forget(r)
  /\ UNCHANGED <<now, clerkVars, cacheVars, kid>>

NextToken(r) ==
  /\ at[r] \in Answers /\ at' = [at EXCEPT ![r] = "idle"]
  /\ kid' = [kid EXCEPT ![r] = None]
  /\ UNCHANGED <<now, clerkVars, cacheVars, fetchVars>>

VerifyStep(r) ==
  UseCached(r) \/ Send(r) \/ Respond(r) \/ ReadMore(r) \/ Store(r) \/ FetchFails(r)

-----------------------------------------------------------------------------
(* Clerk and the clock.                                                    *)

Publish(k) ==
  /\ k \notin published /\ retired[k] = Never
  /\ published' = published \cup {k}
  /\ UNCHANGED <<now, retired, cacheVars, fetchVars, at, kid>>

Retire(k) ==
  /\ k \in published
  /\ published' = published \ {k}
  /\ retired' = [retired EXCEPT ![k] = now]
  /\ steady' = [r \in Requests |-> steady[r] \ {k}]
  /\ UNCHANGED <<now, cacheVars, reply, since, reads, at, kid>>

Tick ==
  /\ now < Horizon
  /\ \A r \in Requests : at[r] = "read" => now < since[r] + Timeout
  /\ now' = now + 1
  /\ UNCHANGED <<clerkVars, cacheVars, fetchVars, at, kid>>

Next ==
  \/ \E r \in Requests : NoKid(r) \/ Ask(r) \/ VerifyStep(r) \/ NextToken(r)
  \/ \E k \in Kids : Publish(k) \/ Retire(k)
  \/ Tick

\* A fetch goes on until its answer or its timeout, and the event loop runs every task.
Spec == Init /\ [][Next]_vars /\ \A r \in Requests : WF_vars(VerifyStep(r))
=============================================================================
