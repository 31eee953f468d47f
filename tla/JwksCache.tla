------------------------------ MODULE JwksCache ------------------------------
(***************************************************************************)
(* The key cache of the gateway's authentication (gateway/internal/        *)
(* middleware/auth.go, jwksCache).  A lookup reads the cache under the     *)
(* read lock; if the key is missing or the cache is too old it takes the   *)
(* write lock, looks again, and fetches the key set while it holds the     *)
(* lock.  A fetch that fails leaves the cache alone, and a key of a cache  *)
(* that is not too stale is used all the same.                             *)
(*                                                                         *)
(* Requests run in goroutines of their own; one action is the code between *)
(* two points where the goroutine may wait: for a lock, or for Clerk.      *)
(* Clerk publishes and retires keys at any time.  A kid is published and   *)
(* retired at most once.                                                   *)
(***************************************************************************)
EXTENDS Integers, FiniteSets

CONSTANTS
  Kids,        \* key ids
  Usable,      \* the kids of RSA signing keys with well-formed parameters
  Requests,    \* connections, each with one request at a time
  TTL,         \* CacheTTL
  StaleLimit,  \* how long a cache that cannot be refreshed is used (24 hours)
  Timeout,     \* the HTTP client's timeout
  None,        \* no request, no kid
  Horizon      \* bound: the last instant

ASSUME KidsAssumption == Usable \subseteq Kids
ASSUME TimesAssumption ==
  /\ TTL \in Nat \ {0} /\ StaleLimit \in Nat /\ TTL <= StaleLimit
  /\ Timeout \in Nat \ {0} /\ Horizon \in Nat
ASSUME NoneAssumption == None \notin Requests \cup Kids

VARIABLES
  now,         \* the clock
  published,   \* the keys Clerk publishes
  retired,     \* when Clerk has retired each key
  steady,      \* the keys published ever since the fetch under way was sent
  keys,        \* c.keys
  fetchedAt,   \* c.fetchedAt
  writer,      \* who holds the write lock c.mu
  fetchStart,  \* when the fetch under way was sent
  reply,       \* the key set in its response
  at,          \* where each request is
  kid          \* the kid in the header of its token

clerkVars == <<published, retired>>
cacheVars == <<keys, fetchedAt>>
fetchVars == <<writer, fetchStart, reply, steady>>
jwksVars == <<now, clerkVars, cacheVars, fetchVars, at, kid>>

Never == Horizon + 1
Times == 0 .. Never
LookupSteps == {"idle", "read", "lock", "fetch", "store"}
Fetching == {"fetch", "store"}
Answers == {"fresh", "stale", "unknown", "failed"}

Cached(k) == k \in keys /\ now - fetchedAt < TTL

Goto(r, from, to) == at[r] = from /\ at' = [at EXCEPT ![r] = to]
Unlock(r) == writer = r /\ writer' = None /\ fetchStart' = 0 /\ reply' = {} /\ steady' = {}

\* Before the first fetch c.keys is empty, and the age of the cache tells nothing.
JwksInit ==
  /\ now = 0
  /\ published \in SUBSET Kids
  /\ retired = [k \in Kids |-> Never]
  /\ keys = {} /\ fetchedAt = 0
  /\ writer = None /\ fetchStart = 0 /\ reply = {} /\ steady = {}
  /\ at = [r \in Requests |-> "idle"]
  /\ kid = [r \in Requests |-> None]

-----------------------------------------------------------------------------
(* getKey and refreshAndGetKey.                                            *)

\* A token with a kid comes in.
Lookup(r) ==
  /\ Goto(r, "idle", "read")
  /\ \E k \in Kids : kid' = [kid EXCEPT ![r] = k]
  /\ UNCHANGED <<now, clerkVars, cacheVars, fetchVars>>

\* Mutant: the age of the cache is not looked at.
ReadCached_AnyAge(r) ==
  /\ writer = None
  /\ Goto(r, "read", IF kid[r] \in keys THEN "fresh" ELSE "lock")
  /\ UNCHANGED <<now, clerkVars, cacheVars, fetchVars, kid>>

\* Readers wait while a writer holds the lock.
ReadCached(r) ==
  /\ writer = None
  /\ Goto(r, "read", IF Cached(kid[r]) THEN "fresh" ELSE "lock")
  /\ UNCHANGED <<now, clerkVars, cacheVars, fetchVars, kid>>

\* Mutants: there is no second look; or it is at the age of the cache only.
Lock_NoRecheck(r) ==
  /\ writer = None
  /\ Goto(r, "lock", "fetch")
  /\ writer' = r /\ fetchStart' = now /\ steady' = published
  /\ UNCHANGED <<now, clerkVars, cacheVars, reply, kid>>
Lock_AgeOnly(r) ==
  /\ writer = None
  /\ IF keys # {} /\ now - fetchedAt < TTL
     THEN Goto(r, "lock", IF kid[r] \in keys THEN "fresh" ELSE "unknown")
          /\ UNCHANGED fetchVars
     ELSE Goto(r, "lock", "fetch") /\ writer' = r /\ fetchStart' = now /\ steady' = published
  /\ UNCHANGED <<now, clerkVars, cacheVars, reply, kid>>

\* The write lock is taken; another request may have refreshed the cache meanwhile.
Lock(r) ==
  /\ writer = None
  /\ IF Cached(kid[r])
     THEN Goto(r, "lock", "fresh") /\ UNCHANGED fetchVars
     ELSE Goto(r, "lock", "fetch") /\ writer' = r /\ fetchStart' = now /\ steady' = published
  /\ UNCHANGED <<now, clerkVars, cacheVars, reply, kid>>

\* Clerk answers with the keys it publishes; those that are not RSA signing keys, or do
\* not decode, are skipped.
Respond(r) ==
  /\ Goto(r, "fetch", "store")
  /\ reply' = published \cap Usable
  /\ UNCHANGED <<now, clerkVars, cacheVars, writer, fetchStart, steady, kid>>

\* The document is decoded and replaces the cache.
Store(r) ==
  /\ Goto(r, "store", IF kid[r] \in reply THEN "fresh" ELSE "unknown")
  /\ keys' = reply /\ fetchedAt' = now
  /\ Unlock(r)
  /\ UNCHANGED <<now, clerkVars, kid>>

\* Mutant: the lock is not released.
FetchFails_Locked(r) ==
  /\ \E step \in Fetching :
       Goto(r, step, IF kid[r] \in keys /\ now - fetchedAt < StaleLimit
                     THEN "stale" ELSE "failed")
  /\ UNCHANGED <<now, clerkVars, cacheVars, fetchVars, kid>>

\* No URL, no connection, an error status, a document that does not decode, or the
\* timeout, which covers the body too.
FetchFails(r) ==
  /\ \E step \in Fetching :
       Goto(r, step, IF kid[r] \in keys /\ now - fetchedAt < StaleLimit
                     THEN "stale" ELSE "failed")
  /\ Unlock(r)
  /\ UNCHANGED <<now, clerkVars, cacheVars, kid>>

LookupStep(r) ==
  ReadCached(r) \/ Lock(r) \/ Respond(r) \/ Store(r) \/ FetchFails(r)

-----------------------------------------------------------------------------
(* Clerk and the clock.                                                    *)

Publish(k) ==
  /\ k \notin published /\ retired[k] = Never
  /\ published' = published \cup {k}
  /\ UNCHANGED <<now, retired, cacheVars, fetchVars, at, kid>>

Retire(k) ==
  /\ k \in published
  /\ published' = published \ {k}
  /\ retired' = [retired EXCEPT ![k] = now]
  /\ steady' = steady \ {k}
  /\ UNCHANGED <<now, cacheVars, writer, fetchStart, reply, at, kid>>

\* The clock does not pass the client's timeout while a fetch goes on.
Tick ==
  /\ now < Horizon
  /\ writer # None => now < fetchStart + Timeout
  /\ now' = now + 1
  /\ UNCHANGED <<clerkVars, cacheVars, fetchVars, at, kid>>

Environment == (\E k \in Kids : Publish(k) \/ Retire(k)) \/ Tick
=============================================================================
