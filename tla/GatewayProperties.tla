-------------------------- MODULE GatewayProperties --------------------------
(***************************************************************************)
(* What the gateway guarantees of its key cache and of its answers.        *)
(***************************************************************************)
EXTENDS Gateway

Issued(k) == k \in published \/ retired[k] # Never
Answered(r) == at[r] \notin Answers /\ at'[r] \in Answers

\* Every variable has its type, and the write lock is held by the one request that
\* fetches, for no longer than the client's timeout.
TypeOK ==
  /\ now \in 0 .. Horizon
  /\ published \subseteq Kids /\ retired \in [Kids -> Times]
  /\ steady \subseteq published
  /\ keys \subseteq Kids /\ reply \subseteq Kids
  /\ fetchedAt \in 0 .. now /\ fetchStart \in 0 .. now
  /\ at \in [Requests -> LookupSteps \cup Answers \cup ProxySteps]
  /\ kid \in [Requests -> Kids \cup {None}]
  /\ writer \in Requests \cup {None}
  /\ \A r \in Requests : at[r] \in Fetching <=> writer = r
  /\ writer # None => now <= fetchStart + Timeout
  /\ status \in [Requests -> {NoStatus, UpstreamStatus} \cup GatewayStatuses]
  /\ body \in [Requests -> Bodies]

FoundRecent(r) == LET k == kid[r] IN
  /\ at'[r] = "fresh" => Issued(k) /\ now - retired[k] < TTL + Timeout
  /\ at'[r] = "stale" => Issued(k) /\ now - retired[k] < StaleLimit + Timeout

\* A retired key is soon refused: the key a lookup returns was published, and was not
\* retired longer ago than the cache may be old plus the time its fetch took -- the TTL,
\* or the stale limit when the refresh has just failed.
KeysRecent == [][\A r \in Requests : Answered(r) => FoundRecent(r)]_vars

\* Requests that wait for one another do not all fetch: a cache younger than its TTL is
\* replaced only for the sake of a key that it lacks.
FetchNeeded ==
  [][\A r \in Requests :
       at[r] = "store" /\ at'[r] \in {"fresh", "unknown"} =>
         kid[r] \notin keys \/ now - fetchedAt >= TTL]_vars

PhaseOf(step) ==
  CASE step \in {"read", "lock"} -> "asked"
    [] step \in Fetching -> "looking"
    [] step \in {"fresh", "stale"} -> "found"
    [] step = "unknown" -> "not found"
    [] step = "failed" -> "failed"
    [] OTHER -> "idle"

PromisePhase == [r \in Requests |-> PhaseOf(at[r])]
PromiseKid == [r \in Requests |-> IF PhaseOf(at[r]) = "idle" THEN None ELSE kid[r]]
PromiseSteady == [r \in Requests |-> IF writer = r THEN steady ELSE {}]

Promise == INSTANCE KeyLookup WITH
  MaxAge <- StaleLimit + Timeout,
  phase <- PromisePhase, kid <- PromiseKid, steady <- PromiseSteady

\* The locked cache keeps the same promise as the Python services' unlocked one: what it
\* finds was published until recently; a key it does not find was not published throughout
\* its own fetch, so that a rotated key is accepted at once; and it fails only after it has
\* asked Clerk.
ImplementsKeyLookup == Promise!Spec

\* What reaches a service is authentic: its token verifies with a usable key that Clerk has
\* published, whatever became of the cache meanwhile.
OnlyAuthentic ==
  \A r \in Requests :
    at[r] \in ProxySteps \ {"ended"} =>
      kid[r] \in Usable /\ Issued(kid[r])

\* A lookup ends, whatever the others do with the lock.
LookupEnds(r) == at[r] \in LookupSteps \ {"idle"} ~> at[r] \in Answers

SaysOneThing(r) ==
  /\ status[r] # NoStatus => status'[r] = status[r]
  /\ body[r] \in Bodies \ {"none", "open"} => body'[r] = body[r]
  /\ body'[r] # "none" => status'[r] # NoStatus

\* A response says one thing: its status is sent once, and what the client has got of the
\* body is only ever added to -- by Recovery too, when it stops the panic of a broken
\* stream -- until the response has ended.
AnsweredOnce == [][\A r \in Requests : at[r] # "ended" => SaysOneThing(r)]_vars

-----------------------------------------------------------------------------
(* The inductive invariant: how recent the keys of the cache and of the    *)
(* reply under way are, what a fetch was needed for, and what the position *)
(* of a request says of its key and its response.                          *)

PublishedInv == \A k \in published : retired[k] = Never

KeysInv == \A k \in keys : k \in Usable /\ Issued(k) /\ fetchedAt <= retired[k] + Timeout

ReplyInv ==
  /\ writer = None => reply = {}
  /\ \A k \in reply : k \in Usable /\ Issued(k) /\ fetchStart <= retired[k]
  /\ \A r \in Requests : at[r] = "store" => Usable \cap steady \subseteq reply

FetchInv == \A r \in Requests : at[r] \in Fetching => ~Cached(kid[r])

Authentic(r) == kid[r] \in Usable /\ Issued(kid[r])
AuthenticInv ==
  \A r \in Requests :
    at[r] \in {"fresh", "stale", "authorized", "streaming", "panicking"} => Authentic(r)

Unanswered == LookupSteps \cup Answers \cup {"authorized"}
ResponseInv ==
  \A r \in Requests :
    /\ at[r] \in Unanswered => status[r] = NoStatus /\ body[r] = "none"
    /\ at[r] = "streaming" => status[r] = UpstreamStatus /\ body[r] = "open"
    /\ at[r] = "panicking" => status[r] = UpstreamStatus /\ body[r] \in {"open", "cut"}

IInv ==
  TypeOK /\ PublishedInv /\ KeysInv /\ ReplyInv /\ FetchInv /\ AuthenticInv /\ ResponseInv
=============================================================================
