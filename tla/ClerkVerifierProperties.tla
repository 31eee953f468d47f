----------------------- MODULE ClerkVerifierProperties -----------------------
(***************************************************************************)
(* What ClerkJWTVerifier promises to a service.                            *)
(***************************************************************************)
EXTENDS ClerkVerifier

\* Every variable has its type, and a response is read no longer than its reads may take.
TypeOK ==
  /\ now \in 0 .. Horizon /\ lastFetched \in 0 .. now
  /\ published \subseteq Kids /\ jwks \subseteq Usable
  /\ retired \in [Kids -> 0 .. Never]
  /\ kid \in [Requests -> Kids \cup {None}]
  /\ at \in [Requests -> {"idle", "asked"} \cup Fetching \cup Answers]
  /\ reply \in [Requests -> SUBSET Usable] /\ steady \in [Requests -> SUBSET Kids]
  /\ since \in [Requests -> 0 .. Horizon] /\ reads \in [Requests -> 0 .. Reads]
  /\ \A r \in Requests : at[r] = "read" => now <= since[r] + Timeout

\* Where a lookup of KeyLookup is: a token without a kid never begins one.
PhaseOf(step, k) ==
  IF step = "asked" THEN "asked"
  ELSE IF step \in Fetching THEN "looking"
  ELSE IF step \in {"verified", "invalid"} /\ k # None THEN "found"
  ELSE IF step = "unknown" THEN "not found"
  ELSE IF step = "raised" THEN "failed" ELSE "idle"
PromisePhase == [r \in Requests |-> PhaseOf(at[r], kid[r])]

Promise == INSTANCE KeyLookup WITH
  MaxAge <- TTL + Reads * Timeout,
  phase <- PromisePhase

\* Without a lock, and with replies that overtake one another, a token is still verified
\* only with a key retired no longer ago than the TTL and the reads of one response, a
\* rotated key is accepted at once, and what fails has asked Clerk.
ImplementsKeyLookup == Promise!Spec

\* A verification ends, whatever becomes of Clerk.
VerificationsEnd == \A r \in Requests : at[r] \in {"asked"} \cup Fetching ~> at[r] \in Answers

-----------------------------------------------------------------------------
(* The inductive invariant: how old the keys are that are kept or under    *)
(* way, and which are among them.                                          *)

\* k was published until no earlier than age ticks before the instant t.
Aged(k, t, age) == (k \in published \/ retired[k] # Never) /\ (k \notin published => t - retired[k] <= age)

ClerkInv ==
  \A k \in Kids :
    /\ k \in published => retired[k] = Never
    /\ retired[k] # Never => retired[k] <= now

CacheInv == \A k \in jwks : Aged(k, lastFetched, Reads * Timeout)

ReplyInv ==
  \A r \in Requests :
    /\ at[r] \notin Fetching => steady[r] = {}
    /\ steady[r] \subseteq published
    /\ at[r] = "read" =>
         /\ reads[r] \in 1 .. Reads /\ since[r] <= now
         /\ Usable \cap steady[r] \subseteq reply[r]
         /\ \A k \in reply[r] : Aged(k, since[r], (reads[r] - 1) * Timeout)

KidInv ==
  \A r \in Requests :
    /\ at[r] = "idle" => kid[r] = None
    /\ at[r] \notin {"idle", "invalid"} => kid[r] \in Kids

IInv == TypeOK /\ ClerkInv /\ CacheInv /\ ReplyInv /\ KidInv
=============================================================================
