---------------------------- MODULE GatewayProofs ----------------------------
(***************************************************************************)
(* TLAPS proofs about the gateway's key cache and its answers, for any     *)
(* number of connections and keys and any time-to-live, stale limit and    *)
(* timeout; and that the cache keeps the promise of KeyLookup.             *)
(***************************************************************************)
EXTENDS GatewayProperties, TLAPS

LEMMA InitInv == Init => IInv
<1> SUFFICES ASSUME Init PROVE IInv
  OBVIOUS
<1> USE NoneAssumption, TimesAssumption DEF Init, JwksInit, Never
<1>1. TypeOK
  BY DEF TypeOK, Times, LookupSteps, Fetching, NoStatus, Bodies
<1>2. PublishedInv /\ KeysInv
  BY DEF PublishedInv, KeysInv
<1>3. ReplyInv /\ FetchInv /\ AuthenticInv
  BY DEF ReplyInv, FetchInv, AuthenticInv, Fetching
<1>4. ResponseInv
  BY DEF ResponseInv, NoStatus
<1> QED
  BY <1>1, <1>2, <1>3, <1>4 DEF IInv

OwnAnswer(r) ==
  \/ Preflight(r) \/ Limited(r) \/ Health(r) \/ NotFound(r) \/ NoToken(r)
  \/ Refused(r) \/ Unavailable(r)
OwnStep(r) ==
  \/ Authenticate(r) \/ Verified(r) \/ Headers(r) \/ BodyEnds(r) \/ BodyBreaks(r)
  \/ Recover(r) \/ NextRequest(r)

LEMMA Steps ==
  Next => \/ \E r \in Requests : OwnAnswer(r) \/ OwnStep(r)
          \/ \E r \in Requests : LookupStep(r) /\ UNCHANGED responseVars
          \/ Environment /\ UNCHANGED responseVars
  BY DEF Next, OwnAnswer, OwnStep

LEMMA OwnAnswers ==
  ASSUME NEW r \in Requests, OwnAnswer(r)
  PROVE  \E from \in {"idle", "authorized"} \cup Answers,
            code \in {UpstreamStatus} \cup GatewayStatuses, text \in Bodies :
              Answer(r, from, code, text)
  BY DEF OwnAnswer, Preflight, Limited, Health, NotFound, NoToken, Refused, Unavailable,
         Answers, UpstreamStatus, GatewayStatuses, Bodies

(* A request is answered by the gateway itself.                            *)
LEMMA AnswerStep ==
  ASSUME IInv, NEW r \in Requests, NEW from \in {"idle", "authorized"} \cup Answers,
         NEW code \in {UpstreamStatus} \cup GatewayStatuses, NEW text \in Bodies,
         Answer(r, from, code, text)
  PROVE  IInv'
<1> USE DEF Answer, End, Goto, clerkVars, cacheVars, fetchVars, IInv, TypeOK
<1>1. at' = [at EXCEPT ![r] = "ended"] /\ at[r] = from
  OBVIOUS
<1>2. TypeOK'
  BY <1>1 DEF Times, Fetching, Answers, ProxySteps
<1>3. PublishedInv' /\ KeysInv'
  BY DEF PublishedInv, KeysInv, Issued
<1>4. ReplyInv' /\ FetchInv'
  BY <1>1 DEF ReplyInv, FetchInv, Issued, Cached, Fetching
<1>5. AuthenticInv'
  BY <1>1 DEF AuthenticInv, Authentic, Issued
<1>6. ResponseInv'
  BY <1>1 DEF ResponseInv, Unanswered, LookupSteps, Answers
<1> QED
  BY <1>2, <1>3, <1>4, <1>5, <1>6

(* A step of a request in which the cache, the lock and Clerk have no part. *)
LEMMA RequestStep ==
  ASSUME IInv, NEW r \in Requests, OwnStep(r)
  PROVE  IInv'
<1> USE DEF End, Goto, clerkVars, cacheVars, fetchVars, responseVars, IInv, TypeOK
<1> USE DEF OwnStep, Authenticate, Lookup, Verified, Headers, BodyEnds, BodyBreaks,
            Recover, NextRequest
<1>0. /\ UNCHANGED <<now, published, retired, keys, fetchedAt, writer, fetchStart, reply, steady>>
      /\ \A q \in Requests \ {r} : /\ at'[q] = at[q] /\ kid'[q] = kid[q]
                                   /\ status'[q] = status[q] /\ body'[q] = body[q]
      /\ at[r] \notin Fetching /\ at'[r] \notin Fetching
  BY DEF Fetching
<1>1. TypeOK'
  <2>1. at' \in [Requests -> LookupSteps \cup Answers \cup ProxySteps]
    BY DEF LookupSteps, Answers, ProxySteps
  <2>2. kid' \in [Requests -> Kids \cup {None}]
    OBVIOUS
  <2>3. status' \in [Requests -> {NoStatus, UpstreamStatus} \cup GatewayStatuses]
    BY DEF GatewayStatuses
  <2>4. body' \in [Requests -> Bodies]
    BY DEF Bodies
  <2> QED
    BY <1>0, <2>1, <2>2, <2>3, <2>4
<1>2. PublishedInv' /\ KeysInv'
  BY <1>0 DEF PublishedInv, KeysInv, Issued
<1>3. ReplyInv' /\ FetchInv'
  BY <1>0 DEF ReplyInv, FetchInv, Issued, Cached, Fetching
<1>4. AuthenticInv'
  BY <1>0 DEF AuthenticInv, Authentic, Issued
<1>5. ResponseInv'
  BY <1>0 DEF ResponseInv, Unanswered, LookupSteps, Answers
<1> QED
  BY <1>1, <1>2, <1>3, <1>4, <1>5

LEMMA LookupInv ==
  ASSUME IInv, NEW r \in Requests, LookupStep(r), UNCHANGED responseVars
  PROVE  IInv'
<1> USE KidsAssumption, NoneAssumption, TimesAssumption
<1> USE DEF Goto, Unlock, clerkVars, cacheVars, fetchVars, responseVars
<1>1. CASE ReadCached(r)
  <2> USE <1>1 DEF ReadCached, IInv, TypeOK
  <2>1. TypeOK'
    BY DEF LookupSteps, Answers, Fetching
  <2>2. PublishedInv' /\ KeysInv'
    BY DEF PublishedInv, KeysInv, Issued
  <2>3. ReplyInv' /\ FetchInv'
    BY DEF ReplyInv, FetchInv, Issued, Cached, Fetching
  <2>4. AuthenticInv'
    BY DEF AuthenticInv, Authentic, KeysInv, Issued, Cached
  <2>5. ResponseInv'
    BY DEF ResponseInv, Unanswered, LookupSteps, Answers
  <2> QED
    BY <2>1, <2>2, <2>3, <2>4, <2>5
<1>2. CASE Lock(r)
  <2> USE <1>2 DEF Lock, IInv, TypeOK
  <2>1. TypeOK'
    BY DEF LookupSteps, Answers, Fetching
  <2>2. PublishedInv' /\ KeysInv'
    BY DEF PublishedInv, KeysInv, Issued
  <2>3. ReplyInv' /\ FetchInv'
    BY DEF ReplyInv, FetchInv, Issued, Cached, Fetching
  <2>4. AuthenticInv'
    BY DEF AuthenticInv, Authentic, KeysInv, Issued, Cached
  <2>5. ResponseInv'
    BY DEF ResponseInv, Unanswered, LookupSteps, Answers
  <2> QED
    BY <2>1, <2>2, <2>3, <2>4, <2>5
<1>3. CASE Respond(r)
  <2> USE <1>3 DEF Respond, IInv, TypeOK
  <2>1. TypeOK'
    BY DEF LookupSteps, Answers, Fetching
  <2>2. PublishedInv' /\ KeysInv'
    BY DEF PublishedInv, KeysInv, Issued
  <2>3. ReplyInv' /\ FetchInv'
    BY DEF ReplyInv, FetchInv, Issued, Cached, Fetching, PublishedInv, Never, Times
  <2>4. AuthenticInv'
    BY DEF AuthenticInv, Authentic, Issued
  <2>5. ResponseInv'
    BY DEF ResponseInv, Unanswered, LookupSteps, Answers
  <2> QED
    BY <2>1, <2>2, <2>3, <2>4, <2>5
<1>4. CASE Store(r)
  <2> USE <1>4 DEF Store, IInv, TypeOK
  <2>1. TypeOK'
    BY DEF LookupSteps, Answers, Fetching
  <2>2. PublishedInv' /\ KeysInv'
    BY DEF PublishedInv, KeysInv, Issued, ReplyInv, Times, Never
  <2>3. ReplyInv' /\ FetchInv'
    BY DEF ReplyInv, FetchInv, Issued, Cached, Fetching
  <2>4. AuthenticInv'
    BY DEF AuthenticInv, Authentic, ReplyInv, Issued
  <2>5. ResponseInv'
    BY DEF ResponseInv, Unanswered, LookupSteps, Answers
  <2> QED
    BY <2>1, <2>2, <2>3, <2>4, <2>5
<1>5. CASE FetchFails(r)
  <2> USE <1>5 DEF FetchFails, IInv, TypeOK
  <2>1. TypeOK'
    BY DEF LookupSteps, Answers, Fetching
  <2>2. PublishedInv' /\ KeysInv'
    BY DEF PublishedInv, KeysInv, Issued
  <2>3. ReplyInv' /\ FetchInv'
    BY DEF ReplyInv, FetchInv, Issued, Cached, Fetching
  <2>4. AuthenticInv'
    BY DEF AuthenticInv, Authentic, KeysInv, Issued
  <2>5. ResponseInv'
    BY DEF ResponseInv, Unanswered, LookupSteps, Answers, Fetching
  <2> QED
    BY <2>1, <2>2, <2>3, <2>4, <2>5
<1> QED
  BY <1>1, <1>2, <1>3, <1>4, <1>5 DEF LookupStep

(* Clerk publishes or retires a key, or time passes.                       *)
LEMMA EnvironmentInv ==
  ASSUME IInv, Environment, UNCHANGED responseVars
  PROVE  IInv'
<1> USE KidsAssumption, NoneAssumption, TimesAssumption
<1> USE DEF clerkVars, cacheVars, fetchVars, responseVars, IInv
<1>1. ASSUME NEW k \in Kids, Publish(k) PROVE IInv'
  <2> USE <1>1 DEF Publish
  <2>1. TypeOK'
    BY DEF TypeOK, Fetching
  <2>2. PublishedInv' /\ KeysInv'
    BY DEF PublishedInv, KeysInv, Issued
  <2>3. ReplyInv' /\ FetchInv'
    BY DEF ReplyInv, FetchInv, Issued, Cached, Fetching
  <2>4. AuthenticInv' /\ ResponseInv'
    BY DEF AuthenticInv, Authentic, Issued, ResponseInv
  <2> QED
    BY <2>1, <2>2, <2>3, <2>4
<1>2. ASSUME NEW k \in Kids, Retire(k) PROVE IInv'
  <2> USE <1>2 DEF Retire, TypeOK
  <2>0. now # Never /\ now \in Times
    BY DEF Never, Times
  <2>1. TypeOK'
    BY <2>0 DEF Fetching
  <2>2. PublishedInv' /\ KeysInv'
    BY <2>0 DEF PublishedInv, KeysInv, Issued
  <2>3. ReplyInv' /\ FetchInv'
    BY <2>0 DEF ReplyInv, FetchInv, Issued, Cached, Fetching
  <2>4. AuthenticInv' /\ ResponseInv'
    BY <2>0 DEF AuthenticInv, Authentic, Issued, ResponseInv
  <2> QED
    BY <2>1, <2>2, <2>3, <2>4
<1>3. ASSUME Tick PROVE IInv'
  <2> USE <1>3 DEF Tick
  <2>1. TypeOK'
    BY DEF TypeOK, Fetching
  <2>2. PublishedInv' /\ KeysInv'
    BY DEF PublishedInv, KeysInv, Issued
  <2>3. ReplyInv' /\ FetchInv'
    BY DEF ReplyInv, FetchInv, Issued, Cached, Fetching, TypeOK
  <2>4. AuthenticInv' /\ ResponseInv'
    BY DEF AuthenticInv, Authentic, Issued, ResponseInv
  <2> QED
    BY <2>1, <2>2, <2>3, <2>4
<1> QED
  BY <1>1, <1>2, <1>3 DEF Environment

LEMMA StutterInv == ASSUME IInv, UNCHANGED vars PROVE IInv'
<1> USE DEF vars, jwksVars, clerkVars, cacheVars, fetchVars, responseVars, IInv
<1>1. TypeOK'
  BY DEF TypeOK
<1>2. PublishedInv' /\ KeysInv' /\ ReplyInv' /\ FetchInv'
  BY DEF PublishedInv, KeysInv, ReplyInv, FetchInv, Issued, Cached
<1>3. AuthenticInv' /\ ResponseInv'
  BY DEF AuthenticInv, Authentic, Issued, ResponseInv
<1> QED
  BY <1>1, <1>2, <1>3

LEMMA NextInv == IInv /\ [Next]_vars => IInv'
<1> SUFFICES ASSUME IInv, [Next]_vars PROVE IInv'
  OBVIOUS
<1>1. CASE UNCHANGED vars
  BY <1>1, StutterInv
<1>2. CASE Environment /\ UNCHANGED responseVars
  BY <1>2, EnvironmentInv
<1>3. ASSUME NEW r \in Requests, LookupStep(r) /\ UNCHANGED responseVars PROVE IInv'
  BY <1>3, LookupInv
<1>4. ASSUME NEW r \in Requests, OwnStep(r) PROVE IInv'
  BY <1>4, RequestStep
<1>5. ASSUME NEW r \in Requests, OwnAnswer(r) PROVE IInv'
  BY <1>5, OwnAnswers, AnswerStep
<1> QED
  BY <1>1, <1>2, <1>3, <1>4, <1>5, Steps

\* The invariant of the cache, the lookups and the responses is inductive.
THEOREM Inductive == Spec => []IInv
<1>1. Init => IInv
  BY InitInv
<1>2. IInv /\ [Next]_vars => IInv'
  BY NextInv
<1> QED
  BY <1>1, <1>2, PTL DEF Spec

\* Every variable has its type, and the write lock is held by the one request that
\* fetches, for no longer than the client's timeout.
THEOREM TypeCorrect == Spec => []TypeOK
<1>1. IInv => TypeOK
  BY DEF IInv
<1> QED
  BY <1>1, Inductive, PTL

\* What reaches a service is authentic, however many requests share the cache.
THEOREM OnlyAuthenticHolds == Spec => []OnlyAuthentic
<1>1. IInv => OnlyAuthentic
  BY DEF IInv, AuthenticInv, Authentic, OnlyAuthentic, ProxySteps
<1> QED
  BY <1>1, Inductive, PTL

(* Only the steps of its own lookup give a request its answer.             *)
LEMMA AnsweringSteps ==
  ASSUME TypeOK, Next, NEW r \in Requests, Answered(r)
  PROVE  LookupStep(r)
<1> USE DEF Answered, TypeOK
<1>1. ASSUME NEW q \in Requests, OwnAnswer(q) PROVE FALSE
  BY <1>1, OwnAnswers DEF Answer, End, Goto, Answers
<1>2. ASSUME NEW q \in Requests, OwnStep(q) PROVE FALSE
  BY <1>2 DEF OwnStep, Authenticate, Lookup, Verified, Headers, BodyEnds, BodyBreaks,
              Recover, NextRequest, End, Goto, Answers
<1>3. ~(Environment /\ UNCHANGED responseVars)
  BY DEF Environment, Publish, Retire, Tick
<1>4. ASSUME NEW q \in Requests, q # r, LookupStep(q) PROVE FALSE
  BY <1>4 DEF LookupStep, ReadCached, Lock, Respond, Store, FetchFails, Goto
<1> QED
  BY <1>1, <1>2, <1>3, <1>4, Steps

\* A retired key is refused after the TTL, or the stale limit, and one fetch.
THEOREM KeysRecentHolds == Spec => KeysRecent
<1>1. IInv /\ [Next]_vars => [\A r \in Requests : Answered(r) => FoundRecent(r)]_vars
  <2> SUFFICES ASSUME IInv, Next, NEW r \in Requests, Answered(r)
               PROVE  FoundRecent(r)
    OBVIOUS
  <2>1. LookupStep(r)
    BY AnsweringSteps DEF IInv
  <2> USE TimesAssumption DEF FoundRecent, Goto, Answered, IInv, TypeOK, KeysInv, Issued, Times,
     Never
  <2>2. CASE ReadCached(r) \/ Lock(r)
    BY <2>2 DEF ReadCached, Lock, Cached, Answers
  <2>3. CASE Respond(r)
    BY <2>3 DEF Respond, Answers
  <2>4. CASE Store(r)
    <3>1. writer = r /\ r # None /\ (at'[r] = "fresh" => kid[r] \in reply)
      BY <2>4, NoneAssumption DEF Store, Unlock
    <3>2. at'[r] # "stale"
      BY <2>4 DEF Store
    <3> QED
      BY <3>1, <3>2, <2>4 DEF Store, ReplyInv
  <2>5. CASE FetchFails(r)
    BY <2>5 DEF FetchFails
  <2> QED
    BY <2>1, <2>2, <2>3, <2>4, <2>5 DEF LookupStep
<1> QED
  BY <1>1, Inductive, PTL DEF Spec, KeysRecent


\* A cache younger than its TTL is replaced only for a key that it lacks.
THEOREM FetchNeededHolds == Spec => FetchNeeded
<1>1. IInv /\ [Next]_vars =>
        [\A r \in Requests :
           at[r] = "store" /\ at'[r] \in {"fresh", "unknown"} =>
             kid[r] \notin keys \/ now - fetchedAt >= TTL]_vars
  BY TimesAssumption DEF IInv, FetchInv, Fetching, Cached, TypeOK
<1> QED
  BY <1>1, Inductive, PTL DEF Spec, FetchNeeded

\* A response has one status, and nothing is sent after its body has ended or broken off.
THEOREM AnsweredOnceHolds == Spec => AnsweredOnce
<1>1. IInv /\ [Next]_vars => [\A r \in Requests : at[r] # "ended" => SaysOneThing(r)]_vars
  <2> SUFFICES ASSUME IInv, Next, NEW r \in Requests, at[r] # "ended"
               PROVE  SaysOneThing(r)
    OBVIOUS
  <2>1. \/ at[r] \in Unanswered /\ status[r] = NoStatus /\ body[r] = "none"
        \/ at[r] = "streaming" /\ status[r] = UpstreamStatus /\ body[r] = "open"
        \/ at[r] = "panicking" /\ status[r] = UpstreamStatus /\ body[r] \in {"open", "cut"}
    BY DEF IInv, TypeOK, ResponseInv, Unanswered, ProxySteps
  <2> USE DEF IInv, TypeOK, SaysOneThing, UpstreamStatus, NoStatus
  <2>2. CASE UNCHANGED responseVars
    BY <2>1, <2>2 DEF responseVars
  <2>3. ASSUME NEW q \in Requests, OwnAnswer(q) PROVE SaysOneThing(r)
    <3>1. PICK from \in {"idle", "authorized"} \cup Answers,
               code \in {UpstreamStatus} \cup GatewayStatuses, text \in Bodies :
                 Answer(q, from, code, text)
      BY <2>3, OwnAnswers
    <3> QED
      BY <2>1, <3>1 DEF Answer, End, Goto, Unanswered, Answers, GatewayStatuses
  <2>4. ASSUME NEW q \in Requests, OwnStep(q) PROVE SaysOneThing(r)
    <3> USE <2>1, <2>4 DEF End, Goto, Bodies, Unanswered, LookupSteps, Answers
    <3>1. CASE Authenticate(q) \/ Verified(q)
      BY <3>1 DEF Authenticate, Verified, responseVars
    <3>2. CASE Headers(q)
      BY <3>2 DEF Headers
    <3>3. CASE BodyEnds(q)
      BY <3>3 DEF BodyEnds
    <3>4. CASE BodyBreaks(q)
      BY <3>4 DEF BodyBreaks
    <3>5. CASE Recover(q)
      BY <3>5 DEF Recover
    <3>6. CASE NextRequest(q)
      BY <3>6 DEF NextRequest
    <3> QED
      BY <3>1, <3>2, <3>3, <3>4, <3>5, <3>6 DEF OwnStep
  <2> QED
    BY <2>2, <2>3, <2>4, Steps
<1> QED
  BY <1>1, Inductive, PTL DEF Spec, AnsweredOnce

-----------------------------------------------------------------------------
(* The refinement: every step of the gateway is a step of KeyLookup, or    *)
(* leaves its variables alone.                                             *)

LEMMA Phases ==
  /\ \A step \in {"read", "lock"} : PhaseOf(step) = "asked"
  /\ \A step \in Fetching : PhaseOf(step) = "looking"
  /\ \A step \in {"fresh", "stale"} : PhaseOf(step) = "found"
  /\ PhaseOf("unknown") = "not found" /\ PhaseOf("failed") = "failed"
  /\ \A step \in {"idle"} \cup ProxySteps : PhaseOf(step) = "idle"
  BY DEF PhaseOf, Fetching, ProxySteps

(* What one request's move does to the mapped variables.                   *)
LEMMA PhaseMoves ==
  ASSUME TypeOK, NEW r \in Requests, NEW to, NEW phase, at' = [at EXCEPT ![r] = to],
         PhaseOf(to) = phase
  PROVE  PromisePhase' = [PromisePhase EXCEPT ![r] = phase]
<1>1. at'[r] = to /\ \A q \in Requests \ {r} : at'[q] = at[q]
  BY DEF TypeOK
<1>2. \A q \in Requests : PhaseOf(at'[q]) = IF q = r THEN phase ELSE PhaseOf(at[q])
  BY <1>1
<1>3. PromisePhase' = [q \in Requests |-> IF q = r THEN phase ELSE PhaseOf(at[q])]
  BY <1>2, Zenon DEF PromisePhase
<1> QED
  BY <1>3 DEF PromisePhase

LEMMA KidDropped ==
  ASSUME TypeOK, NEW r \in Requests, NEW to, at' = [at EXCEPT ![r] = to],
         PhaseOf(to) = "idle", \A q \in Requests \ {r} : kid'[q] = kid[q]
  PROVE  PromiseKid' = [PromiseKid EXCEPT ![r] = None]
<1>1. at'[r] = to /\ \A q \in Requests \ {r} : at'[q] = at[q]
  BY DEF TypeOK
<1> QED
  BY <1>1 DEF PromiseKid

LEMMA KidTaken ==
  ASSUME TypeOK, NEW r \in Requests, NEW to, NEW k, at' = [at EXCEPT ![r] = to],
         PhaseOf(to) # "idle", kid' = [kid EXCEPT ![r] = k]
  PROVE  PromiseKid' = [PromiseKid EXCEPT ![r] = k]
<1>1. /\ at'[r] = to /\ kid'[r] = k
      /\ \A q \in Requests \ {r} : at'[q] = at[q] /\ kid'[q] = kid[q]
  BY DEF TypeOK
<1> QED
  BY <1>1 DEF PromiseKid

LEMMA KidKept ==
  ASSUME TypeOK, NEW r \in Requests, NEW to, at' = [at EXCEPT ![r] = to],
         PhaseOf(at[r]) # "idle", PhaseOf(to) # "idle", kid' = kid
  PROVE  PromiseKid' = PromiseKid
<1>1. at'[r] = to /\ \A q \in Requests \ {r} : at'[q] = at[q]
  BY DEF TypeOK
<1> QED
  BY <1>1 DEF PromiseKid

LEMMA InitRefines == Init => Promise!Init
<1> SUFFICES ASSUME Init PROVE Promise!Init
  OBVIOUS
<1> USE DEF Init, JwksInit
<1>1. PromisePhase = [r \in Requests |-> "idle"]
  BY Phases DEF PromisePhase
<1>2. PromiseKid = [r \in Requests |-> None]
  BY Phases DEF PromiseKid
<1>3. PromiseSteady = [r \in Requests |-> {}]
  BY DEF PromiseSteady
<1> QED
  BY <1>1, <1>2, <1>3 DEF Promise!Init

(* A request that is answered, or goes on to its service, is done with its key. *)
LEMMA AnswerRefines ==
  ASSUME IInv, NEW r \in Requests, OwnAnswer(r)
  PROVE  Promise!Done(r) \/ UNCHANGED Promise!vars
<1>1. /\ at' = [at EXCEPT ![r] = "ended"] /\ at[r] \in {"idle", "authorized"} \cup Answers
      /\ \A q \in Requests \ {r} : kid'[q] = kid[q]
      /\ UNCHANGED <<now, published, retired, writer, steady>>
  BY OwnAnswers DEF Answer, End, Goto, clerkVars, fetchVars, IInv, TypeOK
<1>2. PhaseOf("ended") = "idle" /\ PhaseOf(at[r]) \in {"idle", "found", "not found", "failed"}
  BY <1>1, Phases DEF ProxySteps, Answers
<1>3. TypeOK
  BY DEF IInv
<1>4. PromisePhase' = [PromisePhase EXCEPT ![r] = "idle"]
  BY <1>1, <1>2, <1>3, PhaseMoves
<1>5. PromiseKid' = [PromiseKid EXCEPT ![r] = None]
  BY <1>1, <1>2, <1>3, KidDropped
<1>6. PromiseSteady' = PromiseSteady
  BY <1>1 DEF PromiseSteady
<1>7. PromisePhase[r] = PhaseOf(at[r]) /\ (PhaseOf(at[r]) = "idle" => PromiseKid[r] = None)
  BY DEF PromisePhase, PromiseKid
<1>8. CASE PhaseOf(at[r]) = "idle"
  <2>1. PromisePhase' = PromisePhase /\ PromiseKid' = PromiseKid
    BY <1>4, <1>5, <1>7, <1>8 DEF PromisePhase, PromiseKid
  <2> QED
    BY <1>1, <1>6, <2>1 DEF Promise!vars, Promise!clerk, Promise!lookups
<1>9. CASE PhaseOf(at[r]) # "idle"
  BY <1>1, <1>2, <1>4, <1>5, <1>6, <1>7, <1>9 DEF Promise!Done, Promise!clerk
<1> QED
  BY <1>8, <1>9

(* Of a request's other steps, one asks for a key and one is done with it. *)
LEMMA OwnStepRefines ==
  ASSUME IInv, NEW r \in Requests, OwnStep(r)
  PROVE  (\E k \in Kids : Promise!Ask(r, k)) \/ Promise!Done(r) \/ UNCHANGED Promise!vars
<1>1. TypeOK
  BY DEF IInv
<1>2. UNCHANGED <<now, published, retired, writer, steady>> /\ PromiseSteady' = PromiseSteady
  BY DEF OwnStep, Authenticate, Lookup, Verified, Headers, BodyEnds, BodyBreaks, Recover,
         NextRequest, End, Goto, clerkVars, fetchVars, PromiseSteady
<1>3. PromisePhase[r] = PhaseOf(at[r]) /\ (PhaseOf(at[r]) = "idle" => PromiseKid[r] = None)
  BY DEF PromisePhase, PromiseKid
<1>4. ASSUME NEW k \in Kids, at[r] = "idle", at' = [at EXCEPT ![r] = "read"],
             kid' = [kid EXCEPT ![r] = k]
      PROVE  Promise!Ask(r, k)
  <2>1. PhaseOf("idle") = "idle" /\ PhaseOf("read") = "asked"
    BY Phases
  <2>2. PromisePhase' = [PromisePhase EXCEPT ![r] = "asked"]
    BY <1>1, <1>4, <2>1, PhaseMoves
  <2>3. PromiseKid' = [PromiseKid EXCEPT ![r] = k]
    BY <1>1, <1>4, <2>1, KidTaken
  <2> QED
    BY <1>2, <1>3, <1>4, <2>1, <2>2, <2>3 DEF Promise!Ask, Promise!Goto, Promise!clerk
<1>5. ASSUME at[r] \in {"fresh", "stale"}, at' = [at EXCEPT ![r] = "authorized"], kid' = kid
      PROVE  Promise!Done(r)
  <2>1. PhaseOf(at[r]) = "found" /\ PhaseOf("authorized") = "idle"
    BY <1>5, Phases DEF ProxySteps
  <2>2. PromisePhase' = [PromisePhase EXCEPT ![r] = "idle"]
    BY <1>1, <1>5, <2>1, PhaseMoves
  <2>3. PromiseKid' = [PromiseKid EXCEPT ![r] = None]
    BY <1>1, <1>5, <2>1, KidDropped
  <2> QED
    BY <1>2, <1>3, <2>1, <2>2, <2>3 DEF Promise!Done, Promise!clerk
<1>6. ASSUME at[r] \in ProxySteps, NEW to \in {"idle"} \cup ProxySteps,
             at' = [at EXCEPT ![r] = to],
             \A q \in Requests \ {r} : kid'[q] = kid[q]
      PROVE  UNCHANGED Promise!vars
  <2>1. PhaseOf(at[r]) = "idle" /\ PhaseOf(to) = "idle"
    BY <1>6, Phases
  <2>2. PromisePhase' = [PromisePhase EXCEPT ![r] = "idle"]
    BY <1>1, <1>6, <2>1, PhaseMoves
  <2>3. PromiseKid' = [PromiseKid EXCEPT ![r] = None]
    BY <1>1, <1>6, <2>1, KidDropped
  <2>4. PromisePhase' = PromisePhase /\ PromiseKid' = PromiseKid
    BY <1>3, <2>1, <2>2, <2>3 DEF PromisePhase, PromiseKid
  <2> QED
    BY <1>2, <2>4 DEF Promise!vars, Promise!clerk, Promise!lookups
<1>7. CASE Authenticate(r)
  BY <1>4, <1>7 DEF Authenticate, Lookup, Goto
<1>8. CASE Verified(r)
  BY <1>5, <1>8 DEF Verified, Goto
<1>9. CASE Headers(r) \/ BodyEnds(r) \/ BodyBreaks(r) \/ Recover(r) \/ NextRequest(r)
  <2>1. /\ at[r] \in ProxySteps
        /\ \E to \in {"idle"} \cup ProxySteps : at' = [at EXCEPT ![r] = to]
        /\ \A q \in Requests \ {r} : kid'[q] = kid[q]
    BY <1>1, <1>9 DEF Headers, BodyEnds, BodyBreaks, Recover, NextRequest, End, Goto,
                      ProxySteps, TypeOK
  <2> QED
    BY <1>6, <2>1
<1> QED
  BY <1>7, <1>8, <1>9 DEF OwnStep

(* A step of a lookup: the key that it finds is recent, and the set that   *)
(* it looks through holds every key that was published throughout.         *)
LEMMA LookupRefines ==
  ASSUME IInv, NEW r \in Requests, LookupStep(r)
  PROVE  \/ Promise!Look(r) \/ Promise!Found(r) \/ Promise!NotFound(r) \/ Promise!Failed(r)
         \/ UNCHANGED Promise!vars
<1> USE NoneAssumption, TimesAssumption
<1>1. TypeOK /\ UNCHANGED <<now, published, retired, kid>>
  BY DEF IInv, LookupStep, ReadCached, Lock, Respond, Store, FetchFails, clerkVars
<1>2. PromisePhase[r] = PhaseOf(at[r])
  BY DEF PromisePhase
<1>3. PromiseSteady[r] = IF writer = r THEN steady ELSE {}
  BY DEF PromiseSteady
<1>4. ASSUME NEW to, at' = [at EXCEPT ![r] = to], PhaseOf(at[r]) # "idle", PhaseOf(to) # "idle"
      PROVE  PromiseKid[r] = kid[r] /\ PromiseKid' = PromiseKid
  BY <1>1, <1>4, KidKept DEF PromiseKid
<1>5. PhaseOf("read") = "asked" /\ PhaseOf("lock") = "asked"
      /\ PhaseOf("fetch") = "looking" /\ PhaseOf("store") = "looking"
      /\ PhaseOf("fresh") = "found" /\ PhaseOf("stale") = "found"
      /\ PhaseOf("unknown") = "not found" /\ PhaseOf("failed") = "failed"
  BY Phases DEF Fetching
<1>6. ASSUME writer = None, UNCHANGED <<writer, steady>> PROVE PromiseSteady' = PromiseSteady
  BY <1>6 DEF PromiseSteady
<1>7. ASSUME UNCHANGED <<writer, steady>> PROVE PromiseSteady' = PromiseSteady
  BY <1>7 DEF PromiseSteady
<1>8. ASSUME writer \in {None, r}, writer' = None
      PROVE  PromiseSteady' = [PromiseSteady EXCEPT ![r] = {}]
  BY <1>8 DEF PromiseSteady
<1>9. ASSUME at[r] \in {"read", "lock"}, at' = [at EXCEPT ![r] = "fresh"], Cached(kid[r]),
             writer = None, UNCHANGED <<writer, steady>>
      PROVE  Promise!Found(r)
  <2>1. PromisePhase' = [PromisePhase EXCEPT ![r] = "found"]
    <3>1. PhaseOf("fresh") = "found"
      BY <1>5
    <3> QED
      BY <1>1, <1>9, <3>1, PhaseMoves
  <2>2. PromiseKid[r] = kid[r] /\ PromiseKid' = PromiseKid
    BY <1>4, <1>5, <1>9
  <2>3. kid[r] \in Usable /\ Promise!Recent(kid[r])
    BY <1>9 DEF IInv, TypeOK, KeysInv, Cached, Issued, Promise!Recent, Promise!Issued, Times, Never
  <2>4. PromiseSteady' = [PromiseSteady EXCEPT ![r] = {}]
    BY <1>8, <1>9
  <2> QED
    BY <1>1, <1>2, <1>5, <1>9, <2>1, <2>2, <2>3, <2>4 DEF Promise!Found, Promise!clerk
<1>10. CASE ReadCached(r) /\ ~Cached(kid[r])
  <2>1. at[r] = "read" /\ at' = [at EXCEPT ![r] = "lock"] /\ UNCHANGED <<writer, steady>>
    BY <1>10 DEF ReadCached, Goto, fetchVars
  <2>2. PromisePhase' = [PromisePhase EXCEPT ![r] = "asked"]
    <3>1. PhaseOf("lock") = "asked"
      BY <1>5
    <3> QED
      BY <1>1, <2>1, <3>1, PhaseMoves
  <2>3. PromisePhase' = PromisePhase
    BY <1>2, <1>5, <2>1, <2>2 DEF PromisePhase
  <2>4. PromiseKid' = PromiseKid
    <3>1. PhaseOf(at[r]) # "idle" /\ PhaseOf("lock") # "idle"
      BY <1>5, <2>1
    <3> QED
      BY <1>4, <2>1, <3>1
  <2> QED
    BY <1>1, <1>7, <2>1, <2>3, <2>4 DEF Promise!vars, Promise!clerk, Promise!lookups
<1>11. CASE ReadCached(r) /\ Cached(kid[r])
  BY <1>9, <1>11 DEF ReadCached, Goto, fetchVars
<1>12. CASE Lock(r) /\ Cached(kid[r])
  BY <1>9, <1>12 DEF Lock, Goto, fetchVars
<1>13. CASE Lock(r) /\ ~Cached(kid[r])
  <2>1. /\ at[r] = "lock" /\ at' = [at EXCEPT ![r] = "fetch"]
        /\ writer = None /\ writer' = r /\ steady' = published
    BY <1>13 DEF Lock, Goto
  <2>2. PromisePhase' = [PromisePhase EXCEPT ![r] = "looking"]
    <3>1. PhaseOf("fetch") = "looking"
      BY <1>5
    <3> QED
      BY <1>1, <2>1, <3>1, PhaseMoves
  <2>3. PromiseKid' = PromiseKid
    <3>1. PhaseOf(at[r]) # "idle" /\ PhaseOf("fetch") # "idle"
      BY <1>5, <2>1
    <3> QED
      BY <1>4, <2>1, <3>1
  <2>4. PromiseSteady' = [PromiseSteady EXCEPT ![r] = published]
    BY <2>1 DEF PromiseSteady
  <2> QED
    BY <1>1, <1>2, <1>5, <2>1, <2>2, <2>3, <2>4 DEF Promise!Look, Promise!Goto, Promise!clerk
<1>14. CASE Respond(r)
  <2>1. at[r] = "fetch" /\ at' = [at EXCEPT ![r] = "store"] /\ UNCHANGED <<writer, steady>>
    BY <1>14 DEF Respond, Goto
  <2>2. PromisePhase' = [PromisePhase EXCEPT ![r] = "looking"]
    <3>1. PhaseOf("store") = "looking"
      BY <1>5
    <3> QED
      BY <1>1, <2>1, <3>1, PhaseMoves
  <2>3. PromisePhase' = PromisePhase
    BY <1>2, <1>5, <2>1, <2>2 DEF PromisePhase
  <2>4. PromiseKid' = PromiseKid
    <3>1. PhaseOf(at[r]) # "idle" /\ PhaseOf("store") # "idle"
      BY <1>5, <2>1
    <3> QED
      BY <1>4, <2>1, <3>1
  <2> QED
    BY <1>1, <1>7, <2>1, <2>3, <2>4 DEF Promise!vars, Promise!clerk, Promise!lookups
<1>15. CASE Store(r) \/ FetchFails(r)
  <2>1. PICK step \in Fetching, to \in Answers :
          /\ at[r] = step /\ at' = [at EXCEPT ![r] = to]
          /\ writer = r /\ writer' = None
    BY <1>15 DEF Store, FetchFails, Goto, Unlock, Fetching, Answers
  <2>2. PromisePhase[r] = "looking"
    BY <1>2, <2>1, Phases
  <2>3. PromiseKid[r] = kid[r] /\ PromiseKid' = PromiseKid
    <3>1. PhaseOf(at[r]) # "idle" /\ PhaseOf(to) # "idle"
      BY <1>2, <1>5, <2>1, <2>2 DEF Answers
    <3> QED
      BY <1>4, <2>1, <3>1
  <2>4. PromiseSteady[r] = steady /\ PromiseSteady' = [PromiseSteady EXCEPT ![r] = {}]
    BY <1>3, <1>8, <2>1
  <2>5. PromisePhase' = [PromisePhase EXCEPT ![r] = PhaseOf(to)]
    BY <1>1, <2>1, PhaseMoves
  <2>6. CASE to \in {"fresh", "stale"}
    <3>1. kid[r] \in Usable /\ Promise!Recent(kid[r])
      <4>1. CASE Store(r)
        <5>1. kid[r] \in reply
          BY <1>1, <2>1, <2>6, <4>1 DEF Store, Goto, TypeOK
        <5>2. now <= fetchStart + Timeout
          BY <2>1 DEF IInv, TypeOK
        <5> QED
          BY <5>1, <5>2 DEF IInv, TypeOK, ReplyInv, Issued, Promise!Recent, Promise!Issued,
                            Times, Never
      <4>2. CASE FetchFails(r)
        <5>1. kid[r] \in keys /\ now - fetchedAt < StaleLimit
          BY <1>1, <2>1, <2>6, <4>2 DEF FetchFails, Goto, TypeOK
        <5> QED
          BY <5>1 DEF IInv, TypeOK, KeysInv, Issued, Promise!Recent, Promise!Issued,
                            Times, Never
      <4> QED
        BY <1>15, <4>1, <4>2
    <3> QED
      BY <1>1, <1>5, <2>2, <2>3, <2>4, <2>5, <2>6, <3>1 DEF Promise!Found, Promise!clerk
  <2>7. CASE to = "unknown"
    <3>1. kid[r] \notin Usable \cap steady
      <4>1. Store(r)
        BY <1>1, <1>15, <2>1, <2>7 DEF FetchFails, Goto, TypeOK
      <4>2. at[r] = "store" /\ kid[r] \notin reply
        BY <1>1, <2>1, <2>7, <4>1 DEF Store, Goto, TypeOK
      <4> QED
        BY <4>2 DEF IInv, ReplyInv
    <3> QED
      BY <1>1, <1>5, <2>2, <2>3, <2>4, <2>5, <2>7, <3>1
         DEF Promise!NotFound, Promise!Goto, Promise!clerk
  <2>8. CASE to = "failed"
    BY <1>1, <1>5, <2>2, <2>3, <2>4, <2>5, <2>8 DEF Promise!Failed, Promise!Goto, Promise!clerk
  <2> QED
    BY <2>6, <2>7, <2>8 DEF Answers
<1> QED
  BY <1>10, <1>11, <1>12, <1>13, <1>14, <1>15 DEF LookupStep

LEMMA EnvironmentRefines ==
  ASSUME IInv, Environment
  PROVE  (\E k \in Kids : Promise!Publish(k) \/ Promise!Retire(k)) \/ Promise!Tick
<1> USE DEF Promise!clerk, Promise!lookups, clerkVars, cacheVars, fetchVars
<1>1. PromisePhase' = PromisePhase /\ PromiseKid' = PromiseKid
  BY DEF Environment, Publish, Retire, Tick, PromisePhase, PromiseKid
<1>2. ASSUME NEW k \in Kids, Publish(k) PROVE Promise!Publish(k)
  <2>1. PromiseSteady' = PromiseSteady
    BY <1>2 DEF Publish, PromiseSteady
  <2> QED
    BY <1>1, <1>2, <2>1 DEF Publish, Promise!Publish, Promise!Issued
<1>3. ASSUME NEW k \in Kids, Retire(k) PROVE Promise!Retire(k)
  <2>1. PromiseSteady' = [r \in Requests |-> PromiseSteady[r] \ {k}]
    BY <1>3 DEF Retire, PromiseSteady
  <2> QED
    BY <1>1, <1>3, <2>1 DEF Retire, Promise!Retire
<1>4. ASSUME Tick PROVE Promise!Tick
  <2>1. PromiseSteady' = PromiseSteady
    BY <1>4 DEF Tick, PromiseSteady
  <2> QED
    BY <1>1, <1>4, <2>1 DEF Tick, Promise!Tick
<1> QED
  BY <1>2, <1>3, <1>4 DEF Environment

\* The locked cache keeps KeyLookup's promise, with any number of requests that share it.
THEOREM RefinesKeyLookup == Spec => ImplementsKeyLookup
<1>1. Init => Promise!Init
  BY InitRefines
<1>2. IInv /\ [Next]_vars => [Promise!Next]_(Promise!vars)
  <2> SUFFICES ASSUME IInv, [Next]_vars PROVE Promise!Next \/ UNCHANGED Promise!vars
    OBVIOUS
  <2>1. CASE UNCHANGED vars
    BY <2>1 DEF vars, jwksVars, clerkVars, fetchVars, Promise!vars, Promise!clerk,
                Promise!lookups, PromisePhase, PromiseKid, PromiseSteady
  <2>2. ASSUME NEW r \in Requests, OwnAnswer(r) PROVE Promise!Next \/ UNCHANGED Promise!vars
    BY <2>2, AnswerRefines DEF Promise!Next
  <2>3. ASSUME NEW r \in Requests, OwnStep(r) PROVE Promise!Next \/ UNCHANGED Promise!vars
    BY <2>3, OwnStepRefines DEF Promise!Next
  <2>4. ASSUME NEW r \in Requests, LookupStep(r) PROVE Promise!Next \/ UNCHANGED Promise!vars
    BY <2>4, LookupRefines DEF Promise!Next
  <2>5. ASSUME Environment PROVE Promise!Next
    BY <2>5, EnvironmentRefines DEF Promise!Next
  <2> QED
    BY <2>1, <2>2, <2>3, <2>4, <2>5, Steps
<1> QED
  BY <1>1, <1>2, Inductive, PTL DEF Spec, ImplementsKeyLookup, Promise!Spec
=============================================================================
