----------------------------- MODULE RateLimiter -----------------------------
(***************************************************************************)
(* The gateway's rate limiter (gateway/internal/middleware/ratelimit.go):  *)
(* the counters of InMemoryRateLimiter and the RateLimit middleware that   *)
(* asks it.  The mutex makes Allow, the reading of the clock included, one *)
(* step; requests of any keys come in any order at any time.               *)
(*                                                                         *)
(* Time is a number of clock ticks.  admitted and refused are history: the *)
(* requests let through and turned away, with the window that counted them *)
(* and what the answer said.                                               *)
(***************************************************************************)
EXTENDS Integers, FiniteSets

CONSTANTS
  Keys,     \* rate limit keys
  Limit,    \* RequestsPerMinute; Config.validate refuses less than 1
  Window,   \* the length of a window
  Second,   \* the unit of a Retry-After
  MaxTime   \* bound: the end of the clock

ASSUME LimitAssumption == Limit \in Nat \ {0}
ASSUME WindowAssumption == Window \in Nat \ {0}
ASSUME SecondAssumption == Second \in Nat \ {0}
ASSUME TimeAssumption == MaxTime \in Nat

VARIABLES
  clock,       \* time.Now()
  windows,   \* per key seen so far: count and windowStart
  admitted,  \* history of the requests served
  refused    \* history of the requests answered with 429

limiterVars == <<clock, windows, admitted, refused>>

LimiterInit ==
  /\ clock = 0
  /\ windows = [k \in {} |-> 0]
  /\ admitted = {}
  /\ refused = {}

Age(k) == clock - windows[k].start
Expired(k) == k \in DOMAIN windows => Age(k) >= Window

\* Mutants: the limit is one more; or one less.
Full_After(k) == windows[k].count > Limit
Full_Before(k) == windows[k].count + 1 >= Limit

Full(k) == windows[k].count >= Limit

Admit(k, w) ==
  /\ windows' = [x \in DOMAIN windows \cup {k} |-> IF x = k THEN w ELSE windows[x]]
  /\ admitted' = admitted \cup
       {[key |-> k, start |-> w.start, nth |-> w.count, at |-> clock,
         remaining |-> Limit - w.count]}
  /\ UNCHANGED <<clock, refused>>

\* The three ways through Allow.
AllowFirst(k) ==
  /\ Expired(k)
  /\ Admit(k, [count |-> 1, start |-> clock])

AllowNext(k) ==
  /\ ~Expired(k) /\ ~Full(k)
  /\ Admit(k, [windows[k] EXCEPT !.count = @ + 1])

\* Mutant: the client is told how old the window is.
Refuse_TellsAge(k) ==
  /\ ~Expired(k) /\ Full(k)
  /\ refused' = refused \cup
       {[key |-> k, start |-> windows[k].start, at |-> clock,
         retryAfter |-> Age(k) \div Second]}
  /\ UNCHANGED <<clock, windows, admitted>>

\* The client is told whole seconds; int() drops what is left of the last one.
Refuse(k) ==
  /\ ~Expired(k) /\ Full(k)
  /\ refused' = refused \cup
       {[key |-> k, start |-> windows[k].start, at |-> clock,
         retryAfter |-> (Window - Age(k)) \div Second]}
  /\ UNCHANGED <<clock, windows, admitted>>

LimiterTick ==
  /\ clock < MaxTime
  /\ clock' = clock + 1
  /\ UNCHANGED <<windows, admitted, refused>>

LimiterNext == LimiterTick \/ \E k \in Keys : AllowFirst(k) \/ AllowNext(k) \/ Refuse(k)

LimiterSpec == LimiterInit /\ [][LimiterNext]_limiterVars

-----------------------------------------------------------------------------
(* Properties.                                                             *)

Admissions == [key : Keys, start : Nat, nth : 1 .. Limit, at : Nat, remaining : Nat]
Refusals == [key : Keys, start : Nat, at : Nat, retryAfter : 0 .. Window]

\* Counts stay between 1 and the limit; every recorded answer has a remaining budget
\* that is no less than 0 and a waiting time no longer than a window.
LimiterTypeOK ==
  /\ clock \in 0 .. MaxTime
  /\ DOMAIN windows \subseteq Keys
  /\ \A k \in DOMAIN windows :
       windows[k] = [count |-> windows[k].count, start |-> windows[k].start]
         /\ windows[k].count \in 1 .. Limit /\ windows[k].start \in 0 .. clock
  /\ admitted \subseteq Admissions
  /\ refused \subseteq Refusals

AdmittedIn(k, from, to) == {e \in admitted : e.key = k /\ from <= e.at /\ e.at < to}

\* However requests straddle windows, no interval as long as a window lets more than
\* twice the limit through.
TwiceLimitPerWindow ==
  \A k \in Keys, t \in 0 .. MaxTime :
    Cardinality(AdmittedIn(k, t, t + Window)) <= 2 * Limit

\* Nobody is turned away early: a key is refused only if, in the Window before, Limit
\* requests of its own were let through.
RefusedOnlyAtLimit ==
  \A r \in refused :
    Cardinality({e \in admitted : e.key = r.key /\ r.at - Window < e.at /\ e.at <= r.at})
      >= Limit

\* A Retry-After is right to a second: it never makes a client wait beyond the window that
\* refused, and who waits one second longer than told finds that window gone, so that only
\* requests of a later window can refuse again.  (Who waits just as long as told may meet
\* the same window: the fraction of a second that int() drops is missing.)
RetryAfterClose ==
  \A r \in refused :
    /\ r.at + r.retryAfter * Second <= r.start + Window
    /\ clock >= r.at + (r.retryAfter + 1) * Second =>
         (~Expired(r.key) /\ Full(r.key) => windows[r.key].start > r.start)

\* The remaining budget in an answer is exact: with what was let through in its window
\* up to then it makes up the limit.
RemainingExact ==
  \A e \in admitted :
    Cardinality({f \in admitted : f.key = e.key /\ f.start = e.start /\ f.nth <= e.nth})
      + e.remaining = Limit

-----------------------------------------------------------------------------
(* The inductive invariant: how admissions and refusals lie in windows.     *)

InOwnWindow ==
  \A e \in admitted :
    /\ e.start <= e.at /\ e.at < e.start + Window /\ e.at <= clock
    /\ e.key \in DOMAIN windows
    /\ \/ e.start = windows[e.key].start /\ e.nth <= windows[e.key].count
       \/ e.start + Window <= windows[e.key].start

WindowsApart ==
  \A e, f \in admitted :
    e.key = f.key /\ e.start < f.start => e.start + Window <= f.start

Numbered ==
  \A e, f \in admitted :
    e.key = f.key /\ e.start = f.start /\ e.nth = f.nth => e = f

\* Each count was given to a request.
NoGap ==
  /\ \A k \in DOMAIN windows : \A n \in 1 .. windows[k].count :
       \E e \in admitted : e.key = k /\ e.start = windows[k].start /\ e.nth = n
  /\ \A f \in admitted : \A n \in 1 .. f.nth :
       \E e \in admitted : e.key = f.key /\ e.start = f.start /\ e.nth = n

RemainingInv == \A e \in admitted : e.remaining = Limit - e.nth

RefusedInFullWindow ==
  \A r \in refused :
    /\ r.at <= clock /\ r.start <= r.at /\ r.at < r.start + Window
    /\ r.at + r.retryAfter * Second <= r.start + Window
    /\ r.start + Window < r.at + (r.retryAfter + 1) * Second
    /\ r.key \in DOMAIN windows /\ r.start <= windows[r.key].start
    /\ \A n \in 1 .. Limit :
         \E e \in admitted : e.key = r.key /\ e.start = r.start /\ e.nth = n /\ e.at <= r.at

LimiterInv ==
  /\ LimiterTypeOK
  /\ InOwnWindow
  /\ WindowsApart
  /\ Numbered
  /\ NoGap
  /\ RemainingInv
  /\ RefusedInFullWindow
  /\ IsFiniteSet(admitted)
=============================================================================
