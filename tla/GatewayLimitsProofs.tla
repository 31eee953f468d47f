------------------------- MODULE GatewayLimitsProofs -------------------------
(***************************************************************************)
(* TLAPS proofs about the limits of the gateway: about its rate limiter,   *)
(* for every limit, window, set of keys and order of requests, and about   *)
(* its server, for any number of connections and any deadlines.            *)
(***************************************************************************)
EXTENDS RateLimiter, GatewayServer, FiniteSetTheorems, TLAPS

(* The rate limiter.                                                       *)

(* What an admitted request does, by whichever of the two ways.             *)
LEMMA AdmitTypes ==
  ASSUME LimiterInv, NEW k \in Keys, AllowFirst(k) \/ AllowNext(k)
  PROVE  \E w \in [count : 1 .. Limit, start : Nat] :
           /\ Admit(k, w)
           /\ w.start <= clock /\ clock < w.start + Window
           /\ \/ w.count = 1 /\ w.start = clock /\ Expired(k)
              \/ /\ k \in DOMAIN windows /\ w.start = windows[k].start
                 /\ w.count = windows[k].count + 1
<1> USE LimitAssumption, WindowAssumption, TimeAssumption
<1>1. CASE AllowFirst(k)
  <2> DEFINE w == [count |-> 1, start |-> clock]
  <2>1. Admit(k, w) /\ Expired(k)
    BY <1>1 DEF AllowFirst
  <2>2. w \in [count : 1 .. Limit, start : Nat] /\ w.count = 1 /\ w.start = clock
    BY DEF LimiterInv, LimiterTypeOK
  <2>3. clock <= clock /\ clock < clock + Window
    BY DEF LimiterInv, LimiterTypeOK
  <2> HIDE DEF w
  <2> QED
    BY <2>1, <2>2, <2>3
<1>2. CASE AllowNext(k)
  <2> DEFINE w == [windows[k] EXCEPT !.count = @ + 1]
  <2>1. Admit(k, w) /\ ~Expired(k) /\ ~Full(k)
    BY <1>2 DEF AllowNext
  <2>2. /\ k \in DOMAIN windows /\ clock - windows[k].start < Window
        /\ windows[k].count < Limit /\ windows[k].count \in 1 .. Limit
        /\ windows[k].start \in 0 .. clock /\ clock \in Nat
        /\ windows[k] = [count |-> windows[k].count, start |-> windows[k].start]
    BY <2>1 DEF Expired, Full, Age, LimiterInv, LimiterTypeOK
  <2>3. w = [count |-> windows[k].count + 1, start |-> windows[k].start]
    BY <2>2
  <2> HIDE DEF w
  <2>4. /\ w \in [count : 1 .. Limit, start : Nat]
        /\ w.start = windows[k].start /\ w.count = windows[k].count + 1
    BY <2>2, <2>3
  <2>5. w.start <= clock /\ clock < w.start + Window
    BY <2>2, <2>4
  <2> QED
    BY <2>1, <2>2, <2>4, <2>5
<1> QED
  BY <1>1, <1>2

(* An admission keeps the invariant.                                       *)
LEMMA AdmitStep ==
  ASSUME LimiterInv, NEW k \in Keys, AllowFirst(k) \/ AllowNext(k)
  PROVE  LimiterInv'
<1> USE LimitAssumption, WindowAssumption, TimeAssumption
<1>1. PICK w \in [count : 1 .. Limit, start : Nat] :
           /\ Admit(k, w)
           /\ w.start <= clock /\ clock < w.start + Window
           /\ \/ w.count = 1 /\ w.start = clock /\ Expired(k)
              \/ /\ k \in DOMAIN windows /\ w.start = windows[k].start
                 /\ w.count = windows[k].count + 1
  BY AdmitTypes
<1> DEFINE new == [key |-> k, start |-> w.start, nth |-> w.count, at |-> clock,
                   remaining |-> Limit - w.count]
<1>2. /\ admitted' = admitted \cup {new} /\ clock' = clock /\ refused' = refused
      /\ DOMAIN windows' = DOMAIN windows \cup {k}
      /\ windows'[k] = w /\ \A x \in DOMAIN windows \ {k} : windows'[x] = windows[x]
  BY <1>1 DEF Admit
<1>3. /\ new.key = k /\ new.start = w.start /\ new.nth = w.count /\ new.at = clock
      /\ new.remaining = Limit - w.count /\ new \in Admissions
      /\ clock \in Nat /\ w.start \in Nat /\ w.count \in 1 .. Limit
      /\ w = [count |-> w.count, start |-> w.start]
  BY DEF Admissions, LimiterInv, LimiterTypeOK
<1> HIDE DEF new
\* The window of the admission is no earlier than the one the key had, and a new one
\* is a whole window later.
<1>4. k \in DOMAIN windows =>
        \/ w.start = windows[k].start /\ w.count = windows[k].count + 1
        \/ windows[k].start + Window <= w.start /\ w.count = 1
  BY <1>1, <1>3 DEF Expired, Age, LimiterInv, LimiterTypeOK
<1>5. \A x \in DOMAIN windows :
        /\ windows[x].count \in 1 .. Limit /\ windows[x].start \in 0 .. clock
        /\ x \in Keys
  BY DEF LimiterInv, LimiterTypeOK
<1>6. \A e \in admitted : e.key \in Keys /\ e.start \in Nat /\ e.nth \in 1 .. Limit /\ e.at \in Nat
  BY DEF LimiterInv, LimiterTypeOK, Admissions
<1>7. LimiterTypeOK'
  <2>1. ASSUME NEW x \in DOMAIN windows' PROVE
          /\ windows'[x] = [count |-> windows'[x].count, start |-> windows'[x].start]
          /\ windows'[x].count \in 1 .. Limit /\ windows'[x].start \in 0 .. clock'
    <3>1. CASE x = k
      BY <1>1, <1>2, <1>3, <3>1
    <3>2. CASE x # k
      BY <1>2, <1>5, <3>2 DEF LimiterInv, LimiterTypeOK
    <3> QED
      BY <3>1, <3>2
  <2> QED
    BY <1>2, <1>3, <2>1 DEF LimiterInv, LimiterTypeOK
\* Every earlier admission of the key lies in the same window with a lower number, or
\* in a window that ended before this one began.
<1>8. \A e \in admitted : e.key = k =>
        \/ e.start = w.start /\ e.nth < w.count
        \/ e.start + Window <= w.start
  BY <1>4, <1>3, <1>5, <1>6 DEF LimiterInv, InOwnWindow
<1>9. InOwnWindow'
  <2> SUFFICES ASSUME NEW e \in admitted'
               PROVE  /\ e.start <= e.at /\ e.at < e.start + Window /\ e.at <= clock
                      /\ e.key \in DOMAIN windows'
                      /\ \/ e.start = windows'[e.key].start /\ e.nth <= windows'[e.key].count
                         \/ e.start + Window <= windows'[e.key].start
    BY <1>2 DEF InOwnWindow
  <2>1. CASE e = new
    BY <1>1, <1>2, <1>3, <2>1
  <2>2. CASE e \in admitted
    BY <1>2, <1>3, <1>6, <1>8, <2>2 DEF LimiterInv, InOwnWindow
  <2> QED
    BY <1>2, <2>1, <2>2
<1>10. WindowsApart'
  <2> SUFFICES ASSUME NEW e \in admitted', NEW f \in admitted', e.key = f.key, e.start < f.start
               PROVE  e.start + Window <= f.start
    BY DEF WindowsApart
  <2> QED
    BY <1>2, <1>3, <1>6, <1>8 DEF LimiterInv, WindowsApart
<1>11. Numbered'
  <2> SUFFICES ASSUME NEW e \in admitted', NEW f \in admitted',
                      e.key = f.key, e.start = f.start, e.nth = f.nth
               PROVE  e = f
    BY DEF Numbered
  <2> QED
    BY <1>2, <1>3, <1>6, <1>8 DEF LimiterInv, Numbered
\* The numbers below the new one were given out in the same window.
<1>12. ASSUME NEW n \in 1 .. w.count
       PROVE  \E e \in admitted' : e.key = k /\ e.start = w.start /\ e.nth = n
  <2>1. CASE n = w.count
    BY <1>2, <1>3, <2>1
  <2>2. CASE n # w.count
    BY <1>1, <1>2, <1>3, <1>5, <2>2 DEF LimiterInv, NoGap
  <2> QED
    BY <2>1, <2>2
<1>13. NoGap'
  <2>1. ASSUME NEW x \in DOMAIN windows', NEW n \in 1 .. windows'[x].count
        PROVE  \E e \in admitted' : e.key = x /\ e.start = windows'[x].start /\ e.nth = n
    BY <1>2, <1>12, <2>1 DEF LimiterInv, NoGap
  <2>2. ASSUME NEW f \in admitted', NEW n \in 1 .. f.nth
        PROVE  \E e \in admitted' : e.key = f.key /\ e.start = f.start /\ e.nth = n
    BY <1>2, <1>3, <1>12, <2>2 DEF LimiterInv, NoGap
  <2> QED
    BY <2>1, <2>2 DEF NoGap
<1>14. RemainingInv' /\ IsFiniteSet(admitted')
  BY <1>2, <1>3, FS_AddElement DEF LimiterInv, RemainingInv
<1>15. RefusedInFullWindow'
  <2> SUFFICES ASSUME NEW r \in refused
               PROVE  /\ r.at <= clock /\ r.start <= r.at /\ r.at < r.start + Window
                      /\ r.at + r.retryAfter * Second <= r.start + Window
                      /\ r.start + Window < r.at + (r.retryAfter + 1) * Second
                      /\ r.key \in DOMAIN windows' /\ r.start <= windows'[r.key].start
                      /\ \A n \in 1 .. Limit : \E e \in admitted' :
                           e.key = r.key /\ e.start = r.start /\ e.nth = n /\ e.at <= r.at
    BY <1>2 DEF RefusedInFullWindow
  <2>1. r.start \in Nat
    BY DEF LimiterInv, LimiterTypeOK, Refusals
  <2> QED
    BY <1>2, <1>3, <1>4, <1>5, <2>1 DEF LimiterInv, RefusedInFullWindow
<1> QED
  BY <1>7, <1>9, <1>10, <1>11, <1>13, <1>14, <1>15 DEF LimiterInv

(* What whole seconds of a time make up.                                   *)
LEMMA WholeSeconds ==
  ASSUME NEW a \in Nat
  PROVE  /\ a \div Second \in 0 .. a
         /\ (a \div Second) * Second <= a /\ a < ((a \div Second) + 1) * Second
<1> USE SecondAssumption
<1> DEFINE q == a \div Second
<1>1. q \in Nat /\ Second * q <= a /\ a < Second * (q + 1)
  OBVIOUS
<1> HIDE DEF q
<1>2. q * Second = Second * q /\ (q + 1) * Second = Second * (q + 1)
  BY <1>1
<1>3. q <= Second * q
  BY <1>1
<1> QED
  BY <1>1, <1>2, <1>3 DEF q

(* A refusal keeps the invariant: the window is full.                       *)
LEMMA RefuseStep ==
  ASSUME LimiterInv, NEW k \in Keys, Refuse(k)
  PROVE  LimiterInv'
<1> USE LimitAssumption, WindowAssumption, TimeAssumption
<1> DEFINE new == [key |-> k, start |-> windows[k].start, at |-> clock,
                   retryAfter |-> (Window - Age(k)) \div Second]
<1>1. /\ refused' = refused \cup {new} /\ UNCHANGED <<clock, windows, admitted>>
      /\ k \in DOMAIN windows /\ Age(k) < Window /\ windows[k].count >= Limit
  BY DEF Refuse, Expired, Full, LimiterInv, LimiterTypeOK, Age
<1>2. /\ windows[k].count = Limit /\ windows[k].start \in 0 .. clock /\ clock \in Nat
      /\ Age(k) = clock - windows[k].start
  BY <1>1 DEF LimiterInv, LimiterTypeOK, Age
<1> DEFINE left == Window - Age(k)
           told == left \div Second
<1>7. left \in Nat /\ left <= Window /\ clock + left = windows[k].start + Window
  BY <1>1, <1>2
<1>8. told \in 0 .. Window /\ told * Second <= left /\ left < (told + 1) * Second
  <2> HIDE DEF left
  <2>1. told \in 0 .. left
    BY <1>7, WholeSeconds
  <2>2. told \in 0 .. Window
    <3> HIDE DEF told
    <3> QED
      BY <1>7, <2>1
  <2> QED
    BY <1>7, <2>2, WholeSeconds
<1>9. new = [key |-> k, start |-> windows[k].start, at |-> clock, retryAfter |-> told]
  OBVIOUS
<1> HIDE DEF new, told
<1>3. /\ new.key = k /\ new.start = windows[k].start /\ new.at = clock
      /\ new.retryAfter = told /\ new \in Refusals
  BY <1>1, <1>2, <1>8, <1>9 DEF Refusals
<1>10. /\ new.at + new.retryAfter * Second <= new.start + Window
       /\ new.start + Window < new.at + (new.retryAfter + 1) * Second
  <2> DEFINE least == told * Second
             most == (told + 1) * Second
  <2>1. least \in Int /\ most \in Int /\ least <= left /\ left < most
    BY <1>8, SecondAssumption
  <2>2. new.retryAfter * Second = least /\ (new.retryAfter + 1) * Second = most
    BY <1>3
  <2> HIDE DEF least, most, left
  <2> QED
    BY <1>2, <1>3, <1>7, <2>1, <2>2
<1> HIDE DEF left
<1>4. LimiterTypeOK'
  BY <1>1, <1>3 DEF LimiterInv, LimiterTypeOK
<1>5. RefusedInFullWindow'
  <2> SUFFICES ASSUME NEW r \in refused'
               PROVE  /\ r.at <= clock /\ r.start <= r.at /\ r.at < r.start + Window
                      /\ r.at + r.retryAfter * Second <= r.start + Window
                      /\ r.start + Window < r.at + (r.retryAfter + 1) * Second
                      /\ r.key \in DOMAIN windows /\ r.start <= windows[r.key].start
                      /\ \A n \in 1 .. Limit : \E e \in admitted :
                           e.key = r.key /\ e.start = r.start /\ e.nth = n /\ e.at <= r.at
    BY <1>1 DEF RefusedInFullWindow
  <2>1. CASE r \in refused
    BY <2>1 DEF LimiterInv, RefusedInFullWindow
  <2>2. CASE r = new
    <3>1. \A n \in 1 .. Limit : \E e \in admitted :
            e.key = k /\ e.start = windows[k].start /\ e.nth = n /\ e.at <= clock
      BY <1>1, <1>2 DEF LimiterInv, NoGap, InOwnWindow
    <3> QED
      BY <1>1, <1>2, <1>3, <1>10, <2>2, <3>1
  <2> QED
    BY <1>1, <2>1, <2>2
<1>6. InOwnWindow' /\ WindowsApart' /\ Numbered' /\ NoGap' /\ RemainingInv' /\ IsFiniteSet(admitted')
  BY <1>1 DEF LimiterInv, InOwnWindow, WindowsApart, Numbered, NoGap, RemainingInv
<1> QED
  BY <1>4, <1>5, <1>6 DEF LimiterInv

(* The clock keeps the invariant.                                          *)
LEMMA TickStep == LimiterInv /\ LimiterTick => LimiterInv'
<1> SUFFICES ASSUME LimiterInv, LimiterTick PROVE LimiterInv'
  OBVIOUS
<1> USE LimitAssumption, WindowAssumption, TimeAssumption
<1>1. /\ clock' = clock + 1 /\ clock' \in 0 .. MaxTime /\ clock \in Nat
      /\ windows' = windows /\ admitted' = admitted /\ refused' = refused
  BY DEF LimiterTick, LimiterInv, LimiterTypeOK
<1>2. \A k \in DOMAIN windows : windows[k].start \in 0 .. clock'
  BY <1>1 DEF LimiterInv, LimiterTypeOK
<1>3. LimiterTypeOK'
  BY <1>1, <1>2 DEF LimiterInv, LimiterTypeOK
<1>4. InOwnWindow'
  BY <1>1 DEF LimiterInv, LimiterTypeOK, Admissions, InOwnWindow
<1>5. RefusedInFullWindow'
  <2>1. \A r \in refused : r.at \in Nat
    BY DEF LimiterInv, LimiterTypeOK, Refusals
  <2>2. \A r \in refused : r.at <= clock'
    BY <1>1, <2>1 DEF LimiterInv, RefusedInFullWindow
  <2> QED
    BY <1>1, <2>2 DEF LimiterInv, RefusedInFullWindow
<1>6. WindowsApart' /\ Numbered' /\ NoGap' /\ RemainingInv' /\ IsFiniteSet(admitted')
  BY <1>1 DEF LimiterInv, WindowsApart, Numbered, NoGap, RemainingInv
<1> QED
  BY <1>3, <1>4, <1>5, <1>6 DEF LimiterInv

\* The admissions and refusals always lie in windows as IInv says.
THEOREM LimiterInductive == LimiterSpec => []LimiterInv
<1>1. LimiterInit => LimiterInv
  BY LimitAssumption, WindowAssumption, TimeAssumption, FS_EmptySet
  DEF LimiterInit, LimiterInv, LimiterTypeOK, InOwnWindow, WindowsApart, Numbered, NoGap,
     RemainingInv,
      RefusedInFullWindow
<1>2. LimiterInv /\ [LimiterNext]_limiterVars => LimiterInv'
  <2> SUFFICES ASSUME LimiterInv, [LimiterNext]_limiterVars PROVE LimiterInv'
    OBVIOUS
  <2>1. CASE UNCHANGED limiterVars
    BY <2>1 DEF limiterVars, LimiterInv, LimiterTypeOK, InOwnWindow, WindowsApart, Numbered,
       NoGap, RemainingInv,
       RefusedInFullWindow
  <2> QED
    BY <2>1, TickStep, AdmitStep, RefuseStep DEF LimiterNext
<1> QED
  BY <1>1, <1>2, PTL DEF LimiterSpec

-----------------------------------------------------------------------------
\* Counts, answers and histories always have their types.
THEOREM LimiterTypeCorrect == LimiterSpec => []LimiterTypeOK
<1>1. LimiterInv => LimiterTypeOK
  BY DEF LimiterInv
<1> QED
  BY LimiterInductive, <1>1, PTL

(* Admissions that lie in one of two windows are told apart by a number up to *)
(* twice the limit.                                                        *)
LEMMA TwoWindows ==
  ASSUME LimiterInv, NEW k \in Keys, NEW E \in SUBSET admitted, NEW s \in Nat, NEW u \in Nat,
         \A e \in E : e.key = k /\ (e.start = s \/ e.start = u)
  PROVE  Cardinality(E) <= 2 * Limit
<1> USE LimitAssumption
<1> DEFINE f == [e \in E |-> IF e.start = s THEN e.nth ELSE Limit + e.nth]
<1>1. \A e \in E : e.nth \in 1 .. Limit
  BY DEF LimiterInv, LimiterTypeOK, Admissions
<1>2. f \in [E -> 1 .. 2 * Limit]
  BY <1>1
<1>3. ASSUME NEW e \in E, NEW g \in E, f[e] = f[g] PROVE e = g
  <2>1. e.start = g.start /\ e.nth = g.nth
    BY <1>1, <1>3
  <2> QED
    BY <2>1 DEF LimiterInv, Numbered
<1>4. f \in Injection(E, 1 .. 2 * Limit)
  BY <1>2, <1>3 DEF Injection, IsInjective
<1>5. IsFiniteSet(1 .. 2 * Limit) /\ Cardinality(1 .. 2 * Limit) = 2 * Limit
  BY FS_Interval
<1> HIDE DEF f
<1> QED
  BY <1>4, <1>5, FS_Injection

\* Straddling two windows gets a key twice the limit in an interval as long as a window,
\* and never more.
THEOREM TwiceLimitHolds == LimiterSpec => []TwiceLimitPerWindow
<1>1. LimiterInv => TwiceLimitPerWindow
  <2> SUFFICES ASSUME LimiterInv, NEW k \in Keys, NEW t \in 0 .. MaxTime
               PROVE  Cardinality(AdmittedIn(k, t, t + Window)) <= 2 * Limit
    BY DEF TwiceLimitPerWindow
  <2> USE LimitAssumption, WindowAssumption, TimeAssumption
  <2> DEFINE E == AdmittedIn(k, t, t + Window)
  <2>1. /\ E \in SUBSET admitted
        /\ \A e \in E : /\ e.key = k /\ e.start \in Nat /\ e.at \in Nat
                        /\ t <= e.at /\ e.at < t + Window
                        /\ e.start <= e.at /\ e.at < e.start + Window
    BY DEF AdmittedIn, LimiterInv, LimiterTypeOK, Admissions, InOwnWindow
  <2> HIDE DEF E
  <2>2. CASE E = {}
    <3>1. \A e \in E : e.key = k /\ (e.start = 0 \/ e.start = 0)
      BY <2>2
    <3> QED
      BY <2>1, <3>1, TwoWindows DEF E
  <2>3. CASE \E a, b \in E : a.start # b.start
    <3>1. PICK a \in E, b \in E : a.start # b.start
      BY <2>3
    <3>2. \A e \in E : e.start = a.start \/ e.start = b.start
      BY <2>1, <3>1 DEF LimiterInv, WindowsApart
    <3> QED
      BY <2>1, <3>2, TwoWindows DEF E
  <2>4. CASE E # {} /\ \A a, b \in E : a.start = b.start
    <3>1. PICK a \in E : TRUE
      BY <2>4
    <3>2. \A e \in E : e.start = a.start
      BY <2>4
    <3> QED
      BY <2>1, <3>2, TwoWindows DEF E
  <2> QED
    BY <2>2, <2>3, <2>4
<1> QED
  BY LimiterInductive, <1>1, PTL

(* The first n numbers of a window make up a set of n admissions.           *)
LEMMA CountedByNumber ==
  ASSUME LimiterInv, NEW E \in SUBSET admitted, NEW k \in Keys, NEW s \in Nat, NEW n \in 1 .. Limit,
         \A e \in E : e.key = k /\ e.start = s /\ e.nth \in 1 .. n,
         \A i \in 1 .. n : \E e \in E : e.nth = i
  PROVE  IsFiniteSet(E) /\ Cardinality(E) = n
<1> USE LimitAssumption
<1> DEFINE f == [e \in E |-> e.nth]
<1>1. f \in [E -> 1 .. n] /\ \A e, g \in E : f[e] = f[g] => e = g
  BY DEF LimiterInv, Numbered
<1>2. \A i \in 1 .. n : \E e \in E : f[e] = i
  OBVIOUS
<1>3. f \in Injection(E, 1 .. n) /\ f \in Surjection(E, 1 .. n)
  BY <1>1, <1>2 DEF Injection, IsInjective, Surjection
<1>4. IsFiniteSet(1 .. n) /\ Cardinality(1 .. n) = n
  BY FS_Interval
<1> HIDE DEF f
<1> QED
  BY <1>3, <1>4, FS_Injection

\* The remaining budget told to a client is exact.
THEOREM RemainingExactHolds == LimiterSpec => []RemainingExact
<1>1. LimiterInv => RemainingExact
  <2> SUFFICES ASSUME LimiterInv, NEW e \in admitted
               PROVE  Cardinality({f \in admitted : f.key = e.key /\ f.start = e.start
                                                      /\ f.nth <= e.nth})
                        + e.remaining = Limit
    BY DEF RemainingExact
  <2> DEFINE E == {f \in admitted : f.key = e.key /\ f.start = e.start /\ f.nth <= e.nth}
  <2>1. e.key \in Keys /\ e.start \in Nat /\ e.nth \in 1 .. Limit /\ e.remaining = Limit - e.nth
    BY DEF LimiterInv, LimiterTypeOK, Admissions, RemainingInv
  <2>2. \A f \in E : f.key = e.key /\ f.start = e.start /\ f.nth \in 1 .. e.nth
    BY DEF LimiterInv, LimiterTypeOK, Admissions
  <2>3. \A i \in 1 .. e.nth : \E f \in E : f.nth = i
    BY <2>1 DEF LimiterInv, NoGap
  <2>4. E \in SUBSET admitted
    OBVIOUS
  <2> HIDE DEF E
  <2>5. Cardinality(E) = e.nth
    BY <2>1, <2>2, <2>3, <2>4, CountedByNumber
  <2> QED
    BY <2>1, <2>5, LimitAssumption DEF E
<1> QED
  BY LimiterInductive, <1>1, PTL

\* A key is refused only after Limit requests of its own in the Window before.
THEOREM RefusedOnlyAtLimitHolds == LimiterSpec => []RefusedOnlyAtLimit
<1>1. LimiterInv => RefusedOnlyAtLimit
  <2> SUFFICES ASSUME LimiterInv, NEW r \in refused
               PROVE  Cardinality({e \in admitted : e.key = r.key /\ r.at - Window < e.at
                                                      /\ e.at <= r.at}) >= Limit
    BY DEF RefusedOnlyAtLimit
  <2> USE LimitAssumption, WindowAssumption, TimeAssumption
  <2> DEFINE S == {e \in admitted : e.key = r.key /\ r.at - Window < e.at /\ e.at <= r.at}
             E == {e \in S : e.start = r.start}
  <2>1. /\ r.key \in Keys /\ r.start \in Nat /\ r.at \in Nat
        /\ r.at < r.start + Window /\ r.start <= r.at
    BY DEF LimiterInv, LimiterTypeOK, Refusals, RefusedInFullWindow
  <2>2. \A e \in admitted : /\ e.nth \in 1 .. Limit /\ e.start \in Nat /\ e.at \in Nat
                            /\ e.start <= e.at /\ e.at < e.start + Window
    BY DEF LimiterInv, LimiterTypeOK, Admissions, InOwnWindow
  <2>3. \A i \in 1 .. Limit : \E e \in E : e.nth = i
    <3> SUFFICES ASSUME NEW i \in 1 .. Limit PROVE \E e \in E : e.nth = i
      OBVIOUS
    <3>1. PICK e \in admitted : e.key = r.key /\ e.start = r.start /\ e.nth = i /\ e.at <= r.at
      BY DEF LimiterInv, RefusedInFullWindow
    <3>2. r.at - Window < e.at
      BY <2>1, <2>2, <3>1
    <3> QED
      BY <3>1, <3>2
  <2>4. \A e \in E : e.key = r.key /\ e.start = r.start /\ e.nth \in 1 .. Limit
    BY <2>2
  <2>5. E \in SUBSET admitted /\ E \subseteq S
    OBVIOUS
  <2>6. Limit \in 1 .. Limit
    OBVIOUS
  <2>7. Cardinality(E) = Limit
    <3> HIDE DEF E
    <3> QED
      BY <2>1, <2>3, <2>4, <2>5, <2>6, CountedByNumber
  <2>8. IsFiniteSet(S)
    <3> HIDE DEF E
    <3> QED
      BY FS_Subset DEF LimiterInv
  <2> QED
    <3> HIDE DEF E
    <3> QED
      BY <2>5, <2>7, <2>8, FS_Subset DEF S
<1> QED
  BY LimiterInductive, <1>1, PTL

\* A Retry-After is right to a second: no client waits beyond the window that refused,
\* and one second more than told outlasts it.
THEOREM RetryAfterCloseHolds == LimiterSpec => []RetryAfterClose
<1>1. LimiterInv => RetryAfterClose
  <2> SUFFICES ASSUME LimiterInv, NEW r \in refused
               PROVE  /\ r.at + r.retryAfter * Second <= r.start + Window
                      /\ clock >= r.at + (r.retryAfter + 1) * Second =>
                           (~Expired(r.key) /\ Full(r.key) => windows[r.key].start > r.start)
    BY DEF RetryAfterClose
  <2>1. /\ r.at + r.retryAfter * Second <= r.start + Window
        /\ r.start + Window < r.at + (r.retryAfter + 1) * Second
        /\ r.key \in DOMAIN windows /\ r.start <= windows[r.key].start
    BY DEF LimiterInv, RefusedInFullWindow
  <2>2. ASSUME clock >= r.at + (r.retryAfter + 1) * Second, ~Expired(r.key)
        PROVE  windows[r.key].start > r.start
    <3> DEFINE until == r.at + (r.retryAfter + 1) * Second
    <3>1. /\ windows[r.key].start \in Nat /\ clock \in Nat /\ r.start \in Nat
          /\ until \in Int /\ Window \in Nat
      BY <2>1, TimeAssumption, SecondAssumption, WindowAssumption
      DEF LimiterInv, LimiterTypeOK, Refusals
    <3>2. clock - windows[r.key].start < Window
      BY <2>1, <2>2, <3>1 DEF Expired, Age
    <3>3. r.start + Window < until /\ until <= clock
      BY <2>1, <2>2, <3>1
    <3> HIDE DEF until
    <3> QED
      BY <3>1, <3>2, <3>3
  <2> QED
    BY <2>1, <2>2
<1> QED
  BY LimiterInductive, <1>1, PTL

-----------------------------------------------------------------------------
(* The server.                                                             *)

\* What is still open when the telemetry is flushed had until the end of the context.
DrainInv ==
  phase = "telemetry" =>
    (\A c \in Connections : at[c] = "idle") \/ now = signalAt + Grace

IInv == TypeOK /\ DrainInv

LEMMA Timeouts ==
  \A rt \in Routes : Timeout(rt) \in Nat \ {0}
  BY DeadlinesAssumption DEF Timeout, Routes

LEMMA InitInv == Init => IInv
  BY DeadlinesAssumption DEF Init, IInv, TypeOK, DrainInv, Never, Handling, Routes, Received

(* A connection's own step changes its place and its times, nobody else's. *)
LEMMA ConnectionStep ==
  ASSUME IInv, NEW c \in Connections,
         \/ Receive(c) \/ Forward(c) \/ Written(c) \/ Resend(c) \/ Headers(c) \/ Flush(c)
         \/ Unavailable(c) \/ BodyEnds(c) \/ BodyBreaks(c) \/ ClientGoes(c)
  PROVE  IInv'
<1> USE DeadlinesAssumption, Timeouts
<1> USE DEF Goto, mainVars, requestVars
<1>1. /\ UNCHANGED <<now, phase, signalAt>>
      /\ at' \in [Connections -> {"idle"} \cup Handling]
      /\ route' \in [Connections -> Routes]
      /\ start' \in [Connections -> 0 .. now] /\ asked' \in [Connections -> 0 .. now]
  BY DEF IInv, TypeOK, Receive, Forward, Written, Resend, Headers, Flush, Unavailable, BodyEnds,
         BodyBreaks, ClientGoes, Handling
<1>2. client' \in [Connections -> Received]
  BY DEF IInv, TypeOK, Receive, Forward, Written, Resend, Headers, Flush, Unavailable, BodyEnds,
         BodyBreaks, ClientGoes, Gets, Cut, Received
<1>3. ASSUME NEW d \in Connections
      PROVE  at'[d] = "waiting" => start'[d] <= asked'[d] /\ now <= asked'[d] + Timeout(route'[d])
  <2>1. CASE Receive(c)
    BY <2>1 DEF IInv, TypeOK, Receive
  <2>2. CASE Written(c)
    BY <2>2 DEF IInv, TypeOK, Written
  <2>3. CASE \/ Forward(c) \/ Resend(c) \/ Headers(c) \/ Flush(c) \/ Unavailable(c)
             \/ BodyEnds(c) \/ BodyBreaks(c) \/ ClientGoes(c)
    BY <2>3 DEF IInv, TypeOK, Forward, Resend, Headers, Flush, Unavailable, BodyEnds, BodyBreaks,
                ClientGoes
  <2> QED
    BY <2>1, <2>2, <2>3
<1>4. TypeOK'
  BY <1>1, <1>2, <1>3 DEF IInv, TypeOK
<1>5. DrainInv'
  BY <1>1 DEF IInv, TypeOK, DrainInv, Receive, Forward, Written, Resend, Headers, Flush,
              Unavailable, BodyEnds, BodyBreaks, ClientGoes, Handling
<1> QED
  BY <1>4, <1>5 DEF IInv

LEMMA ProcessStep ==
  ASSUME IInv, ListenFails \/ Signal \/ Drained \/ DrainTimesOut \/ FlushTelemetry \/ Tick
  PROVE  IInv'
<1> USE DeadlinesAssumption, Timeouts DEF IInv, TypeOK, DrainInv, mainVars, requestVars
<1>1. CASE ListenFails \/ FlushTelemetry
  BY <1>1 DEF ListenFails, FlushTelemetry, Exit, Received
<1>2. CASE Signal
  BY <1>2 DEF Signal, Never
<1>3. CASE Drained
  BY <1>3 DEF Drained
<1>4. CASE DrainTimesOut
  BY <1>4 DEF DrainTimesOut
<1>5. CASE Tick
  BY <1>5 DEF Tick, Never
<1> QED
  BY <1>1, <1>2, <1>3, <1>4, <1>5

LEMMA NextInv == IInv /\ [Next]_vars => IInv'
<1> SUFFICES ASSUME IInv, [Next]_vars PROVE IInv'
  OBVIOUS
<1>1. CASE UNCHANGED vars
  BY <1>1 DEF IInv, TypeOK, DrainInv, vars, mainVars, requestVars
<1>2. CASE Next
  BY <1>2, ConnectionStep, ProcessStep DEF Next
<1> QED
  BY <1>1, <1>2

\* The deadlines and the places of the connections agree in every reachable state.
THEOREM Inductive == Spec => []IInv
<1>1. Init => IInv
  BY InitInv
<1>2. IInv /\ [Next]_vars => IInv'
  BY NextInv
<1> QED
  BY <1>1, <1>2, PTL DEF Spec

\* Every variable has its type, and a shutdown never outlasts its context.
THEOREM TypeCorrect == Spec => []TypeOK
<1>1. IInv => TypeOK
  BY DEF IInv
<1> QED
  BY <1>1, Inductive, PTL

\* A shutdown cuts a response only when its context is over.
THEOREM ShutdownCutsOnlyLateHolds == Spec => ShutdownCutsOnlyLate
<1>1. IInv /\ [Next]_vars =>
        [\A c \in Connections :
           phase = "telemetry" /\ phase' = "exited" /\ at[c] # "idle" =>
             now >= signalAt + Grace]_vars
  BY DeadlinesAssumption DEF IInv, TypeOK, DrainInv
<1> QED
  BY <1>1, Inductive, PTL DEF Spec, ShutdownCutsOnlyLate

\* Where the timeout of the route ends before the server's deadline, the wait for headers
\* ends with time left for the body or with a 502 that arrives.
THEOREM AnsweredInTimeHolds == Spec => AnsweredInTime
<1>1. IInv /\ [Next]_vars =>
        [\A c \in Connections :
           /\ at[c] = "waiting" /\ at'[c] \in {"streaming", "idle"} /\ phase' # "exited"
           /\ asked[c] + Timeout(route[c]) < start[c] + WriteTimeout
           => IF at'[c] = "streaming" THEN InTime(c) ELSE client'[c] # "nothing"]_vars
  <2> SUFFICES ASSUME IInv, Next, NEW c \in Connections,
                      at[c] = "waiting", at'[c] \in {"streaming", "idle"}, phase' # "exited",
                      asked[c] + Timeout(route[c]) < start[c] + WriteTimeout
               PROVE  InTime(c) /\ (at'[c] = "idle" => client'[c] # "nothing")
    OBVIOUS
  <2> USE DeadlinesAssumption, Timeouts DEF IInv, TypeOK, Goto, mainVars
  <2>1. InTime(c)
    BY DEF InTime
  <2>2. ASSUME NEW d \in Connections,
               \/ Receive(d) \/ Forward(d) \/ Written(d) \/ Resend(d) \/ Headers(d) \/ Flush(d)
               \/ BodyEnds(d) \/ BodyBreaks(d)
        PROVE  at'[c] # "idle"
    BY <2>2 DEF Receive, Forward, Written, Resend, Headers, Flush, BodyEnds, BodyBreaks
  <2>3. ASSUME NEW d \in Connections, Unavailable(d) \/ ClientGoes(d), at'[c] = "idle"
        PROVE  client'[c] # "nothing"
    BY <2>1, <2>3 DEF Unavailable, ClientGoes, Gets
  <2>4. ~(Signal \/ Drained \/ DrainTimesOut \/ Tick)
    BY DEF Signal, Drained, DrainTimesOut, Tick
  <2>5. ~(ListenFails \/ FlushTelemetry)
    BY DEF ListenFails, FlushTelemetry, Exit
  <2> QED
    BY <2>1, <2>2, <2>3, <2>4, <2>5 DEF Next
<1> QED
  BY <1>1, Inductive, PTL DEF Spec, AnsweredInTime
=============================================================================
