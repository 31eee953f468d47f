------------------------------ MODULE KeyLookup ------------------------------
(***************************************************************************)
(* What a cache of Clerk's keys promises to those who verify tokens with   *)
(* it, whatever it keeps and fetches: a key it finds is published, or was  *)
(* until recently; a key it does not find was missing from Clerk's set     *)
(* while the lookup went on; and it fails only after it has tried.         *)
(***************************************************************************)
EXTENDS Integers

CONSTANTS
  Kids,
  Usable,    \* the kids of keys that verify tokens
  Requests,
  MaxAge,    \* how long a retired key may still be found
  Never,     \* when a key is retired that is not
  None

VARIABLES
  now, published, retired,   \* Clerk: its key set, and when it retired others
  phase,                     \* where each lookup is
  kid,                       \* what it looks for
  steady                     \* the keys published ever since it looked at Clerk

clerk == <<now, published, retired>>
lookups == <<phase, kid, steady>>
vars == <<clerk, lookups>>

Issued(k) == k \in published \/ retired[k] # Never
Recent(k) == Issued(k) /\ (k \notin published => now - retired[k] < MaxAge)

Init ==
  /\ now = 0 /\ published \subseteq Kids /\ retired = [k \in Kids |-> Never]
  /\ phase = [r \in Requests |-> "idle"]
  /\ kid = [r \in Requests |-> None]
  /\ steady = [r \in Requests |-> {}]

Goto(r, from, to) == phase[r] = from /\ phase' = [phase EXCEPT ![r] = to]

Ask(r, k) ==
  /\ Goto(r, "idle", "asked") /\ kid' = [kid EXCEPT ![r] = k]
  /\ UNCHANGED <<clerk, steady>>

Look(r) ==
  /\ Goto(r, "asked", "looking") /\ steady' = [steady EXCEPT ![r] = published]
  /\ UNCHANGED <<clerk, kid>>

Found(r) ==
  /\ phase[r] \in {"asked", "looking"} /\ phase' = [phase EXCEPT ![r] = "found"]
  /\ kid[r] \in Usable /\ Recent(kid[r])
  /\ steady' = [steady EXCEPT ![r] = {}]
  /\ UNCHANGED <<clerk, kid>>

NotFound(r) ==
  /\ Goto(r, "looking", "not found")
  /\ kid[r] \notin Usable \cap steady[r]
  /\ steady' = [steady EXCEPT ![r] = {}]
  /\ UNCHANGED <<clerk, kid>>

Failed(r) ==
  /\ Goto(r, "looking", "failed") /\ steady' = [steady EXCEPT ![r] = {}]
  /\ UNCHANGED <<clerk, kid>>

Done(r) ==
  /\ phase[r] \in {"found", "not found", "failed"}
  /\ phase' = [phase EXCEPT ![r] = "idle"] /\ kid' = [kid EXCEPT ![r] = None]
  /\ UNCHANGED <<clerk, steady>>

\* A kid is published and retired at most once.
Publish(k) ==
  /\ ~Issued(k) /\ published' = published \cup {k}
  /\ UNCHANGED <<now, retired, lookups>>

Retire(k) ==
  /\ k \in published /\ published' = published \ {k}
  /\ retired' = [retired EXCEPT ![k] = now]
  /\ steady' = [r \in Requests |-> steady[r] \ {k}]
  /\ UNCHANGED <<now, phase, kid>>

Tick == now' = now + 1 /\ UNCHANGED <<published, retired, lookups>>

Next ==
  \/ \E r \in Requests :
       \/ \E k \in Kids : Ask(r, k)
       \/ Look(r) \/ Found(r) \/ NotFound(r) \/ Failed(r) \/ Done(r)
  \/ \E k \in Kids : Publish(k) \/ Retire(k)
  \/ Tick

Spec == Init /\ [][Next]_vars
=============================================================================
