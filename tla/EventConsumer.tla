----------------------------- MODULE EventConsumer -----------------------------
(***************************************************************************)
(* The event bus as its consumers see it                                   *)
(* (shared/ages_common/events/consumer.py): start, consume and stop of     *)
(* KafkaConsumer in each process of a consumer group, with the offsets     *)
(* that aiokafka commits on a timer, before a rebalance and when it stops, *)
(* and processes that crash.                                               *)
(*                                                                         *)
(* A partition is a log of messages, each of a kind: an event, a value     *)
(* that is no EventEnvelope, or bytes that are no JSON.  The position of   *)
(* a member is the offset it asks for next; it moves when a message is     *)
(* handed to the loop, before handle_event runs.                           *)
(*                                                                         *)
(* Left out: a stop that is called while start waits for the brokers, and  *)
(* a second consume on the client of one that raised.                      *)
(***************************************************************************)
EXTENDS Integers, Sequences, FiniteSets

CONSTANTS
  Members,     \* processes of the group
  Partitions,
  Log,         \* the kinds of the messages of each partition
  MaxLives,    \* bound: how often a process starts
  MaxMoves,    \* bound: rebalances that nothing forces
  none

Kinds == {"event", "invalid", "undecodable"}

ASSUME LogAssumption == Log \in [Partitions -> Seq(Kinds)]
ASSUME BoundsAssumption == MaxLives \in Nat \ {0} /\ MaxMoves \in Nat

VARIABLES
  state,      \* where each process is
  client,     \* _consumer: none, made, or started
  running,    \* _running
  stopping,   \* stop is waiting for the client
  position,   \* the position of each partition's owner in it
  inHand,     \* the message that consume holds
  owner,      \* the group's assignment
  committed,  \* the group's committed offsets
  lives,      \* starts of each process
  moves,      \* rebalances so far
  fates,      \* history: what became of each message
  handed,     \* history: how often each message was handed to a loop
  forgotten   \* history: partitions that a member lost with its position uncommitted

membership == <<state, client, running, stopping, lives>>
progress == <<position, inHand, fates, handed>>
group == <<owner, committed, moves, forgotten>>
consumerVars == <<membership, progress, group>>

\* new: start is not called; idle: it has returned; loop: consume waits for a message;
\* handling: it waits for handle_event; ended, raised: consume is over.
States == {"new", "starting", "idle", "loop", "handling", "ended", "raised", "down"}
Fates == {"handled", "failed", "invalid", "dropped", "killed"}
Offsets(p) == 1 .. Len(Log[p])
Message == UNION {{p} \X Offsets(p) : p \in Partitions}
ASSUME NoneAssumption == none \notin Members \cup Message

Joined(m) == client[m] = "started"
Consuming(m) == state[m] \in {"loop", "handling"} /\ Joined(m)
Owned(m) == {p \in Partitions : owner[p] = m}
Held(m) == IF inHand[m] = none THEN {} ELSE {inHand[m]}

Enters(m, s) == state' = [state EXCEPT ![m] = s]

ConsumerInit ==
  /\ state = [m \in Members |-> "new"]
  /\ client = [m \in Members |-> "none"]
  /\ running = [m \in Members |-> FALSE] /\ stopping = [m \in Members |-> FALSE]
  /\ position = [p \in Partitions |-> 1]
  /\ inHand = [m \in Members |-> none]
  /\ owner = [p \in Partitions |-> none] /\ committed = [p \in Partitions |-> 1]
  /\ lives = [m \in Members |-> 1] /\ moves = 0
  /\ fates = [e \in Message |-> {}] /\ handed = [e \in Message |-> 0]
  /\ forgotten = {}

-----------------------------------------------------------------------------
(* The group: what aiokafka and the coordinator do.                        *)

\* Mutant: one offset too far.
Committing_Next(m) == [p \in Partitions |-> IF owner[p] = m THEN position[p] + 1
                                            ELSE committed[p]]

\* The commit of a member's positions.
Committing(m) == [p \in Partitions |-> IF owner[p] = m THEN position[p] ELSE committed[p]]

AutoCommit(m) ==
  /\ Joined(m)
  /\ committed' = Committing(m) /\ committed' # committed
  /\ UNCHANGED <<membership, progress, owner, moves, forgotten>>

\* Mutant: a group without an offset begins at the end.
Assign_Latest(p, m) ==
  /\ owner' = [owner EXCEPT ![p] = m]
  /\ position' = [position EXCEPT
                    ![p] = IF committed'[p] = 1 THEN Len(Log[p]) + 1 ELSE committed'[p]]

\* A new owner begins at the committed offset, the first if there is none (earliest).
Assign(p, m) ==
  /\ owner' = [owner EXCEPT ![p] = m]
  /\ position' = [position EXCEPT ![p] = committed'[p]]

\* Mutant: a member leaves its partitions without a commit.
Revoke_Uncommitted(m) == committed' = committed /\ forgotten' = forgotten

\* The last commit of a member that loses partitions may fail; a dead one makes none.
Revoke(m) ==
  \/ /\ m # none /\ Joined(m)
     /\ committed' = Committing(m) /\ forgotten' = forgotten
  \/ /\ committed' = committed
     /\ forgotten' = forgotten \cup {p \in Owned(m) : m # none /\ position[p] # committed[p]}

\* A member leaves the group; its partitions have no position until they are assigned.
Leave(m) ==
  /\ owner' = [p \in Partitions |-> IF owner[p] = m THEN none ELSE owner[p]]
  /\ position' = [p \in Partitions |-> IF owner[p] = m THEN committed'[p] ELSE position[p]]

\* A partition whose owner is gone, or is not asking for messages, finds another.
TakeOver(p, m) ==
  /\ Consuming(m) /\ owner[p] # m
  /\ owner[p] # none => ~Consuming(owner[p])
  /\ Revoke(owner[p]) /\ Assign(p, m)
  /\ UNCHANGED <<membership, inHand, fates, handed, moves>>

\* A rebalance for any other reason, a new member or a late heartbeat.
Move(p, m) ==
  /\ moves < MaxMoves /\ moves' = moves + 1
  /\ Joined(m) /\ owner[p] # m
  /\ Revoke(owner[p]) /\ Assign(p, m)
  /\ UNCHANGED <<membership, inHand, fates, handed>>

-----------------------------------------------------------------------------
(* A process: start, consume, stop.                                        *)

\* start, when there is a client already: it returns at once.
StartAgain(m) ==
  /\ state[m] = "new" /\ client[m] # "none" /\ Enters(m, "idle")
  /\ UNCHANGED <<client, running, stopping, lives, progress, group>>

\* start, up to its wait for the brokers.
Start(m) ==
  /\ state[m] = "new" /\ client[m] = "none"
  /\ client' = [client EXCEPT ![m] = "made"] /\ Enters(m, "starting")
  /\ UNCHANGED <<running, stopping, lives, progress, group>>

Started(m) ==
  /\ state[m] = "starting" /\ Enters(m, "idle")
  /\ client' = [client EXCEPT ![m] = "started"] /\ running' = [running EXCEPT ![m] = TRUE]
  /\ UNCHANGED <<stopping, lives, progress, group>>

\* The brokers do not answer: start raises, and may be called again.
StartFails(m) ==
  /\ state[m] = "starting" /\ Enters(m, "new")
  /\ UNCHANGED <<client, running, stopping, lives, progress, group>>

\* consume: without a client, or on one that was never started, it raises.
Consume(m) ==
  /\ state[m] = "idle" /\ Enters(m, IF Joined(m) THEN "loop" ELSE "raised")
  /\ UNCHANGED <<client, running, stopping, lives, progress, group>>

Available(m, p) ==
  state[m] = "loop" /\ Joined(m) /\ owner[p] = m /\ position[p] \in Offsets(p)

Took(m, p, fate) ==
  /\ position' = [position EXCEPT ![p] = @ + 1]
  /\ handed' = [handed EXCEPT ![<<p, position[p]>>] = @ + 1]
  /\ fates' = [fates EXCEPT ![<<p, position[p]>>] = @ \cup fate]

\* A message that is no JSON raises in the deserializer, out of the loop: the position
\* stays before it.
TakeUndecodable(m, p) ==
  /\ Available(m, p) /\ Log[p][position[p]] = "undecodable"
  /\ Enters(m, "raised")
  /\ UNCHANGED <<client, running, stopping, lives, progress, group>>

\* The message that the loop was waiting for when stop was called: it is not handled.
TakeLast(m, p) ==
  /\ Available(m, p) /\ Log[p][position[p]] # "undecodable"
  /\ ~running[m] /\ Enters(m, "ended")
  /\ Took(m, p, {"dropped"})
  /\ UNCHANGED <<client, running, stopping, lives, inHand, group>>

\* What is no envelope is logged and passed over.
TakeInvalid(m, p) ==
  /\ Available(m, p) /\ Log[p][position[p]] = "invalid" /\ running[m]
  /\ Took(m, p, {"invalid"})
  /\ UNCHANGED <<membership, inHand, group>>

TakeEvent(m, p) ==
  /\ Available(m, p) /\ Log[p][position[p]] = "event" /\ running[m]
  /\ Enters(m, "handling")
  /\ inHand' = [inHand EXCEPT ![m] = <<p, position[p]>>]
  /\ Took(m, p, {})
  /\ UNCHANGED <<client, running, stopping, lives, group>>

\* handle_event returns or raises; the loop goes on, unless the client is gone.
HandleEvent(m) ==
  /\ state[m] = "handling"
  /\ \E fate \in {"handled", "failed"} :
       fates' = [fates EXCEPT ![inHand[m]] = @ \cup {fate}]
  /\ inHand' = [inHand EXCEPT ![m] = none]
  /\ Enters(m, IF Joined(m) /\ ~stopping[m] THEN "loop" ELSE "ended")
  /\ UNCHANGED <<client, running, stopping, lives, position, handed, group>>

\* stop, up to its wait for the client.
Stop(m) ==
  /\ state[m] \in {"new", "idle", "loop", "handling", "raised"}
  /\ ~stopping[m] /\ client[m] # "none"
  /\ running' = [running EXCEPT ![m] = FALSE] /\ stopping' = [stopping EXCEPT ![m] = TRUE]
  /\ UNCHANGED <<state, client, lives, progress, group>>

\* The client commits, leaves the group and ends the loop; the process may then end.
Stopped(m) ==
  /\ stopping[m]
  /\ stopping' = [stopping EXCEPT ![m] = FALSE]
  /\ client' = [client EXCEPT ![m] = "none"]
  /\ state' = [state EXCEPT ![m] = IF @ = "loop" THEN "ended" ELSE @]
  /\ Revoke(m) /\ Leave(m)
  /\ UNCHANGED <<running, lives, inHand, fates, handed, moves>>

Crash(m) ==
  /\ state[m] # "down" /\ lives[m] < MaxLives /\ Enters(m, "down")
  /\ client' = [client EXCEPT ![m] = "none"]
  /\ running' = [running EXCEPT ![m] = FALSE] /\ stopping' = [stopping EXCEPT ![m] = FALSE]
  /\ forgotten' = forgotten \cup {p \in Owned(m) : position[p] # committed[p]}
  /\ committed' = committed /\ Leave(m)
  /\ fates' = [e \in Message |-> fates[e] \cup IF e \in Held(m) THEN {"killed"} ELSE {}]
  /\ inHand' = [inHand EXCEPT ![m] = none]
  /\ UNCHANGED <<lives, handed, moves>>

\* A process that is down, or has stopped, is started again.
Restart(m) ==
  /\ \/ state[m] = "down"
     \/ state[m] \in {"ended", "raised"} /\ client[m] = "none" /\ ~stopping[m]
  /\ lives[m] < MaxLives
  /\ lives' = [lives EXCEPT ![m] = @ + 1] /\ Enters(m, "new")
  /\ UNCHANGED <<client, running, stopping, progress, group>>

-----------------------------------------------------------------------------

Step(m) ==
  \/ StartAgain(m) \/ Start(m) \/ Started(m) \/ Consume(m)
  \/ \E p \in Partitions :
       TakeUndecodable(m, p) \/ TakeLast(m, p) \/ TakeInvalid(m, p) \/ TakeEvent(m, p)
  \/ HandleEvent(m) \/ Stopped(m)

ConsumerNext ==
  \/ \E m \in Members :
       Step(m) \/ StartFails(m) \/ Stop(m) \/ AutoCommit(m) \/ Crash(m) \/ Restart(m)
  \/ \E p \in Partitions, m \in Members : TakeOver(p, m) \/ Move(p, m)

\* A process goes on with what it does, and the group leaves no partition without an owner
\* that asks for messages while there is one: aiokafka leaves the group after
\* max_poll_interval_ms.  Nothing makes a process start again, stop or commit.
Fairness ==
  /\ \A m \in Members : WF_consumerVars(Step(m))
  /\ \A p \in Partitions : WF_consumerVars(\E m \in Members : TakeOver(p, m))

ConsumerSpec == ConsumerInit /\ [][ConsumerNext]_consumerVars /\ Fairness
=============================================================================
