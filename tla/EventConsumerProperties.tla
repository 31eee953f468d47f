------------------------ MODULE EventConsumerProperties ------------------------
(***************************************************************************)
(* What becomes of the messages of a consumer group.                       *)
(***************************************************************************)
EXTENDS EventConsumer

\* Every variable has its type, and an owner is never behind what the group committed.
ConsumerTypeOK ==
  /\ state \in [Members -> States] /\ client \in [Members -> {"none", "made", "started"}]
  /\ running \in [Members -> BOOLEAN] /\ stopping \in [Members -> BOOLEAN]
  /\ inHand \in [Members -> Message \cup {none}]
  /\ owner \in [Partitions -> Members \cup {none}]
  /\ forgotten \subseteq Partitions /\ moves \in 0 .. MaxMoves
  /\ lives \in [Members -> 1 .. MaxLives]
  /\ committed \in [Partitions -> Nat \ {0}] /\ position \in [Partitions -> Nat \ {0}]
  /\ fates \in [Message -> SUBSET Fates] /\ handed \in [Message -> Nat]
  /\ \A p \in Partitions :
       /\ committed[p] <= position[p] /\ position[p] <= Len(Log[p]) + 1
       /\ owner[p] # none => Joined(owner[p])

Accounted(p, o) ==
  /\ Log[p][o] # "undecodable"
  /\ fates[<<p, o>>] # {} \/ \E m \in Members : inHand[m] = <<p, o>>

\* An offset is committed only when the messages before it have come to something: they
\* were handled, or their handler failed, is running or was killed, they were no events,
\* or came when the process stopped.  An undecodable message is never passed.
CommittedAccounted ==
  \A p \in Partitions : \A o \in 1 .. committed[p] - 1 : Accounted(p, o)

\* A message is handed out a second time only if a member lost the partition, by a crash
\* or a commit that failed, with a position that was not committed.
OnceUnlessForgotten ==
  \A p \in Partitions : (\E o \in Offsets(p) : handed[<<p, o>>] > 1) => p \in forgotten

\* What was committed once is not handed out again, and the group never goes back.
NeverBackBeforeCommit ==
  [][\A p \in Partitions :
       /\ committed'[p] >= committed[p]
       /\ \A o \in Offsets(p) : handed'[<<p, o>>] # handed[<<p, o>>] => o >= committed[p]]_consumerVars

\* Every message of p that no undecodable one blocks was handed to a loop.
Seen(p) ==
  \A o \in Offsets(p) :
    (\A i \in 1 .. o : Log[p][i] # "undecodable") => handed[<<p, o>>] > 0

\* consume was called on a started client, and nobody stops the process or kills it.
LeftAlone(m) == Joined(m) /\ ~stopping[m] /\ state[m] \in {"loop", "handling", "raised"}

\* Who consumes and is left alone passes nothing over: every message was handed to its loop,
\* or to another's, whatever becomes of the other processes and of the handlers; its loop
\* ends only at an undecodable message, with all that come before it seen.
EveryMessageSeen ==
  \A m \in Members :
    <>[]LeftAlone(m) =>
      <>[](\/ \A p \in Partitions : Seen(p)
           \/ state[m] = "raised" /\ \E p \in Partitions : Seen(p))

-----------------------------------------------------------------------------
(* The inductive invariant.                                                *)

\* Only a process that handles a message holds one.
HandInv ==
  \A m \in Members : IF state[m] = "handling" THEN inHand[m] \in Message ELSE inHand[m] = none

\* Not only what is committed, but all that its owner is past has come to something.
PassedInv ==
  \A p \in Partitions : \A o \in Offsets(p) : o < position[p] => Accounted(p, o)

\* A partition without an owner is where the group committed it; and a position that was
\* never lost has handed out what is before it once, and nothing else.
OnceInv ==
  \A p \in Partitions :
    /\ owner[p] = none => position[p] = committed[p]
    /\ p \notin forgotten => \A o \in Offsets(p) :
         handed[<<p, o>>] <= IF o < position[p] THEN 1 ELSE 0

ConsumerInv == ConsumerTypeOK /\ HandInv /\ PassedInv /\ OnceInv
================================================================================
