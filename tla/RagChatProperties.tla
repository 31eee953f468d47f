-------------------------- MODULE RagChatProperties --------------------------
(***************************************************************************)
(* What the chat pipeline guarantees.                                      *)
(***************************************************************************)
EXTENDS RagChat, SequencesExt

\* No deletion of k has removed its rows, or may have.
Kept(k) == \A d \in Deletes : DelConv[d] = k => dpc[d] \notin {"done", "errored"}
\* The chats of k that are between the INSERT and the UPDATE of a message; and with them
\* those that may have been cut off there.
Owing(k) == {c \in ChatsOf(k) : pc[c] \in {"countQuestion", "countAnswer"}}
Uncounted(k) == {c \in ChatsOf(k) : pc[c] \in {"countQuestion", "countAnswer", "broken"}}
Position(s, m) == {i \in 1 .. Len(s) : s[i] = m}
Stored(k, m) == Position(messages[k], m) # {}

\* Every variable has its type, and the memory never outgrows its window.
TypeOK ==
  /\ convs \subseteq Convs
  /\ count \in [Convs -> Nat]
  /\ messages \in [Convs -> Seq(Message)]
  /\ memory \in [Convs -> Seq(Message)]
  /\ \A k \in Convs : Len(memory[k]) <= MaxMemory
  /\ pc \in [Chats -> ChatSteps]
  /\ history \in [Chats -> Seq(Message)]
  /\ held \in [Chats -> Seq(Message)]
  /\ dpc \in [Deletes -> DeleteSteps]
  /\ expiries \in 0 .. MaxExpiries

\* message_count follows the rows of a conversation through every interleaving of its
\* chats: it is never ahead, and behind by at most one for each chat that is between
\* the INSERT and the UPDATE of a message or was cut off there.
CountAccounted ==
  \A k \in convs : Kept(k) =>
    /\ count[k] <= Len(messages[k])
    /\ Len(messages[k]) - count[k] <= Cardinality(Uncounted(k))

\* Retries and races never store a message twice, and an answer is stored after the
\* question it belongs to.
ExchangesInOrder ==
  \A k \in Convs : Kept(k) => \A c \in ChatsOf(k) :
    /\ Cardinality(Position(messages[k], Question(c))) <= 1
    /\ Cardinality(Position(messages[k], Answer(c))) <= 1
    /\ \A i \in Position(messages[k], Answer(c)) :
         \E h \in Position(messages[k], Question(c)) : h < i

\* The memory is a cache of the table: whatever expired or was overwritten, it holds
\* whole exchanges, each once, of chats of this conversation whose question and answer
\* are both stored (unless the conversation was deleted).
MemoryBacked ==
  \A k \in Convs : \A i \in 1 .. Len(memory[k]) :
    LET c == memory[k][i].chat IN
    /\ c \in ChatsOf(k)
    /\ IF i % 2 = 1
       THEN memory[k][i] = Question(c) /\ i < Len(memory[k]) /\ memory[k][i + 1] = Answer(c)
       ELSE memory[k][i] = Answer(c) /\ memory[k][i - 1] = Question(c)
    /\ Cardinality(Position(memory[k], memory[k][i])) = 1
    /\ Kept(k) => Stored(k, memory[k][i])

\* The prompt repeats nothing: whether the history comes from the memory or from the
\* table, the model reads no message twice, and so not the question it is to answer.
PromptRepeatsNothing ==
  \A c \in Chats : \A i, j \in 1 .. Len(Prompt(c)) :
    Prompt(c)[i] = Prompt(c)[j] => i = j

\* The "done" event means that both messages are stored (unless the conversation was
\* deleted), and that the conversation exists.
DoneMeansStored ==
  \A c \in Chats : LET k == ChatConv[c] IN
    pc[c] = "done" /\ Kept(k) => k \in convs /\ Stored(k, Question(c)) /\ Stored(k, Answer(c))

\* Only a deletion takes messages away, and then all of them; otherwise the table only
\* grows at its end, whichever chats run.
MessagesAppended ==
  [][\A k \in Convs :
       \/ IsPrefix(messages[k], messages'[k])
       \/ /\ messages'[k] = << >>
          /\ \E d \in Deletes : dpc[d] = "drop" /\ DelConv[d] = k]_vars

\* Every chat ends, by its last event or cut off.
ChatsEnd == \A c \in Chats : pc[c] # "idle" ~> pc[c] \in {"done", "refused", "untold", "broken"}

-----------------------------------------------------------------------------
(* The inductive invariant: what a chat has stored when it is where it is, *)
(* and that no message occurs twice.                                       *)

BeforeQuestion ==
  {"idle", "get", "create", "createNew", "retrieve", "loadMemory", "loadRecent", "saveQuestion"}
BeforeAnswer == BeforeQuestion \cup {"countQuestion", "stream", "saveAnswer"}
BeforeMemory == BeforeAnswer \cup {"countAnswer", "readMemory", "writeMemory"}
AfterAnswer == {"countAnswer", "readMemory", "writeMemory", "done"}
AfterQuestion == {"countQuestion", "stream", "saveAnswer"} \cup AfterAnswer
AfterCreation == {"retrieve", "loadMemory", "loadRecent", "saveQuestion"} \cup AfterQuestion

In(m, s) == \E i \in 1 .. Len(s) : s[i] = m
OfChat(c, s) == \E i \in 1 .. Len(s) : s[i].chat = c
NoDup(s) == \A i, j \in 1 .. Len(s) : s[i] = s[j] => i = j

FreshInv ==
  \A c \in Chats :
    /\ pc[c] \in BeforeQuestion => \A k \in Convs : ~In(Question(c), messages[k])
    /\ pc[c] \in BeforeAnswer => \A k \in Convs : ~In(Answer(c), messages[k])
    /\ pc[c] \in BeforeMemory =>
         /\ \A k \in Convs : ~OfChat(c, memory[k])
         /\ \A e \in Chats : ~OfChat(c, held[e])

UniqueInv ==
  /\ \A k \in Convs : NoDup(messages[k]) /\ NoDup(memory[k])
  /\ \A c \in Chats : NoDup(history[c]) /\ ~In(Question(c), history[c]) /\ NoDup(held[c])

StoredInv ==
  \A c \in Chats : LET k == ChatConv[c] IN Kept(k) =>
    /\ pc[c] \in AfterCreation => k \in convs
    /\ pc[c] \in AfterQuestion => In(Question(c), messages[k])
    /\ pc[c] \in AfterAnswer => In(Answer(c), messages[k])
    /\ \A i \in 1 .. Len(messages[k]) : messages[k][i] = Answer(c) =>
         \E h \in 1 .. Len(messages[k]) : h < i /\ messages[k][h] = Question(c)

IInv == TypeOK /\ FreshInv /\ UniqueInv /\ StoredInv

CountInv ==
  \A k \in Convs :
    /\ k \notin convs => messages[k] = << >>
    /\ k \in convs /\ Kept(k) =>
         /\ count[k] + Cardinality(Owing(k)) <= Len(messages[k])
         /\ Len(messages[k]) <= count[k] + Cardinality(Uncounted(k))

\* s is of whole exchanges of chats of k.
Whole(k, s) ==
  /\ Len(s) % 2 = 0
  /\ \A i \in 1 .. Len(s) :
       /\ s[i].chat \in ChatsOf(k)
       /\ i % 2 = 1 => s[i] = Question(s[i].chat) /\ s[i + 1] = Answer(s[i].chat)
       /\ i % 2 = 0 => s[i] = Answer(s[i].chat) /\ s[i - 1] = Question(s[i].chat)

AllIn(s, rows) == \A i \in 1 .. Len(s) : In(s[i], rows)

MemoryInv ==
  /\ \A k \in Convs :
       Whole(k, memory[k]) /\ (Kept(k) => AllIn(memory[k], messages[k]))
  /\ \A c \in Chats : LET k == ChatConv[c] IN
       Whole(k, held[c]) /\ (Kept(k) => AllIn(held[c], messages[k]))
===============================================================================
