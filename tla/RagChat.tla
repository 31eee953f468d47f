------------------------------- MODULE RagChat -------------------------------
(***************************************************************************)
(* The chat pipeline of the RAG service (services/rag/app/domain/          *)
(* services.py, chat_stream) with the stores it keeps: the conversations   *)
(* and messages tables and the Redis memory of a conversation; and the     *)
(* deletion of a conversation.                                             *)
(*                                                                         *)
(* Requests are coroutines of one event loop: any number of chats of the   *)
(* same conversation interleave at their awaits.  One action is one        *)
(* awaited call with the straight-line code up to the next.  A client that *)
(* goes away cancels its request at the call it awaits, which may or may   *)
(* not have taken effect by then, just as a call that fails; so does the   *)
(* end of the process.                                                     *)
(*                                                                         *)
(* At this commit none of the inserts can succeed: those into              *)
(* conversations and messages name columns that migration 003 does not     *)
(* have, and role.value (postgres_conversation_repository.py:61,           *)
(* services.py:121) is read of a string, as use_enum_values makes it.  The *)
(* outcome "ok" is that of the code once columns and roles are repaired;   *)
(* till then the model allows more than can happen.                        *)
(*                                                                         *)
(* A message is the chat it comes from and its role.  Texts are left out:  *)
(* a model that fails half-way ends the answer where it is, and that is    *)
(* saved like any other.                                                   *)
(***************************************************************************)
EXTENDS Integers, Sequences, FiniteSets

CONSTANTS
  Convs,         \* conversation ids
  Chats,         \* POST /chat requests
  Deletes,       \* DELETE /conversations/{id} requests
  ChatConv,      \* the conversation of each chat
  DelConv,       \* the conversation of each deletion
  Faults,        \* how an awaited call may go wrong
  MaxMemory,     \* max_memory_messages
  RecentLimit,   \* the limit chat_stream gives get_recent_messages
  MaxExpiries    \* bound: memories that outlive their TTL

ASSUME ConvsAssumption == ChatConv \in [Chats -> Convs] /\ DelConv \in [Deletes -> Convs]
ASSUME ChatsAssumption == IsFiniteSet(Chats)
ASSUME FaultsAssumption == Faults \subseteq {"error", "lost"}
ASSUME LimitsAssumption ==
  MaxMemory \in Nat \ {0} /\ RecentLimit \in Nat /\ MaxExpiries \in Nat

VARIABLES
  convs,     \* the rows of conversations
  count,     \* their message_count
  messages,  \* the rows of messages, by created_at
  memory,    \* the value of rag:memory:{id}; no key is no message
  pc,        \* where each chat is
  history,   \* past_history of each chat
  held,      \* the history append_memory has read
  dpc,       \* where each deletion is
  expiries   \* expiries so far

rowVars == <<convs, count, messages>>
localVars == <<history, held>>
vars == <<rowVars, memory, pc, localVars, dpc, expiries>>

Outcomes == {"ok"} \cup Faults
Applied(out) == out # "error"
Roles == {"user", "assistant"}
Message == [chat : Chats, role : Roles]
ChatSteps ==
  {"idle", "get", "create", "createNew", "retrieve", "loadMemory", "loadRecent",
   "saveQuestion", "countQuestion", "stream", "saveAnswer", "countAnswer", "readMemory",
   "writeMemory", "done", "refused", "untold", "broken"}
DeleteSteps == {"idle", "check", "drop", "done", "notFound", "errored"}

Question(c) == [chat |-> c, role |-> "user"]
Answer(c) == [chat |-> c, role |-> "assistant"]
\* _assemble_prompt: the history, then the question (what goes before them is the same
\* kind of text for every chat).
Prompt(c) == Append(history[c], Question(c))
ChatsOf(k) == {c \in Chats : ChatConv[c] = k}

\* list[-n:], the last n items.
LastItems(s, n) == IF Len(s) <= n THEN s ELSE SubSeq(s, Len(s) - n + 1, Len(s))

Goto(c, from, to) == pc[c] = from /\ pc' = [pc EXCEPT ![c] = to]
\* An exception, or the cancellation, ends the stream where it is.
Try(out, step) == IF out = "ok" THEN step ELSE "broken"
\* An id that the service made is known once a stream has sent it; other ids are the
\* clients' own.
Known(k) == \A c \in ChatsOf(k) : pc[c] \notin {"createNew", "untold"}

Init ==
  /\ convs = {}
  /\ count = [k \in Convs |-> 0]
  /\ messages = [k \in Convs |-> << >>]
  /\ memory = [k \in Convs |-> << >>]
  /\ pc = [c \in Chats |-> "idle"]
  /\ history = [c \in Chats |-> << >>]
  /\ held = [c \in Chats |-> << >>]
  /\ dpc = [d \in Deletes |-> "idle"]
  /\ expiries = 0

-----------------------------------------------------------------------------
(* chat_stream.                                                            *)

\* The request names its conversation, or the service makes a fresh id.
Ask(c) ==
  /\ \/ Known(ChatConv[c]) /\ Goto(c, "idle", "get")
     \/ (\A e \in ChatsOf(ChatConv[c]) : pc[e] = "idle") /\ Goto(c, "idle", "createNew")
  /\ UNCHANGED <<rowVars, memory, localVars, dpc, expiries>>

GetConversation(c) == \E out \in Outcomes :
  /\ Goto(c, "get", IF out # "ok" THEN "refused"
                    ELSE IF ChatConv[c] \in convs THEN "retrieve" ELSE "create")
  /\ UNCHANGED <<rowVars, memory, localVars, dpc, expiries>>

\* Mutant: the insertion waits for the other row to go away.
CreateConversation_Waits(c) ==
  LET k == ChatConv[c] IN
  /\ k \notin convs
  /\ Goto(c, "create", "retrieve") \/ Goto(c, "createNew", "retrieve")
  /\ convs' = convs \cup {k} /\ count' = [count EXCEPT ![k] = 0]
  /\ UNCHANGED <<messages, memory, localVars, dpc, expiries>>

\* The primary key refuses a conversation that another chat has created meanwhile.
CreateConversation(c) == \E out \in Outcomes :
  LET k == ChatConv[c] IN
  /\ IF out = "ok" /\ k \notin convs
     THEN Goto(c, "create", "retrieve") \/ Goto(c, "createNew", "retrieve")
     ELSE Goto(c, "create", "refused") \/ Goto(c, "createNew", "untold")
  /\ IF Applied(out) /\ k \notin convs
     THEN convs' = convs \cup {k} /\ count' = [count EXCEPT ![k] = 0]
     ELSE UNCHANGED <<convs, count>>
  /\ UNCHANGED <<messages, memory, localVars, dpc, expiries>>

\* The id is sent; chunks are retrieved and reranked, and the citations sent.
Retrieve(c) == \E out \in Outcomes :
  /\ Goto(c, "retrieve", Try(out, "loadMemory"))
  /\ UNCHANGED <<rowVars, memory, localVars, dpc, expiries>>

LoadMemory(c) == \E out \in Outcomes :
  LET past == memory[ChatConv[c]] IN
  /\ Goto(c, "loadMemory", Try(out, IF past = << >> THEN "loadRecent" ELSE "saveQuestion"))
  /\ history' = IF out = "ok" THEN [history EXCEPT ![c] = past] ELSE history
  /\ UNCHANGED <<rowVars, memory, held, dpc, expiries>>

\* Mutant: the question is part of the history already.
LoadRecent_WithQuestion(c) ==
  /\ Goto(c, "loadRecent", "saveQuestion")
  /\ history' = [history EXCEPT ![c] =
                   LastItems(Append(messages[ChatConv[c]], Question(c)), RecentLimit)]
  /\ UNCHANGED <<rowVars, memory, held, dpc, expiries>>

\* The newest messages first, and then reversed.
LoadRecent(c) == \E out \in Outcomes :
  /\ Goto(c, "loadRecent", Try(out, "saveQuestion"))
  /\ history' = IF out = "ok"
                THEN [history EXCEPT ![c] = LastItems(messages[ChatConv[c]], RecentLimit)]
                ELSE history
  /\ UNCHANGED <<rowVars, memory, held, dpc, expiries>>

\* Mutant: a failed insertion goes unnoticed.
InsertMessage_Ignores(c, m, from, to) == \E out \in Outcomes :
  LET k == ChatConv[c] IN
  /\ Goto(c, from, to)
  /\ messages' = IF k \in convs /\ Applied(out)
                 THEN [messages EXCEPT ![k] = Append(@, m)] ELSE messages
  /\ UNCHANGED <<convs, count, memory, localVars, dpc, expiries>>

\* save_message is an INSERT, which the foreign key refuses if there is no
\* conversation, and then an UPDATE, which without one touches no row.
InsertMessage(c, m, from, to) == \E out \in Outcomes :
  LET k == ChatConv[c] IN
  /\ Goto(c, from, IF k \in convs THEN Try(out, to) ELSE "broken")
  /\ messages' = IF k \in convs /\ Applied(out)
                 THEN [messages EXCEPT ![k] = Append(@, m)] ELSE messages
  /\ UNCHANGED <<convs, count, memory, localVars, dpc, expiries>>

CountMessage(c, from, to) == \E out \in Outcomes :
  LET k == ChatConv[c] IN
  /\ Goto(c, from, Try(out, to))
  /\ count' = IF k \in convs /\ Applied(out) THEN [count EXCEPT ![k] = @ + 1] ELSE count
  /\ UNCHANGED <<convs, messages, memory, localVars, dpc, expiries>>

SaveQuestion(c) == InsertMessage(c, Question(c), "saveQuestion", "countQuestion")
CountQuestion(c) == CountMessage(c, "countQuestion", "stream")

\* Mutant: the answer is not counted.
SaveAnswer_Uncounted(c) == InsertMessage(c, Answer(c), "saveAnswer", "readMemory")

SaveAnswer(c) == InsertMessage(c, Answer(c), "saveAnswer", "countAnswer")
CountAnswer(c) == CountMessage(c, "countAnswer", "readMemory")

\* Mutant: the memory comes first.
Stream_ToMemory(c) ==
  /\ Goto(c, "stream", "readMemory")
  /\ UNCHANGED <<rowVars, memory, localVars, dpc, expiries>>

\* The tokens of the model are sent on.  A failure of the model is caught, so only the
\* client's leaving ends the stream here.
Stream(c) ==
  /\ \/ Goto(c, "stream", "saveAnswer")
     \/ Faults # {} /\ Goto(c, "stream", "broken")
  /\ UNCHANGED <<rowVars, memory, localVars, dpc, expiries>>

\* append_memory reads, and then writes what it read with the exchange added.
ReadMemory(c) == \E out \in Outcomes :
  /\ Goto(c, "readMemory", Try(out, "writeMemory"))
  /\ held' = IF out = "ok" THEN [held EXCEPT ![c] = memory[ChatConv[c]]] ELSE held
  /\ UNCHANGED <<rowVars, memory, history, dpc, expiries>>

WriteMemory(c) == \E out \in Outcomes :
  /\ Goto(c, "writeMemory", Try(out, "done"))
  /\ memory' = IF Applied(out)
               THEN [memory EXCEPT ![ChatConv[c]] =
                       LastItems(held[c] \o <<Question(c), Answer(c)>>, MaxMemory)]
               ELSE memory
  /\ UNCHANGED <<rowVars, localVars, dpc, expiries>>

-----------------------------------------------------------------------------
(* The deletion of a conversation, and the TTL of its memory.               *)

GotoD(d, from, to) == dpc[d] = from /\ dpc' = [dpc EXCEPT ![d] = to]

AskDelete(d) ==
  /\ GotoD(d, "idle", "check")
  /\ Known(DelConv[d])
  /\ UNCHANGED <<rowVars, memory, pc, localVars, expiries>>

CheckConversation(d) == \E out \in Outcomes :
  /\ GotoD(d, "check", IF out # "ok" THEN "errored"
                       ELSE IF DelConv[d] \in convs THEN "drop" ELSE "notFound")
  /\ UNCHANGED <<rowVars, memory, pc, localVars, expiries>>

\* DELETE cascades to messages; the memory stays.
DropConversation(d) == \E out \in Outcomes :
  LET k == DelConv[d] IN
  /\ GotoD(d, "drop", IF out = "ok" THEN "done" ELSE "errored")
  /\ IF Applied(out)
     THEN convs' = convs \ {k} /\ messages' = [messages EXCEPT ![k] = << >>]
     ELSE UNCHANGED <<convs, messages>>
  /\ UNCHANGED <<count, memory, pc, localVars, expiries>>

Expire(k) ==
  /\ expiries < MaxExpiries
  /\ memory[k] # << >>
  /\ memory' = [memory EXCEPT ![k] = << >>]
  /\ expiries' = expiries + 1
  /\ UNCHANGED <<rowVars, pc, localVars, dpc>>

ChatStep(c) ==
  \/ GetConversation(c) \/ CreateConversation(c) \/ Retrieve(c) \/ LoadMemory(c)
  \/ LoadRecent(c) \/ SaveQuestion(c) \/ CountQuestion(c) \/ Stream(c) \/ SaveAnswer(c)
  \/ CountAnswer(c) \/ ReadMemory(c) \/ WriteMemory(c)

Next ==
  \/ \E c \in Chats : Ask(c) \/ ChatStep(c)
  \/ \E d \in Deletes : AskDelete(d) \/ CheckConversation(d) \/ DropConversation(d)
  \/ \E k \in Convs : Expire(k)

Spec == Init /\ [][Next]_vars

\* Every awaited call returns, raises or is cancelled, and the event loop resumes every
\* coroutine that is ready.  (The PostgreSQL pool has no timeout for a command: its server
\* is taken to answer or to drop the connection.)
FairSpec == Spec /\ \A c \in Chats : WF_vars(ChatStep(c))
=============================================================================
