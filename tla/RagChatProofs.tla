---------------------------- MODULE RagChatProofs ----------------------------
(***************************************************************************)
(* TLAPS proofs about the chat pipeline, for any number of conversations,  *)
(* chats and deletions, any faults and any limits.                         *)
(***************************************************************************)
EXTENDS RagChatProperties, FiniteSetTheorems, TLAPS

-----------------------------------------------------------------------------
(* Sequences of messages.                                                  *)

LEMMA AppendMessage ==
  ASSUME NEW s \in Seq(Message), NEW m \in Message
  PROVE  /\ Append(s, m) \in Seq(Message) /\ Len(Append(s, m)) = Len(s) + 1 /\ Len(s) \in Nat
         /\ \A i \in 1 .. Len(s) : Append(s, m)[i] = s[i]
         /\ Append(s, m)[Len(s) + 1] = m
  OBVIOUS

LEMMA AppendIn ==
  ASSUME NEW s \in Seq(Message), NEW m \in Message, NEW x
  PROVE  In(x, Append(s, m)) <=> x = m \/ In(x, s)
  BY AppendMessage DEF In

LEMMA AppendNoDup ==
  ASSUME NEW s \in Seq(Message), NEW m \in Message, NoDup(s), ~In(m, s)
  PROVE  NoDup(Append(s, m))
  BY AppendMessage DEF NoDup, In

(* The last items of a sequence are a part of it.                          *)
LEMMA LastItemsPart ==
  ASSUME NEW s \in Seq(Message), NEW n \in Nat
  PROVE  /\ LastItems(s, n) \in Seq(Message) /\ Len(LastItems(s, n)) <= n
         /\ \E d \in Nat : /\ Len(LastItems(s, n)) + d = Len(s)
                           /\ \A i \in 1 .. Len(LastItems(s, n)) : LastItems(s, n)[i] = s[i + d]
<1>1. Len(s) \in Nat
  OBVIOUS
<1>2. CASE Len(s) <= n
  BY <1>1, <1>2 DEF LastItems
<1>3. CASE Len(s) > n
  <2> DEFINE d == Len(s) - n
             t == SubSeq(s, d + 1, Len(s))
  <2>1. d \in Nat /\ LastItems(s, n) = t
    BY <1>1, <1>3 DEF LastItems
  <2>2. t \in Seq(Message) /\ Len(t) = n
    BY <1>1, <1>3, <2>1
  <2>3. \A i \in 1 .. n : t[i] = s[i + d]
    BY <1>1, <1>3, <2>1
  <2>4. n + d = Len(s)
    BY <1>1
  <2> HIDE DEF t, d
  <2> QED
    BY <2>1, <2>2, <2>3, <2>4
<1> QED
  BY <1>1, <1>2, <1>3

LEMMA LastItemsKeep ==
  ASSUME NEW s \in Seq(Message), NEW n \in Nat
  PROVE  /\ NoDup(s) => NoDup(LastItems(s, n))
         /\ \A x : In(x, LastItems(s, n)) => In(x, s)
         /\ \A c : OfChat(c, LastItems(s, n)) => OfChat(c, s)
<1> DEFINE t == LastItems(s, n)
<1>1. PICK d \in Nat : Len(t) + d = Len(s) /\ \A i \in 1 .. Len(t) : t[i] = s[i + d]
  BY LastItemsPart
<1>2. t \in Seq(Message)
  BY LastItemsPart
<1> HIDE DEF t
<1>3. Len(t) \in Nat /\ \A i \in 1 .. Len(t) : i + d \in 1 .. Len(s)
  BY <1>1, <1>2
<1>4. NoDup(s) => NoDup(t)
  BY <1>1, <1>3 DEF NoDup
<1>5. \A x : In(x, t) => In(x, s)
  BY <1>1, <1>3 DEF In
<1>6. \A c : OfChat(c, t) => OfChat(c, s)
  BY <1>1, <1>3 DEF OfChat
<1> QED
  BY <1>4, <1>5, <1>6 DEF t

LEMMA Messages ==
  ASSUME NEW c \in Chats
  PROVE  /\ Question(c) \in Message /\ Question(c).chat = c
         /\ Answer(c) \in Message /\ Answer(c).chat = c
         /\ \A d : Question(c) # Answer(d) /\ Answer(c) # Question(d)
         /\ \A d : (Question(c) = Question(d) \/ Answer(c) = Answer(d)) => c = d
  BY DEF Question, Answer, Message, Roles

(* What append_memory writes: what was read, and the exchange.             *)
LEMMA ExchangeAdded ==
  ASSUME NEW s \in Seq(Message), NEW c \in Chats, NoDup(s), ~OfChat(c, s)
  PROVE  LET t == s \o <<Question(c), Answer(c)>> IN
         /\ t \in Seq(Message) /\ NoDup(t)
         /\ \A d : OfChat(d, t) => d = c \/ OfChat(d, s)
<1> DEFINE q == Question(c)  a == Answer(c)  t == s \o <<q, a>>
<1>1. /\ q \in Message /\ a \in Message /\ q.chat = c /\ a.chat = c /\ q # a
  BY Messages
<1> HIDE DEF q, a
<1>2. t \in Seq(Message) /\ Len(t) = Len(s) + 2 /\ Len(s) \in Nat
  BY <1>1
<1>3. /\ \A i \in 1 .. Len(s) : t[i] = s[i]
      /\ t[Len(s) + 1] = q /\ t[Len(s) + 2] = a
  BY <1>1
<1> HIDE DEF t
<1>4. \A i \in 1 .. Len(s) : s[i] # q /\ s[i] # a
  BY <1>1 DEF OfChat
<1>5. \A i \in 1 .. Len(t) : i \in 1 .. Len(s) \/ i = Len(s) + 1 \/ i = Len(s) + 2
  BY <1>2
<1>6. NoDup(t)
  BY <1>1, <1>3, <1>4, <1>5 DEF NoDup
<1>7. \A d : OfChat(d, t) => d = c \/ OfChat(d, s)
  BY <1>1, <1>3, <1>5 DEF OfChat
<1> QED
  BY <1>2, <1>6, <1>7 DEF t, q, a

-----------------------------------------------------------------------------
(* The steps.                                                              *)

LEMMA InitInv == Init => IInv
<1> SUFFICES ASSUME Init PROVE IInv
  OBVIOUS
<1>1. TypeOK
  BY LimitsAssumption DEF Init, TypeOK, ChatSteps, DeleteSteps
<1>2. FreshInv /\ UniqueInv
  BY DEF Init, FreshInv, UniqueInv, In, OfChat, NoDup
<1>3. StoredInv
  BY ConvsAssumption DEF Init, StoredInv, AfterCreation, AfterQuestion, AfterAnswer
<1> QED
  BY <1>1, <1>2, <1>3 DEF IInv

(* A chat goes on, and leaves the stores as they are.                      *)
LEMMA Onward ==
  ASSUME IInv, NEW c \in Chats, NEW from, NEW to \in ChatSteps, Goto(c, from, to),
         to \in BeforeQuestion => from \in BeforeQuestion,
         to \in BeforeAnswer => from \in BeforeAnswer,
         to \in BeforeMemory => from \in BeforeMemory,
         to \in AfterCreation => from \in AfterCreation \/ ChatConv[c] \in convs,
         to \in AfterQuestion => from \in AfterQuestion,
         to \in AfterAnswer => from \in AfterAnswer,
         UNCHANGED <<convs, messages, memory, held, dpc>>
  PROVE  FreshInv' /\ StoredInv' /\ pc' \in [Chats -> ChatSteps]
<1>1. pc' \in [Chats -> ChatSteps] /\ \A d \in Chats : pc'[d] = IF d = c THEN to ELSE pc[d]
  BY DEF Goto, IInv, TypeOK
<1>2. pc[c] = from
  BY DEF Goto
<1>3. FreshInv'
  BY <1>1, <1>2 DEF IInv, FreshInv
<1>4. StoredInv'
  <2>1. \A k \in Convs : Kept(k)' <=> Kept(k)
    BY DEF Kept
  <2> SUFFICES ASSUME NEW d \in Chats, Kept(ChatConv[d])
               PROVE  /\ pc'[d] \in AfterCreation => ChatConv[d] \in convs
                      /\ pc'[d] \in AfterQuestion => In(Question(d), messages[ChatConv[d]])
                      /\ pc'[d] \in AfterAnswer => In(Answer(d), messages[ChatConv[d]])
    BY <2>1, ConvsAssumption DEF IInv, StoredInv
  <2> QED
    BY <1>1, <1>2 DEF IInv, StoredInv
<1> QED
  BY <1>1, <1>3, <1>4

LEMMA QuietStep ==
  ASSUME IInv, NEW c \in Chats, Ask(c) \/ GetConversation(c) \/ Retrieve(c) \/ Stream(c)
  PROVE  IInv'
<1>1. UNCHANGED <<rowVars, memory, localVars, dpc, expiries>>
  BY DEF Ask, GetConversation, Retrieve, Stream
<1>2. \E from, to \in ChatSteps :
        /\ Goto(c, from, to)
        /\ to \in BeforeQuestion => from \in BeforeQuestion
        /\ to \in BeforeAnswer => from \in BeforeAnswer
        /\ to \in BeforeMemory => from \in BeforeMemory
        /\ to \in AfterCreation => from \in AfterCreation \/ ChatConv[c] \in convs
        /\ to \in AfterQuestion => from \in AfterQuestion
        /\ to \in AfterAnswer => from \in AfterAnswer
  <2> USE DEF ChatSteps, BeforeQuestion, BeforeAnswer, BeforeMemory, AfterCreation,
              AfterQuestion, AfterAnswer
  <2>1. CASE Ask(c)
    <3>1. Goto(c, "idle", "get") \/ Goto(c, "idle", "createNew")
      BY <2>1 DEF Ask
    <3> QED
      BY <3>1
  <2>2. CASE GetConversation(c)
    <3>1. \/ Goto(c, "get", "refused") \/ Goto(c, "get", "create")
          \/ Goto(c, "get", "retrieve") /\ ChatConv[c] \in convs
      BY <2>2 DEF GetConversation
    <3> QED
      BY <3>1
  <2>3. CASE Retrieve(c)
    <3>1. Goto(c, "retrieve", "loadMemory") \/ Goto(c, "retrieve", "broken")
      BY <2>3 DEF Retrieve, Try
    <3> QED
      BY <3>1
  <2>4. CASE Stream(c)
    <3>1. Goto(c, "stream", "saveAnswer") \/ Goto(c, "stream", "broken")
      BY <2>4 DEF Stream
    <3> QED
      BY <3>1
  <2> QED
    BY <2>1, <2>2, <2>3, <2>4
<1>3. FreshInv' /\ StoredInv' /\ pc' \in [Chats -> ChatSteps]
  BY <1>1, <1>2, Onward DEF rowVars, localVars
<1>4. TypeOK' /\ UniqueInv'
  BY <1>1, <1>3 DEF IInv, TypeOK, UniqueInv, rowVars, localVars
<1> QED
  BY <1>3, <1>4 DEF IInv

LEMMA CreateStep ==
  ASSUME IInv, NEW c \in Chats, CreateConversation(c)
  PROVE  IInv'
<1> DEFINE k == ChatConv[c]
<1>1. k \in Convs
  BY ConvsAssumption
<1>2. PICK from \in {"create", "createNew"}, to \in {"retrieve", "refused", "untold"} :
        Goto(c, from, to) /\ (to = "retrieve" => k \in convs')
  <2>1. PICK out \in Outcomes :
          /\ IF out = "ok" /\ k \notin convs
             THEN Goto(c, "create", "retrieve") \/ Goto(c, "createNew", "retrieve")
             ELSE Goto(c, "create", "refused") \/ Goto(c, "createNew", "untold")
          /\ out = "ok" /\ k \notin convs => convs' = convs \cup {k}
    BY Zenon DEF CreateConversation, Applied
  <2>2. CASE out = "ok" /\ k \notin convs
    BY <2>1, <2>2
  <2>3. CASE ~(out = "ok" /\ k \notin convs)
    BY <2>1, <2>3
  <2> QED
    BY <2>2, <2>3
<1>3. convs' \subseteq Convs /\ convs \subseteq convs' /\ count' \in [Convs -> Nat]
  <2>1. \/ convs' = convs \cup {k} /\ count' = [count EXCEPT ![k] = 0]
        \/ convs' = convs /\ count' = count
    BY Zenon DEF CreateConversation
  <2>2. convs \subseteq Convs /\ count \in [Convs -> Nat]
    BY DEF IInv, TypeOK
  <2> HIDE DEF k
  <2> QED
    BY <1>1, <2>1, <2>2
<1>4. UNCHANGED <<messages, memory, history, held, dpc, expiries>>
  BY DEF CreateConversation, localVars
<1>5. /\ pc' \in [Chats -> ChatSteps] /\ \A d \in Chats : pc'[d] = IF d = c THEN to ELSE pc[d]
      /\ pc[c] = from
  BY <1>2 DEF Goto, IInv, TypeOK, ChatSteps
<1> HIDE DEF k
<1>6. TypeOK'
  BY <1>3, <1>4, <1>5 DEF IInv, TypeOK
<1>7. UniqueInv'
  BY <1>4 DEF IInv, UniqueInv
<1>8. FreshInv'
  BY <1>4, <1>5 DEF IInv, FreshInv, BeforeQuestion, BeforeAnswer, BeforeMemory
<1>9. StoredInv'
  <2> SUFFICES ASSUME NEW d \in Chats, Kept(ChatConv[d])
               PROVE  /\ pc'[d] \in AfterCreation => ChatConv[d] \in convs'
                      /\ pc'[d] \in AfterQuestion => In(Question(d), messages[ChatConv[d]])
                      /\ pc'[d] \in AfterAnswer => In(Answer(d), messages[ChatConv[d]])
    BY <1>4 DEF IInv, StoredInv, Kept
  <2>1. CASE d = c
    BY <1>2, <1>5, <2>1 DEF AfterCreation, AfterQuestion, AfterAnswer, k
  <2>2. CASE d # c
    BY <1>3, <1>5, <2>2 DEF IInv, StoredInv
  <2> QED
    BY <2>1, <2>2
<1> QED
  BY <1>6, <1>7, <1>8, <1>9 DEF IInv

(* The history is what the memory or the table holds, without the question. *)
LEMMA LoadStep ==
  ASSUME IInv, NEW c \in Chats, LoadMemory(c) \/ LoadRecent(c)
  PROVE  IInv'
<1> DEFINE k == ChatConv[c]
           window == LastItems(messages[k], RecentLimit)
<1>1. k \in Convs
  BY ConvsAssumption
<1>2. PICK from \in {"loadMemory", "loadRecent"}, to \in {"loadRecent", "saveQuestion", "broken"} :
        Goto(c, from, to)
  BY DEF LoadMemory, LoadRecent, Try, Goto
<1>3. UNCHANGED <<convs, count, messages, memory, held, dpc, expiries>>
  BY DEF LoadMemory, LoadRecent, rowVars
<1>4. \/ history' = history
      \/ history' = [history EXCEPT ![c] = memory[k]]
      \/ history' = [history EXCEPT ![c] = window]
  BY DEF LoadMemory, LoadRecent
<1>5. pc[c] = from
  BY <1>2 DEF Goto
<1>6. FreshInv' /\ StoredInv' /\ pc' \in [Chats -> ChatSteps]
  <2>1. /\ to \in ChatSteps
        /\ to \in BeforeQuestion => from \in BeforeQuestion
        /\ to \in BeforeAnswer => from \in BeforeAnswer
        /\ to \in BeforeMemory => from \in BeforeMemory
        /\ to \in AfterCreation => from \in AfterCreation
        /\ to \in AfterQuestion => from \in AfterQuestion
        /\ to \in AfterAnswer => from \in AfterAnswer
    BY DEF ChatSteps, BeforeQuestion, BeforeAnswer, BeforeMemory, AfterCreation,
           AfterQuestion, AfterAnswer
  <2> QED
    BY <1>2, <1>3, <2>1, Onward
<1>7. pc[c] \in BeforeMemory /\ pc[c] \in BeforeQuestion
  BY <1>5 DEF BeforeMemory, BeforeAnswer, BeforeQuestion
<1>8. memory[k] \in Seq(Message) /\ NoDup(memory[k]) /\ ~OfChat(c, memory[k])
  BY <1>1, <1>7 DEF IInv, TypeOK, UniqueInv, FreshInv
<1>9. messages[k] \in Seq(Message) /\ NoDup(messages[k]) /\ ~In(Question(c), messages[k])
  BY <1>1, <1>7 DEF IInv, TypeOK, UniqueInv, FreshInv
<1> HIDE DEF k
<1>10. ~In(Question(c), memory[k])
  BY <1>8, Messages DEF In, OfChat
<1>11. window \in Seq(Message) /\ NoDup(window) /\ ~In(Question(c), window)
  BY <1>9, LastItemsPart, LastItemsKeep, LimitsAssumption
<1> HIDE DEF window
<1>12. history \in [Chats -> Seq(Message)]
  BY DEF IInv, TypeOK
<1>13. /\ history' \in [Chats -> Seq(Message)]
       /\ \A d \in Chats : \/ history'[d] = history[d]
                           \/ d = c /\ (history'[c] = memory[k] \/ history'[c] = window)
  BY <1>4, <1>8, <1>11, <1>12
<1>14. TypeOK'
  BY <1>3, <1>6, <1>13 DEF IInv, TypeOK
<1>15. UniqueInv'
  <2>1. \A d \in Chats : NoDup(history'[d]) /\ ~In(Question(d), history'[d])
    BY <1>8, <1>10, <1>11, <1>13 DEF IInv, UniqueInv
  <2> QED
    BY <1>3, <2>1 DEF IInv, UniqueInv
<1> QED
  BY <1>6, <1>14, <1>15 DEF IInv

(* A message goes to the end of its conversation, where it was not before.  *)
LEMMA InsertStep ==
  ASSUME IInv, NEW c \in Chats, SaveQuestion(c) \/ SaveAnswer(c)
  PROVE  IInv'
<1> DEFINE k == ChatConv[c]
<1>1. k \in Convs
  BY ConvsAssumption
<1>2. PICK m, from, to :
        /\ InsertMessage(c, m, from, to)
        /\ \/ m = Question(c) /\ from = "saveQuestion" /\ to = "countQuestion"
           \/ m = Answer(c) /\ from = "saveAnswer" /\ to = "countAnswer"
  BY DEF SaveQuestion, SaveAnswer
<1>3. m \in Message /\ from \in ChatSteps /\ to \in ChatSteps /\ to # "broken"
  BY <1>2, Messages DEF ChatSteps
<1>4. UNCHANGED <<convs, count, memory, history, held, dpc, expiries>>
  BY <1>2 DEF InsertMessage, localVars
<1>5. PICK end \in {to, "broken"} :
        /\ Goto(c, from, end)
        /\ messages' = messages \/ messages' = [messages EXCEPT ![k] = Append(@, m)]
        /\ end = to => k \in convs /\ messages' = [messages EXCEPT ![k] = Append(@, m)]
  <2>1. PICK out \in Outcomes :
          /\ Goto(c, from, IF k \in convs THEN Try(out, to) ELSE "broken")
          /\ messages' = IF k \in convs /\ Applied(out)
                         THEN [messages EXCEPT ![k] = Append(@, m)] ELSE messages
    BY <1>2 DEF InsertMessage
  <2>2. CASE k \in convs /\ out = "ok"
    BY <2>1, <2>2 DEF Applied, Try
  <2>3. CASE k \notin convs
    BY <1>3, <2>1, <2>3
  <2>4. CASE k \in convs /\ out # "ok"
    BY <1>3, <2>1, <2>4 DEF Applied, Try
  <2> QED
    BY <2>2, <2>3, <2>4
<1>6. /\ pc' \in [Chats -> ChatSteps] /\ \A d \in Chats : pc'[d] = IF d = c THEN end ELSE pc[d]
      /\ pc[c] = from
  <2>1. end \in ChatSteps /\ pc \in [Chats -> ChatSteps]
    BY <1>3 DEF IInv, TypeOK, ChatSteps
  <2> QED
    BY <1>5, <2>1 DEF Goto
<1> HIDE DEF k
<1>7. messages \in [Convs -> Seq(Message)]
  BY DEF IInv, TypeOK
<1>8. /\ messages' \in [Convs -> Seq(Message)]
      /\ \A j \in Convs :
           messages'[j] = messages[j] \/ (j = k /\ messages'[j] = Append(messages[j], m))
      /\ end = to => k \in convs /\ messages'[k] = Append(messages[k], m)
  <2> DEFINE longer == Append(messages[k], m)
  <2>1. longer \in Seq(Message)
    BY <1>1, <1>3, <1>7, AppendMessage
  <2>2. /\ messages' = messages \/ messages' = [messages EXCEPT ![k] = longer]
        /\ end = to => k \in convs /\ messages' = [messages EXCEPT ![k] = longer]
    BY <1>5 DEF k
  <2> HIDE DEF longer
  <2>3. /\ messages' \in [Convs -> Seq(Message)]
        /\ \A j \in Convs : messages'[j] = messages[j] \/ (j = k /\ messages'[j] = longer)
        /\ end = to => k \in convs /\ messages'[k] = longer
    BY <1>1, <1>7, <2>1, <2>2
  <2> QED
    BY <2>3 DEF longer
<1>9. ~In(m, messages[k])
  BY <1>1, <1>2, <1>6 DEF IInv, FreshInv, BeforeQuestion, BeforeAnswer
<1>10. \A j \in Convs : \A x :
         /\ In(x, messages[j]) => In(x, messages'[j])
         /\ In(x, messages'[j]) => In(x, messages[j]) \/ x = m
  <2> SUFFICES ASSUME NEW j \in Convs, NEW x
               PROVE  /\ In(x, messages[j]) => In(x, messages'[j])
                      /\ In(x, messages'[j]) => In(x, messages[j]) \/ x = m
    OBVIOUS
  <2>1. In(x, Append(messages[j], m)) <=> x = m \/ In(x, messages[j])
    BY <1>3, <1>7, AppendIn
  <2>2. messages'[j] = messages[j] \/ messages'[j] = Append(messages[j], m)
    BY <1>8
  <2> QED
    BY <2>1, <2>2
<1>11. TypeOK'
  BY <1>4, <1>6, <1>8 DEF IInv, TypeOK
<1>12. UniqueInv'
  <2>1. \A j \in Convs : NoDup(messages'[j])
    BY <1>1, <1>3, <1>7, <1>8, <1>9, AppendNoDup DEF IInv, UniqueInv
  <2> QED
    BY <1>4, <2>1 DEF IInv, UniqueInv
<1>13. FreshInv'
  <2> SUFFICES ASSUME NEW d \in Chats
               PROVE  /\ pc'[d] \in BeforeQuestion => \A j \in Convs : ~In(Question(d), messages'[j])
                      /\ pc'[d] \in BeforeAnswer => \A j \in Convs : ~In(Answer(d), messages'[j])
                      /\ pc'[d] \in BeforeMemory => pc[d] \in BeforeMemory
    BY <1>4 DEF IInv, FreshInv
  <2>1. CASE d # c
    <3>1. Question(d) # m /\ Answer(d) # m
      BY <1>2, <2>1, Messages
    <3> QED
      BY <1>6, <1>10, <2>1, <3>1 DEF IInv, FreshInv
  <2>2. CASE d = c
    <3>1. pc[c] \in BeforeMemory /\ pc'[c] \notin BeforeQuestion
      BY <1>2, <1>6 DEF BeforeQuestion, BeforeAnswer, BeforeMemory
    <3>2. pc'[c] \in BeforeAnswer => m = Question(c) /\ pc[c] \in BeforeAnswer
      BY <1>2, <1>6 DEF BeforeQuestion, BeforeAnswer
    <3>3. Answer(c) # Question(c)
      BY Messages
    <3> QED
      BY <1>10, <2>2, <3>1, <3>2, <3>3 DEF IInv, FreshInv
  <2> QED
    BY <2>1, <2>2
<1>14. StoredInv'
  <2> SUFFICES ASSUME NEW d \in Chats, Kept(ChatConv[d])
               PROVE  /\ pc'[d] \in AfterCreation => ChatConv[d] \in convs
                      /\ pc'[d] \in AfterQuestion => In(Question(d), messages'[ChatConv[d]])
                      /\ pc'[d] \in AfterAnswer => In(Answer(d), messages'[ChatConv[d]])
                      /\ \A i \in 1 .. Len(messages'[ChatConv[d]]) :
                           messages'[ChatConv[d]][i] = Answer(d) =>
                             \E h \in 1 .. Len(messages'[ChatConv[d]]) :
                               h < i /\ messages'[ChatConv[d]][h] = Question(d)
    BY <1>4 DEF StoredInv, Kept
  <2> DEFINE j == ChatConv[d]
  <2>1. j \in Convs
    BY ConvsAssumption
  <2>2. /\ pc[d] \in AfterCreation => j \in convs
        /\ pc[d] \in AfterQuestion => In(Question(d), messages[j])
        /\ pc[d] \in AfterAnswer => In(Answer(d), messages[j])
        /\ \A i \in 1 .. Len(messages[j]) : messages[j][i] = Answer(d) =>
             \E h \in 1 .. Len(messages[j]) : h < i /\ messages[j][h] = Question(d)
    BY DEF IInv, StoredInv
  <2>3. d = c => j = k
    BY DEF k
  <2> HIDE DEF j
  <2>4. pc'[d] \in AfterCreation => j \in convs
    BY <1>6, <1>8, <2>2, <2>3 DEF AfterCreation, AfterQuestion, AfterAnswer
  <2>5. /\ pc'[d] \in AfterQuestion => In(Question(d), messages'[j])
        /\ pc'[d] \in AfterAnswer => In(Answer(d), messages'[j])
    <3>1. CASE d # c
      <4>1. pc'[d] = pc[d]
        BY <1>6, <3>1
      <4>2. /\ In(Question(d), messages[j]) => In(Question(d), messages'[j])
            /\ In(Answer(d), messages[j]) => In(Answer(d), messages'[j])
        BY <1>10, <2>1
      <4> QED
        BY <2>2, <4>1, <4>2
    <3>2. CASE d = c
      <4>1. end = to => In(m, messages'[j])
        <5>1. In(m, Append(messages[k], m))
          BY <1>1, <1>3, <1>7, AppendIn
        <5> QED
          BY <1>8, <2>3, <3>2, <5>1
      <4>2. end = "broken" => pc'[d] \notin AfterQuestion /\ pc'[d] \notin AfterAnswer
        BY <1>6, <3>2 DEF AfterQuestion, AfterAnswer
      <4>3. CASE m = Question(c) /\ to = "countQuestion"
        BY <1>6, <3>2, <4>1, <4>2, <4>3 DEF AfterQuestion, AfterAnswer
      <4>4. CASE m = Answer(c) /\ from = "saveAnswer"
        <5>1. In(Question(d), messages[j])
          BY <1>6, <2>2, <3>2, <4>4 DEF AfterQuestion
        <5>2. In(Question(d), messages'[j])
          BY <1>10, <2>1, <5>1
        <5>3. pc'[d] \in AfterAnswer => In(Answer(d), messages'[j])
          BY <1>6, <3>2, <4>1, <4>2, <4>4
        <5> QED
          BY <5>2, <5>3
      <4> QED
        BY <1>2, <4>3, <4>4
    <3> QED
      BY <3>1, <3>2
  <2>6. ASSUME NEW i \in 1 .. Len(messages'[j]), messages'[j][i] = Answer(d)
        PROVE  \E h \in 1 .. Len(messages'[j]) : h < i /\ messages'[j][h] = Question(d)
    <3>1. CASE messages'[j] = messages[j]
      BY <2>2, <2>6, <3>1
    <3>2. CASE j = k /\ messages'[j] = Append(messages[j], m)
      <4>1. /\ Len(messages'[j]) = Len(messages[j]) + 1 /\ Len(messages[j]) \in Nat
            /\ \A n \in 1 .. Len(messages[j]) : messages'[j][n] = messages[j][n]
            /\ messages'[j][Len(messages[j]) + 1] = m
        BY <1>3, <1>7, <2>1, <3>2, AppendMessage
      <4>2. CASE i \in 1 .. Len(messages[j])
        <5>1. PICK h \in 1 .. Len(messages[j]) : h < i /\ messages[j][h] = Question(d)
          BY <2>2, <2>6, <4>1, <4>2
        <5> QED
          BY <4>1, <5>1
      <4>3. CASE i = Len(messages[j]) + 1
        <5>1. m = Answer(d) /\ d = c /\ from = "saveAnswer"
          BY <1>2, <2>6, <4>1, <4>3, Messages
        <5>2. PICK h \in 1 .. Len(messages[j]) : messages[j][h] = Question(d)
          BY <1>6, <2>2, <5>1 DEF AfterQuestion, In
        <5> QED
          BY <4>1, <4>3, <5>2
      <4> QED
        BY <2>6, <4>1, <4>2, <4>3
    <3> QED
      BY <1>8, <2>1, <3>1, <3>2
  <2> QED
    BY <2>4, <2>5, <2>6 DEF j
<1> QED
  BY <1>11, <1>12, <1>13, <1>14 DEF IInv

LEMMA CountStep ==
  ASSUME IInv, NEW c \in Chats, CountQuestion(c) \/ CountAnswer(c)
  PROVE  IInv'
<1>1. PICK from, to :
        /\ CountMessage(c, from, to)
        /\ \/ from = "countQuestion" /\ to = "stream"
           \/ from = "countAnswer" /\ to = "readMemory"
  BY DEF CountQuestion, CountAnswer
<1>2. UNCHANGED <<convs, messages, memory, history, held, dpc, expiries>>
  BY <1>1 DEF CountMessage, localVars
<1>3. PICK end \in {to, "broken"} : Goto(c, from, end)
  BY <1>1 DEF CountMessage, Try
<1>4. \/ count' = count
      \/ count' = [count EXCEPT ![ChatConv[c]] = count[ChatConv[c]] + 1]
  BY <1>1 DEF CountMessage
<1>5. FreshInv' /\ StoredInv' /\ pc' \in [Chats -> ChatSteps]
  <2>1. /\ end \in ChatSteps
        /\ end \in BeforeQuestion => from \in BeforeQuestion
        /\ end \in BeforeAnswer => from \in BeforeAnswer
        /\ end \in BeforeMemory => from \in BeforeMemory
        /\ end \in AfterCreation => from \in AfterCreation
        /\ end \in AfterQuestion => from \in AfterQuestion
        /\ end \in AfterAnswer => from \in AfterAnswer
    BY <1>1 DEF ChatSteps, BeforeQuestion, BeforeAnswer, BeforeMemory, AfterCreation,
                AfterQuestion, AfterAnswer
  <2> QED
    BY <1>2, <1>3, <2>1, Onward
<1>6. count' \in [Convs -> Nat]
  <2>1. ChatConv[c] \in Convs /\ count \in [Convs -> Nat]
    BY ConvsAssumption DEF IInv, TypeOK
  <2> QED
    BY <1>4, <2>1
<1>7. TypeOK'
  BY <1>2, <1>5, <1>6 DEF IInv, TypeOK
<1>8. UniqueInv'
  BY <1>2 DEF IInv, UniqueInv
<1> QED
  BY <1>5, <1>7, <1>8 DEF IInv

(* What append_memory reads has no message of a chat that has not written its own. *)
LEMMA ReadStep ==
  ASSUME IInv, NEW c \in Chats, ReadMemory(c)
  PROVE  IInv'
<1> DEFINE past == memory[ChatConv[c]]
<1>1. PICK end \in {"writeMemory", "broken"} : Goto(c, "readMemory", end)
  BY DEF ReadMemory, Try
<1>2. UNCHANGED <<convs, count, messages, memory, history, dpc, expiries>>
  BY DEF ReadMemory, rowVars
<1>3. held' = held \/ held' = [held EXCEPT ![c] = past]
  BY DEF ReadMemory
<1>4. /\ past \in Seq(Message) /\ NoDup(past)
      /\ \A d \in Chats : pc[d] \in BeforeMemory => ~OfChat(d, past)
  BY ConvsAssumption DEF IInv, TypeOK, UniqueInv, FreshInv
<1>5. end \in ChatSteps /\ pc \in [Chats -> ChatSteps] /\ held \in [Chats -> Seq(Message)]
  BY DEF IInv, TypeOK, ChatSteps
<1>6. /\ pc' \in [Chats -> ChatSteps] /\ \A d \in Chats : pc'[d] = IF d = c THEN end ELSE pc[d]
      /\ pc[c] = "readMemory"
  BY <1>1, <1>5 DEF Goto
<1> HIDE DEF past
<1>7. /\ held' \in [Chats -> Seq(Message)]
      /\ \A e \in Chats : held'[e] = held[e] \/ held'[e] = past
  BY <1>3, <1>4, <1>5
<1>8. TypeOK'
  BY <1>2, <1>6, <1>7 DEF IInv, TypeOK
<1>9. UniqueInv'
  <2>1. \A e \in Chats : NoDup(held'[e])
    BY <1>4, <1>7 DEF IInv, UniqueInv
  <2> QED
    BY <1>2, <2>1 DEF IInv, UniqueInv
<1>10. \A d \in Chats : /\ pc'[d] \in BeforeQuestion => pc[d] \in BeforeQuestion
                        /\ pc'[d] \in BeforeAnswer => pc[d] \in BeforeAnswer
                        /\ pc'[d] \in BeforeMemory => pc[d] \in BeforeMemory
                        /\ pc'[d] \in AfterCreation => pc[d] \in AfterCreation
                        /\ pc'[d] \in AfterQuestion => pc[d] \in AfterQuestion
                        /\ pc'[d] \in AfterAnswer => pc[d] \in AfterAnswer
  BY <1>6 DEF BeforeQuestion, BeforeAnswer, BeforeMemory, AfterCreation, AfterQuestion, AfterAnswer
<1>11. FreshInv'
  <2>1. \A d, e \in Chats : pc[d] \in BeforeMemory => ~OfChat(d, held'[e])
    BY <1>4, <1>7 DEF IInv, FreshInv
  <2> QED
    BY <1>2, <1>10, <2>1 DEF IInv, FreshInv
<1>12. StoredInv'
  BY <1>2, <1>10 DEF IInv, StoredInv, Kept
<1> QED
  BY <1>8, <1>9, <1>11, <1>12 DEF IInv

(* What it writes has each message once: its own were not in what it read.  *)
LEMMA WriteStep ==
  ASSUME IInv, NEW c \in Chats, WriteMemory(c)
  PROVE  IInv'
<1> DEFINE k == ChatConv[c]
           longer == held[c] \o <<Question(c), Answer(c)>>
           window == LastItems(longer, MaxMemory)
<1>1. PICK end \in {"done", "broken"} : Goto(c, "writeMemory", end)
  BY DEF WriteMemory, Try
<1>2. UNCHANGED <<convs, count, messages, history, held, dpc, expiries>>
  BY DEF WriteMemory, rowVars, localVars
<1>3. memory' = memory \/ memory' = [memory EXCEPT ![k] = window]
  BY DEF WriteMemory
<1>4. k \in Convs /\ memory \in [Convs -> Seq(Message)]
  BY ConvsAssumption DEF IInv, TypeOK
<1>5. end \in ChatSteps /\ pc \in [Chats -> ChatSteps]
  BY DEF IInv, TypeOK, ChatSteps
<1>6. /\ pc' \in [Chats -> ChatSteps] /\ \A d \in Chats : pc'[d] = IF d = c THEN end ELSE pc[d]
      /\ pc[c] = "writeMemory"
  BY <1>1, <1>5 DEF Goto
<1>7. held[c] \in Seq(Message) /\ NoDup(held[c]) /\ ~OfChat(c, held[c])
  BY <1>6 DEF IInv, TypeOK, UniqueInv, FreshInv, BeforeMemory
<1>8. /\ longer \in Seq(Message) /\ NoDup(longer)
      /\ \A d : OfChat(d, longer) => d = c \/ OfChat(d, held[c])
  BY <1>7, ExchangeAdded
<1> HIDE DEF longer, k
<1>9. /\ window \in Seq(Message) /\ NoDup(window) /\ Len(window) <= MaxMemory
      /\ \A d : OfChat(d, window) => OfChat(d, longer)
  BY <1>8, LastItemsPart, LastItemsKeep, LimitsAssumption
<1> HIDE DEF window
<1>10. /\ memory' \in [Convs -> Seq(Message)]
       /\ \A j \in Convs : memory'[j] = memory[j] \/ memory'[j] = window
  BY <1>3, <1>4, <1>9
<1>11. TypeOK'
  <2>1. \A j \in Convs : Len(memory'[j]) <= MaxMemory
    BY <1>9, <1>10 DEF IInv, TypeOK
  <2> QED
    BY <1>2, <1>6, <1>10, <2>1 DEF IInv, TypeOK
<1>12. UniqueInv'
  <2>1. \A j \in Convs : NoDup(memory'[j])
    BY <1>9, <1>10 DEF IInv, UniqueInv
  <2> QED
    BY <1>2, <2>1 DEF IInv, UniqueInv
<1>13. \A d \in Chats : /\ pc'[d] \in BeforeQuestion => pc[d] \in BeforeQuestion
                        /\ pc'[d] \in BeforeAnswer => pc[d] \in BeforeAnswer
                        /\ pc'[d] \in BeforeMemory => pc[d] \in BeforeMemory /\ d # c
                        /\ pc'[d] \in AfterCreation => pc[d] \in AfterCreation
                        /\ pc'[d] \in AfterQuestion => pc[d] \in AfterQuestion
                        /\ pc'[d] \in AfterAnswer => pc[d] \in AfterAnswer
  BY <1>6 DEF BeforeQuestion, BeforeAnswer, BeforeMemory, AfterCreation, AfterQuestion, AfterAnswer
<1>14. FreshInv'
  <2>1. \A d \in Chats : pc'[d] \in BeforeMemory => ~OfChat(d, window)
    BY <1>8, <1>9, <1>13 DEF IInv, FreshInv
  <2>2. \A d \in Chats : pc'[d] \in BeforeMemory => \A j \in Convs : ~OfChat(d, memory'[j])
    BY <1>10, <1>13, <2>1 DEF IInv, FreshInv
  <2> QED
    BY <1>2, <1>13, <2>2 DEF IInv, FreshInv
<1>15. StoredInv'
  BY <1>2, <1>13 DEF IInv, StoredInv, Kept
<1> QED
  BY <1>11, <1>12, <1>14, <1>15 DEF IInv

(* A deletion takes the messages away and leaves its conversation unkept.   *)
LEMMA DeleteStep ==
  ASSUME IInv, NEW d \in Deletes, AskDelete(d) \/ CheckConversation(d) \/ DropConversation(d)
  PROVE  IInv'
<1> DEFINE k == DelConv[d]
<1>1. k \in Convs
  BY ConvsAssumption
<1>2. UNCHANGED <<count, memory, pc, history, held, expiries>>
  BY DEF AskDelete, CheckConversation, DropConversation, rowVars, localVars
<1>3. dpc \in [Deletes -> DeleteSteps] /\ messages \in [Convs -> Seq(Message)]
  BY DEF IInv, TypeOK
<1>4. \E from, to \in DeleteSteps :
        /\ GotoD(d, from, to)
        /\ from \notin {"done", "errored"}
        /\ \/ convs' = convs /\ messages' = messages
           \/ /\ to \in {"done", "errored"}
              /\ convs' = convs \ {k} /\ messages' = [messages EXCEPT ![k] = << >>]
  <2>1. CASE AskDelete(d)
    BY <2>1 DEF AskDelete, DeleteSteps, rowVars
  <2>2. CASE CheckConversation(d)
    BY <2>2 DEF CheckConversation, DeleteSteps, rowVars
  <2>3. CASE DropConversation(d)
    <3>1. PICK out \in Outcomes :
            /\ GotoD(d, "drop", IF out = "ok" THEN "done" ELSE "errored")
            /\ IF Applied(out)
               THEN convs' = convs \ {k} /\ messages' = [messages EXCEPT ![k] = << >>]
               ELSE UNCHANGED <<convs, messages>>
      BY <2>3 DEF DropConversation
    <3> QED
      BY <3>1 DEF DeleteSteps
  <2> QED
    BY <2>1, <2>2, <2>3
<1>5. PICK from, to \in DeleteSteps :
        /\ GotoD(d, from, to)
        /\ from \notin {"done", "errored"}
        /\ \/ convs' = convs /\ messages' = messages
           \/ /\ to \in {"done", "errored"}
              /\ convs' = convs \ {k} /\ messages' = [messages EXCEPT ![k] = << >>]
  BY <1>4
<1>6. /\ dpc' \in [Deletes -> DeleteSteps]
      /\ \A e \in Deletes : dpc'[e] = IF e = d THEN to ELSE dpc[e]
      /\ dpc[d] = from
  BY <1>3, <1>5 DEF GotoD
<1>7. \A j \in Convs : Kept(j)' => Kept(j)
  BY <1>5, <1>6 DEF Kept
<1>8. to \in {"done", "errored"} => ~Kept(k)'
  BY <1>6 DEF Kept
<1> HIDE DEF k
<1>9. /\ convs' \subseteq Convs /\ messages' \in [Convs -> Seq(Message)]
      /\ \A j \in Convs : messages'[j] = messages[j] \/ messages'[j] = << >>
      /\ \A j \in Convs : Kept(j)' => messages'[j] = messages[j] /\ (j \in convs => j \in convs')
  <2>1. convs \subseteq Convs
    BY DEF IInv, TypeOK
  <2>2. CASE convs' = convs /\ messages' = messages
    BY <1>3, <2>1, <2>2
  <2>3. CASE /\ to \in {"done", "errored"}
             /\ convs' = convs \ {k} /\ messages' = [messages EXCEPT ![k] = << >>]
    BY <1>1, <1>3, <1>8, <2>1, <2>3
  <2> QED
    BY <1>5, <2>2, <2>3
<1>10. \A x : ~In(x, << >>)
  BY DEF In
<1>11. NoDup(<< >>)
  BY DEF NoDup
<1>12. TypeOK'
  BY <1>2, <1>6, <1>9 DEF IInv, TypeOK
<1>13. UniqueInv'
  BY <1>2, <1>9, <1>11 DEF IInv, UniqueInv
<1>14. FreshInv'
  BY <1>2, <1>9, <1>10 DEF IInv, FreshInv
<1>15. StoredInv'
  BY <1>2, <1>7, <1>9, ConvsAssumption DEF IInv, StoredInv
<1> QED
  BY <1>12, <1>13, <1>14, <1>15 DEF IInv

LEMMA ExpireStep ==
  ASSUME IInv, NEW k \in Convs, Expire(k)
  PROVE  IInv'
<1>1. UNCHANGED <<convs, count, messages, pc, history, held, dpc>>
  BY DEF Expire, rowVars, localVars
<1>2. /\ expiries' \in 0 .. MaxExpiries
      /\ memory' \in [Convs -> Seq(Message)]
      /\ \A j \in Convs : memory'[j] = memory[j] \/ memory'[j] = << >>
  BY LimitsAssumption DEF Expire, IInv, TypeOK
<1>3. NoDup(<< >>) /\ \A c : ~OfChat(c, << >>)
  BY DEF NoDup, OfChat
<1>4. TypeOK'
  <2>1. \A j \in Convs : Len(memory'[j]) <= MaxMemory
    BY <1>2, LimitsAssumption DEF IInv, TypeOK
  <2> QED
    BY <1>1, <1>2, <2>1 DEF IInv, TypeOK
<1>5. UniqueInv'
  BY <1>1, <1>2, <1>3 DEF IInv, UniqueInv
<1>6. FreshInv'
  BY <1>1, <1>2, <1>3 DEF IInv, FreshInv
<1>7. StoredInv'
  BY <1>1 DEF IInv, StoredInv, Kept
<1> QED
  BY <1>4, <1>5, <1>6, <1>7 DEF IInv

LEMMA StutterStep ==
  ASSUME IInv, UNCHANGED vars
  PROVE  IInv'
<1>1. UNCHANGED <<convs, count, messages, memory, pc, history, held, dpc, expiries>>
  BY DEF vars, rowVars, localVars
<1> QED
  BY <1>1 DEF IInv, TypeOK, FreshInv, UniqueInv, StoredInv, Kept

LEMMA NextInv == IInv /\ [Next]_vars => IInv'
<1> SUFFICES ASSUME IInv, [Next]_vars PROVE IInv'
  OBVIOUS
<1>1. ASSUME NEW c \in Chats, Ask(c) \/ ChatStep(c) PROVE IInv'
  BY <1>1, QuietStep, CreateStep, LoadStep, InsertStep, CountStep, ReadStep, WriteStep
  DEF ChatStep
<1>2. ASSUME NEW d \in Deletes, AskDelete(d) \/ CheckConversation(d) \/ DropConversation(d)
      PROVE  IInv'
  BY <1>2, DeleteStep
<1>3. ASSUME NEW k \in Convs, Expire(k) PROVE IInv'
  BY <1>3, ExpireStep
<1>4. CASE UNCHANGED vars
  BY <1>4, StutterStep
<1> QED
  BY <1>1, <1>2, <1>3, <1>4 DEF Next

-----------------------------------------------------------------------------
(* The count of messages.                                                  *)

LEMMA FiniteCounts ==
  ASSUME NEW k \in Convs
  PROVE  /\ IsFiniteSet(Owing(k)) /\ IsFiniteSet(Uncounted(k))
         /\ IsFiniteSet(Owing(k)') /\ IsFiniteSet(Uncounted(k)')
         /\ Cardinality(Owing(k)) \in Nat /\ Cardinality(Uncounted(k)) \in Nat
         /\ Cardinality(Owing(k)') \in Nat /\ Cardinality(Uncounted(k)') \in Nat
<1>1. /\ Owing(k) \subseteq Chats /\ Uncounted(k) \subseteq Chats
      /\ Owing(k)' \subseteq Chats /\ Uncounted(k)' \subseteq Chats
  BY DEF Owing, Uncounted, ChatsOf
<1>2. /\ IsFiniteSet(Owing(k)) /\ IsFiniteSet(Uncounted(k))
      /\ IsFiniteSet(Owing(k)') /\ IsFiniteSet(Uncounted(k)')
  BY <1>1, ChatsAssumption, FS_Subset
<1> QED
  BY <1>2, FS_CardinalityType

(* Nothing happens to the rows of k, and no chat comes to owe it an UPDATE. *)
LEMMA CountFrame ==
  ASSUME IInv, CountInv, NEW k \in Convs,
         k \in convs' /\ Kept(k)' =>
           k \in convs /\ Kept(k) /\ messages'[k] = messages[k] /\ count'[k] = count[k],
         Owing(k)' \subseteq Owing(k), Uncounted(k) \subseteq Uncounted(k)',
         IInv'
  PROVE  k \in convs' /\ Kept(k)' =>
           /\ count'[k] + Cardinality(Owing(k)') <= Len(messages'[k])
           /\ Len(messages'[k]) <= count'[k] + Cardinality(Uncounted(k)')
<1> SUFFICES ASSUME k \in convs', Kept(k)'
             PROVE  /\ count'[k] + Cardinality(Owing(k)') <= Len(messages'[k])
                    /\ Len(messages'[k]) <= count'[k] + Cardinality(Uncounted(k)')
  OBVIOUS
<1>1. /\ Cardinality(Owing(k)') <= Cardinality(Owing(k))
      /\ Cardinality(Uncounted(k)) <= Cardinality(Uncounted(k)')
  BY FiniteCounts, FS_Subset
<1>2. /\ Cardinality(Owing(k)) \in Nat /\ Cardinality(Uncounted(k)) \in Nat
      /\ Cardinality(Owing(k)') \in Nat /\ Cardinality(Uncounted(k)') \in Nat
  BY FiniteCounts
<1>3. count[k] \in Nat /\ Len(messages[k]) \in Nat
  BY DEF IInv, TypeOK
<1>4. /\ count[k] + Cardinality(Owing(k)) <= Len(messages[k])
      /\ Len(messages[k]) <= count[k] + Cardinality(Uncounted(k))
  BY DEF CountInv
<1>5. count'[k] = count[k] /\ Len(messages'[k]) = Len(messages[k])
  OBVIOUS
<1> QED
  BY <1>1, <1>2, <1>3, <1>4, <1>5

(* A chat goes on without the tables.                                      *)
LEMMA CountUntouched ==
  ASSUME IInv, IInv', CountInv, NEW c \in Chats, NEW from, NEW to, Goto(c, from, to),
         to \notin {"countQuestion", "countAnswer"},
         from \in {"countQuestion", "countAnswer", "broken"} => to = "broken",
         UNCHANGED <<convs, count, messages, dpc>>
  PROVE  CountInv'
<1>1. \A d \in Chats : pc'[d] = IF d = c THEN to ELSE pc[d]
  BY DEF Goto, IInv, TypeOK
<1>2. pc[c] = from
  BY DEF Goto
<1>3. \A k \in Convs : Owing(k)' \subseteq Owing(k) /\ Uncounted(k) \subseteq Uncounted(k)'
  BY <1>1, <1>2 DEF Owing, Uncounted, ChatsOf
<1>4. \A k \in Convs : Kept(k)' <=> Kept(k)
  BY DEF Kept
<1>5. ASSUME NEW k \in Convs, k \in convs', Kept(k)'
      PROVE  /\ count'[k] + Cardinality(Owing(k)') <= Len(messages'[k])
             /\ Len(messages'[k]) <= count'[k] + Cardinality(Uncounted(k)')
  BY <1>3, <1>4, <1>5, CountFrame
<1> QED
  BY <1>5 DEF CountInv

(* A row of k more, and one more UPDATE that is owed or will not be made.   *)
LEMMA CountInserted ==
  ASSUME IInv, IInv', CountInv, NEW c \in Chats, SaveQuestion(c) \/ SaveAnswer(c)
  PROVE  CountInv'
<1> DEFINE k == ChatConv[c]
<1>1. k \in Convs
  BY ConvsAssumption
<1>2. PICK m, from, to :
        /\ InsertMessage(c, m, from, to)
        /\ m \in Message
        /\ from \in {"saveQuestion", "saveAnswer"} /\ to \in {"countQuestion", "countAnswer"}
  BY Messages DEF SaveQuestion, SaveAnswer
<1>3. UNCHANGED <<convs, count, dpc>>
  BY <1>2 DEF InsertMessage
<1>4. \/ Goto(c, from, "broken") /\ messages' = messages
      \/ /\ \E end \in {to, "broken"} : Goto(c, from, end)
         /\ k \in convs /\ messages' = [messages EXCEPT ![k] = Append(messages[k], m)]
  <2>1. PICK out \in Outcomes :
          /\ Goto(c, from, IF k \in convs THEN Try(out, to) ELSE "broken")
          /\ messages' = IF k \in convs /\ Applied(out)
                         THEN [messages EXCEPT ![k] = Append(messages[k], m)] ELSE messages
    BY <1>2 DEF InsertMessage
  <2>2. CASE k \in convs /\ Applied(out)
    BY <2>1, <2>2 DEF Try
  <2>3. CASE ~(k \in convs /\ Applied(out))
    BY <2>1, <2>3 DEF Try, Applied
  <2> QED
    BY <2>2, <2>3
<1>5. CASE Goto(c, from, "broken") /\ messages' = messages
  BY <1>2, <1>3, <1>5, CountUntouched
<1>6. ASSUME NEW end \in {to, "broken"}, Goto(c, from, end),
             k \in convs, messages' = [messages EXCEPT ![k] = Append(messages[k], m)]
      PROVE  CountInv'
  <2>1. (\A d \in Chats : pc'[d] = IF d = c THEN end ELSE pc[d]) /\ pc[c] = from
    BY <1>6 DEF Goto, IInv, TypeOK
  <2>2. \A j \in Convs : Kept(j)' <=> Kept(j)
    BY <1>3 DEF Kept
  <2>3. messages \in [Convs -> Seq(Message)] /\ count[k] \in Nat
    BY <1>1 DEF IInv, TypeOK
  <2>4. /\ Owing(k)' \subseteq Owing(k) \cup {c}
        /\ Uncounted(k)' = Uncounted(k) \cup {c} /\ c \notin Uncounted(k)
    BY <1>2, <2>1 DEF Owing, Uncounted, ChatsOf
  <2>5. \A j \in Convs \ {k} : Owing(j)' = Owing(j) /\ Uncounted(j)' = Uncounted(j)
    BY <2>1 DEF Owing, Uncounted, ChatsOf
  <2> HIDE DEF k
  <2>6. Len(messages'[k]) = Len(messages[k]) + 1 /\ Len(messages[k]) \in Nat
    <3> DEFINE longer == Append(messages[k], m)
    <3>1. Len(longer) = Len(messages[k]) + 1 /\ Len(messages[k]) \in Nat
      BY <1>1, <1>2, <2>3, AppendMessage
    <3> HIDE DEF longer
    <3>2. messages' = [messages EXCEPT ![k] = longer]
      BY <1>6 DEF longer
    <3>3. messages'[k] = longer
      BY <1>1, <2>3, <3>2
    <3> QED
      BY <3>1, <3>3
  <2>7. /\ Cardinality(Owing(k)') <= Cardinality(Owing(k)) + 1
        /\ Cardinality(Uncounted(k)') = Cardinality(Uncounted(k)) + 1
    <3>1. /\ Cardinality(Uncounted(k) \cup {c}) = Cardinality(Uncounted(k)) + 1
          /\ IsFiniteSet(Owing(k) \cup {c})
      BY <1>1, <2>4, FiniteCounts, FS_AddElement
    <3>2. Cardinality(Owing(k) \cup {c}) \in {Cardinality(Owing(k)), Cardinality(Owing(k)) + 1}
      BY <1>1, FiniteCounts, FS_AddElement
    <3>3. Cardinality(Owing(k)') <= Cardinality(Owing(k) \cup {c})
      BY <2>4, <3>1, FS_Subset
    <3>4. Cardinality(Owing(k)) \in Nat /\ Cardinality(Owing(k)') \in Nat
      BY <1>1, FiniteCounts
    <3> QED
      BY <2>4, <3>1, <3>2, <3>3, <3>4
  <2>8. Kept(k) => /\ count[k] + Cardinality(Owing(k)) <= Len(messages[k])
                   /\ Len(messages[k]) <= count[k] + Cardinality(Uncounted(k))
    BY <1>1, <1>6 DEF CountInv
  <2>9. /\ Cardinality(Owing(k)) \in Nat /\ Cardinality(Uncounted(k)) \in Nat
        /\ Cardinality(Owing(k)') \in Nat
    BY <1>1, FiniteCounts
  <2>10. Kept(k)' => /\ count'[k] + Cardinality(Owing(k)') <= Len(messages'[k])
                     /\ Len(messages'[k]) <= count'[k] + Cardinality(Uncounted(k)')
    BY <1>3, <2>2, <2>3, <2>6, <2>7, <2>8, <2>9, <1>1
  <2>11. ASSUME NEW j \in Convs, j # k
         PROVE  /\ messages'[j] = messages[j]
                /\ j \in convs' /\ Kept(j)' =>
                     /\ count'[j] + Cardinality(Owing(j)') <= Len(messages'[j])
                     /\ Len(messages'[j]) <= count'[j] + Cardinality(Uncounted(j)')
    <3>1. messages'[j] = messages[j]
      BY <1>6, <2>3, <2>11
    <3>2. Owing(j)' \subseteq Owing(j) /\ Uncounted(j) \subseteq Uncounted(j)'
      BY <2>5, <2>11
    <3> QED
      BY <1>3, <2>2, <3>1, <3>2, CountFrame
  <2> QED
    BY <1>3, <1>6, <2>10, <2>11 DEF CountInv
<1> QED
  BY <1>4, <1>5, <1>6

(* The UPDATE that was owed to k.                                          *)
LEMMA CountUpdated ==
  ASSUME IInv, IInv', CountInv, NEW c \in Chats, CountQuestion(c) \/ CountAnswer(c)
  PROVE  CountInv'
<1> DEFINE k == ChatConv[c]
<1>1. k \in Convs
  BY ConvsAssumption
<1>2. PICK from, to :
        /\ CountMessage(c, from, to)
        /\ from \in {"countQuestion", "countAnswer"} /\ to \in {"stream", "readMemory"}
  BY DEF CountQuestion, CountAnswer
<1>3. UNCHANGED <<convs, messages, dpc>>
  BY <1>2 DEF CountMessage
<1>4. \A j \in Convs : Kept(j)' <=> Kept(j)
  BY <1>3 DEF Kept
<1>5. PICK end \in {to, "broken"} :
        /\ Goto(c, from, end)
        /\ count' = count => end = "broken" \/ k \notin convs
        /\ \/ count' = count
           \/ k \in convs /\ count' = [count EXCEPT ![k] = count[k] + 1]
  <2>1. PICK out \in Outcomes :
          /\ Goto(c, from, Try(out, to))
          /\ count' = IF k \in convs /\ Applied(out)
                      THEN [count EXCEPT ![k] = count[k] + 1] ELSE count
    BY <1>2 DEF CountMessage
  <2>2. count \in [Convs -> Nat]
    BY DEF IInv, TypeOK
  <2>3. CASE k \in convs /\ Applied(out)
    <3>1. count'[k] = count[k] + 1 /\ count[k] \in Nat
      BY <1>1, <2>1, <2>2, <2>3
    <3>2. count' # count
      BY <3>1
    <3> QED
      BY <2>1, <2>3, <3>2 DEF Try
  <2>4. CASE ~(k \in convs /\ Applied(out))
    BY <2>1, <2>4 DEF Try, Applied
  <2> QED
    BY <2>3, <2>4
<1>6. (\A d \in Chats : pc'[d] = IF d = c THEN end ELSE pc[d]) /\ pc[c] = from
  BY <1>5 DEF Goto, IInv, TypeOK
<1>7. /\ Owing(k)' = Owing(k) \ {c} /\ c \in Owing(k)
      /\ Uncounted(k) \ {c} \subseteq Uncounted(k)' /\ c \in Uncounted(k)
      /\ end = "broken" => Uncounted(k) \subseteq Uncounted(k)'
  BY <1>2, <1>6 DEF Owing, Uncounted, ChatsOf
<1>8. \A j \in Convs \ {k} : Owing(j)' = Owing(j) /\ Uncounted(j)' = Uncounted(j)
  BY <1>6 DEF Owing, Uncounted, ChatsOf
<1> HIDE DEF k
<1>9. ASSUME k \in convs, Kept(k)
      PROVE  /\ count'[k] + Cardinality(Owing(k)') <= Len(messages[k])
             /\ Len(messages[k]) <= count'[k] + Cardinality(Uncounted(k)')
  <2>1. CASE count' = count
    <3>1. Owing(k)' \subseteq Owing(k) /\ Uncounted(k) \subseteq Uncounted(k)'
      BY <1>5, <1>7, <1>9, <2>1
    <3> QED
      BY <1>1, <1>3, <1>4, <1>9, <2>1, <3>1, CountFrame
  <2>2. CASE count' = [count EXCEPT ![k] = count[k] + 1]
    <3>1. count'[k] = count[k] + 1 /\ count[k] \in Nat /\ Len(messages[k]) \in Nat
      BY <1>1, <2>2 DEF IInv, TypeOK
    <3>2. /\ count[k] + Cardinality(Owing(k)) <= Len(messages[k])
          /\ Len(messages[k]) <= count[k] + Cardinality(Uncounted(k))
      BY <1>1, <1>9 DEF CountInv
    <3>3. /\ Cardinality(Owing(k)) \in Nat /\ Cardinality(Owing(k)') \in Nat
          /\ Cardinality(Uncounted(k)) \in Nat /\ Cardinality(Uncounted(k)') \in Nat
      BY <1>1, FiniteCounts
    <3>4. Cardinality(Owing(k)') = Cardinality(Owing(k)) - 1
      BY <1>1, <1>7, FiniteCounts, FS_RemoveElement
    <3>5. Cardinality(Uncounted(k) \ {c}) = Cardinality(Uncounted(k)) - 1
      BY <1>1, <1>7, FiniteCounts, FS_RemoveElement
    <3>6. Cardinality(Uncounted(k) \ {c}) <= Cardinality(Uncounted(k)')
      BY <1>1, <1>7, FiniteCounts, FS_Subset
    <3> QED
      BY <3>1, <3>2, <3>3, <3>4, <3>5, <3>6
  <2> QED
    BY <1>5, <2>1, <2>2
<1>10. ASSUME NEW j \in Convs, j # k
       PROVE  j \in convs' /\ Kept(j)' =>
                /\ count'[j] + Cardinality(Owing(j)') <= Len(messages'[j])
                /\ Len(messages'[j]) <= count'[j] + Cardinality(Uncounted(j)')
  <2>1. count'[j] = count[j]
    BY <1>1, <1>5, <1>10 DEF IInv, TypeOK
  <2>2. Owing(j)' \subseteq Owing(j) /\ Uncounted(j) \subseteq Uncounted(j)'
    BY <1>8, <1>10
  <2> QED
    BY <1>3, <1>4, <2>1, <2>2, CountFrame
<1> QED
  BY <1>1, <1>3, <1>4, <1>9, <1>10 DEF CountInv

(* A new conversation has no messages, and no chat is past its creation.   *)
LEMMA CountCreated ==
  ASSUME IInv, IInv', CountInv, NEW c \in Chats, CreateConversation(c)
  PROVE  CountInv'
<1> DEFINE k == ChatConv[c]
<1>1. k \in Convs
  BY ConvsAssumption
<1>2. PICK from \in {"create", "createNew"}, to \in {"retrieve", "refused", "untold"} :
        Goto(c, from, to)
  BY DEF CreateConversation, Goto
<1>3. UNCHANGED <<messages, dpc>>
  BY DEF CreateConversation
<1>4. \A j \in Convs : Kept(j)' <=> Kept(j)
  BY <1>3 DEF Kept
<1>5. \/ k \notin convs /\ convs' = convs \cup {k} /\ count' = [count EXCEPT ![k] = 0]
      \/ convs' = convs /\ count' = count
  BY Zenon DEF CreateConversation
<1>6. CASE convs' = convs /\ count' = count
  BY <1>2, <1>3, <1>6, CountUntouched
<1>7. CASE k \notin convs /\ convs' = convs \cup {k} /\ count' = [count EXCEPT ![k] = 0]
  <2>1. (\A d \in Chats : pc'[d] = IF d = c THEN to ELSE pc[d]) /\ pc[c] = from
    BY <1>2 DEF Goto, IInv, TypeOK
  <2>2. \A j \in Convs : Owing(j)' \subseteq Owing(j) /\ Uncounted(j) \subseteq Uncounted(j)'
    BY <2>1 DEF Owing, Uncounted, ChatsOf
  <2>3. Kept(k) => Owing(k) = {}
    BY <1>7 DEF IInv, StoredInv, Owing, ChatsOf, AfterCreation, AfterQuestion, AfterAnswer
  <2> HIDE DEF k
  <2>4. count'[k] = 0 /\ messages'[k] = << >>
    BY <1>1, <1>3, <1>7 DEF IInv, TypeOK, CountInv
  <2>5. Kept(k) => Cardinality(Owing(k)') = 0
    BY <1>1, <2>2, <2>3, FiniteCounts, FS_EmptySet
  <2>6. Cardinality(Uncounted(k)') \in Nat
    BY <1>1, FiniteCounts
  <2>7. Kept(k)' => /\ count'[k] + Cardinality(Owing(k)') <= Len(messages'[k])
                    /\ Len(messages'[k]) <= count'[k] + Cardinality(Uncounted(k)')
    BY <1>1, <1>4, <2>4, <2>5, <2>6
  <2>8. ASSUME NEW j \in Convs, j # k
        PROVE  j \in convs' /\ Kept(j)' =>
                 /\ count'[j] + Cardinality(Owing(j)') <= Len(messages'[j])
                 /\ Len(messages'[j]) <= count'[j] + Cardinality(Uncounted(j)')
    <3>1. count'[j] = count[j] /\ (j \in convs' <=> j \in convs)
      BY <1>1, <1>7, <2>8 DEF IInv, TypeOK
    <3> QED
      BY <1>3, <1>4, <2>2, <3>1, CountFrame
  <2> QED
    BY <1>3, <1>7, <2>7, <2>8 DEF CountInv
<1> QED
  BY <1>5, <1>6, <1>7

LEMMA CountDeleted ==
  ASSUME IInv, IInv', CountInv,
         NEW d \in Deletes, AskDelete(d) \/ CheckConversation(d) \/ DropConversation(d)
  PROVE  CountInv'
<1> DEFINE k == DelConv[d]
<1>1. k \in Convs
  BY ConvsAssumption
<1>2. UNCHANGED <<count, pc>>
  BY DEF AskDelete, CheckConversation, DropConversation, rowVars
<1>3. \/ /\ UNCHANGED <<convs, messages>>
         /\ \A j \in Convs : Kept(j)' => Kept(j)
      \/ /\ ~Kept(k)' /\ \A j \in Convs : Kept(j)' => Kept(j)
         /\ convs' = convs \ {k} /\ messages' = [messages EXCEPT ![k] = << >>]
  <2>1. dpc \in [Deletes -> DeleteSteps]
    BY DEF IInv, TypeOK
  <2>2. CASE AskDelete(d) \/ CheckConversation(d)
    <3>1. UNCHANGED <<convs, messages>>
      BY <2>2 DEF AskDelete, CheckConversation, rowVars
    <3>2. PICK to : GotoD(d, "idle", to) \/ GotoD(d, "check", to)
      BY <2>2 DEF AskDelete, CheckConversation
    <3>3. \A e \in Deletes : dpc'[e] = dpc[e] \/ e = d
      BY <2>1, <3>2 DEF GotoD
    <3>4. dpc[d] \notin {"done", "errored"}
      BY <3>2 DEF GotoD
    <3> QED
      BY <3>1, <3>3, <3>4 DEF Kept
  <2>3. CASE DropConversation(d)
    <3>1. PICK to \in {"done", "errored"} : GotoD(d, "drop", to)
      BY <2>3 DEF DropConversation
    <3>2. \A e \in Deletes : dpc'[e] = IF e = d THEN to ELSE dpc[e]
      BY <2>1, <3>1 DEF GotoD
    <3>3. dpc[d] = "drop"
      BY <3>1 DEF GotoD
    <3>4. ~Kept(k)' /\ \A j \in Convs : Kept(j)' => Kept(j)
      BY <3>2, <3>3 DEF Kept
    <3>5. \/ convs' = convs \ {k} /\ messages' = [messages EXCEPT ![k] = << >>]
          \/ UNCHANGED <<convs, messages>>
      BY <2>3 DEF DropConversation
    <3> QED
      BY <3>4, <3>5
  <2> QED
    BY <2>2, <2>3
<1>4. \A j \in Convs : Owing(j)' = Owing(j) /\ Uncounted(j)' = Uncounted(j)
  BY <1>2 DEF Owing, Uncounted, ChatsOf
<1> HIDE DEF k
<1>5. messages \in [Convs -> Seq(Message)]
  BY DEF IInv, TypeOK
<1>6. ASSUME NEW j \in Convs
      PROVE  /\ j \notin convs' => messages'[j] = << >>
             /\ j \in convs' /\ Kept(j)' => j \in convs /\ Kept(j) /\ messages'[j] = messages[j]
  BY <1>1, <1>3, <1>5 DEF CountInv
<1>7. ASSUME NEW j \in Convs
      PROVE  j \in convs' /\ Kept(j)' =>
               /\ count'[j] + Cardinality(Owing(j)') <= Len(messages'[j])
               /\ Len(messages'[j]) <= count'[j] + Cardinality(Uncounted(j)')
  BY <1>2, <1>4, <1>6, CountFrame
<1> QED
  BY <1>6, <1>7 DEF CountInv

LEMMA CountNext == IInv /\ IInv' /\ CountInv /\ [Next]_vars => CountInv'
<1> SUFFICES ASSUME IInv, IInv', CountInv, [Next]_vars PROVE CountInv'
  OBVIOUS
<1>1. ASSUME NEW c \in Chats,
             Ask(c) \/ GetConversation(c) \/ Retrieve(c) \/ LoadMemory(c) \/ LoadRecent(c)
               \/ Stream(c) \/ ReadMemory(c) \/ WriteMemory(c)
      PROVE  CountInv'
  <2>1. UNCHANGED <<convs, count, messages, dpc>>
    BY <1>1 DEF Ask, GetConversation, Retrieve, LoadMemory, LoadRecent, Stream, ReadMemory,
                WriteMemory, rowVars
  <2>2. \E from \in ChatSteps, to \in ChatSteps :
          /\ Goto(c, from, to)
          /\ to \notin {"countQuestion", "countAnswer"}
          /\ from \notin {"countQuestion", "countAnswer", "broken"}
    <3>1. CASE Ask(c) \/ GetConversation(c)
      BY <3>1, Zenon DEF Ask, GetConversation, ChatSteps
    <3>2. CASE Retrieve(c) \/ LoadMemory(c) \/ LoadRecent(c)
      BY <3>2 DEF Retrieve, LoadMemory, LoadRecent, Try, ChatSteps
    <3>3. CASE Stream(c) \/ ReadMemory(c) \/ WriteMemory(c)
      BY <3>3 DEF Stream, ReadMemory, WriteMemory, Try, ChatSteps
    <3> QED
      BY <1>1, <3>1, <3>2, <3>3
  <2> QED
    BY <2>1, <2>2, CountUntouched
<1>2. ASSUME NEW c \in Chats, Ask(c) \/ ChatStep(c) PROVE CountInv'
  BY <1>1, <1>2, CountCreated, CountInserted, CountUpdated DEF ChatStep
<1>3. ASSUME NEW d \in Deletes, AskDelete(d) \/ CheckConversation(d) \/ DropConversation(d)
      PROVE  CountInv'
  BY <1>3, CountDeleted
<1>4. ASSUME UNCHANGED <<convs, count, messages, pc, dpc>> PROVE CountInv'
  BY <1>4 DEF CountInv, Kept, Owing, Uncounted, ChatsOf
<1>5. ASSUME NEW k \in Convs, Expire(k) PROVE CountInv'
  BY <1>4, <1>5 DEF Expire, rowVars
<1>6. CASE UNCHANGED vars
  BY <1>4, <1>6 DEF vars, rowVars
<1> QED
  BY <1>2, <1>3, <1>5, <1>6 DEF Next

-----------------------------------------------------------------------------
(* The memory.                                                             *)

LEMMA StoredStays ==
  ASSUME IInv, [Next]_vars, NEW k \in Convs, Kept(k)'
  PROVE  Kept(k) /\ \A x : In(x, messages[k]) => In(x, messages'[k])
<1>1. messages \in [Convs -> Seq(Message)] /\ dpc \in [Deletes -> DeleteSteps]
  BY DEF IInv, TypeOK
<1>2. ASSUME UNCHANGED <<messages, dpc>>
      PROVE  Kept(k) /\ \A x : In(x, messages[k]) => In(x, messages'[k])
  BY <1>2 DEF Kept
<1>3. ASSUME NEW c \in Chats, Ask(c) \/ ChatStep(c)
      PROVE  Kept(k) /\ \A x : In(x, messages[k]) => In(x, messages'[k])
  <2>1. CASE SaveQuestion(c) \/ SaveAnswer(c)
    <3>1. PICK m, from, to : m \in Message /\ InsertMessage(c, m, from, to)
      BY <2>1, Messages DEF SaveQuestion, SaveAnswer
    <3>2. dpc' = dpc
      BY <3>1 DEF InsertMessage
    <3>3. \/ messages' = messages
          \/ messages' = [messages EXCEPT ![ChatConv[c]] = Append(messages[ChatConv[c]], m)]
      BY <3>1 DEF InsertMessage
    <3>4. messages'[k] = messages[k] \/ messages'[k] = Append(messages[k], m)
      BY <1>1, <3>3
    <3>5. \A x : In(x, messages[k]) => In(x, Append(messages[k], m))
      BY <1>1, <3>1, AppendIn
    <3> QED
      BY <3>2, <3>4, <3>5 DEF Kept
  <2>2. CASE ~(SaveQuestion(c) \/ SaveAnswer(c))
    <3>1. UNCHANGED <<messages, dpc>>
      BY <1>3, <2>2 DEF ChatStep, Ask, GetConversation, CreateConversation, Retrieve, LoadMemory,
         LoadRecent, CountQuestion, CountAnswer, CountMessage, Stream, ReadMemory, WriteMemory,
         rowVars
    <3> QED
      BY <1>2, <3>1
  <2> QED
    BY <2>1, <2>2
<1>4. ASSUME NEW d \in Deletes, AskDelete(d) \/ CheckConversation(d) \/ DropConversation(d)
      PROVE  Kept(k) /\ \A x : In(x, messages[k]) => In(x, messages'[k])
  <2>1. \E to : GotoD(d, "idle", to) \/ GotoD(d, "check", to)
                  \/ (GotoD(d, "drop", to) /\ to \in {"done", "errored"})
    BY <1>4 DEF AskDelete, CheckConversation, DropConversation
  <2>2. /\ \A e \in Deletes : e # d => dpc'[e] = dpc[e]
        /\ dpc[d] \in {"idle", "check", "drop"}
        /\ dpc[d] = "drop" => dpc'[d] \in {"done", "errored"}
    BY <1>1, <2>1 DEF GotoD
  <2>3. Kept(k)
    BY <2>2 DEF Kept
  <2>4. CASE AskDelete(d) \/ CheckConversation(d)
    <3>1. messages' = messages
      BY <2>4 DEF AskDelete, CheckConversation, rowVars
    <3> QED
      BY <2>3, <3>1
  <2>5. CASE DropConversation(d)
    <3>1. DelConv[d] # k
      BY <2>2, <2>5 DEF Kept, DropConversation, GotoD
    <3>2. messages' = messages \/ messages' = [messages EXCEPT ![DelConv[d]] = << >>]
      BY <2>5 DEF DropConversation
    <3>3. messages'[k] = messages[k]
      BY <1>1, <3>1, <3>2
    <3> QED
      BY <2>3, <3>3
  <2> QED
    BY <1>4, <2>4, <2>5
<1>5. ASSUME NEW j \in Convs, Expire(j) PROVE UNCHANGED <<messages, dpc>>
  BY <1>5 DEF Expire, rowVars
<1>6. CASE UNCHANGED vars
  BY <1>2, <1>6 DEF vars, rowVars
<1> QED
  BY <1>2, <1>3, <1>4, <1>5, <1>6 DEF Next

LEMMA WholeEmpty == \A k, rows : Whole(k, << >>) /\ AllIn(<< >>, rows)
  BY DEF Whole, AllIn

(* An exchange goes behind the others, and an even number of messages is cut off. *)
LEMMA WholeLonger ==
  ASSUME NEW k, NEW s \in Seq(Message), Whole(k, s), NEW c \in ChatsOf(k)
  PROVE  LET t == s \o <<Question(c), Answer(c)>> IN
         /\ Whole(k, t)
         /\ \A rows : AllIn(s, rows) /\ In(Question(c), rows) /\ In(Answer(c), rows) => AllIn(t, rows)
<1> DEFINE q == Question(c)  a == Answer(c)  t == s \o <<q, a>>
<1>1. /\ q \in Message /\ a \in Message /\ q.chat = c /\ a.chat = c
      /\ q = Question(q.chat) /\ a = Answer(q.chat) /\ q = Question(a.chat) /\ a = Answer(a.chat)
  BY Messages DEF ChatsOf
<1> HIDE DEF q, a
<1>3. t \in Seq(Message) /\ Len(t) = Len(s) + 2 /\ Len(s) \in Nat
  BY <1>1
<1>4. /\ \A i \in 1 .. Len(s) : t[i] = s[i]
      /\ t[Len(s) + 1] = q /\ t[Len(s) + 2] = a
  BY <1>1
<1> HIDE DEF t
<1>5. Len(s) % 2 = 0
  BY DEF Whole
<1>6. Len(t) % 2 = 0
  BY <1>3, <1>5
<1>7. ASSUME NEW i \in 1 .. Len(t)
      PROVE  /\ t[i].chat \in ChatsOf(k)
             /\ i % 2 = 1 => t[i] = Question(t[i].chat) /\ t[i + 1] = Answer(t[i].chat)
             /\ i % 2 = 0 => t[i] = Answer(t[i].chat) /\ t[i - 1] = Question(t[i].chat)
  <2>1. CASE i \in 1 .. Len(s)
    <3>1. /\ s[i].chat \in ChatsOf(k)
          /\ i % 2 = 1 => s[i] = Question(s[i].chat) /\ s[i + 1] = Answer(s[i].chat)
          /\ i % 2 = 0 => s[i] = Answer(s[i].chat) /\ s[i - 1] = Question(s[i].chat)
      BY <2>1 DEF Whole
    <3>2. t[i] = s[i]
      BY <1>4, <2>1
    <3>3. i % 2 = 1 => t[i + 1] = s[i + 1]
      <4>1. i % 2 = 1 => i + 1 \in 1 .. Len(s)
        BY <1>3, <1>5, <2>1
      <4> QED
        BY <1>4, <4>1
    <3>4. i % 2 = 0 => t[i - 1] = s[i - 1]
      <4>1. i % 2 = 0 => i - 1 \in 1 .. Len(s)
        BY <1>3, <2>1
      <4> QED
        BY <1>4, <4>1
    <3> QED
      BY <3>1, <3>2, <3>3, <3>4
  <2>2. CASE i = Len(s) + 1
    <3>1. i % 2 = 1 /\ i % 2 # 0 /\ i + 1 = Len(s) + 2
      BY <1>3, <1>5, <2>2
    <3> QED
      BY <1>1, <1>4, <2>2, <3>1
  <2>3. CASE i = Len(s) + 2
    <3>1. i % 2 = 0 /\ i % 2 # 1 /\ i - 1 = Len(s) + 1
      BY <1>3, <1>5, <2>3
    <3> QED
      BY <1>1, <1>4, <2>3, <3>1
  <2> QED
    BY <1>3, <1>7, <2>1, <2>2, <2>3
<1>8. Whole(k, t)
  BY <1>6, <1>7 DEF Whole
<1>9. \A i \in 1 .. Len(t) : i \in 1 .. Len(s) \/ t[i] = q \/ t[i] = a
  BY <1>3, <1>4
<1>10. \A rows : AllIn(s, rows) /\ In(q, rows) /\ In(a, rows) => AllIn(t, rows)
  BY <1>4, <1>9 DEF AllIn
<1> QED
  BY <1>8, <1>10 DEF t, q, a

LEMMA EvenRest ==
  ASSUME NEW a \in Nat, NEW b \in Nat, NEW d \in Nat, a % 2 = 0, b % 2 = 0, b + d = a
  PROVE  d % 2 = 0
  OBVIOUS

LEMMA EvenShift ==
  ASSUME NEW i \in Nat, NEW d \in Nat, d % 2 = 0
  PROVE  (i + d) % 2 = i % 2
  OBVIOUS

LEMMA WholeWindow ==
  ASSUME NEW k, NEW s \in Seq(Message), Whole(k, s), NEW n \in Nat, n % 2 = 0
  PROVE  /\ Whole(k, LastItems(s, n))
         /\ \A rows : AllIn(s, rows) => AllIn(LastItems(s, n), rows)
<1> DEFINE t == LastItems(s, n)
<1>1. t \in Seq(Message) /\ Len(t) \in Nat /\ Len(s) \in Nat
  <2>1. t \in Seq(Message)
    BY LastItemsPart
  <2> QED
    BY <2>1
<1>2. Len(t) = Len(s) \/ Len(t) = n
  <2>1. CASE Len(s) <= n
    BY <2>1 DEF LastItems
  <2>2. CASE Len(s) > n
    BY <1>1, <2>2 DEF LastItems
  <2> QED
    BY <1>1, <2>1, <2>2
<1>3. PICK d \in Nat : Len(t) + d = Len(s) /\ \A i \in 1 .. Len(t) : t[i] = s[i + d]
  BY LastItemsPart
<1> HIDE DEF t
<1>4. Len(s) % 2 = 0
  BY DEF Whole
<1>5. Len(t) % 2 = 0 /\ d % 2 = 0
  <2>1. Len(t) % 2 = 0
    BY <1>2, <1>4
  <2> QED
    BY <1>1, <1>3, <1>4, <2>1, EvenRest
<1>6. ASSUME NEW i \in 1 .. Len(t)
      PROVE  /\ t[i].chat \in ChatsOf(k)
             /\ i % 2 = 1 => t[i] = Question(t[i].chat) /\ t[i + 1] = Answer(t[i].chat)
             /\ i % 2 = 0 => t[i] = Answer(t[i].chat) /\ t[i - 1] = Question(t[i].chat)
  <2>1. i + d \in 1 .. Len(s) /\ (i + d) % 2 = i % 2
    <3>1. i \in Nat /\ i + d \in 1 .. Len(s)
      BY <1>1, <1>3
    <3> QED
      BY <1>5, <3>1, EvenShift
  <2>2. /\ s[i + d].chat \in ChatsOf(k)
        /\ (i + d) % 2 = 1 => /\ s[i + d] = Question(s[i + d].chat)
                              /\ s[i + d + 1] = Answer(s[i + d].chat)
        /\ (i + d) % 2 = 0 => /\ s[i + d] = Answer(s[i + d].chat)
                              /\ s[i + d - 1] = Question(s[i + d].chat)
    <3> DEFINE h == i + d
    <3>1. /\ s[h].chat \in ChatsOf(k)
          /\ h % 2 = 1 => s[h] = Question(s[h].chat) /\ s[h + 1] = Answer(s[h].chat)
          /\ h % 2 = 0 => s[h] = Answer(s[h].chat) /\ s[h - 1] = Question(s[h].chat)
      <4>1. h \in 1 .. Len(s)
        BY <2>1
      <4> HIDE DEF h
      <4> QED
        BY <4>1 DEF Whole
    <3> QED
      BY <3>1
  <2>3. t[i] = s[i + d]
    BY <1>3
  <2>4. i % 2 = 1 => t[i + 1] = s[i + d + 1]
    <3>1. i % 2 = 1 => i + 1 \in 1 .. Len(t) /\ i + 1 + d = i + d + 1
      BY <1>1, <1>5
    <3> QED
      BY <1>3, <3>1
  <2>5. i % 2 = 0 => t[i - 1] = s[i + d - 1]
    <3>1. i % 2 = 0 => i - 1 \in 1 .. Len(t) /\ i - 1 + d = i + d - 1
      BY <1>1
    <3> QED
      BY <1>3, <3>1
  <2> QED
    BY <2>1, <2>2, <2>3, <2>4, <2>5
<1>7. Whole(k, t)
  BY <1>5, <1>6 DEF Whole
<1>8. \A i \in 1 .. Len(t) : i + d \in 1 .. Len(s)
  BY <1>1, <1>3
<1>9. \A rows : AllIn(s, rows) => AllIn(t, rows)
  BY <1>3, <1>8 DEF AllIn
<1> QED
  BY <1>7, <1>9 DEF t

LEMMA MemoryNext ==
  ASSUME MaxMemory % 2 = 0, IInv, MemoryInv, [Next]_vars
  PROVE  MemoryInv'
<1>1. \A k \in Convs : Kept(k)' => Kept(k) /\ \A x : In(x, messages[k]) => In(x, messages'[k])
  BY StoredStays
<1>2. ASSUME NEW k \in Convs, NEW s, Kept(k) => AllIn(s, messages[k]), Kept(k)'
      PROVE  AllIn(s, messages'[k])
  BY <1>1, <1>2 DEF AllIn
<1>3. memory \in [Convs -> Seq(Message)] /\ held \in [Chats -> Seq(Message)]
  BY DEF IInv, TypeOK
<1>4. ASSUME NEW k \in Convs
      PROVE  Whole(k, memory'[k]) /\ (Kept(k)' => AllIn(memory'[k], messages'[k]))
  <2>1. Whole(k, memory[k]) /\ (Kept(k) => AllIn(memory[k], messages[k]))
    BY DEF MemoryInv
  <2>2. CASE memory'[k] = memory[k]
    BY <1>2, <2>1, <2>2
  <2>3. CASE memory'[k] = << >>
    BY <2>3, WholeEmpty
  <2>4. ASSUME NEW c \in Chats, WriteMemory(c), memory'[k] # memory[k]
        PROVE  Whole(k, memory'[k]) /\ (Kept(k)' => AllIn(memory'[k], messages'[k]))
    <3> DEFINE longer == held[c] \o <<Question(c), Answer(c)>>
               window == LastItems(longer, MaxMemory)
    <3>1. memory' = [memory EXCEPT ![ChatConv[c]] = window]
      BY <2>4 DEF WriteMemory
    <3>2. pc[c] = "writeMemory"
      BY <2>4 DEF WriteMemory, Goto
    <3>3. held[c] \in Seq(Message)
      BY <1>3
    <3>4. longer \in Seq(Message)
      BY <3>3, Messages
    <3>5. ChatConv[c] = k /\ memory'[k] = window
      <4> HIDE DEF window
      <4> QED
        BY <1>3, <2>4, <3>1
    <3>6. Whole(k, held[c]) /\ (Kept(k) => AllIn(held[c], messages[k]))
      BY <3>5 DEF MemoryInv
    <3>7. Kept(k) => In(Question(c), messages[k]) /\ In(Answer(c), messages[k])
      BY <3>2, <3>5 DEF IInv, StoredInv, AfterQuestion, AfterAnswer
    <3>8. c \in ChatsOf(k)
      BY <3>5 DEF ChatsOf
    <3>9. Whole(k, longer) /\ (Kept(k) => AllIn(longer, messages[k]))
      BY <3>3, <3>6, <3>7, <3>8, WholeLonger
    <3> HIDE DEF longer
    <3>10. Whole(k, window) /\ (Kept(k) => AllIn(window, messages[k]))
      BY <3>4, <3>9, WholeWindow, LimitsAssumption
    <3> HIDE DEF window
    <3>11. Kept(k)' => AllIn(window, messages'[k])
      BY <1>2, <3>10
    <3> QED
      BY <3>5, <3>10, <3>11
  <2>5. \/ memory' = memory
        \/ \E j \in Convs : memory' = [memory EXCEPT ![j] = << >>]
        \/ \E c \in Chats : WriteMemory(c)
    <3>1. ASSUME NEW c \in Chats, Ask(c) \/ ChatStep(c), ~WriteMemory(c)
          PROVE  memory' = memory
      BY <3>1 DEF ChatStep, Ask, GetConversation, CreateConversation, Retrieve, LoadMemory,
         LoadRecent, SaveQuestion, SaveAnswer, InsertMessage, CountQuestion, CountAnswer,
         CountMessage, Stream, ReadMemory
    <3>2. ASSUME NEW d \in Deletes, AskDelete(d) \/ CheckConversation(d) \/ DropConversation(d)
          PROVE  memory' = memory
      BY <3>2 DEF AskDelete, CheckConversation, DropConversation
    <3>3. ASSUME NEW j \in Convs, Expire(j) PROVE memory' = [memory EXCEPT ![j] = << >>]
      BY <3>3 DEF Expire
    <3>4. CASE UNCHANGED vars
      BY <3>4 DEF vars
    <3> QED
      BY <3>1, <3>2, <3>3, <3>4 DEF Next
  <2>6. CASE \E j \in Convs : memory' = [memory EXCEPT ![j] = << >>]
    <3>1. memory'[k] = memory[k] \/ memory'[k] = << >>
      BY <1>3, <2>6
    <3> QED
      BY <2>2, <2>3, <3>1
  <2>7. CASE \E c \in Chats : WriteMemory(c)
    BY <2>2, <2>4, <2>7
  <2> QED
    BY <2>2, <2>5, <2>6, <2>7
<1>5. ASSUME NEW c \in Chats
      PROVE  /\ Whole(ChatConv[c], held'[c])
             /\ Kept(ChatConv[c])' => AllIn(held'[c], messages'[ChatConv[c]])
  <2>1. /\ Whole(ChatConv[c], held[c]) /\ (Kept(ChatConv[c]) => AllIn(held[c], messages[ChatConv[c]]))
        /\ /\ Whole(ChatConv[c], memory[ChatConv[c]])
           /\ Kept(ChatConv[c]) => AllIn(memory[ChatConv[c]], messages[ChatConv[c]])
        /\ ChatConv[c] \in Convs
    BY ConvsAssumption DEF MemoryInv
  <2>2. held'[c] = held[c] \/ held'[c] = memory[ChatConv[c]]
    <3>1. ASSUME NEW e \in Chats, Ask(e) \/ ChatStep(e), ~ReadMemory(e)
          PROVE  held' = held
      BY <3>1 DEF ChatStep, Ask, GetConversation, CreateConversation, Retrieve, LoadMemory,
         LoadRecent, SaveQuestion, SaveAnswer, InsertMessage, CountQuestion, CountAnswer,
         CountMessage, Stream, WriteMemory, localVars
    <3>2. ASSUME NEW e \in Chats, ReadMemory(e)
          PROVE  held' = held \/ held' = [held EXCEPT ![e] = memory[ChatConv[e]]]
      BY <3>2 DEF ReadMemory
    <3>3. ASSUME NEW d \in Deletes, AskDelete(d) \/ CheckConversation(d) \/ DropConversation(d)
          PROVE  held' = held
      BY <3>3 DEF AskDelete, CheckConversation, DropConversation, localVars
    <3>4. ASSUME NEW j \in Convs, Expire(j) PROVE held' = held
      BY <3>4 DEF Expire, localVars
    <3>5. ASSUME UNCHANGED vars PROVE held' = held
      BY <3>5 DEF vars, localVars
    <3>6. held' = held \/ \E e \in Chats : held' = [held EXCEPT ![e] = memory[ChatConv[e]]]
      BY <3>1, <3>2, <3>3, <3>4, <3>5 DEF Next
    <3>7. CASE \E e \in Chats : held' = [held EXCEPT ![e] = memory[ChatConv[e]]]
      <4>1. PICK e \in Chats : held' = [held EXCEPT ![e] = memory[ChatConv[e]]]
        BY <3>7
      <4>2. CASE e = c
        <5> DEFINE read == memory[ChatConv[e]]
        <5>1. held' = [held EXCEPT ![e] = read]
          BY <4>1
        <5> HIDE DEF read
        <5>2. held'[c] = read
          BY <1>3, <4>2, <5>1
        <5> QED
          BY <4>2, <5>2 DEF read
      <4>3. CASE e # c
        BY <1>3, <4>1, <4>3
      <4> QED
        BY <4>2, <4>3
    <3> QED
      BY <3>6, <3>7
  <2> QED
    BY <1>2, <2>1, <2>2
<1> QED
  BY <1>4, <1>5 DEF MemoryInv

-----------------------------------------------------------------------------
(* The theorems.                                                           *)

(* The invariant of every behaviour: what is not yet stored is nowhere, what is stored is *)
(* there once, and a chat that has passed an INSERT has its row while the conversation is *)
(* kept.                                                                                  *)
THEOREM Inductive == Spec => []IInv
<1>1. Init => IInv
  BY InitInv
<1>2. IInv /\ [Next]_vars => IInv'
  BY NextInv
<1> QED
  BY <1>1, <1>2, PTL DEF Spec

(* Every variable keeps its type, and a memory never outgrows max_memory_messages.        *)
THEOREM TypeCorrect == Spec => []TypeOK
<1>1. IInv => TypeOK
  BY DEF IInv
<1> QED
  BY <1>1, Inductive, PTL

(* The "done" event of chat_stream means that the conversation and both messages are      *)
(* stored, whichever chats of it ran at the same time.                                    *)
THEOREM DoneMeansStoredHolds == Spec => []DoneMeansStored
<1>1. IInv => DoneMeansStored
  <2> SUFFICES ASSUME IInv, NEW c \in Chats, pc[c] = "done", Kept(ChatConv[c])
               PROVE  /\ ChatConv[c] \in convs /\ Stored(ChatConv[c], Question(c))
                      /\ Stored(ChatConv[c], Answer(c))
    BY DEF DoneMeansStored
  <2>1. pc[c] \in AfterCreation /\ pc[c] \in AfterQuestion /\ pc[c] \in AfterAnswer
    BY DEF AfterCreation, AfterQuestion, AfterAnswer
  <2>2. \A m : In(m, messages[ChatConv[c]]) => Stored(ChatConv[c], m)
    BY DEF In, Stored, Position
  <2> QED
    BY <2>1, <2>2 DEF IInv, StoredInv
<1> QED
  BY <1>1, Inductive, PTL

(* No prompt has a message twice, and so the question only at its end, whether the        *)
(* history is the memory's or the table's.                                                *)
THEOREM PromptRepeatsNothingHolds == Spec => []PromptRepeatsNothing
<1>1. IInv => PromptRepeatsNothing
  <2> SUFFICES ASSUME IInv, NEW c \in Chats PROVE NoDup(Prompt(c))
    BY DEF PromptRepeatsNothing, NoDup
  <2>1. history[c] \in Seq(Message) /\ NoDup(history[c]) /\ ~In(Question(c), history[c])
    BY DEF IInv, TypeOK, UniqueInv
  <2> QED
    BY <2>1, Messages, AppendNoDup DEF Prompt
<1> QED
  BY <1>1, Inductive, PTL

(* A message of a kept conversation is stored at most once, the answer after its          *)
(* question.                                                                              *)
THEOREM ExchangesInOrderHolds == Spec => []ExchangesInOrder
<1>1. ASSUME NEW s \in Seq(Message), NoDup(s), NEW m
      PROVE  Cardinality(Position(s, m)) <= 1
  <2>1. CASE Position(s, m) = {}
    <3>1. Cardinality(Position(s, m)) = 0
      BY <2>1, FS_EmptySet
    <3> QED
      BY <3>1
  <2>2. ASSUME NEW i \in Position(s, m)
        PROVE  Position(s, m) = {i}
    BY <1>1, <2>2 DEF Position, NoDup
  <2>3. CASE Position(s, m) # {}
    <3>1. \E i : Position(s, m) = {i}
      BY <2>2, <2>3
    <3>2. Cardinality(Position(s, m)) = 1
      BY <3>1, FS_Singleton
    <3> QED
      BY <3>2
  <2> QED
    BY <2>1, <2>3
<1>2. IInv => ExchangesInOrder
  <2> SUFFICES ASSUME IInv, NEW k \in Convs, Kept(k), NEW c \in ChatsOf(k)
               PROVE  /\ Cardinality(Position(messages[k], Question(c))) <= 1
                      /\ Cardinality(Position(messages[k], Answer(c))) <= 1
                      /\ \A i \in Position(messages[k], Answer(c)) :
                           \E h \in Position(messages[k], Question(c)) : h < i
    BY DEF ExchangesInOrder
  <2>1. messages[k] \in Seq(Message) /\ NoDup(messages[k])
    BY DEF IInv, TypeOK, UniqueInv
  <2>2. c \in Chats /\ ChatConv[c] = k
    BY DEF ChatsOf
  <2>3. \A i \in 1 .. Len(messages[k]) : messages[k][i] = Answer(c) =>
          \E h \in 1 .. Len(messages[k]) : h < i /\ messages[k][h] = Question(c)
    BY <2>2 DEF IInv, StoredInv
  <2> QED
    BY <1>1, <2>1, <2>3 DEF Position
<1> QED
  BY <1>2, Inductive, PTL

(* Whatever runs, the rows of a conversation only grow at their end, but for a deletion,  *)
(* which takes all of them.                                                               *)
THEOREM MessagesAppendedHolds == Spec => MessagesAppended
<1> DEFINE Step == \A k \in Convs :
             \/ IsPrefix(messages[k], messages'[k])
             \/ /\ messages'[k] = << >>
                /\ \E d \in Deletes : dpc[d] = "drop" /\ DelConv[d] = k
<1>1. ASSUME NEW s \in Seq(Message)
      PROVE  IsPrefix(s, s) /\ \A m \in Message : IsPrefix(s, Append(s, m))
  <2>1. Len(s) \in Nat /\ Len(s) <= Len(s)
    OBVIOUS
  <2>2. IsPrefix(s, s)
    BY <2>1 DEF IsPrefix
  <2>3. ASSUME NEW m \in Message
        PROVE  IsPrefix(s, Append(s, m))
    <3> DEFINE t == Append(s, m)
    <3>1. t \in Seq(Message) /\ Len(t) = Len(s) + 1 /\ \A i \in 1 .. Len(s) : t[i] = s[i]
      BY AppendMessage
    <3> HIDE DEF t
    <3>2. SubSeq(s, 1, Len(s)) = SubSeq(t, 1, Len(s))
      BY <2>1, <3>1
    <3>3. Len(s) <= Len(t)
      BY <2>1, <3>1
    <3>4. IsPrefix(s, t)
      BY <3>2, <3>3 DEF IsPrefix
    <3> QED
      BY <3>4 DEF t
  <2> QED
    BY <2>2, <2>3
<1>2. TypeOK /\ [Next]_vars => Step
  <2> SUFFICES ASSUME TypeOK, [Next]_vars, NEW k \in Convs
               PROVE  \/ IsPrefix(messages[k], messages'[k])
                      \/ /\ messages'[k] = << >>
                         /\ \E d \in Deletes : dpc[d] = "drop" /\ DelConv[d] = k
    OBVIOUS
  <2>1. messages \in [Convs -> Seq(Message)]
    BY DEF TypeOK
  <2>2. ASSUME messages' = messages
        PROVE  IsPrefix(messages[k], messages'[k])
    BY <1>1, <2>1, <2>2
  <2>3. ASSUME NEW c \in Chats, SaveQuestion(c) \/ SaveAnswer(c)
        PROVE  \/ messages' = messages
               \/ \E m \in Message, j \in Convs :
                    messages' = [messages EXCEPT ![j] = Append(messages[j], m)]
    <3>1. ASSUME NEW m \in Message, NEW from, NEW to, InsertMessage(c, m, from, to)
          PROVE  \/ messages' = messages
                 \/ messages' = [messages EXCEPT ![ChatConv[c]] = Append(messages[ChatConv[c]], m)]
      BY <3>1 DEF InsertMessage
    <3> QED
      BY <2>3, <3>1, Messages, ConvsAssumption DEF SaveQuestion, SaveAnswer
  <2>4. ASSUME NEW m \in Message, NEW j \in Convs,
               messages' = [messages EXCEPT ![j] = Append(messages[j], m)]
        PROVE  IsPrefix(messages[k], messages'[k])
    <3>1. messages'[k] = messages[k] \/ messages'[k] = Append(messages[k], m)
      BY <2>1, <2>4
    <3> QED
      BY <1>1, <2>1, <3>1
  <2>5. ASSUME NEW d \in Deletes, DropConversation(d)
        PROVE  \/ messages' = messages
               \/ /\ messages' = [messages EXCEPT ![DelConv[d]] = << >>]
                  /\ dpc[d] = "drop"
    BY <2>5 DEF DropConversation, GotoD
  <2>6. ASSUME NEW d \in Deletes, dpc[d] = "drop",
               messages' = [messages EXCEPT ![DelConv[d]] = << >>], k = DelConv[d]
        PROVE  messages'[k] = << >>
    BY <2>1, <2>6
  <2>7. ASSUME NEW d \in Deletes,
               messages' = [messages EXCEPT ![DelConv[d]] = << >>], k # DelConv[d]
        PROVE  messages'[k] = messages[k]
    BY <2>1, <2>7
  <2>8. ASSUME NEW c \in Chats, Ask(c) \/ GetConversation(c) \/ CreateConversation(c)
               \/ Retrieve(c) \/ LoadMemory(c) \/ LoadRecent(c) \/ CountQuestion(c)
               \/ Stream(c) \/ CountAnswer(c) \/ ReadMemory(c) \/ WriteMemory(c)
        PROVE  messages' = messages
    BY <2>8 DEF Ask, GetConversation, CreateConversation, Retrieve, LoadMemory, LoadRecent,
                CountQuestion, CountAnswer, CountMessage, Stream, ReadMemory, WriteMemory, rowVars
  <2>9. ASSUME NEW d \in Deletes, AskDelete(d) \/ CheckConversation(d)
        PROVE  messages' = messages
    BY <2>9 DEF AskDelete, CheckConversation, rowVars
  <2>10. ASSUME NEW j \in Convs, Expire(j)
         PROVE  messages' = messages
    BY <2>10 DEF Expire, rowVars
  <2>11. CASE UNCHANGED vars
    BY <2>2, <2>11 DEF vars, rowVars
  <2>12. ASSUME NEW c \in Chats, Ask(c) \/ ChatStep(c)
         PROVE  IsPrefix(messages[k], messages'[k])
    <3>1. CASE SaveQuestion(c) \/ SaveAnswer(c)
      BY <2>2, <2>3, <2>4, <3>1
    <3>2. CASE ~(SaveQuestion(c) \/ SaveAnswer(c))
      BY <2>2, <2>8, <2>12, <3>2 DEF ChatStep
    <3> QED
      BY <3>1, <3>2
  <2>13. ASSUME NEW d \in Deletes, AskDelete(d) \/ CheckConversation(d) \/ DropConversation(d)
         PROVE  \/ IsPrefix(messages[k], messages'[k])
                \/ messages'[k] = << >> /\ dpc[d] = "drop" /\ DelConv[d] = k
    <3>1. CASE DropConversation(d)
      <4>1. CASE messages' = messages
        BY <2>2, <4>1
      <4>2. CASE messages' = [messages EXCEPT ![DelConv[d]] = << >>] /\ dpc[d] = "drop"
        <5>1. messages[k] \in Seq(Message)
          BY <2>1
        <5> QED
          BY <1>1, <2>6, <2>7, <4>2, <5>1
      <4> QED
        BY <2>5, <3>1, <4>1, <4>2
    <3>2. CASE AskDelete(d) \/ CheckConversation(d)
      BY <2>2, <2>9, <3>2
    <3> QED
      BY <2>13, <3>1, <3>2
  <2> QED
    BY <2>2, <2>10, <2>11, <2>12, <2>13 DEF Next
<1> QED
  BY <1>2, TypeCorrect, PTL DEF Spec, MessagesAppended

(* message_count is that of the rows, but for the messages between the two statements of  *)
(* save_message or cut off there.                                                         *)
THEOREM CountAccountedHolds == Spec => []CountAccounted
<1>1. Init => CountInv
  BY DEF Init, CountInv
<1>2. IInv /\ IInv' /\ CountInv /\ [Next]_vars => CountInv'
  BY CountNext
<1>3. IInv /\ CountInv => CountAccounted
  <2> SUFFICES ASSUME IInv, CountInv, NEW k \in convs, Kept(k)
               PROVE  /\ count[k] <= Len(messages[k])
                      /\ Len(messages[k]) - count[k] <= Cardinality(Uncounted(k))
    BY DEF CountAccounted
  <2>1. k \in Convs /\ count[k] \in Nat /\ Len(messages[k]) \in Nat
    BY DEF IInv, TypeOK
  <2>2. Cardinality(Owing(k)) \in Nat /\ Cardinality(Uncounted(k)) \in Nat
    BY <2>1, FiniteCounts
  <2>3. /\ count[k] + Cardinality(Owing(k)) <= Len(messages[k])
        /\ Len(messages[k]) <= count[k] + Cardinality(Uncounted(k))
    BY <2>1 DEF CountInv
  <2> QED
    BY <2>1, <2>2, <2>3
<1> QED
  BY <1>1, <1>2, <1>3, Inductive, PTL DEF Spec

(* Where max_memory_messages is even, a memory is of whole exchanges of its conversation, *)
(* each once and all of them stored while the conversation is kept.                       *)
THEOREM MemoryBackedHolds ==
  ASSUME MaxMemory % 2 = 0
  PROVE  Spec => []MemoryBacked
<1>1. Init => MemoryInv
  BY WholeEmpty, ConvsAssumption DEF Init, MemoryInv
<1>2. IInv /\ MemoryInv /\ [Next]_vars => MemoryInv'
  BY MemoryNext
<1>3. IInv /\ MemoryInv => MemoryBacked
  <2> SUFFICES ASSUME IInv, MemoryInv, NEW k \in Convs, NEW i \in 1 .. Len(memory[k])
               PROVE  LET c == memory[k][i].chat IN
                      /\ c \in ChatsOf(k)
                      /\ IF i % 2 = 1
                         THEN /\ memory[k][i] = Question(c) /\ i < Len(memory[k])
                              /\ memory[k][i + 1] = Answer(c)
                         ELSE memory[k][i] = Answer(c) /\ memory[k][i - 1] = Question(c)
                      /\ Cardinality(Position(memory[k], memory[k][i])) = 1
                      /\ Kept(k) => Stored(k, memory[k][i])
    BY DEF MemoryBacked
  <2> DEFINE s == memory[k]
  <2>1. s \in Seq(Message) /\ NoDup(s) /\ Whole(k, s) /\ (Kept(k) => AllIn(s, messages[k]))
    BY DEF IInv, TypeOK, UniqueInv, MemoryInv
  <2>2. i \in 1 .. Len(s)
    OBVIOUS
  <2> HIDE DEF s
  <2>3. Kept(k) => Stored(k, s[i])
    BY <2>1, <2>2 DEF AllIn, In, Stored, Position
  <2>4. Position(s, s[i]) = {i}
    BY <2>1, <2>2 DEF Position, NoDup
  <2>5. Cardinality(Position(s, s[i])) = 1
    BY <2>4, FS_Singleton
  <2>6. i % 2 = 1 => i < Len(s)
    BY <2>1, <2>2 DEF Whole
  <2>7. i % 2 # 1 => i % 2 = 0
    BY <2>2
  <2>8. /\ s[i].chat \in ChatsOf(k)
        /\ i % 2 = 1 => s[i] = Question(s[i].chat) /\ s[i + 1] = Answer(s[i].chat)
        /\ i % 2 = 0 => s[i] = Answer(s[i].chat) /\ s[i - 1] = Question(s[i].chat)
    BY <2>1, <2>2 DEF Whole
  <2> QED
    BY <2>3, <2>5, <2>6, <2>7, <2>8 DEF s
<1> QED
  BY <1>1, <1>2, <1>3, Inductive, PTL DEF Spec
==============================================================================
