------------------------ MODULE MessageServiceProofs ------------------------
(***************************************************************************)
(* Proofs about the message service: its conversations, for any users,     *)
(* admins, number of requests at once and number of messages, and its      *)
(* notifications, for any users, calls and size of a page.                 *)
(***************************************************************************)
EXTENDS MessageService, SequenceTheorems, FiniteSetTheorems, TLAPS

----------------------------------------------------------------------------
(* Conversations *)

Sending(r) == chat[r].pc \in {"create", "append"}

\* A message is of one of its conversation's two, which is there, and its id has
\* been given out.
MessagesBelong ==
    \A m \in messages :
        /\ m.from \in m.pair
        /\ conversation[m.pair].status # "absent"
        /\ m.id <= lastId

\* Who is about to write passed the checks, and passes them still.
SendersMaySend ==
    \A r \in ChatRequest : Sending(r) =>
        LET m == chat[r].message IN
        /\ m.pair = chat[r].pair
        /\ m.from \in m.pair
        /\ m.id <= lastId
        /\ Chatting(r, "create") => MayCreate(m.from, m.pair, m.short)
        /\ Chatting(r, "append") => /\ conversation[m.pair].status # "absent"
                                    /\ ~AwaitsReply(conversation[m.pair], m.from)

\* What was read of a conversation stays true: it is not closed, and nobody else
\* comes to wait for an answer.
CopiesHold ==
    \A r \in ChatRequest : Chatting(r, "answer") =>
        LET row == conversation[chat[r].pair]
            copy == chat[r].copy
        IN /\ row.status # "absent"
           /\ copy.status = "OPEN" => row.status = "OPEN"
           /\ copy.status = "PENDING" /\ row.status = "PENDING" => row.pending = copy.pending

\* Who has been told that it can send, can.
ToldCanSend ==
    \A a \in Account, p \in Pair : <<a, p>> \in told =>
        conversation[p].status # "absent" /\ ~AwaitsReply(conversation[p], a)

\* Messages being sent are newer than those sent, one at a time where no two cross.
SentInTurn ==
    \A r \in ChatRequest : Sending(r) /\ chat[r].pair \notin crossed =>
        /\ \A m \in Of(chat[r].pair) : m.id < chat[r].message.id
        /\ \A q \in ChatRequest \ {r} : ~(Sending(q) /\ chat[q].pair = chat[r].pair)

ChatInv ==
    /\ ChatTypeOK
    /\ MessagesBelong /\ SendersMaySend /\ CopiesHold /\ ToldCanSend /\ SentInTurn
    /\ StrangerSendsOne /\ OpenedByReply /\ LastIsNewest

----------------------------------------------------------------------------
(* Pairs and states *)

\* A pair has two members.
LEMMA PairLemma ==
  ASSUME NEW p \in Pair
  PROVE  /\ p \subseteq Account
         /\ \A a \in p : PeerOf(p, a) \in p /\ PeerOf(p, a) # a /\ p = {a, PeerOf(p, a)}
<1>1. PICK a \in Account, b \in Account : p = {a, b} /\ a # b
  <2>1. PICK a \in Account, b \in Account : p = {a, b}
    BY DEF Pair
  <2>2. p # {a}
    BY DEF Pair
  <2> QED
    BY <2>1, <2>2
<1>2. ASSUME NEW c \in p PROVE PeerOf(p, c) \in p /\ PeerOf(p, c) # c
  <2>1. \E d \in p : d # c
    BY <1>1
  <2> QED
    BY <2>1 DEF PeerOf
<1> QED
  BY <1>1, <1>2

\* What the requests that send hold.
LEMMA SendingLemma ==
  ASSUME ChatTypeOK, NEW r \in ChatRequest, Sending(r)
  PROVE  /\ chat[r].pair \in Pair
         /\ chat[r].copy \in ConversationRow
         /\ chat[r].message \in Message
BY DEF ChatTypeOK, ChatState, Sending

\* What the requests that have read a row hold.
LEMMA ReadingLemma ==
  ASSUME ChatTypeOK, NEW r \in ChatRequest, chat[r].pc \in {"answer", "mark"}
  PROVE  /\ chat[r].account \in Account
         /\ chat[r].pair \in Pair
         /\ chat[r].copy \in ConversationRow
BY DEF ChatTypeOK, ChatState

LEMMA InitEstablishesInv == ChatInit => ChatInv
<1> SUFFICES ASSUME ChatInit PROVE ChatInv
  OBVIOUS
<1>1. ChatTypeOK
  BY DEF ChatInit, ChatTypeOK, NoConversation, ConversationRow, ChatState, ChatIdle
<1>2. MessagesBelong /\ SendersMaySend /\ CopiesHold /\ ToldCanSend /\ SentInTurn
  BY DEF ChatInit, MessagesBelong, SendersMaySend, CopiesHold, ToldCanSend, SentInTurn,
         Sending, Chatting, ChatIdle
<1>3. StrangerSendsOne /\ OpenedByReply /\ LastIsNewest
  BY DEF ChatInit, StrangerSendsOne, OpenedByReply, LastIsNewest, Of, NoConversation
<1> QED
  BY <1>1, <1>2, <1>3 DEF ChatInv

----------------------------------------------------------------------------
(* Steps that write no message *)

\* A request that ends, or that goes on without a message to send, leaves what is
\* stored and what others hold alone.
LEMMA QuietKeepsInv ==
  ASSUME ChatInv, NEW r \in ChatRequest, NEW state \in ChatState,
         chat' = [chat EXCEPT ![r] = state],
         state.pc \in {"idle", "refused", "answer", "mark"},
         state.pc = "answer" =>
             conversation[state.pair].status # "absent" /\ state.copy = conversation[state.pair],
         UNCHANGED <<conversation, messages, lastId, crossed>>,
         unread' \subseteq unread,
         told' \subseteq Account \X Pair,
         \A a \in Account, p \in Pair : <<a, p>> \in told' \ told =>
             conversation[p].status # "absent" /\ ~AwaitsReply(conversation[p], a)
  PROVE  ChatInv'
<1>1. chat \in [ChatRequest -> ChatState]
  BY DEF ChatInv, ChatTypeOK
<1>2. ChatTypeOK'
  BY <1>1 DEF ChatInv, ChatTypeOK
<1>3. \A q \in ChatRequest : q # r => chat'[q] = chat[q]
  BY <1>1
<1>4. chat'[r] = state
  BY <1>1
<1>5. \A q \in ChatRequest : Sending(q)' => q # r /\ Sending(q) /\ chat'[q] = chat[q]
  BY <1>3, <1>4 DEF Sending
<1>6. MessagesBelong'
  BY DEF ChatInv, MessagesBelong
<1>7. SendersMaySend'
  BY <1>5 DEF ChatInv, SendersMaySend, Chatting, AwaitsReply, MayCreate, PeerOf
<1>8. CopiesHold'
  <2> SUFFICES ASSUME NEW q \in ChatRequest, Chatting(q, "answer")'
               PROVE  /\ conversation[chat'[q].pair].status # "absent"
                      /\ chat'[q].copy.status = "OPEN" =>
                            conversation[chat'[q].pair].status = "OPEN"
                      /\ chat'[q].copy.status = "PENDING"
                         /\ conversation[chat'[q].pair].status = "PENDING" =>
                            conversation[chat'[q].pair].pending = chat'[q].copy.pending
    BY DEF CopiesHold
  <2>1. CASE q = r
    BY <1>4, <2>1 DEF Chatting
  <2>2. CASE q # r
    BY <1>3, <2>2 DEF ChatInv, CopiesHold, Chatting
  <2> QED
    BY <2>1, <2>2
<1>9. ToldCanSend'
  BY DEF ChatInv, ToldCanSend, AwaitsReply
<1>10. SentInTurn'
  BY <1>5 DEF ChatInv, SentInTurn, Of
<1>11. StrangerSendsOne' /\ OpenedByReply' /\ LastIsNewest'
  BY DEF ChatInv, StrangerSendsOne, OpenedByReply, LastIsNewest, Of
<1> QED
  BY <1>2, <1>6, <1>7, <1>8, <1>9, <1>10, <1>11 DEF ChatInv

----------------------------------------------------------------------------
(* Steps that build a message *)

\* A message is built after the checks, with an id newer than all.
LEMMA ComposeKeepsInv ==
  ASSUME ChatInv, NEW r \in ChatRequest, NEW p \in Pair, NEW a \in p, NEW short \in BOOLEAN,
         NEW pc \in {"create", "append"}, Compose(r, a, p, short, pc), Ready(r),
         pc = "create" => MayCreate(a, p, short),
         pc = "append" => conversation[p].status # "absent" /\ ~AwaitsReply(conversation[p], a)
  PROVE  ChatInv'
<1> DEFINE m == [id |-> lastId + 1, pair |-> p, from |-> a, short |-> short]
           state == [pc |-> pc, pair |-> p, copy |-> conversation[p], message |-> m]
<1>1. /\ chat \in [ChatRequest -> ChatState] /\ lastId \in Nat /\ a \in Account
      /\ conversation[p] \in ConversationRow
  BY PairLemma DEF ChatInv, ChatTypeOK
<1>2. m \in Message /\ state \in ChatState
  BY <1>1 DEF Message, ChatState
<1>3. /\ chat' = [chat EXCEPT ![r] = state] /\ lastId' = lastId + 1
      /\ UNCHANGED <<conversation, messages, unread, told>>
      /\ crossed' = IF Crossing(r, p) THEN crossed \cup {p} ELSE crossed
  BY DEF Compose
<1>4. chat'[r] = state /\ \A q \in ChatRequest : q # r => chat'[q] = chat[q]
  BY <1>1, <1>3
<1>5. state.pc = pc /\ state.pair = p /\ state.message = m /\ state.message.pair = p
      /\ state.message.from = a /\ state.message.short = short /\ state.message.id = lastId + 1
  OBVIOUS
<1> HIDE DEF m, state
<1>6. ChatTypeOK'
  BY <1>1, <1>2, <1>3 DEF ChatInv, ChatTypeOK
<1>7. MessagesBelong'
  BY <1>1, <1>3 DEF ChatInv, ChatTypeOK, MessagesBelong, Message
<1>8. SendersMaySend'
  <2> SUFFICES ASSUME NEW q \in ChatRequest, Sending(q)'
               PROVE  LET n == chat'[q].message IN
                      /\ n.pair = chat'[q].pair
                      /\ n.from \in n.pair
                      /\ n.id <= lastId'
                      /\ Chatting(q, "create")' => MayCreate(n.from, n.pair, n.short)
                      /\ Chatting(q, "append")' =>
                            conversation[n.pair].status # "absent"
                            /\ ~AwaitsReply(conversation[n.pair], n.from)
    BY <1>3 DEF SendersMaySend, AwaitsReply, MayCreate, PeerOf
  <2>1. CASE q = r
    BY <1>1, <1>3, <1>4, <1>5, <2>1 DEF Chatting
  <2>2. CASE q # r
    <3>1. Sending(q) /\ chat'[q] = chat[q]
      BY <1>4, <2>2 DEF Sending
    <3>2. chat[q].message.id \in Nat
      BY <3>1, SendingLemma DEF ChatInv, Message
    <3> QED
      BY <1>1, <1>3, <3>1, <3>2 DEF ChatInv, SendersMaySend, Chatting
  <2> QED
    BY <2>1, <2>2
<1>9. CopiesHold'
  BY <1>3, <1>4, <1>5 DEF ChatInv, CopiesHold, Chatting
<1>10. ToldCanSend'
  BY <1>3 DEF ChatInv, ToldCanSend, AwaitsReply
<1>11. SentInTurn'
  <2> SUFFICES ASSUME NEW q \in ChatRequest, Sending(q)', chat'[q].pair \notin crossed'
               PROVE  /\ \A n \in Of(chat'[q].pair) : n.id < chat'[q].message.id
                      /\ \A k \in ChatRequest \ {q} :
                            ~(Sending(k)' /\ chat'[k].pair = chat'[q].pair)
    BY <1>3 DEF SentInTurn, Of
  <2>1. CASE q = r
    <3>1. ~Crossing(r, p)
      BY <1>3, <1>4, <1>5, <2>1
    <3>2. \A n \in Of(p) : n.id < lastId + 1
      BY <1>1 DEF ChatInv, ChatTypeOK, MessagesBelong, Of, Message
    <3> QED
      BY <1>4, <1>5, <2>1, <3>1, <3>2 DEF Crossing, Sending
  <2>2. CASE q # r
    <3>1. Sending(q) /\ chat'[q] = chat[q] /\ chat[q].pair \notin crossed
      BY <1>3, <1>4, <2>2 DEF Sending
    <3>2. chat[q].pair # p
      BY <1>3, <1>4, <2>2, <3>1 DEF Crossing, Sending
    <3> QED
      BY <1>4, <1>5, <3>1, <3>2 DEF ChatInv, SentInTurn, Sending
  <2> QED
    BY <2>1, <2>2
<1>12. StrangerSendsOne' /\ OpenedByReply' /\ LastIsNewest'
  BY <1>3 DEF ChatInv, StrangerSendsOne, OpenedByReply, LastIsNewest, Of
<1> QED
  BY <1>6, <1>7, <1>8, <1>9, <1>10, <1>11, <1>12 DEF ChatInv

\* SendChatMessage up to its transaction.
LEMMA SendKeepsInv ==
  ASSUME ChatInv, NEW r \in ChatRequest, NEW p \in Pair, NEW a \in p, NEW short \in BOOLEAN,
         SendChatMessage(r, a, p, short)
  PROVE  ChatInv'
<1>1. Ready(r)
  BY DEF SendChatMessage
<1>2. CASE conversation[p].status = "absent" /\ MayCreate(a, p, short)
           /\ Compose(r, a, p, short, "create")
  BY <1>1, <1>2, ComposeKeepsInv
<1>3. CASE conversation[p].status # "absent" /\ ~AwaitsReply(conversation[p], a)
           /\ Compose(r, a, p, short, "append")
  BY <1>1, <1>3, ComposeKeepsInv
<1>4. CASE RefusedPending(r, a, p)
  <2> DEFINE state == [pc |-> "refused", account |-> a, pair |-> p]
  <2>1. state \in ChatState /\ state.pc = "refused"
    BY PairLemma DEF ChatState
  <2>2. chat' = [chat EXCEPT ![r] = state]
        /\ UNCHANGED <<conversation, messages, unread, lastId, told, crossed>>
    BY <1>4 DEF RefusedPending
  <2> HIDE DEF state
  <2> QED
    BY <2>1, <2>2, QuietKeepsInv DEF ChatInv, ChatTypeOK
<1>5. CASE UNCHANGED chatVars
  BY <1>5 DEF ChatInv, ChatTypeOK, MessagesBelong, SendersMaySend, CopiesHold, ToldCanSend,
              SentInTurn, StrangerSendsOne, OpenedByReply, LastIsNewest, Of, Sending, Chatting,
              AwaitsReply, MayCreate, PeerOf, chatVars
<1> QED
  BY <1>2, <1>3, <1>4, <1>5 DEF SendChatMessage

----------------------------------------------------------------------------
(* Steps that write a message *)

\* A message is written with a row that is pending only if it is the first one, a
\* user's, short, and open only if an admin made it or both have written.
LEMMA WriteKeepsInv ==
  ASSUME ChatInv, NEW r \in ChatRequest, Sending(r),
         NEW m, m = chat[r].message,
         NEW row \in ConversationRow, row.status # "absent", row.last = m.id,
         conversation' = [conversation EXCEPT ![m.pair] = row],
         Insert(m), ChatDone(r), UNCHANGED <<lastId, crossed>>,
         row.status = "PENDING" =>
             /\ conversation[m.pair].status = "absent"
             /\ m.pair \subseteq User /\ row.pending = m.from /\ m.short,
         row.status = "OPEN" /\ row.createdBy \in User =>
             \A a \in m.pair : a = m.from \/ \E n \in Of(m.pair) : n.from = a,
         told' = told \/ (row.status = "OPEN" /\ told' = told \cup {<<m.from, m.pair>>})
  PROVE  ChatInv'
<1> DEFINE p == m.pair
<1>1. /\ chat \in [ChatRequest -> ChatState] /\ lastId \in Nat
      /\ conversation \in [Pair -> ConversationRow]
      /\ m \in Message /\ p \in Pair /\ m.id \in Nat /\ m.from \in Account
      /\ chat[r].pair = p /\ m.from \in p /\ m.id <= lastId
  BY SendingLemma DEF ChatInv, ChatTypeOK, SendersMaySend, Message
<1>2. /\ chat' = [chat EXCEPT ![r] = ChatIdle] /\ chat'[r] = ChatIdle
      /\ messages' = messages \cup {m} /\ unread' = unread \cup {m.id}
      /\ lastId' = lastId /\ crossed' = crossed
  BY <1>1 DEF ChatDone, Insert
<1>3. /\ conversation'[p] = row
      /\ \A q \in Pair : q # p => conversation'[q] = conversation[q]
  BY <1>1
<1>4. ChatTypeOK'
  <2>1. ChatIdle \in ChatState
    BY DEF ChatIdle, ChatState
  <2>2. messages' \subseteq Message /\ unread' \subseteq {n.id : n \in messages'}
    BY <1>1, <1>2 DEF ChatInv, ChatTypeOK
  <2>3. told' \subseteq Account \X Pair
    BY <1>1 DEF ChatInv, ChatTypeOK
  <2> QED
    BY <1>1, <1>2, <2>1, <2>2, <2>3 DEF ChatInv, ChatTypeOK
<1>5. \A q \in ChatRequest : q # r => chat'[q] = chat[q]
  BY <1>1, <1>2
<1>6. \A q \in ChatRequest : chat'[q].pc # "idle" => q # r
  BY <1>2 DEF ChatIdle
<1>7. \A q \in Pair : Of(q)' = IF q = p THEN Of(q) \cup {m} ELSE Of(q)
  BY <1>2 DEF Of
<1> HIDE DEF p
<1>8. MessagesBelong'
  BY <1>1, <1>2, <1>3 DEF ChatInv, ChatTypeOK, MessagesBelong, Message, p
<1>9. row.status # "PENDING" => row.status = "OPEN"
  BY DEF ConversationRow
<1>10. SendersMaySend'
  <2> SUFFICES ASSUME NEW q \in ChatRequest, Sending(q)'
               PROVE  LET n == chat'[q].message IN
                      /\ n.pair = chat'[q].pair
                      /\ n.from \in n.pair
                      /\ n.id <= lastId'
                      /\ Chatting(q, "create")' => MayCreate(n.from, n.pair, n.short)
                      /\ Chatting(q, "append")' =>
                            conversation'[n.pair].status # "absent"
                            /\ ~AwaitsReply(conversation'[n.pair], n.from)
    BY DEF SendersMaySend, AwaitsReply, MayCreate, PeerOf
  <2>1. Sending(q) /\ chat'[q] = chat[q]
    BY <1>5, <1>6 DEF Sending
  <2>2. chat[q].message.pair \in Pair
    BY <2>1, SendingLemma DEF ChatInv, Message
  <2>3. CASE chat[q].message.pair = p
    BY <1>2, <1>3, <1>9, <2>1, <2>3 DEF ChatInv, SendersMaySend, Chatting, AwaitsReply, p
  <2>4. CASE chat[q].message.pair # p
    BY <1>2, <1>3, <2>1, <2>2, <2>4 DEF ChatInv, SendersMaySend, Chatting
  <2> QED
    BY <2>3, <2>4
<1>11. CopiesHold'
  <2> SUFFICES ASSUME NEW q \in ChatRequest, Chatting(q, "answer")'
               PROVE  LET now == conversation'[chat'[q].pair]
                          copy == chat'[q].copy
                      IN /\ now.status # "absent"
                         /\ copy.status = "OPEN" => now.status = "OPEN"
                         /\ copy.status = "PENDING" /\ now.status = "PENDING" =>
                               now.pending = copy.pending
    BY DEF CopiesHold
  <2>1. Chatting(q, "answer") /\ chat'[q] = chat[q]
    BY <1>5, <1>6 DEF Chatting
  <2>2. chat[q].pair \in Pair
    BY <2>1, ReadingLemma DEF ChatInv, Chatting
  <2>3. CASE chat[q].pair = p
    BY <1>3, <1>9, <2>1, <2>3 DEF ChatInv, CopiesHold, p
  <2>4. CASE chat[q].pair # p
    BY <1>3, <2>1, <2>2, <2>4 DEF ChatInv, CopiesHold
  <2> QED
    BY <2>3, <2>4
<1>12. ToldCanSend'
  <2> SUFFICES ASSUME NEW a \in Account, NEW q \in Pair, <<a, q>> \in told'
               PROVE  conversation'[q].status # "absent" /\ ~AwaitsReply(conversation'[q], a)
    BY DEF ToldCanSend, AwaitsReply
  <2>1. CASE <<a, q>> \in told /\ q # p
    BY <1>3, <2>1 DEF ChatInv, ToldCanSend
  <2>2. CASE <<a, q>> \in told /\ q = p
    BY <1>3, <1>9, <2>2 DEF ChatInv, ToldCanSend, AwaitsReply, p
  <2>3. CASE <<a, q>> \notin told
    BY <1>3, <2>3 DEF AwaitsReply, p
  <2> QED
    BY <2>1, <2>2, <2>3
<1>13. SentInTurn'
  <2> SUFFICES ASSUME NEW q \in ChatRequest, Sending(q)', chat'[q].pair \notin crossed
               PROVE  /\ \A n \in messages' : n.pair = chat'[q].pair =>
                            n.id < chat'[q].message.id
                      /\ \A k \in ChatRequest \ {q} :
                            ~(Sending(k)' /\ chat'[k].pair = chat'[q].pair)
    BY <1>2 DEF SentInTurn, Of, Sending
  <2>1. Sending(q) /\ chat'[q] = chat[q] /\ q # r /\ chat[q].pair \notin crossed
    BY <1>5, <1>6 DEF Sending
  <2>2. chat[q].pair # p
    BY <1>1, <2>1 DEF ChatInv, SentInTurn
  <2>3. \A k \in ChatRequest : Sending(k)' => Sending(k) /\ chat'[k] = chat[k]
    BY <1>5, <1>6 DEF Sending
  <2>4. \A n \in messages' : n.pair = chat[q].pair => n \in Of(chat[q].pair)
    BY <1>2, <2>2 DEF Of, p
  <2> QED
    BY <2>1, <2>3, <2>4 DEF ChatInv, SentInTurn
<1>14. StrangerSendsOne'
  <2> SUFFICES ASSUME NEW q \in Pair, conversation'[q].status = "PENDING"
               PROVE  /\ q \subseteq User
                      /\ \E n \in messages' :
                            Of(q)' = {n} /\ n.from = conversation'[q].pending /\ n.short
    BY DEF StrangerSendsOne
  <2>1. CASE q = p
    <3>1. Of(p) = {}
      BY <1>3, <2>1 DEF ChatInv, MessagesBelong, Of, p
    <3> QED
      BY <1>2, <1>3, <1>7, <2>1, <3>1 DEF p
  <2>2. CASE q # p
    BY <1>2, <1>3, <1>7, <2>2 DEF ChatInv, StrangerSendsOne
  <2> QED
    BY <2>1, <2>2
<1>15. OpenedByReply'
  <2> SUFFICES ASSUME NEW q \in Pair, conversation'[q].status = "OPEN",
                      conversation'[q].createdBy \in User, NEW a \in q
               PROVE  \E n \in Of(q)' : n.from = a
    BY DEF OpenedByReply
  <2>1. CASE q = p
    BY <1>3, <1>7, <2>1 DEF p
  <2>2. CASE q # p
    BY <1>3, <1>7, <2>2 DEF ChatInv, OpenedByReply
  <2> QED
    BY <2>1, <2>2
<1>16. LastIsNewest'
  <2> SUFFICES ASSUME NEW q \in Pair \ crossed, NEW n \in Of(q)'
               PROVE  n.id <= conversation'[q].last
    BY <1>2 DEF LastIsNewest
  <2>1. CASE q = p
    <3>1. n = m \/ n.id < m.id
      BY <1>1, <1>7, <2>1 DEF ChatInv, SentInTurn
    <3>2. n.id \in Nat
      BY <1>1, <1>7 DEF ChatInv, ChatTypeOK, Of, Message
    <3> QED
      BY <1>1, <1>3, <2>1, <3>1, <3>2
  <2>2. CASE q # p
    BY <1>3, <1>7, <2>2 DEF ChatInv, LastIsNewest
  <2> QED
    BY <2>1, <2>2
<1> QED
  BY <1>4, <1>8, <1>10, <1>11, <1>12, <1>13, <1>14, <1>15, <1>16 DEF ChatInv

\* The first message, when the conversation is not there yet: committed, answered
\* or not.
LEMMA FirstMessageKeepsInv ==
  ASSUME ChatInv, NEW r \in ChatRequest, Chatting(r, "create"),
         conversation[chat[r].message.pair].status = "absent",
         CreateConversationWithMessageTx(chat[r].message), ChatDone(r),
         UNCHANGED <<lastId, crossed>>,
         \/ told' = told
         \/ /\ chat[r].message.from \in Admin
            /\ told' = told \cup {<<chat[r].message.from, chat[r].message.pair>>}
  PROVE  ChatInv'
<1> DEFINE m == chat[r].message
           row == NewConversation(m)
<1>1. Sending(r)
  BY DEF Sending, Chatting
<1>2. /\ m \in Message /\ m.pair \in Pair /\ m.from \in Account /\ m.id \in Nat
      /\ m.from \in m.pair /\ MayCreate(m.from, m.pair, m.short)
  BY <1>1, SendingLemma DEF ChatInv, SendersMaySend, Message
<1>3. row \in ConversationRow
  BY <1>2 DEF NewConversation, ConversationRow
<1>4. /\ row.status = IF m.from \in Admin THEN "OPEN" ELSE "PENDING"
      /\ row.pending = IF m.from \in Admin THEN Nobody ELSE m.from
      /\ row.createdBy = m.from /\ row.last = m.id
  BY DEF NewConversation
<1>5. /\ conversation' = [conversation EXCEPT ![m.pair] = row]
      /\ Insert(m)
  BY DEF CreateConversationWithMessageTx
<1>6. m.from \notin Admin => m.pair \subseteq User /\ m.short
  BY <1>2, PairLemma DEF MayCreate
<1>7. m.from \in Admin => m.from \notin User
  BY ChatAssumption
<1> HIDE DEF m, row
<1>8. /\ row.status # "absent"
      /\ row.status = "PENDING" => conversation[m.pair].status = "absent"
                                  /\ m.pair \subseteq User /\ row.pending = m.from /\ m.short
      /\ ~(row.status = "OPEN" /\ row.createdBy \in User)
  BY <1>4, <1>6, <1>7 DEF m
<1>9. told' = told \/ (row.status = "OPEN" /\ told' = told \cup {<<m.from, m.pair>>})
  BY <1>4 DEF m
<1> QED
  BY <1>1, <1>3, <1>4, <1>5, <1>8, <1>9, WriteKeepsInv DEF m

\* A message in a conversation that is there, of one who is not waiting for an
\* answer: committed, answered or not.
LEMMA NextMessageKeepsInv ==
  ASSUME ChatInv, NEW r \in ChatRequest, Chatting(r, "append"),
         CreateOrSendMessageTx(chat[r].message, chat[r].copy), ChatDone(r),
         UNCHANGED <<lastId, crossed>>,
         told' \in {told, told \cup {<<chat[r].message.from, chat[r].message.pair>>}}
  PROVE  ChatInv'
<1> DEFINE m == chat[r].message
           p == m.pair
           row == AfterSend(conversation[p], chat[r].copy, m)
<1>1. Sending(r)
  BY DEF Sending, Chatting
<1>2. /\ m \in Message /\ p \in Pair /\ m.from \in Account /\ m.id \in Nat /\ m.from \in p
      /\ chat[r].copy \in ConversationRow /\ conversation[p] \in ConversationRow
      /\ conversation \in [Pair -> ConversationRow]
      /\ conversation[p].status # "absent" /\ ~AwaitsReply(conversation[p], m.from)
  BY <1>1, SendingLemma DEF ChatInv, ChatTypeOK, SendersMaySend, Message
<1>3. /\ row \in ConversationRow
      /\ row.status = "OPEN" /\ row.last = m.id /\ row.createdBy = conversation[p].createdBy
  BY <1>2 DEF AfterSend, ConversationRow, Nobody
<1>4. /\ conversation' = [conversation EXCEPT ![p] = row]
      /\ Insert(m)
  BY <1>2 DEF CreateOrSendMessageTx
<1> HIDE DEF row
<1>5. ASSUME row.createdBy \in User, NEW a \in p
      PROVE  a = m.from \/ \E n \in Of(p) : n.from = a
  <2>1. CASE conversation[p].status = "OPEN"
    BY <1>2, <1>3, <1>5, <2>1 DEF ChatInv, OpenedByReply
  <2>2. CASE conversation[p].status = "PENDING"
    <3>1. PICK n \in Of(p) : n.from = conversation[p].pending
      BY <1>2, <2>2 DEF ChatInv, StrangerSendsOne
    <3>2. n.from \in p /\ n.from # m.from
      BY <1>2, <2>2, <3>1 DEF ChatInv, MessagesBelong, AwaitsReply, Of
    <3>3. a \in {m.from, n.from}
      BY <1>2, <1>5, <3>2, PairLemma
    <3> QED
      BY <3>3
  <2> QED
    BY <1>2, <2>1, <2>2 DEF ConversationRow
<1> HIDE DEF m, p
<1>6. told' = told \/ told' = told \cup {<<m.from, p>>}
  BY DEF m, p
<1> QED
  BY <1>1, <1>3, <1>4, <1>5, <1>6, WriteKeepsInv DEF m, p

----------------------------------------------------------------------------
(* The steps of Next *)

\* A request that ends without having written.
LEMMA IdleKeepsInv ==
  ASSUME ChatInv, NEW r \in ChatRequest, ChatDone(r),
         UNCHANGED <<conversation, messages, lastId, crossed>>, unread' \subseteq unread,
         told' \subseteq Account \X Pair,
         \A a \in Account, p \in Pair : <<a, p>> \in told' \ told =>
             conversation[p].status # "absent" /\ ~AwaitsReply(conversation[p], a)
  PROVE  ChatInv'
<1>1. ChatIdle \in ChatState /\ ChatIdle.pc = "idle"
  BY DEF ChatIdle, ChatState
<1> QED
  BY <1>1, QuietKeepsInv DEF ChatDone

LEMMA CreateKeepsInv ==
  ASSUME ChatInv, NEW r \in ChatRequest, CreateConversation(r)
  PROVE  ChatInv'
<1>1. CASE conversation[chat[r].message.pair].status = "absent"
  BY <1>1, FirstMessageKeepsInv DEF CreateConversation
<1>2. CASE conversation[chat[r].message.pair].status # "absent"
  BY <1>2, IdleKeepsInv
     DEF CreateConversation, CreateConversationWithMessageTx, ChatInv, ChatTypeOK
<1> QED
  BY <1>1, <1>2

LEMMA ReadKeepsInv ==
  ASSUME ChatInv, NEW r \in ChatRequest, NEW a \in Account, NEW p \in Pair,
         NEW pc \in {"answer", "mark"}, ReadRow(r, a, p, pc)
  PROVE  ChatInv'
<1> DEFINE state == [pc |-> pc, account |-> a, pair |-> p, copy |-> conversation[p]]
<1>1. state \in ChatState /\ state.pc = pc /\ state.pair = p /\ state.copy = conversation[p]
  BY DEF ChatState, ChatInv, ChatTypeOK
<1>2. /\ chat' = [chat EXCEPT ![r] = state] /\ conversation[p].status # "absent"
      /\ UNCHANGED <<conversation, messages, unread, lastId, told, crossed>>
  BY DEF ReadRow
<1> HIDE DEF state
<1> QED
  BY <1>1, <1>2, QuietKeepsInv DEF ChatInv, ChatTypeOK

\* An answer from an older copy is still true.
LEMMA AnswerKeepsInv ==
  ASSUME ChatInv, NEW r \in ChatRequest, Answer(r)
  PROVE  ChatInv'
<1> DEFINE a == chat[r].account
           p == chat[r].pair
           copy == chat[r].copy
<1>1. /\ a \in Account /\ p \in Pair /\ copy \in ConversationRow
      /\ conversation[p] \in ConversationRow
  BY ReadingLemma DEF ChatInv, ChatTypeOK, Answer, Chatting
<1>2. /\ conversation[p].status # "absent"
      /\ copy.status = "OPEN" => conversation[p].status = "OPEN"
      /\ copy.status = "PENDING" /\ conversation[p].status = "PENDING" =>
            conversation[p].pending = copy.pending
  BY DEF ChatInv, CopiesHold, Answer
<1>3. told' = IF CanSend(copy, a) THEN told \cup {<<a, p>>} ELSE told
  BY DEF Answer
<1> HIDE DEF a, p, copy
<1>4. CanSend(copy, a) => ~AwaitsReply(conversation[p], a)
  BY <1>1, <1>2 DEF CanSend, AwaitsReply
<1>5. told' \subseteq Account \X Pair
  BY <1>1, <1>3 DEF ChatInv, ChatTypeOK
<1>6. \A b \in Account, q \in Pair : <<b, q>> \in told' \ told =>
          conversation[q].status # "absent" /\ ~AwaitsReply(conversation[q], b)
  BY <1>2, <1>3, <1>4
<1> QED
  BY <1>5, <1>6, IdleKeepsInv DEF Answer

\* The invariant is inductive.
LEMMA NextKeepsInv == ChatInv /\ [ChatNext]_chatVars => ChatInv'
<1> SUFFICES ASSUME ChatInv, [ChatNext]_chatVars PROVE ChatInv'
  OBVIOUS
<1>1. ASSUME NEW r \in ChatRequest, SendUserChatMessage(r) PROVE ChatInv'
  BY <1>1, SendKeepsInv DEF SendUserChatMessage
<1>2. ASSUME NEW r \in ChatRequest, SendAdminChatMessage(r) PROVE ChatInv'
  BY <1>2, SendKeepsInv DEF SendAdminChatMessage
<1>3. ASSUME NEW r \in ChatRequest, CreateConversation(r) PROVE ChatInv'
  BY <1>3, CreateKeepsInv
<1>4. ASSUME NEW r \in ChatRequest, AppendMessage(r) PROVE ChatInv'
  BY <1>4, NextMessageKeepsInv DEF AppendMessage
<1>5. ASSUME NEW r \in ChatRequest,
             ListConversations(r) \/ GetConversationMessages(r) \/ MarkConversationRead(r)
      PROVE  ChatInv'
  BY <1>5, ReadKeepsInv DEF ListConversations, GetConversationMessages, MarkConversationRead
<1>6. ASSUME NEW r \in ChatRequest, Answer(r) PROVE ChatInv'
  BY <1>6, AnswerKeepsInv
<1>7. ASSUME NEW r \in ChatRequest, MarkRead(r) PROVE ChatInv'
  BY <1>7, IdleKeepsInv DEF MarkRead, ChatInv, ChatTypeOK
<1>8. ASSUME NEW r \in ChatRequest, ChatFails(r) PROVE ChatInv'
  BY <1>8, IdleKeepsInv DEF ChatFails, ChatInv, ChatTypeOK
<1>9. ASSUME NEW r \in ChatRequest, AnswerLost(r) PROVE ChatInv'
  <2>1. CASE Chatting(r, "create") /\ CreateConversationWithMessageTx(chat[r].message)
    <3>1. CASE conversation[chat[r].message.pair].status = "absent"
      BY <1>9, <2>1, <3>1, FirstMessageKeepsInv DEF AnswerLost
    <3>2. CASE conversation[chat[r].message.pair].status # "absent"
      BY <1>9, <2>1, <3>2, IdleKeepsInv
         DEF AnswerLost, CreateConversationWithMessageTx, ChatInv, ChatTypeOK
    <3> QED
      BY <3>1, <3>2
  <2>2. CASE Chatting(r, "append") /\ CreateOrSendMessageTx(chat[r].message, chat[r].copy)
    BY <1>9, <2>2, NextMessageKeepsInv DEF AnswerLost
  <2> QED
    BY <1>9, <2>1, <2>2 DEF AnswerLost
<1>10. CASE UNCHANGED chatVars
  BY <1>10 DEF ChatInv, ChatTypeOK, MessagesBelong, SendersMaySend, CopiesHold, ToldCanSend,
               SentInTurn, StrangerSendsOne, OpenedByReply, LastIsNewest, Of, Sending, Chatting,
               AwaitsReply, MayCreate, PeerOf, chatVars
<1> QED
  BY <1>1, <1>2, <1>3, <1>4, <1>5, <1>6, <1>7, <1>8, <1>9, <1>10 DEF ChatNext

----------------------------------------------------------------------------
(* The theorems *)

LEMMA InvHolds == ChatSpec => []ChatInv
BY InitEstablishesInv, NextKeepsInv, PTL DEF ChatSpec

\* The tables and the requests keep their types.
THEOREM ChatTypeCorrect == ChatSpec => []ChatTypeOK
<1>1. ChatInv => ChatTypeOK
  BY DEF ChatInv
<1> QED
  BY <1>1, InvHolds, PTL

\* A stranger gets one short message through, however many requests race
\* (sendchatmessagelogic.go:111-116, 154-161, 204-208, with the unique index).
THEOREM StrangerSendsOneHolds == ChatSpec => []StrangerSendsOne
<1>1. ChatInv => StrangerSendsOne
  BY DEF ChatInv
<1> QED
  BY <1>1, InvHolds, PTL

\* What a user started is opened by an answer only (:209-215).
THEOREM OpenedByReplyHolds == ChatSpec => []OpenedByReply
<1>1. ChatInv => OpenedByReply
  BY DEF ChatInv
<1> QED
  BY <1>1, InvHolds, PTL

\* The last message is the newest where no two sends cross (message.go:205-222).
THEOREM LastIsNewestHolds == ChatSpec => []LastIsNewest
<1>1. ChatInv => LastIsNewest
  BY DEF ChatInv
<1> QED
  BY <1>1, InvHolds, PTL

\* Who has been told that it can send is not refused for want of an answer, by
\* whatever request (helper.go:80-91, sendchatmessagelogic.go:204-208).
THEOREM CanSendIsKeptHolds == ChatSpec => CanSendIsKept
<1>1. ASSUME ChatInv, [ChatNext]_chatVars, NEW r \in ChatRequest,
             ~Chatting(r, "refused"), Chatting(r, "refused")'
      PROVE  <<chat'[r].account, chat'[r].pair>> \notin told
  <2>1. chat \in [ChatRequest -> ChatState]
    BY <1>1 DEF ChatInv, ChatTypeOK
  <2>2. PICK a \in Account, p \in Pair :
            a \in p /\ AwaitsReply(conversation[p], a) /\ RefusedPending(r, a, p)
    <3>1. PICK q \in ChatRequest :
              \/ SendUserChatMessage(q) \/ SendAdminChatMessage(q)
              \/ CreateConversation(q) \/ AppendMessage(q)
              \/ ListConversations(q) \/ GetConversationMessages(q) \/ Answer(q)
              \/ MarkConversationRead(q) \/ MarkRead(q)
              \/ ChatFails(q) \/ AnswerLost(q)
      BY <1>1 DEF ChatNext, chatVars, Chatting
    <3>2. CASE SendUserChatMessage(q) \/ SendAdminChatMessage(q)
      <4>1. PICK a \in Account, p \in Pair, short \in BOOLEAN :
                a \in p /\ SendChatMessage(q, a, p, short)
        BY <3>2 DEF SendUserChatMessage, SendAdminChatMessage, Account
      <4>2. \A pc \in {"create", "append"} : ~Compose(q, a, p, short, pc)
        BY <1>1, <2>1 DEF Compose, Chatting
      <4>3. ~UNCHANGED chatVars
        BY <1>1 DEF chatVars, Chatting
      <4>4. AwaitsReply(conversation[p], a) /\ RefusedPending(q, a, p)
        BY <4>1, <4>2, <4>3 DEF SendChatMessage
      <4>5. q = r
        BY <1>1, <2>1, <4>4 DEF RefusedPending, Chatting
      <4> QED
        BY <4>1, <4>4, <4>5
    <3>3. CASE ~(SendUserChatMessage(q) \/ SendAdminChatMessage(q))
      BY <1>1, <2>1, <3>1, <3>3
         DEF CreateConversation, AppendMessage, ListConversations, GetConversationMessages,
             Answer, MarkConversationRead, MarkRead, ChatFails, AnswerLost, ReadRow, ChatDone,
             ChatIdle, Chatting
    <3> QED
      BY <3>2, <3>3
  <2>3. chat'[r].account = a /\ chat'[r].pair = p
    BY <2>1, <2>2 DEF RefusedPending
  <2> QED
    BY <1>1, <2>2, <2>3 DEF ChatInv, ToldCanSend
<1>2. ChatInv /\ [ChatNext]_chatVars =>
        [\A r \in ChatRequest :
            ~Chatting(r, "refused") /\ Chatting(r, "refused")' =>
                <<chat'[r].account, chat'[r].pair>> \notin told]_chatVars
  BY <1>1
<1> QED
  BY <1>2, InvHolds, PTL DEF ChatSpec, CanSendIsKept

----------------------------------------------------------------------------
(* Notifications: what the loop over a page computes *)

\* Numbers are well-founded: what holds of no least number holds of none.
LEMMA LeastNumber ==
  ASSUME NEW T \in SUBSET Nat, T # {}
  PROVE  \E n \in T : \A m \in T : n <= m
<1>1. PICK R : R = OpToRel(<, Nat)
  OBVIOUS
<1>2. IsWellFoundedOn(R, Nat)
  BY <1>1, NatLessThanWellFounded
<1>3. PICK n \in T : \A m \in T : ~ (<<m, n>> \in R)
  BY <1>2, WFMin
<1>4. \A m \in Nat : m < n => <<m, n>> \in R
  BY <1>1 DEF OpToRel
<1>5. \A m \in T : ~(m < n)
  BY <1>3, <1>4
<1>6. n \in Nat /\ \A m \in T : m \in Nat
  OBVIOUS
<1>7. \A m \in T : n <= m
  BY <1>5, <1>6, SMT
<1> QED
  BY <1>7

\* The loop has a result, which is what its turns make of each other.
LEMMA LoopLemma ==
  ASSUME NEW recipients \in Seq(Recipient), NEW list \in Seq(Recipient)
  PROVE  \E kept :
            /\ Collected(recipients, list) = kept[Len(list)]
            /\ \A i \in 0 .. Len(list) :
                  kept[i] = IF i = 0 THEN recipients
                            ELSE IF Contains(kept[i - 1], list[i]) THEN kept[i - 1]
                            ELSE Append(kept[i - 1], list[i])
<1> DEFINE Body(kept, i) == IF i = 0 THEN recipients
                            ELSE IF Contains(kept[i - 1], list[i]) THEN kept[i - 1]
                            ELSE Append(kept[i - 1], list[i])
           Good(n, f) == f = [i \in 0 .. n |-> Body(f, i)]
           T == {n \in 0 .. Len(list) : ~\E f : Good(n, f)}
<1>1. Len(list) \in Nat
  OBVIOUS
<1>2. \A n \in 0 .. Len(list) : \E f : Good(n, f)
  <2> SUFFICES ASSUME T # {} PROVE FALSE
    OBVIOUS
  <2>1. T \in SUBSET Nat
    BY <1>1
  <2>2. PICK n \in T : \A m \in T : n <= m
    <3> HIDE DEF T
    <3> QED
      BY <2>1, LeastNumber
  <2>3. n \in 0 .. Len(list) /\ ~\E f : Good(n, f)
    BY <2>2
  <2>4. n # 0
    <3>1. Good(0, [i \in 0 .. 0 |-> recipients])
      OBVIOUS
    <3> QED
      BY <2>3, <3>1
  <2>5. n - 1 \in 0 .. Len(list)
    BY <1>1, <2>3, <2>4
  <2>6. n - 1 \notin T
    <3> HIDE DEF T
    <3> QED
      BY <2>1, <2>2
  <2>7. PICK f : Good(n - 1, f)
    BY <2>5, <2>6
  <2> DEFINE g == [i \in 0 .. n |-> IF i = n THEN Body(f, n) ELSE f[i]]
  <2>8. ASSUME NEW i \in 0 .. n PROVE g[i] = Body(g, i)
    <3>1. i \in 0 .. n - 1 => g[i] = f[i] /\ f[i] = Body(f, i)
      BY <1>1, <2>3, <2>4, <2>7
    <3>2. i # 0 => g[i - 1] = f[i - 1]
      BY <1>1, <2>3, <2>4
    <3>3. i = n => g[i] = Body(f, i)
      BY <1>1, <2>3
    <3>4. i \in 0 .. n - 1 \/ i = n
      BY <1>1, <2>3
    <3>5. Body(f, i) = Body(g, i)
      <4> HIDE DEF g
      <4> QED
        BY <3>2
    <3> HIDE DEF g
    <3> QED
      BY <3>1, <3>3, <3>4, <3>5
  <2>9. g = [i \in 0 .. n |-> Body(g, i)]
    <3> DEFINE h == [i \in 0 .. n |-> Body(g, i)]
    <3>1. \A i \in 0 .. n : h[i] = Body(g, i)
      OBVIOUS
    <3>2. \A i \in 0 .. n : g[i] = h[i]
      BY <2>8, <3>1
    <3>3. g = [i \in 0 .. n |-> g[i]] /\ h = [i \in 0 .. n |-> h[i]]
      OBVIOUS
    <3> HIDE DEF g, h
    <3>4. g = h
      BY <3>2, <3>3
    <3> QED
      BY <3>4 DEF h
  <2> QED
    BY <2>3, <2>9
<1>3. \E g : g = [i \in 0 .. Len(list) |-> Body(g, i)]
  <2>1. Len(list) \in 0 .. Len(list)
    BY <1>1
  <2> HIDE DEF Body
  <2> QED
    BY <1>2, <2>1
<1> DEFINE kept == CHOOSE g : g = [i \in 0 .. Len(list) |-> Body(g, i)]
<1>5. kept = [i \in 0 .. Len(list) |-> Body(kept, i)]
  BY <1>3
<1>6. Collected(recipients, list) = kept[Len(list)]
  BY DEF Collected
<1>7. \A i \in 0 .. Len(list) : kept[i] = Body(kept, i)
  BY <1>5
<1> HIDE DEF kept
<1> QED
  BY <1>6, <1>7

\* What Append adds.
LEMMA AppendLemma ==
  ASSUME NEW s \in Seq(Recipient), NEW x \in Recipient, NEW u
  PROVE  Contains(Append(s, x), u) <=> Contains(s, u) \/ u = x
<1> DEFINE t == Append(s, x)
<1>1. /\ DOMAIN t = 1 .. Len(s) + 1 /\ DOMAIN s = 1 .. Len(s) /\ Len(s) \in Nat
      /\ t[Len(s) + 1] = x
      /\ \A i \in 1 .. Len(s) : t[i] = s[i]
  OBVIOUS
<1> HIDE DEF t
<1>2. Contains(t, u) <=> Contains(s, u) \/ u = x
  BY <1>1 DEF Contains
<1> QED
  BY <1>2 DEF t

\* The loop adds the users of the page, and each once.
LEMMA CollectedLemma ==
  ASSUME NEW recipients \in Seq(Recipient), NEW list \in Seq(Recipient)
  PROVE  LET all == Collected(recipients, list) IN
         /\ all \in Seq(Recipient)
         /\ \A u : Contains(all, u) <=> Contains(recipients, u) \/ Contains(list, u)
         /\ IsInjective(recipients) => IsInjective(all)
<1>1. PICK kept :
            /\ Collected(recipients, list) = kept[Len(list)]
            /\ \A i \in 0 .. Len(list) :
                  kept[i] = IF i = 0 THEN recipients
                            ELSE IF Contains(kept[i - 1], list[i]) THEN kept[i - 1]
                            ELSE Append(kept[i - 1], list[i])
  BY LoopLemma
<1> DEFINE Good(i) ==
      /\ kept[i] \in Seq(Recipient)
      /\ \A u : Contains(kept[i], u) <=> Contains(recipients, u) \/ \E j \in 1 .. i : list[j] = u
      /\ IsInjective(recipients) => IsInjective(kept[i])
    T == {i \in 0 .. Len(list) : ~Good(i)}
<1>2. Len(list) \in Nat /\ \A i \in 1 .. Len(list) : list[i] \in Recipient
  OBVIOUS
<1>3. T = {}
  <2> SUFFICES ASSUME T # {} PROVE FALSE
    OBVIOUS
  <2>1. T \in SUBSET Nat
    BY <1>2
  <2>2. PICK n \in T : \A m \in T : n <= m
    <3> HIDE DEF T
    <3> QED
      BY <2>1, LeastNumber
  <2>3. n \in 0 .. Len(list) /\ ~Good(n)
    BY <2>2
  <2>4. n # 0
    <3>1. kept[0] = recipients
      BY <1>1, <1>2
    <3> QED
      BY <2>3, <3>1
  <2>5. n - 1 \in 0 .. Len(list)
    BY <1>2, <2>3, <2>4
  <2>6. Good(n - 1)
    <3>1. n - 1 \notin T
      <4> HIDE DEF T
      <4> QED
        BY <2>1, <2>2
    <3> QED
      BY <2>5, <3>1
  <2>7. list[n] \in Recipient
    BY <1>2, <2>3, <2>4
  <2>8. \A u : (\E j \in 1 .. n : list[j] = u) <=> (list[n] = u \/ \E j \in 1 .. n - 1 : list[j] = u)
    BY <1>2, <2>3, <2>4
  <2>9. CASE Contains(kept[n - 1], list[n])
    <3>1. kept[n] = kept[n - 1]
      BY <1>1, <2>3, <2>4, <2>9
    <3> QED
      BY <2>3, <2>6, <2>8, <2>9, <3>1
  <2>10. CASE ~Contains(kept[n - 1], list[n])
    <3>1. kept[n] = Append(kept[n - 1], list[n])
      BY <1>1, <2>3, <2>4, <2>10
    <3>2. kept[n] \in Seq(Recipient)
      BY <2>6, <2>7, <3>1
    <3>3. \A u : Contains(kept[n], u) <=> Contains(kept[n - 1], u) \/ u = list[n]
      <4> DEFINE k == kept[n - 1]
      <4>1. k \in Seq(Recipient) /\ kept[n] = Append(k, list[n])
        BY <2>6, <3>1
      <4> HIDE DEF k
      <4>2. \A u : Contains(Append(k, list[n]), u) <=> Contains(k, u) \/ u = list[n]
        BY <2>7, <4>1, AppendLemma
      <4> QED
        BY <4>1, <4>2 DEF k
    <3>4. IsInjective(kept[n - 1]) => IsInjective(kept[n])
      BY <2>6, <2>7, <2>10, <3>1 DEF Contains, IsInjective
    <3> QED
      BY <2>3, <2>6, <2>8, <3>2, <3>3, <3>4
  <2> QED
    BY <2>9, <2>10
<1>4. Good(Len(list))
  BY <1>2, <1>3
<1>5. \A u : Contains(list, u) <=> \E j \in 1 .. Len(list) : list[j] = u
  BY DEF Contains
<1> QED
  BY <1>1, <1>4, <1>5

----------------------------------------------------------------------------
(* Notifications: the invariant *)

\* The users on a page and on those after it.
From(page) == {userList[i] : i \in {j \in DOMAIN userList : j > (page - 1) * PageSize}}

\* A call collects nobody twice.
CollectsOnce == \A c \in Call : IsInjective(call[c].recipients)

\* A call that has not begun is at the first page.
CallsBegin ==
    \A c \in Call :
        /\ call[c].page > 0
        /\ call[c].pc = "new" =>
              call[c].page = 1 /\ call[c].recipients = <<>> /\ ~call[c].broadcast

\* Unless a user was deleted, who was there from the start of a broadcast is
\* collected or on a page not asked for yet.
PassesNobody(state) ==
    /\ state.broadcast /\ ~state.deletion
    /\ state.pc \in {"collect", "insert", "done"}
    => \A u \in state.since :
          \/ Contains(state.recipients, u)
          \/ state.pc = "collect" /\ u \in From(state.page)

NobodyIsPassed == \A c \in Call : PassesNobody(call[c])

\* The notifications are those of the calls that are done, one for each recipient.
NotesOf(c) ==
    IF call[c].pc = "done"
    THEN {[call |-> c, nr |-> i, to |-> call[c].recipients[i]] : i \in DOMAIN call[c].recipients}
    ELSE {}

NotesAreSent == notifications = UNION {NotesOf(c) : c \in Call}

NoteInv == NoteTypeOK /\ CollectsOnce /\ CallsBegin /\ NobodyIsPassed /\ NotesAreSent


\* The invariant rules out both ways to go wrong: EachUserOnce.
LEMMA NoteInvImpliesOnce == NoteInv => EachUserOnce
<1> SUFFICES ASSUME NoteInv PROVE EachUserOnce
  OBVIOUS
<1>1. \A n \in notifications :
        /\ n.call \in Call /\ call[n.call].pc = "done"
        /\ n.nr \in DOMAIN call[n.call].recipients
        /\ n.to = call[n.call].recipients[n.nr]
        /\ n = [call |-> n.call, nr |-> n.nr, to |-> n.to]
  BY DEF NoteInv, NotesAreSent, NotesOf
<1>2. ASSUME NEW c \in Call, call[c].pc = "done", call[c].broadcast, ~call[c].deletion,
             NEW u \in call[c].since
      PROVE  \E n \in notifications : n.call = c /\ n.to = u
  <2>1. Contains(call[c].recipients, u)
    BY <1>2 DEF NoteInv, NobodyIsPassed, PassesNobody
  <2>2. call[c].recipients \in Seq(Recipient)
    BY DEF NoteInv, NoteTypeOK, CallState
  <2>3. PICK i \in DOMAIN call[c].recipients : call[c].recipients[i] = u
    BY <2>1, <2>2 DEF Contains
  <2>4. [call |-> c, nr |-> i, to |-> call[c].recipients[i]] \in notifications
    BY <1>2, <2>3 DEF NoteInv, NotesAreSent, NotesOf
  <2> QED
    BY <2>3, <2>4
<1>3. ASSUME NEW m \in notifications, NEW n \in notifications, m.call = n.call, m.to = n.to
      PROVE  m = n
  <2>1. m.nr = n.nr
    BY <1>1, <1>3 DEF NoteInv, CollectsOnce, IsInjective
  <2> QED
    BY <1>1, <1>3, <2>1
<1> QED
  BY <1>2, <1>3 DEF EachUserOnce

LEMMA NoteInitHolds == NoteInit => NoteInv
<1> SUFFICES ASSUME NoteInit PROVE NoteInv
  OBVIOUS
<1>1. \A c \in Call : call[c] = NewCall
  BY DEF NoteInit
<1>2. NewCall \in CallState
  BY DEF NewCall, CallState
<1>3. NoteTypeOK
  BY <1>2 DEF NoteInit, NoteTypeOK
<1>4. CollectsOnce /\ CallsBegin /\ NobodyIsPassed
  BY <1>1 DEF CollectsOnce, CallsBegin, NobodyIsPassed, PassesNobody, NewCall, IsInjective
<1>5. NotesAreSent
  BY <1>1 DEF NoteInit, NotesAreSent, NotesOf, NewCall
<1> QED
  BY <1>3, <1>4, <1>5 DEF NoteInv

\* A call that goes on without an insert leaves the others and the table alone.
LEMMA CallKeepsInv ==
  ASSUME NoteInv, NEW c \in Call, NEW state \in CallState,
         call' = [call EXCEPT ![c] = state],
         call[c].pc # "done", state.pc \notin {"new", "done"},
         state.page > 0, IsInjective(state.recipients),
         PassesNobody(state),
         UNCHANGED <<userList, registered, notifications, unreadNotes>>
  PROVE  NoteInv'
<1>1. call \in [Call -> CallState]
  BY DEF NoteInv, NoteTypeOK
<1>2. call'[c] = state /\ \A d \in Call \ {c} : call'[d] = call[d]
  BY <1>1
<1>3. NoteTypeOK'
  BY <1>1 DEF NoteInv, NoteTypeOK
<1>4. CollectsOnce'
  BY <1>2 DEF NoteInv, CollectsOnce
<1>5. CallsBegin'
  BY <1>2 DEF NoteInv, CallsBegin
<1>6. NobodyIsPassed'
  <2>1. \A x : PassesNobody(x)' <=> PassesNobody(x)
    BY DEF PassesNobody, From
  <2> QED
    BY <1>2, <2>1 DEF NoteInv, NobodyIsPassed
<1>7. NotesAreSent'
  <2>1. \A d \in Call : NotesOf(d)' = NotesOf(d)
    BY <1>2 DEF NotesOf
  <2> QED
    BY <2>1 DEF NoteInv, NotesAreSent
<1> QED
  BY <1>3, <1>4, <1>5, <1>6, <1>7 DEF NoteInv

LEMMA SendKeepsNotes ==
  ASSUME NoteInv, NEW c \in Call, SendToOne(c) \/ SendBroadcast(c)
  PROVE  NoteInv'
<1>1. call \in [Call -> CallState] /\ userList \in Seq(Recipient)
  BY DEF NoteInv, NoteTypeOK
<1>2. call[c].pc = "new" /\ call[c].page = 1 /\ call[c].recipients = <<>>
  BY DEF SendToOne, SendBroadcast, NoteInv, CallsBegin
<1>3. CASE SendToOne(c)
  <2>1. PICK u \in Recipient :
            call' = [call EXCEPT ![c] = [call[c] EXCEPT !.pc = "insert", !.recipients = <<u>>]]
    BY <1>3 DEF SendToOne
  <2> DEFINE state == [call[c] EXCEPT !.pc = "insert", !.recipients = <<u>>]
  <2>2. state \in CallState
    <3>1. <<u>> \in Seq(Recipient)
      OBVIOUS
    <3> QED
      BY <1>1, <3>1 DEF CallState
  <2>3. IsInjective(state.recipients)
    BY <1>1 DEF IsInjective, CallState
  <2>4. ~call[c].broadcast
    BY <1>2 DEF NoteInv, CallsBegin
  <2>5. state.pc = "insert" /\ state.page = 1 /\ ~state.broadcast
    BY <1>1, <1>2, <2>4 DEF CallState
  <2>6. UNCHANGED <<userList, registered, notifications, unreadNotes>>
    BY <1>3 DEF SendToOne
  <2>7. call' = [call EXCEPT ![c] = state]
    BY <2>1
  <2> HIDE DEF state
  <2>8. PassesNobody(state)
    BY <2>5 DEF PassesNobody
  <2> QED
    <3>1. /\ c \in Call /\ state \in CallState
          /\ call' = [call EXCEPT ![c] = state]
          /\ call[c].pc # "done" /\ state.pc \notin {"new", "done"}
          /\ state.page > 0 /\ IsInjective(state.recipients)
          /\ PassesNobody(state)
          /\ UNCHANGED <<userList, registered, notifications, unreadNotes>>
      BY <1>2, <2>2, <2>3, <2>5, <2>6, <2>7, <2>8
    <3> QED
      BY <3>1, CallKeepsInv
<1>4. CASE SendBroadcast(c)
  <2> DEFINE state == [call[c] EXCEPT !.pc = "collect", !.broadcast = TRUE, !.since = Listed]
  <2>1. call' = [call EXCEPT ![c] = state]
    BY <1>4 DEF SendBroadcast
  <2>2. state \in CallState
    <3>1. Listed \subseteq Recipient
      BY <1>1 DEF Listed
    <3> QED
      BY <1>1, <3>1 DEF CallState
  <2>3. /\ state.pc = "collect" /\ state.page = 1 /\ state.recipients = <<>>
        /\ state.since = Listed
    BY <1>1, <1>2 DEF CallState
  <2>4. Listed = From(1)
    BY <1>1, NotificationAssumption DEF Listed, From
  <2>5. IsInjective(state.recipients)
    BY <2>3 DEF IsInjective
  <2>6. UNCHANGED <<userList, registered, notifications, unreadNotes>>
    BY <1>4 DEF SendBroadcast
  <2> HIDE DEF state
  <2>7. PassesNobody(state)
    BY <2>3, <2>4 DEF PassesNobody
  <2> QED
    <3>1. /\ c \in Call /\ state \in CallState
          /\ call' = [call EXCEPT ![c] = state]
          /\ call[c].pc # "done" /\ state.pc \notin {"new", "done"}
          /\ state.page > 0 /\ IsInjective(state.recipients)
          /\ PassesNobody(state)
          /\ UNCHANGED <<userList, registered, notifications, unreadNotes>>
      BY <1>2, <2>1, <2>2, <2>3, <2>5, <2>6, <2>7
    <3> QED
      BY <3>1, CallKeepsInv
<1> QED
  BY <1>3, <1>4


\* What a page holds, by the positions of the list.
LEMMA PageLemma ==
  ASSUME userList \in Seq(Recipient), NEW page \in Nat, page > 0
  PROVE  /\ GetUserList(page) \in Seq(Recipient)
         /\ \A u \in From(page) : Contains(GetUserList(page), u) \/ u \in From(page + 1)
         /\ IsLastPage(GetUserList(page)) => From(page + 1) = {}
<1> DEFINE read == (page - 1) * PageSize
           end == IF page * PageSize < Len(userList) THEN page * PageSize ELSE Len(userList)
           list == SubSeq(userList, read + 1, end)
<1>1. /\ read \in Nat /\ page * PageSize = read + PageSize /\ PageSize \in Nat \ {0}
      /\ (page + 1 - 1) * PageSize = read + PageSize
  BY NotificationAssumption
<1>2. Len(userList) \in Nat /\ DOMAIN userList = 1 .. Len(userList)
  OBVIOUS
<1> HIDE DEF read
<1>3. end \in Nat /\ end <= Len(userList)
  BY <1>1, <1>2
<1>4. GetUserList(page) = list
  BY DEF GetUserList, read
<1>5. /\ list \in Seq(Recipient)
      /\ Len(list) = IF read + 1 <= end THEN end - read ELSE 0
      /\ \A k \in 1 .. Len(list) : list[k] = userList[read + k]
  <2>1. \A i \in read + 1 .. end : userList[i] \in Recipient
    BY <1>1, <1>2, <1>3
  <2> HIDE DEF end
  <2> QED
    BY <1>1, <1>2, <1>3, <2>1, SubSeqProperties
<1>6. /\ From(page) = {userList[i] : i \in {j \in DOMAIN userList : j > read}}
      /\ From(page + 1) = {userList[i] : i \in {j \in DOMAIN userList : j > read + PageSize}}
  BY <1>1 DEF From, read
<1>7. ASSUME NEW u \in From(page) PROVE Contains(list, u) \/ u \in From(page + 1)
  <2>1. PICK i \in DOMAIN userList : i > read /\ userList[i] = u
    BY <1>6, <1>7
  <2>2. CASE i > read + PageSize
    BY <1>6, <2>1, <2>2
  <2>3. CASE ~(i > read + PageSize)
    <3>1. i <= end
      BY <1>1, <1>2, <2>1, <2>3
    <3>2. i - read \in 1 .. Len(list) /\ read + (i - read) = i
      BY <1>1, <1>2, <1>3, <1>5, <2>1, <3>1
    <3> QED
      BY <1>5, <2>1, <3>2 DEF Contains
  <2> QED
    BY <2>2, <2>3
<1>8. ASSUME Len(list) < PageSize PROVE From(page + 1) = {}
  <2>1. Len(userList) <= read + PageSize
    BY <1>1, <1>2, <1>5, <1>8
  <2> QED
    BY <1>1, <1>2, <1>6, <2>1
<1> QED
  BY <1>4, <1>5, <1>7, <1>8 DEF IsLastPage

LEMMA PageKeepsNotes ==
  ASSUME NoteInv, NEW c \in Call, CollectPage(c)
  PROVE  NoteInv'
<1> DEFINE list == GetUserList(call[c].page)
           recipients == Collected(call[c].recipients, list)
           pc == IF ~IsLastPage(list) THEN "collect"
                 ELSE IF recipients = <<>> THEN "failed" ELSE "insert"
           state == [call[c] EXCEPT !.recipients = recipients, !.page = @ + 1, !.pc = pc]
<1>1. /\ call \in [Call -> CallState] /\ userList \in Seq(Recipient)
      /\ call[c].page > 0
  BY DEF NoteInv, NoteTypeOK, CallsBegin
<1>2. /\ call[c].pc = "collect"
      /\ call' = [call EXCEPT ![c] = state]
      /\ UNCHANGED <<userList, registered, notifications, unreadNotes>>
  BY DEF CollectPage
<1>3. call[c].recipients \in Seq(Recipient) /\ call[c].page \in Nat
  BY <1>1 DEF CallState
<1>4. /\ list \in Seq(Recipient)
      /\ \A u \in From(call[c].page) : Contains(list, u) \/ u \in From(call[c].page + 1)
      /\ IsLastPage(list) => From(call[c].page + 1) = {}
  BY <1>1, <1>3, PageLemma
<1> HIDE DEF list
<1>5. /\ recipients \in Seq(Recipient)
      /\ \A u : Contains(recipients, u) <=> Contains(call[c].recipients, u) \/ Contains(list, u)
      /\ IsInjective(recipients)
  BY <1>3, <1>4, CollectedLemma DEF NoteInv, CollectsOnce
<1> HIDE DEF recipients
<1>6. pc \in {"collect", "failed", "insert"} /\ (pc = "collect" => ~IsLastPage(list))
       /\ (pc = "insert" => IsLastPage(list))
  OBVIOUS
<1> HIDE DEF pc
<1>7. state \in CallState
  <2>1. call[c] \in CallState /\ call[c].page + 1 \in Nat
    BY <1>1, <1>3
  <2> QED
    BY <1>5, <1>6, <2>1 DEF CallState
<1>8. /\ state.recipients = recipients /\ state.page = call[c].page + 1
      /\ state.pc = pc
      /\ state.broadcast = call[c].broadcast /\ state.deletion = call[c].deletion
      /\ state.since = call[c].since
  BY <1>1 DEF CallState
<1> HIDE DEF state
<1>9. PassesNobody(state)
  <2> SUFFICES ASSUME state.broadcast, ~state.deletion, state.pc \in {"collect", "insert"},
                      NEW u \in state.since
               PROVE  \/ Contains(state.recipients, u)
                      \/ state.pc = "collect" /\ u \in From(state.page)
    BY <1>8, <1>6 DEF PassesNobody
  <2>1. Contains(call[c].recipients, u) \/ u \in From(call[c].page)
    BY <1>2, <1>8 DEF NoteInv, NobodyIsPassed, PassesNobody
  <2>2. Contains(recipients, u) \/ u \in From(call[c].page + 1)
    BY <1>4, <1>5, <2>1
  <2> QED
    BY <1>4, <1>8, <1>6, <2>2
<1>10. state.pc \notin {"new", "done"} /\ state.page > 0
  BY <1>1, <1>3, <1>8, <1>6
<1>11. call[c].pc # "done" /\ IsInjective(state.recipients)
  BY <1>2, <1>5, <1>8
<1> QED
  BY <1>2, <1>7, <1>9, <1>10, <1>11, CallKeepsInv

LEMMA FailKeepsNotes ==
  ASSUME NoteInv, NEW c \in Call, CallFails(c)
  PROVE  NoteInv'
<1> DEFINE state == [call[c] EXCEPT !.pc = "failed"]
<1>1. call \in [Call -> CallState]
  BY DEF NoteInv, NoteTypeOK
<1>2. /\ call[c].pc # "done"
      /\ call' = [call EXCEPT ![c] = state]
      /\ UNCHANGED <<userList, registered, notifications, unreadNotes>>
  BY DEF CallFails
<1>3. /\ state \in CallState /\ state.pc = "failed"
      /\ state.page = call[c].page /\ state.recipients = call[c].recipients
  BY <1>1 DEF CallState
<1> HIDE DEF state
<1>4. /\ state.page > 0 /\ IsInjective(state.recipients) /\ PassesNobody(state)
      /\ state.pc \notin {"new", "done"}
  BY <1>3 DEF NoteInv, CallsBegin, CollectsOnce, PassesNobody
<1> QED
  BY <1>2, <1>3, <1>4, CallKeepsInv


LEMMA InsertKeepsNotes ==
  ASSUME NoteInv, NEW c \in Call, CreateNotifications(c)
  PROVE  NoteInv'
<1> DEFINE new == {[call |-> c, nr |-> i, to |-> call[c].recipients[i]] :
                      i \in DOMAIN call[c].recipients}
<1>1. /\ call \in [Call -> CallState] /\ userList \in Seq(Recipient)
      /\ registered \subseteq Recipient
      /\ notifications \subseteq Note /\ unreadNotes \subseteq notifications
  BY DEF NoteInv, NoteTypeOK
<1>2. /\ call[c].pc = "insert" /\ call' = [call EXCEPT ![c].pc = "done"]
      /\ notifications' = notifications \cup new /\ unreadNotes' = unreadNotes \cup new
      /\ UNCHANGED <<userList, registered>>
  BY DEF CreateNotifications
<1>3. call[c].recipients \in Seq(Recipient)
  BY <1>1 DEF CallState
<1>4. new \subseteq Note
  BY <1>3 DEF Note
<1>5. /\ call'[c].pc = "done" /\ call'[c].recipients = call[c].recipients
      /\ call'[c].page = call[c].page /\ call'[c].broadcast = call[c].broadcast
      /\ call'[c].deletion = call[c].deletion /\ call'[c].since = call[c].since
      /\ \A d \in Call \ {c} : call'[d] = call[d]
  BY <1>1, <1>2 DEF CallState
<1>6. NoteTypeOK'
  <2>1. call' \in [Call -> CallState]
    BY <1>1, <1>2 DEF CallState
  <2> QED
    BY <1>1, <1>2, <1>4, <2>1 DEF NoteTypeOK
<1>7. CollectsOnce' /\ CallsBegin'
  BY <1>5 DEF NoteInv, CollectsOnce, CallsBegin
<1>8. NobodyIsPassed'
  <2>1. \A x : PassesNobody(x)' <=> PassesNobody(x)
    BY <1>2 DEF PassesNobody, From
  <2>2. PassesNobody(call'[c])
    BY <1>2, <1>5 DEF NoteInv, NobodyIsPassed, PassesNobody
  <2> QED
    BY <1>5, <2>1, <2>2 DEF NoteInv, NobodyIsPassed
<1>9. NotesAreSent'
  <2>1. NotesOf(c)' = new /\ NotesOf(c) = {}
    BY <1>2, <1>5 DEF NotesOf
  <2>2. \A d \in Call \ {c} : NotesOf(d)' = NotesOf(d)
    BY <1>5 DEF NotesOf
  <2> HIDE DEF new
  <2> QED
    BY <1>2, <2>1, <2>2 DEF NoteInv, NotesAreSent
<1> QED
  BY <1>6, <1>7, <1>8, <1>9 DEF NoteInv

LEMMA RegisterKeepsNotes ==
  ASSUME NoteInv, NEW u \in Recipient, UserRegisters(u)
  PROVE  NoteInv'
<1>1. userList \in Seq(Recipient) /\ call \in [Call -> CallState]
  BY DEF NoteInv, NoteTypeOK
<1>2. /\ userList' = <<u>> \o userList /\ registered' = registered \cup {u}
      /\ UNCHANGED <<notifications, unreadNotes, call>>
  BY DEF UserRegisters
<1>3. /\ userList' \in Seq(Recipient)
      /\ \A i \in DOMAIN userList : i + 1 \in DOMAIN userList' /\ userList'[i + 1] = userList[i]
  BY <1>1, <1>2
<1>4. NoteTypeOK'
  BY <1>2, <1>3 DEF NoteInv, NoteTypeOK
<1>5. CollectsOnce' /\ CallsBegin' /\ NotesAreSent'
  BY <1>2 DEF NoteInv, CollectsOnce, CallsBegin, NotesAreSent, NotesOf
<1>6. \A page \in Nat \ {0} : From(page) \subseteq From(page)'
  <2> SUFFICES ASSUME NEW page \in Nat \ {0}, NEW i \in DOMAIN userList,
                      i > (page - 1) * PageSize
               PROVE  userList[i] \in From(page)'
    BY DEF From
  <2>1. (page - 1) * PageSize \in Nat
    BY NotificationAssumption
  <2> DEFINE read == (page - 1) * PageSize
  <2>2. i \in Nat
    BY <1>1
  <2>3. i + 1 > read
    <3> HIDE DEF read
    <3> QED
      BY <2>1, <2>2 DEF read
  <2> QED
    BY <1>3, <2>3 DEF From
<1>7. NobodyIsPassed'
  <2> SUFFICES ASSUME NEW c \in Call PROVE PassesNobody(call[c])'
    BY <1>2 DEF NobodyIsPassed
  <2>1. call[c].page \in Nat \ {0}
    BY <1>1 DEF CallState, NoteInv, CallsBegin
  <2> QED
    BY <1>2, <1>6, <2>1 DEF NoteInv, NobodyIsPassed, PassesNobody
<1> QED
  BY <1>4, <1>5, <1>7 DEF NoteInv

LEMMA DeletionKeepsNotes ==
  ASSUME NoteInv, NEW u \in Recipient, UserDeleted(u)
  PROVE  NoteInv'
<1>1. userList \in Seq(Recipient) /\ call \in [Call -> CallState]
  BY DEF NoteInv, NoteTypeOK
<1>2. userList' \in Seq(Recipient)
  <2>1. PICK i \in DOMAIN userList : userList' = RemoveAt(userList, i)
    BY DEF UserDeleted
  <2>2. SubSeq(userList, 1, i - 1) \in Seq(Recipient)
    BY <1>1
  <2>3. SubSeq(userList, i + 1, Len(userList)) \in Seq(Recipient)
    BY <1>1
  <2> QED
    BY <2>1, <2>2, <2>3 DEF RemoveAt
<1>3. ASSUME NEW c \in Call
      PROVE  /\ call'[c] \in CallState
             /\ call'[c].pc = call[c].pc /\ call'[c].page = call[c].page
             /\ call'[c].recipients = call[c].recipients
             /\ call'[c].broadcast = call[c].broadcast
             /\ call[c].pc \in {"collect", "insert"} => call'[c].deletion
             /\ call[c].pc \notin {"collect", "insert"} => call'[c] = call[c]
  <2>1. CASE call[c].pc \in {"collect", "insert"}
    <3>1. call'[c] = [call[c] EXCEPT !.since = @ \ {u}, !.deletion = TRUE]
      BY <2>1 DEF UserDeleted
    <3>2. call[c] \in CallState /\ call[c].since \ {u} \subseteq Recipient
      BY <1>1 DEF CallState
    <3> QED
      BY <2>1, <3>1, <3>2 DEF CallState
  <2>2. CASE call[c].pc \notin {"collect", "insert"}
    BY <1>1, <2>2 DEF UserDeleted
  <2> QED
    BY <2>1, <2>2
<1>4. UNCHANGED <<registered, notifications, unreadNotes>>
  BY DEF UserDeleted
<1>5. call' \in [Call -> CallState]
  BY <1>3 DEF UserDeleted
<1>6. NoteTypeOK'
  BY <1>2, <1>4, <1>5 DEF NoteInv, NoteTypeOK
<1>7. CollectsOnce' /\ CallsBegin'
  BY <1>3 DEF NoteInv, CollectsOnce, CallsBegin
<1>8. NobodyIsPassed'
  <2> SUFFICES ASSUME NEW c \in Call PROVE PassesNobody(call[c])'
    BY DEF NobodyIsPassed
  <2>1. CASE call[c].pc \in {"collect", "insert"}
    BY <1>3, <2>1 DEF PassesNobody
  <2>2. CASE call[c].pc \notin {"collect", "insert"}
    BY <1>3, <2>2 DEF NoteInv, NobodyIsPassed, PassesNobody
  <2> QED
    BY <2>1, <2>2
<1>9. NotesAreSent'
  <2>1. \A c \in Call : NotesOf(c)' = NotesOf(c)
    BY <1>3 DEF NotesOf
  <2> QED
    BY <1>4, <2>1 DEF NoteInv, NotesAreSent
<1> QED
  BY <1>6, <1>7, <1>8, <1>9 DEF NoteInv

LEMMA NoteKeepsInv == NoteInv /\ [NoteNext]_noteVars => NoteInv'
<1> SUFFICES ASSUME NoteInv, [NoteNext]_noteVars PROVE NoteInv'
  OBVIOUS
<1>1. CASE UNCHANGED noteVars
  BY <1>1 DEF NoteInv, noteVars, NoteTypeOK, CollectsOnce, CallsBegin, NobodyIsPassed,
              PassesNobody, From, NotesAreSent, NotesOf
<1>2. ASSUME NEW u \in Recipient, MarkNotificationRead(u) \/ MarkAllNotificationsRead(u)
      PROVE  NoteInv'
  <2>1. unreadNotes' \subseteq unreadNotes /\ UNCHANGED <<userList, registered, notifications, call>>
    BY <1>2 DEF MarkNotificationRead, MarkAllNotificationsRead
  <2> QED
    BY <2>1 DEF NoteInv, NoteTypeOK, CollectsOnce, CallsBegin, NobodyIsPassed,
                PassesNobody, From, NotesAreSent, NotesOf
<1> QED
  BY <1>1, <1>2, SendKeepsNotes, PageKeepsNotes, InsertKeepsNotes, FailKeepsNotes,
     RegisterKeepsNotes, DeletionKeepsNotes DEF NoteNext

----------------------------------------------------------------------------
(* The service *)

LEMMA ServiceInvHolds == Spec => [](NoteInv /\ part \in {"conversations", "notifications"})
<1> DEFINE Inv == NoteInv /\ part \in {"conversations", "notifications"}
<1>1. Init => Inv
  BY NoteInitHolds DEF Init
<1>2. Inv /\ [Next]_vars => Inv'
  BY NoteKeepsInv DEF Next, vars, noteVars
<1> QED
  BY <1>1, <1>2, PTL DEF Spec

\* The conversations of the service behave as Conversation says.
LEMMA ServiceChats == Spec => ChatSpec
<1>1. Init => ChatInit
  BY DEF Init
<1>2. [Next]_vars => [ChatNext]_chatVars
  BY DEF Next, vars
<1> QED
  BY <1>1, <1>2, PTL DEF Spec, ChatSpec

\* Conversations, notifications and what calls hold keep their types.
THEOREM ServiceTypeCorrect == Spec => []TypeOK
<1>1. NoteInv /\ part \in {"conversations", "notifications"} /\ ChatTypeOK => TypeOK
  BY DEF NoteInv, TypeOK
<1> QED
  BY <1>1, ServiceInvHolds, ServiceChats, ChatTypeCorrect, PTL

\* However users register and are deleted while the pages are read, a broadcast
\* reaches all who were there throughout, unless one was deleted, and no call
\* notifies anybody twice (helper.go:198-223).
THEOREM EachUserOnceHolds == Spec => []EachUserOnce
  BY NoteInvImpliesOnce, ServiceInvHolds, PTL
=============================================================================
