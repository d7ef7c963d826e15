---------------------------- MODULE Conversation ----------------------------
(***************************************************************************)
(* The conversations of the message service (message/rpc/internal/logic    *)
(* and model/message.go): users and admins write to each other, a stranger *)
(* may write one short message and waits for the answer, an admin may      *)
(* write to any user.  Requests run at the same time; each of their SQL    *)
(* statements, or transactions, is a step.                                 *)
(*                                                                         *)
(* The row of a conversation is keyed by the pair of its participants,     *)
(* which canonicalParticipants orders; ids of messages are snowflakes.     *)
(***************************************************************************)
EXTENDS Integers, FiniteSets

CONSTANTS
    User,
    Admin,
    ChatRequest,    \* requests served at the same time
    MaxMessages     \* bound: messages sent or tried

ASSUME ChatAssumption ==
    /\ User \cap Admin = {}
    /\ 0 \notin User \cup Admin
    /\ MaxMessages \in Nat

VARIABLES
    conversation,  \* table message_conversation, by pair of participants
    messages,      \* table message_conversation_message
    unread,        \* the ids of the messages with is_read = false
    lastId,        \* the last snowflake id given to a message
    chat,          \* what each request is doing
    told,          \* history: <<account, pair>> answered with can_send
    crossed        \* history: pairs with two sends under way at once

chatVars == <<conversation, messages, unread, lastId, chat, told, crossed>>

Account == User \cup Admin
Nobody == 0
Pair == {{a, b} : a \in Account, b \in Account} \ {{a} : a \in Account}

ConversationRow == [status : {"absent", "PENDING", "OPEN"},
                    pending : Account \cup {Nobody},
                    createdBy : Account \cup {Nobody},
                    last : Nat]
NoConversation == [status |-> "absent", pending |-> Nobody, createdBy |-> Nobody, last |-> 0]

\* short: the content has at most 50 runes, which only the first message of a
\* user is asked for; any other is taken to be short.
Message == [id : Nat, pair : Pair, from : Account, short : BOOLEAN]

\* copy: the row the request has read; message: the one it is sending.
ChatState ==
    [pc : {"idle"}]
    \cup [pc : {"refused"}, account : Account, pair : Pair]
    \cup [pc : {"answer", "mark"}, account : Account, pair : Pair, copy : ConversationRow]
    \cup [pc : {"create", "append"}, pair : Pair, copy : ConversationRow, message : Message]

ChatTypeOK ==
    /\ conversation \in [Pair -> ConversationRow]
    /\ messages \subseteq Message
    /\ unread \subseteq {m.id : m \in messages}
    /\ lastId \in Nat
    /\ chat \in [ChatRequest -> ChatState]
    /\ told \subseteq Account \X Pair
    /\ crossed \subseteq Pair

ChatIdle == [pc |-> "idle"]

ChatInit ==
    /\ conversation = [p \in Pair |-> NoConversation]
    /\ messages = {}
    /\ unread = {}
    /\ lastId = 0
    /\ chat = [r \in ChatRequest |-> ChatIdle]
    /\ told = {}
    /\ crossed = {}

----------------------------------------------------------------------------
Chatting(r, pc) == chat[r].pc = pc
Ready(r) == chat[r].pc \in {"idle", "refused"}
ChatDone(r) == chat' = [chat EXCEPT ![r] = ChatIdle]

PeerOf(p, a) == CHOOSE b \in p : b # a

\* Wrong variant: whoever is in a conversation can send.
WrongCanSend(row, a) == row.status # "absent"

\* What the lists answer as can_send.
CanSend(row, a) == row.status = "OPEN" \/ (row.status = "PENDING" /\ row.pending # a)

\* SendChatMessage's own check.
AwaitsReply(row, a) == row.status = "PENDING" /\ row.pending = a

\* Two sends of a conversation are under way at once.
Crossing(r, p) ==
    \E q \in ChatRequest \ {r} : chat[q].pc \in {"create", "append"} /\ chat[q].pair = p

\* SendChatMessage builds the message, and goes on to write it.
Compose(r, a, p, short, pc) ==
    /\ lastId < MaxMessages
    /\ lastId' = lastId + 1
    /\ chat' = [chat EXCEPT ![r] =
           [pc |-> pc, pair |-> p, copy |-> conversation[p],
            message |-> [id |-> lastId + 1, pair |-> p, from |-> a, short |-> short]]]
    /\ crossed' = IF Crossing(r, p) THEN crossed \cup {p} ELSE crossed
    /\ UNCHANGED <<conversation, messages, unread, told>>

\* Wrong variant: the length of a first message goes unchecked.
WrongMayCreate(a, p, short) ==
    \/ a \in Admin /\ PeerOf(p, a) \in User
    \/ a \in User /\ PeerOf(p, a) \in User

\* Who may start a conversation: an admin with a user, or a user with a user and
\* a short message.
MayCreate(a, p, short) ==
    \/ a \in Admin /\ PeerOf(p, a) \in User
    \/ a \in User /\ PeerOf(p, a) \in User /\ short

\* The request is refused with ErrorChatPending.
RefusedPending(r, a, p) ==
    /\ chat' = [chat EXCEPT ![r] = [pc |-> "refused", account |-> a, pair |-> p]]
    /\ UNCHANGED <<conversation, messages, unread, lastId, told, crossed>>

\* SendChatMessage up to the transaction: find the conversation, by its id or by
\* its participants, and check what the row says.
SendChatMessage(r, a, p, short) ==
    /\ Ready(r)
    /\ LET row == conversation[p] IN
        \/ row.status = "absent" /\ MayCreate(a, p, short) /\ Compose(r, a, p, short, "create")
        \/ /\ row.status # "absent" /\ ~AwaitsReply(row, a)
           /\ Compose(r, a, p, short, "append")
        \/ AwaitsReply(row, a) /\ RefusedPending(r, a, p)
        \/ row.status = "absent" /\ ~MayCreate(a, p, short) /\ UNCHANGED chatVars

\* The route of users: by participants only to users, by id to any peer.
SendUserChatMessage(r) ==
    \E a \in User, p \in Pair, short \in BOOLEAN :
        /\ a \in p
        /\ conversation[p].status # "absent" => short
        /\ PeerOf(p, a) \in User \/ conversation[p].status # "absent"
        /\ SendChatMessage(r, a, p, short)

\* The route of admins.
SendAdminChatMessage(r) ==
    \E a \in Admin, p \in Pair : a \in p /\ SendChatMessage(r, a, p, TRUE)

\* Wrong variant: the row of the message is left out of the transaction.
WrongInsert(m) ==
    /\ unread' = unread \cup {m.id}
    /\ UNCHANGED messages

\* The message goes into the table, unread.
Insert(m) ==
    /\ messages' = messages \cup {m}
    /\ unread' = unread \cup {m.id}

\* Wrong variant: a conversation between users starts open.
WrongNewConversation(m) ==
    [status |-> "OPEN", pending |-> Nobody, createdBy |-> m.from, last |-> m.id]

\* Open when an admin starts it, pending otherwise.
NewConversation(m) ==
    [status |-> IF m.from \in Admin THEN "OPEN" ELSE "PENDING",
     pending |-> IF m.from \in Admin THEN Nobody ELSE m.from,
     createdBy |-> m.from, last |-> m.id]

\* CreateConversationWithMessageTx.  The unique index on the participants
\* refuses a second conversation, and the message with it.
CreateConversationWithMessageTx(m) ==
    IF conversation[m.pair].status = "absent"
    THEN conversation' = [conversation EXCEPT ![m.pair] = NewConversation(m)] /\ Insert(m)
    ELSE UNCHANGED <<conversation, messages, unread>>

\* The answer to a first message says that only an admin can write on; that to a
\* refused one is an internal error.
CreateConversation(r) ==
    LET m == chat[r].message IN
    /\ Chatting(r, "create")
    /\ CreateConversationWithMessageTx(m)
    /\ told' = IF conversation[m.pair].status = "absent" /\ m.from \in Admin
               THEN told \cup {<<m.from, m.pair>>} ELSE told
    /\ ChatDone(r)
    /\ UNCHANGED <<lastId, crossed>>

\* Wrong variant: the last message is forgotten.
WrongAfterSend(row, copy, m) == [row EXCEPT !.status = "OPEN", !.pending = Nobody]

\* The columns CreateOrSendMessageTx updates, WHERE id = ? alone.  The new status
\* comes from the copy: an answer opens the conversation.
AfterSend(row, copy, m) ==
    [row EXCEPT !.status = "OPEN",
                !.pending = IF copy.status = "PENDING" THEN Nobody ELSE copy.pending,
                !.last = m.id]

CreateOrSendMessageTx(m, copy) ==
    /\ conversation' = [conversation EXCEPT ![m.pair] = AfterSend(@, copy, m)]
    /\ Insert(m)

\* The sender is told that it can write on.
AppendMessage(r) ==
    LET m == chat[r].message IN
    /\ Chatting(r, "append")
    /\ CreateOrSendMessageTx(m, chat[r].copy)
    /\ told' = told \cup {<<m.from, m.pair>>}
    /\ ChatDone(r)
    /\ UNCHANGED <<lastId, crossed>>

----------------------------------------------------------------------------
\* A request of an account of the conversation has found the row.
ReadRow(r, a, p, pc) ==
    /\ Ready(r)
    /\ conversation[p].status # "absent"
    /\ a \in p
    /\ chat' = [chat EXCEPT ![r] =
           [pc |-> pc, account |-> a, pair |-> p, copy |-> conversation[p]]]
    /\ UNCHANGED <<conversation, messages, unread, lastId, told, crossed>>

\* ListConversations reads the rows, counts what is unread, and answers; one row
\* of the list stands for each.
ListConversations(r) ==
    \E a \in Account, p \in Pair : ReadRow(r, a, p, "answer")

\* GetConversationMessages reads the row, then the messages.
GetConversationMessages(r) ==
    \E a \in Account, p \in Pair : ReadRow(r, a, p, "answer")

\* The answer of either, with can_send as of the copy.
Answer(r) ==
    /\ Chatting(r, "answer")
    /\ told' = IF CanSend(chat[r].copy, chat[r].account)
               THEN told \cup {<<chat[r].account, chat[r].pair>>} ELSE told
    /\ ChatDone(r)
    /\ UNCHANGED <<conversation, messages, unread, lastId, crossed>>

\* MarkConversationRead, up to isParticipant.
MarkConversationRead(r) ==
    \E a \in Account, p \in Pair : ReadRow(r, a, p, "mark")

\* What the update of MarkConversationRead matches.
ReadBy(a, p) == {m.id : m \in {x \in messages : x.pair = p /\ x.from # a}}

MarkRead(r) ==
    /\ Chatting(r, "mark")
    /\ unread' = unread \ ReadBy(chat[r].account, chat[r].pair)
    /\ ChatDone(r)
    /\ UNCHANGED <<conversation, messages, lastId, told, crossed>>

\* A statement or a transaction fails, the client gives up, or the process dies.
ChatFails(r) ==
    /\ ~Ready(r)
    /\ ChatDone(r)
    /\ UNCHANGED <<conversation, messages, unread, lastId, told, crossed>>

\* The transaction is committed and its answer lost.
AnswerLost(r) ==
    /\ \/ Chatting(r, "create") /\ CreateConversationWithMessageTx(chat[r].message)
       \/ Chatting(r, "append") /\ CreateOrSendMessageTx(chat[r].message, chat[r].copy)
    /\ ChatDone(r)
    /\ UNCHANGED <<lastId, told, crossed>>

ChatNext ==
    \E r \in ChatRequest :
        \/ SendUserChatMessage(r) \/ SendAdminChatMessage(r)
        \/ CreateConversation(r) \/ AppendMessage(r)
        \/ ListConversations(r) \/ GetConversationMessages(r) \/ Answer(r)
        \/ MarkConversationRead(r) \/ MarkRead(r)
        \/ ChatFails(r) \/ AnswerLost(r)

ChatSpec == ChatInit /\ [][ChatNext]_chatVars

----------------------------------------------------------------------------
(* Properties *)

Of(p) == {m \in messages : m.pair = p}

\* A stranger gets one short message through and no more, however many are sent
\* at once: as long as nobody answers, the conversation holds that message alone
\* (sendchatmessagelogic.go:158-161 and 204-208).
StrangerSendsOne ==
    \A p \in Pair : conversation[p].status = "PENDING" =>
        /\ p \subseteq User
        /\ \E m \in messages :
              Of(p) = {m} /\ m.from = conversation[p].pending /\ m.short

\* Only an answer opens what a user started: both have written (:209-215).
OpenedByReply ==
    \A p \in Pair :
        conversation[p].status = "OPEN" /\ conversation[p].createdBy \in User =>
            \A a \in p : \E m \in Of(p) : m.from = a

\* Once an account has been told that it can send, by the answer to a message or
\* by a list read from an older copy, it is never refused for want of an answer
\* (helper.go:80-91 against sendchatmessagelogic.go:204-208).
CanSendIsKept ==
    [][\A r \in ChatRequest :
        ~Chatting(r, "refused") /\ Chatting(r, "refused")' =>
            <<chat'[r].account, chat'[r].pair>> \notin told]_chatVars

\* The last message of a conversation is the newest one, unless two were being
\* sent at once: created_at and the id are taken before the transaction
\* (sendchatmessagelogic.go:93-109, message.go:205-222).
LastIsNewest ==
    \A p \in Pair \ crossed : \A m \in Of(p) : m.id <= conversation[p].last
=============================================================================
