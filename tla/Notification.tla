---------------------------- MODULE Notification ----------------------------
(***************************************************************************)
(* The notifications of the message service                                *)
(* (message/rpc/internal/logic/sendnotificationlogic.go, helper.go): an    *)
(* admin notifies one user, or all of them.  A broadcast asks the admin    *)
(* service for one page of users after the other while users register and  *)
(* are deleted; one step per page, and one for the insert.                 *)
(***************************************************************************)
EXTENDS Integers, Sequences, SequencesExt

CONSTANTS
    Recipient,   \* the users there may be
    Call,        \* calls of SendNotification, one of each
    PageSize     \* Broadcast.PageSize

ASSUME NotificationAssumption == PageSize \in Nat \ {0}

VARIABLES
    userList,       \* table users, the newest first, as GetUserList orders it
    registered,     \* the users that have registered so far
    notifications,  \* table message_notification
    unreadNotes,    \* those with is_read = false
    call            \* what each call of SendNotification is doing

noteVars == <<userList, registered, notifications, unreadNotes, call>>

\* recipients: the ids collected so far, in order.  since: the users there from
\* the start of the call on; deletion: was a user deleted during the call.
CallState == [pc : {"new", "collect", "insert", "done", "failed"},
              broadcast : BOOLEAN, page : Nat, recipients : Seq(Recipient),
              since : SUBSET Recipient, deletion : BOOLEAN]

\* nr: the place among the recipients of its call.
Note == [call : Call, nr : Nat, to : Recipient]

NoteTypeOK ==
    /\ userList \in Seq(Recipient)
    /\ registered \subseteq Recipient
    /\ notifications \subseteq Note
    /\ unreadNotes \subseteq notifications
    /\ call \in [Call -> CallState]

NewCall == [pc |-> "new", broadcast |-> FALSE, page |-> 1, recipients |-> <<>>,
            since |-> {}, deletion |-> FALSE]

Listed == {userList[i] : i \in DOMAIN userList}

NoteInit ==
    /\ userList = <<>>
    /\ registered = {}
    /\ notifications = {} /\ unreadNotes = {}
    /\ call = [c \in Call |-> NewCall]

----------------------------------------------------------------------------
(* The users, of the user service *)

UserRegisters(u) ==
    /\ u \notin registered
    /\ registered' = registered \cup {u}
    /\ userList' = <<u>> \o userList
    /\ UNCHANGED <<notifications, unreadNotes, call>>

UserDeleted(u) ==
    /\ \E i \in DOMAIN userList : userList[i] = u /\ userList' = RemoveAt(userList, i)
    /\ call' = [c \in Call |-> IF call[c].pc \in {"collect", "insert"}
                               THEN [call[c] EXCEPT !.since = @ \ {u}, !.deletion = TRUE]
                               ELSE call[c]]
    /\ UNCHANGED <<registered, notifications, unreadNotes>>

----------------------------------------------------------------------------
(* SendNotification *)

SendToOne(c) ==
    /\ call[c].pc = "new"
    /\ \E u \in Recipient :
        call' = [call EXCEPT ![c].pc = "insert", ![c].recipients = <<u>>]
    /\ UNCHANGED <<userList, registered, notifications, unreadNotes>>

SendBroadcast(c) ==
    /\ call[c].pc = "new"
    /\ call' = [call EXCEPT ![c].pc = "collect", ![c].broadcast = TRUE, ![c].since = Listed]
    /\ UNCHANGED <<userList, registered, notifications, unreadNotes>>

\* GetUserList: a page by offset and limit.
GetUserList(page) ==
    LET first == (page - 1) * PageSize + 1
        last == page * PageSize
    IN SubSeq(userList, first, IF last < Len(userList) THEN last ELSE Len(userList))

\* Wrong variant: nobody asks whether an id has been seen.
WrongCollected(recipients, list) == recipients \o list

\* The recipients once a page has been gone through: ids seen before are skipped.
Collected(recipients, list) ==
    LET kept[i \in 0 .. Len(list)] ==
            IF i = 0 THEN recipients
            ELSE IF Contains(kept[i - 1], list[i]) THEN kept[i - 1]
            ELSE Append(kept[i - 1], list[i])
    IN  kept[Len(list)]

\* Wrong variant: the first page is the last.
WrongIsLastPage(list) == TRUE

\* An empty or short page ends the collection.
IsLastPage(list) == Len(list) < PageSize

\* One turn of the loop of collectBroadcastRecipients; nobody to notify is an error.
CollectPage(c) ==
    LET list == GetUserList(call[c].page)
        recipients == Collected(call[c].recipients, list)
    IN
    /\ call[c].pc = "collect"
    /\ call' = [call EXCEPT
           ![c].recipients = recipients,
           ![c].page = @ + 1,
           ![c].pc = IF ~IsLastPage(list) THEN "collect"
                     ELSE IF recipients = <<>> THEN "failed" ELSE "insert"]
    /\ UNCHANGED <<userList, registered, notifications, unreadNotes>>

\* CreateNotifications: the batches of CreateInBatches share a transaction.
CreateNotifications(c) ==
    LET new == {[call |-> c, nr |-> i, to |-> call[c].recipients[i]] :
                   i \in DOMAIN call[c].recipients}
    IN
    /\ call[c].pc = "insert"
    /\ notifications' = notifications \cup new
    /\ unreadNotes' = unreadNotes \cup new
    /\ call' = [call EXCEPT ![c].pc = "done"]
    /\ UNCHANGED <<userList, registered>>

\* GetUserList, the insert or the process fails: nobody is notified.
CallFails(c) ==
    /\ call[c].pc \in {"collect", "insert"}
    /\ call' = [call EXCEPT ![c].pc = "failed"]
    /\ UNCHANGED <<userList, registered, notifications, unreadNotes>>

----------------------------------------------------------------------------
\* WHERE id = ? AND recipient_id = ?
MarkNotificationRead(u) ==
    /\ \E n \in notifications : n.to = u /\ unreadNotes' = unreadNotes \ {n}
    /\ UNCHANGED <<userList, registered, notifications, call>>

MarkAllNotificationsRead(u) ==
    /\ unreadNotes' = {n \in unreadNotes : n.to # u}
    /\ UNCHANGED <<userList, registered, notifications, call>>

NoteNext ==
    \/ \E u \in Recipient :
        \/ UserRegisters(u) \/ UserDeleted(u)
        \/ MarkNotificationRead(u) \/ MarkAllNotificationsRead(u)
    \/ \E c \in Call :
        \/ SendToOne(c) \/ SendBroadcast(c) \/ CollectPage(c)
        \/ CreateNotifications(c) \/ CallFails(c)

----------------------------------------------------------------------------
(* Properties *)

\* A broadcast that succeeds reaches everyone who was a user from its start to its
\* end, although pages shift as users register: only a deletion in the meantime
\* can move a user from a page not read yet to one read before (helper.go:198-223).
\* And a call notifies nobody twice, although a page can hold users of the page
\* before.
EachUserOnce ==
    /\ \A c \in Call : call[c].pc = "done" /\ call[c].broadcast =>
        call[c].deletion
        \/ \A u \in call[c].since : \E n \in notifications : n.call = c /\ n.to = u
    /\ \A m, n \in notifications : m.call = n.call /\ m.to = n.to => m = n
=============================================================================
