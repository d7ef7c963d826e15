--------------------------- MODULE MessageService ---------------------------
(***************************************************************************)
(* The message service: one rpc process serves conversations and           *)
(* notifications.  They share no table and no call, so a behaviour shows   *)
(* one of them at work: interleaving the two shows nothing else.           *)
(***************************************************************************)
EXTENDS Conversation, Notification

VARIABLE part

vars == <<chatVars, noteVars, part>>

TypeOK == ChatTypeOK /\ NoteTypeOK /\ part \in {"conversations", "notifications"}

Init ==
    /\ ChatInit
    /\ NoteInit
    /\ part \in {"conversations", "notifications"}

Next ==
    /\ UNCHANGED part
    /\ \/ part = "conversations" /\ ChatNext /\ UNCHANGED noteVars
       \/ part = "notifications" /\ NoteNext /\ UNCHANGED chatVars

Spec == Init /\ [][Next]_vars
=============================================================================
