---------------------------- MODULE AdminInvites ----------------------------
(***************************************************************************)
(* How admins come in (admin/rpc): an admin makes an invite code, and      *)
(* CreateAdmin trades it for an account in one transaction.  PostgreSQL    *)
(* runs the transactions at READ COMMITTED: each statement is a step and   *)
(* sees what is committed, SELECT ... FOR UPDATE waits for the holder of   *)
(* the row, an insert waits for another one of the same username, and what *)
(* a transaction has written is there once it commits.                     *)
(***************************************************************************)
EXTENDS Integers, FiniteSets

CONSTANTS
    InviteCode,
    Applicant,     \* calls of CreateAdmin; one is also the uid it gives
    Founder,       \* the admin of the start
    Inviter,       \* calls of CreateInviteCode
    AdminName,
    FounderName,
    MaxAttempts    \* inviteCodeMaxRetry

NoAdmin == "nobody"
Unnamed == "unnamed"

ASSUME InviteAssumption ==
    /\ Founder \notin Applicant /\ NoAdmin \notin Applicant
    /\ FounderName \in AdminName /\ Unnamed \notin AdminName
    /\ MaxAttempts \in Nat \ {0}

VARIABLES
    adminName,  \* table admins: the name of each, committed
    invite,     \* table admin_invites, committed
    tx,         \* what each call of CreateAdmin is doing
    inviting,   \* the attempt each call of CreateInviteCode is at
    renaming    \* the name each admin is about to take

inviteVars == <<adminName, invite, tx, inviting, renaming>>

Admins == Applicant \cup {Founder}

InviteRow == [made : BOOLEAN, expired : BOOLEAN, usedBy : Applicant \cup {NoAdmin}]
NoInvite == [made |-> FALSE, expired |-> FALSE, usedBy |-> NoAdmin]

TxState == [pc : {"lock", "name", "insert", "mark", "commit"},
            code : InviteCode, name : AdminName]
           \cup [pc : {"new", "created", "refused", "failed"}]

InviteTypeOK ==
    /\ adminName \in [Admins -> AdminName \cup {Unnamed}]
    /\ \A a, b \in Admins : adminName[a] = adminName[b] => a = b \/ adminName[a] = Unnamed
    /\ invite \in [InviteCode -> InviteRow]
    /\ tx \in [Applicant -> TxState]
    /\ inviting \in [Inviter -> 0 .. MaxAttempts + 1]
    /\ renaming \in [Admins -> AdminName \cup {Unnamed}]

InviteInit ==
    /\ adminName = [a \in Admins |-> IF a = Founder THEN FounderName ELSE Unnamed]
    /\ invite = [c \in InviteCode |-> NoInvite]
    /\ tx = [k \in Applicant |-> [pc |-> "new"]]
    /\ inviting = [i \in Inviter |-> 0]
    /\ renaming = [a \in Admins |-> Unnamed]

----------------------------------------------------------------------------
NameTaken(n) == \E a \in Admins : adminName[a] = n

\* An insert of the name is not committed yet.
NameHeld(n) == \E k \in Applicant : tx[k].pc \in {"mark", "commit"} /\ tx[k].name = n

\* Wrong variant: the invite is read without FOR UPDATE.
WrongLocked(c) == FALSE

\* A transaction holds the row of the invite.
Locked(c) ==
    \E k \in Applicant : tx[k].pc \in {"name", "insert", "mark", "commit"} /\ tx[k].code = c

\* Wrong variant: nobody asks whether the invite was used.
WrongUsable(c) == invite[c].made /\ ~invite[c].expired

Usable(c) == invite[c].made /\ ~invite[c].expired /\ invite[c].usedBy = NoAdmin

Step(k, pc) == tx' = [tx EXCEPT ![k].pc = pc]
TxEnds(k, how) == tx' = [tx EXCEPT ![k] = [pc |-> how]]

\* CreateAdmin begins its transaction; an empty code is refused before.
CreateAdmin(k) ==
    /\ tx[k].pc = "new"
    /\ \E c \in InviteCode, n \in AdminName :
        tx' = [tx EXCEPT ![k] = [pc |-> "lock", code |-> c, name |-> n]]
    /\ UNCHANGED <<adminName, invite, inviting, renaming>>

\* SELECT ... FOR UPDATE, and what the row says.
FindAdminInviteByCodeForUpdate(k) ==
    /\ tx[k].pc = "lock"
    /\ ~Locked(tx[k].code)
    /\ IF Usable(tx[k].code) THEN Step(k, "name") ELSE TxEnds(k, "refused")
    /\ UNCHANGED <<adminName, invite, inviting, renaming>>

FindOneAdminByUsernameTx(k) ==
    /\ tx[k].pc = "name"
    /\ IF NameTaken(tx[k].name) THEN TxEnds(k, "refused") ELSE Step(k, "insert")
    /\ UNCHANGED <<adminName, invite, inviting, renaming>>

InsertOneAdminTx(k) ==
    /\ tx[k].pc = "insert"
    /\ ~NameHeld(tx[k].name)
    /\ IF NameTaken(tx[k].name) THEN TxEnds(k, "refused") ELSE Step(k, "mark")
    /\ UNCHANGED <<adminName, invite, inviting, renaming>>

UpdateAdminInviteUsedTx(k) ==
    /\ tx[k].pc = "mark"
    /\ Step(k, "commit")
    /\ UNCHANGED <<adminName, invite, inviting, renaming>>

\* What the transaction has written is there.
TxCommits(k) ==
    /\ tx[k].pc = "commit"
    /\ adminName' = [adminName EXCEPT ![k] = tx[k].name]
    /\ invite' = [invite EXCEPT ![tx[k].code].usedBy = k]

CreateAdminCommits(k) ==
    /\ TxCommits(k)
    /\ TxEnds(k, "created")
    /\ UNCHANGED <<inviting, renaming>>

\* A statement fails, the process dies, or PostgreSQL loses it: rolled back.
CreateAdminFails(k) ==
    /\ tx[k].pc \in {"lock", "name", "insert", "mark", "commit"}
    /\ TxEnds(k, "failed")
    /\ UNCHANGED <<adminName, invite, inviting, renaming>>

\* Committed, and answered with an internal error.
CommitUnknown(k) ==
    /\ TxCommits(k)
    /\ TxEnds(k, "failed")
    /\ UNCHANGED <<inviting, renaming>>

----------------------------------------------------------------------------
\* CreateInviteCode finds its operator.
CreateInviteCode(i) ==
    /\ inviting[i] = 0
    /\ inviting' = [inviting EXCEPT ![i] = 1]
    /\ UNCHANGED <<adminName, invite, tx, renaming>>

\* An attempt of its loop: a random code, which may be there already.
InsertOneAdminInvite(i) ==
    /\ inviting[i] \in 1 .. MaxAttempts
    /\ \E c \in InviteCode :
        IF invite[c].made
        THEN /\ inviting' = [inviting EXCEPT ![i] = @ + 1]
             /\ UNCHANGED invite
        ELSE /\ inviting' = [inviting EXCEPT ![i] = MaxAttempts + 1]
             /\ invite' = [invite EXCEPT ![c].made = TRUE]
    /\ UNCHANGED <<adminName, tx, renaming>>

\* inviteCodeTTL passes.
InviteExpires(c) ==
    /\ invite[c].made /\ ~invite[c].expired
    /\ invite' = [invite EXCEPT ![c].expired = TRUE]
    /\ UNCHANGED <<adminName, tx, inviting, renaming>>

\* UpdateSelf finds the new name free, or its own.
UpdateSelf(a) ==
    /\ adminName[a] # Unnamed /\ renaming[a] = Unnamed
    /\ \E n \in AdminName :
        /\ ~NameTaken(n) \/ adminName[a] = n
        /\ renaming' = [renaming EXCEPT ![a] = n]
    /\ UNCHANGED <<adminName, invite, tx, inviting>>

\* The update, which the unique index may refuse by now.
UpdateOneAdminByUid(a) ==
    LET n == renaming[a] IN
    /\ n # Unnamed
    /\ ~NameHeld(n)
    /\ adminName' = IF \E b \in Admins \ {a} : adminName[b] = n
                    THEN adminName ELSE [adminName EXCEPT ![a] = n]
    /\ renaming' = [renaming EXCEPT ![a] = Unnamed]
    /\ UNCHANGED <<invite, tx, inviting>>

InviteNext ==
    \/ \E k \in Applicant :
        \/ CreateAdmin(k) \/ FindAdminInviteByCodeForUpdate(k)
        \/ FindOneAdminByUsernameTx(k) \/ InsertOneAdminTx(k)
        \/ UpdateAdminInviteUsedTx(k) \/ CreateAdminCommits(k)
        \/ CreateAdminFails(k) \/ CommitUnknown(k)
    \/ \E i \in Inviter : CreateInviteCode(i) \/ InsertOneAdminInvite(i)
    \/ \E c \in InviteCode : InviteExpires(c)
    \/ \E a \in Admins : UpdateSelf(a) \/ UpdateOneAdminByUid(a)

InviteSpec == InviteInit /\ [][InviteNext]_inviteVars

----------------------------------------------------------------------------
(* Properties *)

Promise == INSTANCE OneTimeInvite WITH
    Code <- InviteCode, Person <- Applicant, First <- Founder, Nobody <- NoAdmin,
    state <- [c \in InviteCode |->
                 IF ~invite[c].made THEN "none"
                 ELSE IF invite[c].usedBy = NoAdmin THEN "open" ELSE "spent"],
    holder <- [c \in InviteCode |-> invite[c].usedBy],
    admins <- {a \in Admins : adminName[a] # Unnamed}

\* The invites keep the promise of OneTimeInvite: a code lets in one admin, and an
\* account appears with the code that paid for it or not at all, however many
\* calls use the same code or name at once and wherever one fails.
ImplementsInvites == Promise!Spec
=============================================================================
