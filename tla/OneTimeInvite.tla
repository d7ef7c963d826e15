--------------------------- MODULE OneTimeInvite ---------------------------
(***************************************************************************)
(* What the invite codes of the admin service promise: an admin who is not *)
(* the first comes in by a code of its own, and a code lets in one admin.  *)
(***************************************************************************)
CONSTANTS
    Code,
    Person,  \* who may become an admin
    First,   \* the admin there is from the start
    Nobody

VARIABLES
    state,   \* of each code
    holder,  \* who came in by it
    admins

vars == <<state, holder, admins>>

Init ==
    /\ state = [c \in Code |-> "none"]
    /\ holder = [c \in Code |-> Nobody]
    /\ admins = {First}

Issue(c) ==
    /\ state[c] = "none"
    /\ state' = [state EXCEPT ![c] = "open"]
    /\ UNCHANGED <<holder, admins>>

Spend(c, p) ==
    /\ state[c] = "open"
    /\ p \notin admins
    /\ state' = [state EXCEPT ![c] = "spent"]
    /\ holder' = [holder EXCEPT ![c] = p]
    /\ admins' = admins \cup {p}

Next == \E c \in Code : Issue(c) \/ \E p \in Person : Spend(c, p)

Spec == Init /\ [][Next]_vars
=============================================================================
