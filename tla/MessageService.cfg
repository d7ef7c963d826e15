\* Two users, an admin and two requests at once; a broadcast over four
\* users, two to a page.
SPECIFICATION Spec
CONSTANTS
    User = {u1, u2}
    Admin = {a1}
    ChatRequest = {r1, r2}
    MaxMessages = 3
    Recipient = {v1, v2, v3, v4}
    Call = {c1}
    PageSize = 2
SYMMETRY Symmetry
INVARIANTS TypeOK StrangerSendsOne OpenedByReply LastIsNewest
INVARIANT EachUserOnce
PROPERTY CanSendIsKept
