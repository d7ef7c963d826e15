---------------------------- MODULE UserAccounts ----------------------------
(***************************************************************************)
(* The accounts and the sessions of the user service: user/rpc, admin/rpc  *)
(* where it works on users, and the two api nodes in front of them.  A     *)
(* session is a JWT, which nothing but its expiry and the blacklist in     *)
(* Redis can end.  Requests run at the same time; each call to Redis and   *)
(* each SQL statement that matters is a step.                              *)
(***************************************************************************)
EXTENDS Integers, FiniteSets

CONSTANTS
    Uid,            \* the users there may be
    Operator,       \* the admins
    Name,           \* usernames
    AccountRequest, \* requests served at the same time
    AccessExpire,   \* the life of a token, and of its blacklist entry, in seconds
    MaxSecond,      \* bound: seconds
    MaxTokens       \* bound: tokens issued

ASSUME AccountAssumption ==
    /\ Uid \cap Operator = {}
    /\ AccessExpire \in Nat \ {0}
    /\ {MaxSecond, MaxTokens} \subseteq Nat

VARIABLES
    second,     \* the clock, in seconds
    users,      \* table users
    tokens,     \* the tokens issued
    blacklist,  \* the keys jwt_blacklist:<token>, with the second they expire
    loggedOut,  \* history: tokens whose logout was answered with success
    request     \* what each request is doing

accountVars == <<second, users, tokens, blacklist, loggedOut, request>>

Seconds == 0 .. MaxSecond
NoName == "none"

\* A token is signed over the account and the second it was made in.
Token == [account : Uid \cup Operator, iat : Seconds]

\* "none": not registered yet; "gone": deleted, the uid is a snowflake and never
\* comes again.  Password, e-mail and extra info are left out.
UserRow == [status : {"none", "normal", "banned", "gone"}, name : Name \cup {NoName}]
NoUser == [status |-> "none", name |-> NoName]

\* What a token is good for, besides reading.
UserOps == {"logout", "update", "delete"}
AdminOps == {"logout", "ban", "unban", "remove", "edit", "reset"}

\* by: the token the request was admitted with, checked: against the blacklist.
\* An update of NoName sets columns that are left out here.
RequestState ==
    [pc : {"idle"}]
    \cup [pc : {"insert"}, name : Name]
    \cup [pc : {"sign"}, account : Uid \cup Operator]
    \cup [pc : {"admitted"}, by : Token, op : UserOps \cup AdminOps, checked : BOOLEAN]
    \cup [pc : {"update"}, uid : Uid, name : Name \cup {NoName}]
    \cup [pc : {"delete"}, uid : Uid]

AccountTypeOK ==
    /\ second \in Seconds
    /\ users \in [Uid -> UserRow]
    /\ tokens \subseteq Token
    /\ blacklist \in [Token -> 0 .. MaxSecond + AccessExpire]
    /\ loggedOut \subseteq tokens
    /\ request \in [AccountRequest -> RequestState]
    /\ \A u, v \in Uid : users[u].name = users[v].name => u = v \/ users[u].name = NoName

RequestIdle == [pc |-> "idle"]

AccountInit ==
    /\ second = 0
    /\ users = [u \in Uid |-> NoUser]
    /\ tokens = {}
    /\ blacklist = [t \in Token |-> 0]
    /\ loggedOut = {}
    /\ request = [r \in AccountRequest |-> RequestIdle]

----------------------------------------------------------------------------
At(r, pc) == request[r].pc = pc
Becomes(r, state) == request' = [request EXCEPT ![r] = state]
Ends(r) == Becomes(r, RequestIdle)

There(u) == users[u].status \in {"normal", "banned"}
Taken(n) == \E u \in Uid : users[u].name = n

ClockTicks ==
    /\ second < MaxSecond
    /\ second' = second + 1
    /\ UNCHANGED <<users, tokens, blacklist, loggedOut, request>>

----------------------------------------------------------------------------
(* Without a token: register and login *)

\* Register gives out a snowflake: which of these does not matter; once there is
\* none, GetID fails.
Unused == {u \in Uid : users[u].status = "none"}

\* Register finds the name free.
Register(r) ==
    /\ At(r, "idle")
    /\ \E n \in Name : ~Taken(n) /\ Becomes(r, [pc |-> "insert", name |-> n])
    /\ UNCHANGED <<second, users, tokens, blacklist, loggedOut>>

\* The insert, which the unique index refuses when the name was taken meanwhile:
\* the answer is then an internal error.
InsertUser(r) ==
    /\ At(r, "insert")
    /\ IF Taken(request[r].name) \/ Unused = {}
       THEN UNCHANGED users
       ELSE users' = [users EXCEPT ![CHOOSE u \in Unused : TRUE] =
                [status |-> "normal", name |-> request[r].name]]
    /\ Ends(r)
    /\ UNCHANGED <<second, tokens, blacklist, loggedOut>>

\* Login of the user rpc: the row found by name, the right password, not banned.
Login(r) ==
    /\ At(r, "idle")
    /\ \E u \in Uid : users[u].status = "normal" /\ Becomes(r, [pc |-> "sign", account |-> u])
    /\ UNCHANGED <<second, users, tokens, blacklist, loggedOut>>

\* Login of the admin rpc.
AdminLogin(r) ==
    /\ At(r, "idle")
    /\ \E o \in Operator : Becomes(r, [pc |-> "sign", account |-> o])
    /\ UNCHANGED <<second, users, tokens, blacklist, loggedOut>>

\* The api makes the token once the rpc has answered: by then the user may be
\* banned, and in the second of an earlier token it is that token.  Making it may
\* fail.
GetToken(r) ==
    LET token == [account |-> request[r].account, iat |-> second] IN
    /\ At(r, "sign")
    /\ \/ Cardinality(tokens \cup {token}) <= MaxTokens /\ tokens' = tokens \cup {token}
       \/ UNCHANGED tokens
    /\ Ends(r)
    /\ UNCHANGED <<second, users, blacklist, loggedOut>>

----------------------------------------------------------------------------
(* With a token *)

Expired(t) == second >= t.iat + AccessExpire
Blacklisted(t) == second < blacklist[t]

OpsOf(t) == IF t.account \in Uid THEN UserOps ELSE AdminOps

\* The JWT is good, and the blacklist lets it through.
Admit(r) ==
    /\ At(r, "idle")
    /\ \E t \in tokens, op \in UserOps \cup AdminOps :
        /\ ~Expired(t) /\ ~Blacklisted(t)
        /\ op \in OpsOf(t)
        /\ Becomes(r, [pc |-> "admitted", by |-> t, op |-> op, checked |-> TRUE])
    /\ UNCHANGED <<second, users, tokens, blacklist, loggedOut>>

\* Redis does not answer: CheckBlacklistMiddleware lets every good JWT through,
\* those that are blacklisted too.
AdmitUnchecked(r) ==
    /\ At(r, "idle")
    /\ \E t \in tokens, op \in UserOps \cup AdminOps :
        /\ ~Expired(t) /\ Blacklisted(t)
        /\ op \in OpsOf(t)
        /\ Becomes(r, [pc |-> "admitted", by |-> t, op |-> op, checked |-> FALSE])
    /\ UNCHANGED <<second, users, tokens, blacklist, loggedOut>>

Admitted(r, op) == At(r, "admitted") /\ request[r].op = op

\* Wrong variant: the key goes a second before the token.
WrongBlacklistUntil == second + AccessExpire - 1

\* The key is set for the whole life of a token, whatever is left of this one.
BlacklistUntil == second + AccessExpire

\* Logout of either rpc.
Logout(r) ==
    LET t == request[r].by IN
    /\ Admitted(r, "logout")
    /\ blacklist' = [blacklist EXCEPT ![t] = BlacklistUntil]
    /\ loggedOut' = loggedOut \cup {t}
    /\ Ends(r)
    /\ UNCHANGED <<second, users, tokens>>

\* UpdateUser of the user rpc, up to the update: a new name must be nobody's, not
\* even the user's own.
UpdateUser(r) ==
    /\ Admitted(r, "update") /\ request[r].by.account \in Uid
    /\ \E n \in Name \cup {NoName} :
        IF n # NoName /\ Taken(n)
        THEN Ends(r)
        ELSE Becomes(r, [pc |-> "update", uid |-> request[r].by.account, name |-> n])
    /\ UNCHANGED <<second, users, tokens, blacklist, loggedOut>>

\* A name of another user.
TakenFrom(u, n) == n # NoName /\ \E v \in Uid \ {u} : users[v].name = n

\* UpdateUser of the admin rpc: the user must be there, a new name nobody else's.
EditUser(r) ==
    /\ Admitted(r, "edit")
    /\ \E u \in Uid, n \in Name \cup {NoName} :
        IF There(u) /\ ~TakenFrom(u, n)
        THEN Becomes(r, [pc |-> "update", uid |-> u, name |-> n])
        ELSE Ends(r)
    /\ UNCHANGED <<second, users, tokens, blacklist, loggedOut>>

\* Wrong variant: the row is saved whole, with the status of a new one.
WrongUpdated(row, n) ==
    [status |-> "normal", name |-> IF n = NoName THEN row.name ELSE n]

\* Updates with a struct sets the fields that are not zero, of a row that is there.
Updated(row, n) ==
    IF row.status \notin {"normal", "banned"} \/ n = NoName THEN row
    ELSE [row EXCEPT !.name = n]

\* The update; the unique index refuses a name taken meanwhile.  Both rpcs read
\* the row again to answer.
UpdateUserById(r) ==
    LET q == request[r] IN
    /\ At(r, "update")
    /\ users' = IF TakenFrom(q.uid, q.name)
                THEN users ELSE [users EXCEPT ![q.uid] = Updated(@, q.name)]
    /\ Ends(r)
    /\ UNCHANGED <<second, tokens, blacklist, loggedOut>>

\* DeleteUser of the user rpc finds the row first.
DeleteUser(r) ==
    LET u == request[r].by.account IN
    /\ Admitted(r, "delete")
    /\ IF There(u) THEN Becomes(r, [pc |-> "delete", uid |-> u]) ELSE Ends(r)
    /\ UNCHANGED <<second, users, tokens, blacklist, loggedOut>>

Deleted(row) == [row EXCEPT !.status = "gone", !.name = NoName]

DeleteUserByUid(r) ==
    LET u == request[r].uid IN
    /\ At(r, "delete")
    /\ users' = IF There(u) THEN [users EXCEPT ![u] = Deleted(@)] ELSE users
    /\ Ends(r)
    /\ UNCHANGED <<second, tokens, blacklist, loggedOut>>

\* DeleteUser of the admin rpc is one statement.
DeleteOneUserByUid(r) ==
    /\ Admitted(r, "remove")
    /\ \E u \in Uid :
        users' = IF There(u) THEN [users EXCEPT ![u] = Deleted(@)] ELSE users
    /\ Ends(r)
    /\ UNCHANGED <<second, tokens, blacklist, loggedOut>>

\* UPDATE users SET status = ? WHERE uid = ?
UpdateUserStatusByUid(u, status) ==
    users' = IF There(u) THEN [users EXCEPT ![u].status = status] ELSE users

BanUser(r) ==
    /\ Admitted(r, "ban")
    /\ \E u \in Uid : UpdateUserStatusByUid(u, "banned")
    /\ Ends(r)
    /\ UNCHANGED <<second, tokens, blacklist, loggedOut>>

UnbanUser(r) ==
    /\ Admitted(r, "unban")
    /\ \E u \in Uid : UpdateUserStatusByUid(u, "normal")
    /\ Ends(r)
    /\ UNCHANGED <<second, tokens, blacklist, loggedOut>>

\* ResetUserPassword finds the user, and sets the default password.
ResetUserPassword(r) ==
    /\ Admitted(r, "reset")
    /\ \E u \in Uid :
        IF There(u) THEN Becomes(r, [pc |-> "update", uid |-> u, name |-> NoName]) ELSE Ends(r)
    /\ UNCHANGED <<second, users, tokens, blacklist, loggedOut>>

\* A statement or a Redis call fails, or the process dies.
RequestFails(r) ==
    /\ ~At(r, "idle")
    /\ Ends(r)
    /\ UNCHANGED <<second, users, tokens, blacklist, loggedOut>>

AccountNext ==
    \/ ClockTicks
    \/ \E r \in AccountRequest :
        \/ Register(r) \/ InsertUser(r) \/ Login(r) \/ AdminLogin(r) \/ GetToken(r)
        \/ Admit(r) \/ AdmitUnchecked(r) \/ Logout(r)
        \/ UpdateUser(r) \/ EditUser(r) \/ UpdateUserById(r)
        \/ DeleteUser(r) \/ DeleteUserByUid(r) \/ DeleteOneUserByUid(r)
        \/ BanUser(r) \/ UnbanUser(r)
        \/ ResetUserPassword(r) \/ RequestFails(r)

AccountSpec == AccountInit /\ [][AccountNext]_accountVars

----------------------------------------------------------------------------
(* Properties *)

\* A token whose logout was answered with success gets no request through at the
\* api that checks it, to its expiry, as long as Redis answers.
LoggedOutStaysOut ==
    [][\A r \in AccountRequest :
        At(r, "idle") /\ At(r, "admitted")' /\ request'[r].by \in loggedOut =>
            ~request'[r].checked]_accountVars

\* Only UnbanUser lifts a ban, and nothing brings a deleted user back, whatever
\* updates were under way when the user was banned or deleted.
StatusIsKept ==
    [][\A u \in Uid :
        /\ users[u].status = "gone" => users'[u].status = "gone"
        /\ users[u].status = "banned" /\ users'[u].status = "normal" =>
              \E r \in AccountRequest : Admitted(r, "unban") /\ At(r, "idle")']_accountVars
=============================================================================
