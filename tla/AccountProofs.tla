--------------------------- MODULE AccountProofs ---------------------------
(***************************************************************************)
(* Proofs about UserAccounts and AdminInvites, for any users, admins,      *)
(* names, codes, and number of requests at once.                           *)
(***************************************************************************)
EXTENDS UserAccounts, AdminInvites, TLAPS

----------------------------------------------------------------------------
(* Sessions and accounts *)

\* A token was made in its second, and is on the blacklist for its whole life once
\* it was logged out.
LogoutsAreKept ==
    /\ \A t \in tokens : t.iat <= second
    /\ \A t \in loggedOut : t.iat + AccessExpire <= blacklist[t]

\* Who is admitted has a token that was made, and that is good for the operation.
AdmittedHaveTokens ==
    \A r \in AccountRequest : At(r, "admitted") =>
        request[r].by \in tokens /\ request[r].op \in OpsOf(request[r].by)

AccountInv == AccountTypeOK /\ LogoutsAreKept /\ AdmittedHaveTokens

LEMMA AccountInitHolds == AccountInit => AccountInv
BY AccountAssumption DEF AccountInit, AccountInv, AccountTypeOK, LogoutsAreKept, AdmittedHaveTokens,
   Seconds, UserRow, NoUser, NoName, RequestState, RequestIdle, Token, At

\* A request that takes a step of its own, with the tables as they were or with one
\* user's row changed.
LEMMA RequestKeepsInv ==
  ASSUME AccountInv, NEW r \in AccountRequest, NEW state \in RequestState, Becomes(r, state),
         state.pc # "admitted",
         UNCHANGED <<second, tokens, blacklist, loggedOut>>,
         users' \in [Uid -> UserRow],
         \A u, v \in Uid : users'[u].name = users'[v].name => u = v \/ users'[u].name = NoName
  PROVE  AccountInv'
<1>1. request' \in [AccountRequest -> RequestState] /\ request'[r] = state
      /\ \A q \in AccountRequest : q # r => request'[q] = request[q]
  BY DEF AccountInv, AccountTypeOK, Becomes
<1>2. AccountTypeOK'
  BY <1>1 DEF AccountInv, AccountTypeOK
<1>3. LogoutsAreKept'
  BY DEF AccountInv, LogoutsAreKept
<1>4. AdmittedHaveTokens'
  BY <1>1 DEF AccountInv, AdmittedHaveTokens, At
<1> QED
  BY <1>2, <1>3, <1>4 DEF AccountInv

\* The names stay unique if one user gets a name that nobody else has, or none.
LEMMA RowKeepsNames ==
  ASSUME AccountInv, NEW u \in Uid, NEW row \in UserRow,
         row.name = NoName \/ row.name = users[u].name \/ ~TakenFrom(u, row.name),
         users' = [users EXCEPT ![u] = row]
  PROVE  /\ users' \in [Uid -> UserRow]
         /\ \A v, w \in Uid : users'[v].name = users'[w].name => v = w \/ users'[v].name = NoName
<1>1. users \in [Uid -> UserRow]
      /\ \A v, w \in Uid : users[v].name = users[w].name => v = w \/ users[v].name = NoName
  BY DEF AccountInv, AccountTypeOK
<1>2. users'[u] = row /\ \A v \in Uid : v # u => users'[v] = users[v]
  BY <1>1
<1>3. \A v \in Uid : v # u /\ users[v].name = row.name => row.name = NoName
  BY <1>1 DEF TakenFrom
<1> QED
  BY <1>1, <1>2, <1>3

\* The states a request comes to.
LEMMA StatesLemma ==
  /\ RequestIdle \in RequestState /\ RequestIdle.pc = "idle"
  /\ \A n \in Name : [pc |-> "insert", name |-> n] \in RequestState
  /\ \A a \in Uid \cup Operator : [pc |-> "sign", account |-> a] \in RequestState
  /\ \A u \in Uid, n \in Name \cup {NoName} :
        [pc |-> "update", uid |-> u, name |-> n] \in RequestState
  /\ \A u \in Uid : [pc |-> "delete", uid |-> u] \in RequestState
  /\ \A t \in Token, op \in UserOps \cup AdminOps, c \in BOOLEAN :
        [pc |-> "admitted", by |-> t, op |-> op, checked |-> c] \in RequestState
BY DEF RequestState, RequestIdle

\* What a request has on its way.
LEMMA RequestLemma ==
  ASSUME AccountTypeOK, NEW r \in AccountRequest
  PROVE  /\ At(r, "insert") => request[r].name \in Name
         /\ At(r, "sign") => request[r].account \in Uid \cup Operator
         /\ At(r, "admitted") => request[r].by \in Token
         /\ At(r, "update") => request[r].uid \in Uid /\ request[r].name \in Name \cup {NoName}
         /\ At(r, "delete") => request[r].uid \in Uid
BY DEF AccountTypeOK, RequestState, At

\* Every step keeps the invariant.
LEMMA AccountKeepsInv ==
  ASSUME AccountInv, AccountNext
  PROVE  AccountInv'
<1> USE AccountAssumption
<1>0. AccountTypeOK
      /\ \A u, v \in Uid : users[u].name = users[v].name => u = v \/ users[u].name = NoName
  BY DEF AccountInv, AccountTypeOK
<1>1. CASE ClockTicks
  <2>1. second' \in Seconds /\ second' >= second
    BY <1>0, <1>1 DEF ClockTicks, AccountTypeOK, Seconds
  <2>2. AccountTypeOK'
    BY <1>0, <1>1, <2>1 DEF ClockTicks, AccountTypeOK
  <2>3. \A t \in tokens : t.iat \in Nat
    BY <1>0 DEF AccountTypeOK, Token, Seconds
  <2>4. LogoutsAreKept'
    BY <1>0, <1>1, <2>1, <2>3 DEF ClockTicks, AccountInv, LogoutsAreKept, AccountTypeOK, Seconds
  <2>5. AdmittedHaveTokens'
    BY <1>1 DEF ClockTicks, AccountInv, AdmittedHaveTokens, At
  <2> QED
    BY <2>2, <2>4, <2>5 DEF AccountInv
<1>2. ASSUME NEW r \in AccountRequest, GetToken(r)
      PROVE  AccountInv'
  <2> DEFINE token == [account |-> request[r].account, iat |-> second]
  <2>1. token \in Token /\ token.iat = second
    <3>1. request[r].account \in Uid \cup Operator
      BY <1>0, <1>2, RequestLemma DEF GetToken
    <3> QED
      BY <1>0, <3>1 DEF Token, AccountTypeOK
  <2>2. tokens' \subseteq tokens \cup {token} /\ tokens \subseteq tokens'
    BY <1>2 DEF GetToken
  <2>3. request' = [request EXCEPT ![r] = RequestIdle]
        /\ UNCHANGED <<second, users, blacklist, loggedOut>>
    BY <1>2 DEF GetToken, Ends, Becomes
  <2>4. request' \in [AccountRequest -> RequestState] /\ request'[r] = RequestIdle
        /\ \A q \in AccountRequest : q # r => request'[q] = request[q]
    BY <1>0, <2>3, StatesLemma DEF AccountTypeOK
  <2>5. AccountTypeOK'
    BY <1>0, <2>1, <2>2, <2>3, <2>4 DEF AccountTypeOK
  <2>6. LogoutsAreKept'
    <3>1. second \in Nat
      BY <1>0 DEF AccountTypeOK, Seconds
    <3>2. token.iat <= second
      BY <2>1, <3>1
    <3> HIDE DEF token
    <3> QED
      BY <2>2, <2>3, <3>2 DEF AccountInv, LogoutsAreKept
  <2>7. AdmittedHaveTokens'
    BY <2>2, <2>4, StatesLemma DEF AccountInv, AdmittedHaveTokens, At
  <2> QED
    BY <2>5, <2>6, <2>7 DEF AccountInv
<1>3. ASSUME NEW r \in AccountRequest, Admit(r) \/ AdmitUnchecked(r)
      PROVE  AccountInv'
  <2>1. PICK t \in tokens, op \in UserOps \cup AdminOps, c \in BOOLEAN :
          /\ op \in OpsOf(t)
          /\ Becomes(r, [pc |-> "admitted", by |-> t, op |-> op, checked |-> c])
    BY <1>3 DEF Admit, AdmitUnchecked
  <2> DEFINE state == [pc |-> "admitted", by |-> t, op |-> op, checked |-> c]
  <2>2. UNCHANGED <<second, users, tokens, blacklist, loggedOut>>
    BY <1>3 DEF Admit, AdmitUnchecked
  <2>3. state \in RequestState
    BY <1>0, StatesLemma DEF AccountTypeOK
  <2>4. request' \in [AccountRequest -> RequestState] /\ request'[r] = state
        /\ \A q \in AccountRequest : q # r => request'[q] = request[q]
    BY <1>0, <2>1, <2>3 DEF AccountTypeOK, Becomes
  <2>5. AccountTypeOK'
    BY <1>0, <2>2, <2>4 DEF AccountTypeOK
  <2>6. LogoutsAreKept'
    BY <2>2 DEF AccountInv, LogoutsAreKept
  <2>7. AdmittedHaveTokens'
    BY <2>1, <2>2, <2>4 DEF AccountInv, AdmittedHaveTokens, At
  <2> QED
    BY <2>5, <2>6, <2>7 DEF AccountInv
<1>4. ASSUME NEW r \in AccountRequest, Logout(r)
      PROVE  AccountInv'
  <2> DEFINE t == request[r].by
  <2>1. t \in tokens /\ t \in Token
    BY <1>0, <1>4, RequestLemma DEF Logout, Admitted, AccountInv, AdmittedHaveTokens
  <2>2. blacklist' = [blacklist EXCEPT ![t] = second + AccessExpire]
        /\ loggedOut' = loggedOut \cup {t}
        /\ request' = [request EXCEPT ![r] = RequestIdle]
        /\ UNCHANGED <<second, users, tokens>>
    BY <1>4 DEF Logout, Ends, Becomes, BlacklistUntil
  <2>3. request' \in [AccountRequest -> RequestState] /\ request'[r] = RequestIdle
        /\ \A q \in AccountRequest : q # r => request'[q] = request[q]
    BY <1>0, <2>2, StatesLemma DEF AccountTypeOK
  <2>4. second \in Nat /\ second + AccessExpire \in 0 .. MaxSecond + AccessExpire
    BY <1>0 DEF AccountTypeOK, Seconds
  <2> HIDE DEF t
  <2>5. blacklist' \in [Token -> 0 .. MaxSecond + AccessExpire]
    BY <1>0, <2>1, <2>2, <2>4 DEF AccountTypeOK
  <2>6. AccountTypeOK'
    BY <1>0, <2>1, <2>2, <2>3, <2>5 DEF AccountTypeOK
  <2>7. LogoutsAreKept'
    <3>1. ASSUME NEW u \in loggedOut', u # t
          PROVE  u.iat + AccessExpire <= blacklist'[u]
      <4>1. u \in loggedOut /\ blacklist'[u] = blacklist[u]
        BY <1>0, <2>1, <2>2, <3>1 DEF AccountTypeOK
      <4> QED
        BY <4>1 DEF AccountInv, LogoutsAreKept
    <3>2. t.iat + AccessExpire <= blacklist'[t]
      <4>1. blacklist'[t] = second + AccessExpire
        BY <1>0, <2>1, <2>2 DEF AccountTypeOK
      <4>2. t.iat <= second /\ t.iat \in Nat
        BY <2>1 DEF AccountInv, LogoutsAreKept, Token, Seconds
      <4> QED
        BY <2>4, <4>1, <4>2
    <3>3. \A u \in tokens' : u.iat <= second'
      BY <2>2 DEF AccountInv, LogoutsAreKept
    <3> QED
      BY <3>1, <3>2, <3>3 DEF LogoutsAreKept
  <2>8. AdmittedHaveTokens'
    BY <2>2, <2>3, StatesLemma DEF AccountInv, AdmittedHaveTokens, At
  <2> QED
    BY <2>6, <2>7, <2>8 DEF AccountInv
<1>5. ASSUME NEW r \in AccountRequest, NEW state \in RequestState, state.pc # "admitted",
             Becomes(r, state), UNCHANGED <<second, users, tokens, blacklist, loggedOut>>
      PROVE  AccountInv'
  BY <1>0, <1>5, RequestKeepsInv DEF AccountTypeOK
<1>6. ASSUME NEW r \in AccountRequest, NEW u \in Uid, NEW row \in UserRow,
             row.name = NoName \/ row.name = users[u].name \/ ~TakenFrom(u, row.name),
             users' = [users EXCEPT ![u] = row], Ends(r),
             UNCHANGED <<second, tokens, blacklist, loggedOut>>
      PROVE  AccountInv'
  <2>1. /\ users' \in [Uid -> UserRow]
        /\ \A v, w \in Uid : users'[v].name = users'[w].name => v = w \/ users'[v].name = NoName
    BY <1>6, RowKeepsNames
  <2>2. Becomes(r, RequestIdle) /\ RequestIdle \in RequestState /\ RequestIdle.pc # "admitted"
    BY <1>6, StatesLemma DEF Ends
  <2> QED
    BY <1>6, <2>1, <2>2, RequestKeepsInv
<1>7. ASSUME NEW r \in AccountRequest, Ends(r),
             UNCHANGED <<second, users, tokens, blacklist, loggedOut>>
      PROVE  AccountInv'
  BY <1>5, <1>7, StatesLemma DEF Ends
<1>8. \A u \in Uid : users[u] \in UserRow
  BY <1>0 DEF AccountTypeOK
<1>9. ASSUME NEW r \in AccountRequest,
             Register(r) \/ Login(r) \/ AdminLogin(r) \/ UpdateUser(r) \/ EditUser(r)
             \/ DeleteUser(r) \/ ResetUserPassword(r) \/ RequestFails(r)
      PROVE  AccountInv'
  <2>1. UNCHANGED <<second, users, tokens, blacklist, loggedOut>>
    BY <1>9 DEF Register, Login, AdminLogin, UpdateUser, EditUser, DeleteUser, ResetUserPassword,
       RequestFails
  <2>2. CASE Register(r)
    BY <1>5, <2>1, <2>2, StatesLemma DEF Register
  <2>3. CASE Login(r) \/ AdminLogin(r)
    BY <1>5, <2>1, <2>3, StatesLemma DEF Login, AdminLogin
  <2>4. CASE UpdateUser(r)
    BY <1>5, <1>7, <2>1, <2>4, StatesLemma DEF UpdateUser
  <2>5. CASE EditUser(r)
    BY <1>5, <1>7, <2>1, <2>5, StatesLemma DEF EditUser
  <2>6. CASE DeleteUser(r)
    <3>1. request[r].by.account \in Uid
      BY <2>6 DEF DeleteUser, Admitted, AccountInv, AdmittedHaveTokens, OpsOf, AdminOps
    <3> QED
      BY <1>5, <1>7, <2>1, <2>6, <3>1, StatesLemma DEF DeleteUser
  <2>7. CASE ResetUserPassword(r)
    BY <1>5, <1>7, <2>1, <2>7, StatesLemma DEF ResetUserPassword
  <2>8. CASE RequestFails(r)
    BY <1>7, <2>1, <2>8 DEF RequestFails
  <2> QED
    BY <1>9, <2>2, <2>3, <2>4, <2>5, <2>6, <2>7, <2>8
<1>10. ASSUME NEW r \in AccountRequest, NEW u \in Uid, NEW status \in {"normal", "banned"},
              UpdateUserStatusByUid(u, status), Ends(r),
              UNCHANGED <<second, tokens, blacklist, loggedOut>>
       PROVE  AccountInv'
  <2>1. [users[u] EXCEPT !.status = status] \in UserRow
        /\ [users[u] EXCEPT !.status = status].name = users[u].name
    BY <1>8, <1>10 DEF UserRow
  <2>2. CASE There(u)
    <3>1. users' = [users EXCEPT ![u] = [users[u] EXCEPT !.status = status]]
      BY <1>0, <1>10, <2>2 DEF UpdateUserStatusByUid, AccountTypeOK
    <3> QED
      BY <1>6, <1>10, <2>1, <3>1
  <2>3. CASE ~There(u)
    BY <1>7, <1>10, <2>3 DEF UpdateUserStatusByUid
  <2> QED
    BY <2>2, <2>3
<1>11. ASSUME NEW r \in AccountRequest, NEW u \in Uid, Ends(r),
              users' = IF There(u) THEN [users EXCEPT ![u] = Deleted(@)] ELSE users,
              UNCHANGED <<second, tokens, blacklist, loggedOut>>
       PROVE  AccountInv'
  <2>1. Deleted(users[u]) \in UserRow /\ Deleted(users[u]).name = NoName
    BY <1>8 DEF Deleted, UserRow
  <2>2. CASE There(u)
    BY <1>6, <1>11, <2>1, <2>2
  <2>3. CASE ~There(u)
    BY <1>7, <1>11, <2>3
  <2> QED
    BY <2>2, <2>3
<1>12. ASSUME NEW r \in AccountRequest, InsertUser(r)
       PROVE  AccountInv'
  <2>1. Ends(r) /\ UNCHANGED <<second, tokens, blacklist, loggedOut>>
    BY <1>12 DEF InsertUser
  <2>2. CASE Taken(request[r].name) \/ Unused = {}
    BY <1>7, <1>12, <2>1, <2>2 DEF InsertUser
  <2>3. CASE ~Taken(request[r].name) /\ Unused # {}
    <3> DEFINE u == CHOOSE u \in Unused : TRUE
    <3> DEFINE row == [status |-> "normal", name |-> request[r].name]
    <3>1. u \in Unused /\ u \in Uid
      BY <2>3 DEF Unused
    <3>2. request[r].name \in Name
      BY <1>0, <1>12, RequestLemma DEF InsertUser
    <3>3. row \in UserRow /\ row.name = request[r].name
      BY <3>2 DEF UserRow
    <3>4. users' = [users EXCEPT ![u] = row]
      BY <1>12, <2>3 DEF InsertUser
    <3>5. ~TakenFrom(u, row.name)
      BY <2>3, <3>3 DEF Taken, TakenFrom
    <3> HIDE DEF u, row
    <3> QED
      BY <1>6, <2>1, <3>1, <3>3, <3>4, <3>5
  <2> QED
    BY <2>2, <2>3
<1>13. ASSUME NEW r \in AccountRequest, UpdateUserById(r)
       PROVE  AccountInv'
  <2> DEFINE u == request[r].uid
             n == request[r].name
  <2>1. u \in Uid /\ n \in Name \cup {NoName}
    BY <1>0, <1>13, RequestLemma DEF UpdateUserById
  <2>2. Ends(r) /\ UNCHANGED <<second, tokens, blacklist, loggedOut>>
        /\ users' = IF TakenFrom(u, n) THEN users
                    ELSE [users EXCEPT ![u] = Updated(users[u], n)]
    BY <1>0, <1>13, <2>1 DEF UpdateUserById, AccountTypeOK
  <2> HIDE DEF u, n
  <2>3. CASE TakenFrom(u, n)
    BY <1>7, <2>2, <2>3
  <2>4. CASE ~TakenFrom(u, n)
    <3>1. Updated(users[u], n) \in UserRow
          /\ Updated(users[u], n).name \in {users[u].name, n}
      BY <1>8, <2>1 DEF Updated, UserRow
    <3> QED
      BY <1>6, <2>1, <2>2, <2>4, <3>1
  <2> QED
    BY <2>3, <2>4
<1>14. ASSUME NEW r \in AccountRequest, BanUser(r) \/ UnbanUser(r)
       PROVE  AccountInv'
  BY <1>10, <1>14 DEF BanUser, UnbanUser
<1>15. ASSUME NEW r \in AccountRequest, DeleteUserByUid(r) \/ DeleteOneUserByUid(r)
       PROVE  AccountInv'
  <2>1. DeleteUserByUid(r) => request[r].uid \in Uid
    BY <1>0, RequestLemma DEF DeleteUserByUid
  <2> QED
    BY <1>11, <1>15, <2>1 DEF DeleteUserByUid, DeleteOneUserByUid
<1> QED
  BY <1>1, <1>2, <1>3, <1>4, <1>9, <1>12, <1>13, <1>14, <1>15 DEF AccountNext

\* What was shown holds on every run.
LEMMA AccountInvHolds == AccountSpec => []AccountInv
<1>1. AccountInv /\ [AccountNext]_accountVars => AccountInv'
  <2>1. AccountInv /\ UNCHANGED accountVars => AccountInv'
    BY DEF accountVars, AccountInv, AccountTypeOK, LogoutsAreKept, AdmittedHaveTokens, At
  <2> QED
    BY <2>1, AccountKeepsInv
<1> QED
  BY <1>1, AccountInitHolds, PTL DEF AccountSpec

\* The accounts, tokens and requests have their types, and no two accounts one
\* username, whatever requests run at the same time.
THEOREM AccountTypeCorrect == AccountSpec => []AccountTypeOK
BY AccountInvHolds, PTL DEF AccountInv

\* Only the two ways in admit a request.
LEMMA AdmissionLemma ==
  ASSUME AccountInv, AccountNext, NEW r \in AccountRequest,
         At(r, "idle"), request'[r].pc = "admitted"
  PROVE  Admit(r) \/ AdmitUnchecked(r)
<1> USE DEF At, Becomes, Ends, RequestIdle
<1>0. request \in [AccountRequest -> RequestState]
  BY DEF AccountInv, AccountTypeOK
<1>1. ASSUME NEW q \in AccountRequest, NEW state, request' = [request EXCEPT ![q] = state],
             state.pc # "admitted"
      PROVE  FALSE
  BY <1>0, <1>1
<1>2. request' # request
  BY <1>0
<1>3. ASSUME NEW q \in AccountRequest, q # r, NEW state,
             request' = [request EXCEPT ![q] = state]
      PROVE  FALSE
  BY <1>0, <1>3
<1>4. ASSUME NEW q \in AccountRequest, Admit(q) \/ AdmitUnchecked(q), q # r
      PROVE  FALSE
  <2>1. PICK state : request' = [request EXCEPT ![q] = state]
    BY <1>4 DEF Admit, AdmitUnchecked
  <2> QED
    BY <1>3, <1>4, <2>1
<1>5. ASSUME NEW q \in AccountRequest,
             \/ Register(q) \/ Login(q) \/ AdminLogin(q) \/ UpdateUser(q) \/ EditUser(q)
             \/ DeleteUser(q) \/ ResetUserPassword(q)
      PROVE  FALSE
  BY <1>1, <1>5 DEF Register, Login, AdminLogin, UpdateUser, EditUser, DeleteUser, ResetUserPassword
<1>6. ASSUME NEW q \in AccountRequest,
             \/ InsertUser(q) \/ GetToken(q) \/ Logout(q) \/ UpdateUserById(q)
             \/ DeleteUserByUid(q) \/ DeleteOneUserByUid(q) \/ BanUser(q) \/ UnbanUser(q)
             \/ RequestFails(q)
      PROVE  FALSE
  BY <1>1, <1>6 DEF InsertUser, GetToken, Logout, UpdateUserById, DeleteUserByUid,
     DeleteOneUserByUid, BanUser, UnbanUser, RequestFails
<1> QED
  BY <1>2, <1>4, <1>5, <1>6 DEF AccountNext, ClockTicks

\* A token that was logged out gets no request through where the blacklist is
\* checked and Redis answers, whatever requests run at the same time.
THEOREM LoggedOutStaysOutHolds == AccountSpec => LoggedOutStaysOut
<1> DEFINE Out == \A r \in AccountRequest :
                   At(r, "idle") /\ At(r, "admitted")' /\ request'[r].by \in loggedOut =>
                       ~request'[r].checked
<1>1. AccountInv /\ AccountNext => Out
  <2> SUFFICES ASSUME AccountInv, AccountNext, NEW r \in AccountRequest,
                      At(r, "idle"), At(r, "admitted")', request'[r].by \in loggedOut
               PROVE  ~request'[r].checked
    OBVIOUS
  <2>0. request \in [AccountRequest -> RequestState]
    BY DEF AccountInv, AccountTypeOK
  <2>1. Admit(r) \/ AdmitUnchecked(r)
    BY AdmissionLemma DEF At
  <2>2. CASE AdmitUnchecked(r)
    BY <2>0, <2>2 DEF AdmitUnchecked, Becomes
  <2>3. CASE Admit(r)
    <3>1. PICK t \in tokens : ~Expired(t) /\ ~Blacklisted(t) /\ request'[r].by = t
      BY <2>0, <2>3 DEF Admit, Becomes
    <3>2. t \in loggedOut /\ t \in Token
      BY <3>1 DEF AccountInv, AccountTypeOK
    <3>3. t.iat + AccessExpire <= blacklist[t]
      BY <3>2 DEF AccountInv, LogoutsAreKept
    <3>4. t.iat \in Nat /\ blacklist[t] \in Int /\ second \in Nat
      <4>1. blacklist[t] \in 0 .. MaxSecond + AccessExpire
        BY <3>2 DEF AccountInv, AccountTypeOK
      <4>2. t.iat \in Seconds /\ second \in Seconds
        BY <3>2 DEF AccountInv, AccountTypeOK, Token
      <4> QED
        BY <4>1, <4>2 DEF Seconds
    <3> QED
      BY <3>1, <3>3, <3>4, AccountAssumption DEF Expired, Blacklisted
  <2> QED
    BY <2>1, <2>2, <2>3
<1>2. AccountInv /\ [AccountNext]_accountVars => [Out]_accountVars
  BY <1>1
<1> QED
  BY <1>2, AccountInvHolds, PTL DEF AccountSpec, LoggedOutStaysOut

\* Only UnbanUser lifts a ban, and nothing brings a deleted user back.
THEOREM StatusIsKeptHolds == AccountSpec => StatusIsKept
<1> DEFINE Kept == \A u \in Uid :
              /\ users[u].status = "gone" => users'[u].status = "gone"
              /\ users[u].status = "banned" /\ users'[u].status = "normal" =>
                    \E r \in AccountRequest : Admitted(r, "unban") /\ At(r, "idle")'
<1>1. AccountInv /\ AccountNext => Kept
  <2> SUFFICES ASSUME AccountInv, AccountNext, NEW u \in Uid
               PROVE  /\ users[u].status = "gone" => users'[u].status = "gone"
                      /\ users[u].status = "banned" /\ users'[u].status = "normal" =>
                            \E r \in AccountRequest : Admitted(r, "unban") /\ At(r, "idle")'
    OBVIOUS
  <2>0. users \in [Uid -> UserRow] /\ request \in [AccountRequest -> RequestState]
    BY DEF AccountInv, AccountTypeOK
  <2>1. CASE UNCHANGED users
    BY <2>1
  <2>2. ASSUME NEW r \in AccountRequest, InsertUser(r), ~UNCHANGED users
        PROVE  users[u].status \in {"gone", "banned"} => users'[u] = users[u]
    <3> DEFINE v == CHOOSE v \in Unused : TRUE
    <3>1. Unused # {}
          /\ users' = [users EXCEPT ![v] = [status |-> "normal", name |-> request[r].name]]
      BY <2>2 DEF InsertUser
    <3>2. v \in Unused
      BY <3>1
    <3>3. v \in Uid /\ users[v].status = "none"
      BY <3>2 DEF Unused
    <3> HIDE DEF v
    <3> QED
      BY <2>0, <3>1, <3>3
  <2>3. ASSUME NEW r \in AccountRequest, UpdateUserById(r)
        PROVE  users'[u].status = users[u].status
    <3> DEFINE v == request[r].uid
    <3>1. users' = users \/ users' = [users EXCEPT ![v] = Updated(users[v], request[r].name)]
      <4>1. v \in Uid
        BY <2>3, RequestLemma DEF UpdateUserById, AccountInv
      <4> QED
        BY <2>0, <2>3, <4>1 DEF UpdateUserById
    <3>2. v \in Uid
      BY <2>3, RequestLemma DEF UpdateUserById, AccountInv
    <3>3. Updated(users[v], request[r].name).status = users[v].status
      BY <2>0, <3>2 DEF Updated, UserRow
    <3> HIDE DEF v
    <3> QED
      BY <2>0, <3>1, <3>2, <3>3
  <2>4. ASSUME NEW v \in Uid,
               users' = IF There(v) THEN [users EXCEPT ![v] = Deleted(@)] ELSE users
        PROVE  users'[u].status \in {users[u].status, "gone"}
    BY <2>0, <2>4 DEF Deleted, UserRow
  <2>5. ASSUME NEW r \in AccountRequest, DeleteUserByUid(r) \/ DeleteOneUserByUid(r)
        PROVE  users'[u].status \in {users[u].status, "gone"}
    <3>1. DeleteUserByUid(r) => request[r].uid \in Uid
      BY RequestLemma DEF DeleteUserByUid, AccountInv
    <3> QED
      BY <2>4, <2>5, <3>1 DEF DeleteUserByUid, DeleteOneUserByUid
  <2>6. ASSUME NEW r \in AccountRequest, BanUser(r)
        PROVE  \/ users'[u].status = users[u].status
               \/ users[u].status # "gone" /\ users'[u].status = "banned"
    BY <2>0, <2>6 DEF BanUser, UpdateUserStatusByUid, There, UserRow
  <2>7. ASSUME NEW r \in AccountRequest, UnbanUser(r)
        PROVE  /\ \/ users'[u].status = users[u].status
                  \/ users[u].status # "gone" /\ users'[u].status = "normal"
               /\ Admitted(r, "unban") /\ At(r, "idle")'
    <3>1. Admitted(r, "unban") /\ request'[r].pc = "idle"
      BY <2>0, <2>7, StatesLemma DEF UnbanUser, Ends, Becomes
    <3>2. \/ users'[u].status = users[u].status
          \/ users[u].status # "gone" /\ users'[u].status = "normal"
      BY <2>0, <2>7 DEF UnbanUser, UpdateUserStatusByUid, There, UserRow
    <3> QED
      BY <3>1, <3>2 DEF At
  <2>8. \/ UNCHANGED users
        \/ \E r \in AccountRequest :
              \/ InsertUser(r) \/ UpdateUserById(r) \/ DeleteUserByUid(r)
              \/ DeleteOneUserByUid(r) \/ BanUser(r) \/ UnbanUser(r)
    BY DEF AccountNext, ClockTicks, Register, Login, AdminLogin, GetToken, Admit, AdmitUnchecked,
       Logout, UpdateUser, EditUser, DeleteUser, ResetUserPassword, RequestFails
  <2> QED
    BY <2>1, <2>2, <2>3, <2>5, <2>6, <2>7, <2>8
<1>2. AccountInv /\ [AccountNext]_accountVars => [Kept]_accountVars
  BY <1>1
<1> QED
  BY <1>2, AccountInvHolds, PTL DEF AccountSpec, StatusIsKept

----------------------------------------------------------------------------
(* Invites *)

\* CreateAdmin has locked its invite, and has inserted the account.
Holding(k) == tx[k].pc \in {"name", "insert", "mark", "commit"}
Inserted(k) == tx[k].pc \in {"mark", "commit"}

\* A locked invite is there and unused, and locked by one transaction.
LocksAreGood ==
    /\ \A k \in Applicant : Holding(k) =>
          invite[tx[k].code].made /\ invite[tx[k].code].usedBy = NoAdmin
    /\ \A k, l \in Applicant :
          Holding(k) /\ Holding(l) /\ tx[k].code = tx[l].code => k = l

\* A code that is not made yet was not used.
UsedAreMade == \A c \in InviteCode : ~invite[c].made => invite[c].usedBy = NoAdmin

\* The name of an inserted account stays free for it.
InsertsAreGood ==
    /\ \A k \in Applicant : Inserted(k) => ~NameTaken(tx[k].name)
    /\ \A k, l \in Applicant :
          Inserted(k) /\ Inserted(l) /\ tx[k].name = tx[l].name => k = l

\* Who is an admin has ended its transaction, and only admins are renamed.
AdminsAreDone ==
    /\ \A k \in Applicant : adminName[k] # Unnamed => tx[k].pc \in {"created", "failed"}
    /\ \A a \in Admins : renaming[a] # Unnamed => adminName[a] # Unnamed

InviteInv == InviteTypeOK /\ LocksAreGood /\ UsedAreMade /\ InsertsAreGood /\ AdminsAreDone

LEMMA InviteInitHolds == InviteInit => InviteInv
<1> SUFFICES ASSUME InviteInit PROVE InviteInv
  OBVIOUS
<1>1. InviteTypeOK
  <2>1. inviting \in [Inviter -> 0 .. MaxAttempts + 1]
    BY InviteAssumption DEF InviteInit
  <2>2. invite \in [InviteCode -> InviteRow]
    BY DEF InviteInit, InviteRow, NoInvite
  <2>3. /\ adminName \in [Admins -> AdminName \cup {Unnamed}]
        /\ \A a, b \in Admins : adminName[a] = adminName[b] => a = b \/ adminName[a] = Unnamed
        /\ tx \in [Applicant -> TxState]
        /\ renaming \in [Admins -> AdminName \cup {Unnamed}]
    BY InviteAssumption DEF InviteInit, TxState, Admins
  <2> QED
    BY <2>1, <2>2, <2>3 DEF InviteTypeOK
<1>2. LocksAreGood /\ UsedAreMade /\ InsertsAreGood
  BY DEF InviteInit, NoInvite, LocksAreGood, UsedAreMade, InsertsAreGood, Holding, Inserted
<1>3. AdminsAreDone
  BY InviteAssumption DEF InviteInit, AdminsAreDone, Admins
<1> QED
  BY <1>1, <1>2, <1>3 DEF InviteInv

\* A transaction that goes on to pc, with the tables as they were.
LEMMA StepKeepsInv ==
  ASSUME InviteInv, NEW k \in Applicant,
         NEW pc \in {"name", "insert", "mark", "commit"},
         tx[k].pc \in {"lock", "name", "insert", "mark"}, Step(k, pc),
         UNCHANGED <<adminName, invite, inviting, renaming>>,
         ~Holding(k) => Usable(tx[k].code) /\ ~Locked(tx[k].code),
         pc \in {"mark", "commit"} /\ ~Inserted(k) => ~NameHeld(tx[k].name) /\ ~NameTaken(tx[k].name)
  PROVE  InviteInv'
<1>1. tx \in [Applicant -> TxState]
  BY DEF InviteInv, InviteTypeOK
<1>2. /\ tx[k].code \in InviteCode /\ tx[k].name \in AdminName
      /\ [tx[k] EXCEPT !.pc = pc] = [pc |-> pc, code |-> tx[k].code, name |-> tx[k].name]
  BY <1>1 DEF TxState
<1>3. tx' = [tx EXCEPT ![k] = [tx[k] EXCEPT !.pc = pc]]
  BY <1>1 DEF Step
<1>4. tx'[k].pc = pc /\ tx'[k].code = tx[k].code /\ tx'[k].name = tx[k].name
      /\ \A l \in Applicant : l # k => tx'[l] = tx[l]
  BY <1>1, <1>2, <1>3
<1>5. tx' \in [Applicant -> TxState]
  BY <1>1, <1>2, <1>3 DEF TxState
<1>6. InviteTypeOK'
  BY <1>5 DEF InviteInv, InviteTypeOK
<1>7. LocksAreGood'
  BY <1>4 DEF InviteInv, LocksAreGood, Holding, Usable, Locked
<1>8. InsertsAreGood'
  BY <1>4 DEF InviteInv, InsertsAreGood, Inserted, NameHeld, NameTaken
<1>9. AdminsAreDone'
  BY <1>4 DEF InviteInv, AdminsAreDone
<1> QED
  BY <1>6, <1>7, <1>8, <1>9 DEF InviteInv, UsedAreMade

\* A transaction that ends with nothing written, or begins.
LEMMA EndKeepsInv ==
  ASSUME InviteInv, NEW k \in Applicant, NEW state \in TxState,
         state.pc \notin {"name", "insert", "mark", "commit"},
         adminName[k] # Unnamed => state.pc \in {"created", "failed"},
         tx' = [tx EXCEPT ![k] = state],
         UNCHANGED <<adminName, invite, inviting, renaming>>
  PROVE  InviteInv'
<1>1. tx' \in [Applicant -> TxState] /\ tx'[k] = state
      /\ \A l \in Applicant : l # k => tx'[l] = tx[l]
  BY DEF InviteInv, InviteTypeOK
<1>2. InviteTypeOK'
  BY <1>1 DEF InviteInv, InviteTypeOK
<1>3. LocksAreGood'
  BY <1>1 DEF InviteInv, LocksAreGood, Holding
<1>4. InsertsAreGood'
  BY <1>1 DEF InviteInv, InsertsAreGood, Inserted, NameTaken
<1>5. AdminsAreDone'
  BY <1>1 DEF InviteInv, AdminsAreDone
<1> QED
  BY <1>2, <1>3, <1>4, <1>5 DEF InviteInv, UsedAreMade

\* A commit, whatever the call then answers.
LEMMA CommitKeepsInv ==
  ASSUME InviteInv, NEW k \in Applicant, TxCommits(k), NEW how \in {"created", "failed"},
         TxEnds(k, how), UNCHANGED <<inviting, renaming>>
  PROVE  InviteInv'
<1>0. InviteTypeOK
  BY DEF InviteInv
<1> DEFINE c == tx[k].code
           n == tx[k].name
<1>1. c \in InviteCode /\ n \in AdminName /\ k \in Admins
  BY <1>0 DEF InviteTypeOK, TxState, TxCommits, Admins
<1>2. tx' = [tx EXCEPT ![k] = [pc |-> how]]
  BY DEF TxEnds
<1>3. tx' \in [Applicant -> TxState] /\ tx'[k].pc = how
      /\ \A l \in Applicant : l # k => tx'[l] = tx[l]
  BY <1>0, <1>2 DEF InviteTypeOK, TxState
<1>4. adminName' = [adminName EXCEPT ![k] = n]
      /\ invite' = [invite EXCEPT ![c] = [invite[c] EXCEPT !.usedBy = k]]
  BY <1>0, <1>1 DEF TxCommits, InviteTypeOK
<1>5. ~NameTaken(n) /\ Holding(k) /\ Inserted(k)
  BY DEF InviteInv, InsertsAreGood, Inserted, Holding, TxCommits
<1>6. adminName'[k] = n /\ \A a \in Admins : a # k => adminName'[a] = adminName[a]
  BY <1>0, <1>1, <1>4 DEF InviteTypeOK
<1>7. \A d \in InviteCode : d # c => invite'[d] = invite[d]
  BY <1>0, <1>1, <1>4 DEF InviteTypeOK
<1>8. [invite[c] EXCEPT !.usedBy = k] \in InviteRow
  BY <1>0, <1>1 DEF InviteTypeOK, InviteRow
<1>9. InviteTypeOK'
  <2>1. adminName' \in [Admins -> AdminName \cup {Unnamed}]
        /\ invite' \in [InviteCode -> InviteRow]
    BY <1>0, <1>1, <1>4, <1>8 DEF InviteTypeOK
  <2>2. \A a, b \in Admins : adminName'[a] = adminName'[b] => a = b \/ adminName'[a] = Unnamed
    BY <1>0, <1>5, <1>6 DEF InviteTypeOK, NameTaken
  <2> QED
    BY <1>0, <1>3, <2>1, <2>2 DEF InviteTypeOK
<1>10. LocksAreGood'
  <2>1. \A l \in Applicant : Holding(l)' => l # k /\ Holding(l) /\ tx'[l] = tx[l]
    BY <1>3 DEF Holding
  <2>2. \A l \in Applicant : Holding(l)' => tx[l].code # c /\ tx[l].code \in InviteCode
    BY <1>0, <1>5, <2>1 DEF InviteInv, LocksAreGood, InviteTypeOK, TxState, Holding
  <2>3. \A l \in Applicant : Holding(l)' => tx'[l].code = tx[l].code /\ invite'[tx[l].code] = invite[tx[l].code]
    BY <1>7, <2>1, <2>2
  <2> QED
    BY <2>1, <2>3 DEF InviteInv, LocksAreGood
<1>11. InsertsAreGood'
  <2>1. \A l \in Applicant : Inserted(l)' => l # k /\ Inserted(l) /\ tx'[l] = tx[l]
    BY <1>3 DEF Inserted
  <2>2. \A l \in Applicant : Inserted(l)' => tx[l].name # n
    BY <1>5, <2>1 DEF InviteInv, InsertsAreGood
  <2>3. \A l \in Applicant : Inserted(l)' => ~NameTaken(tx[l].name)'
    BY <1>6, <2>1, <2>2 DEF InviteInv, InsertsAreGood, NameTaken
  <2> QED
    BY <2>1, <2>3 DEF InviteInv, InsertsAreGood
<1>12. AdminsAreDone'
  BY <1>1, <1>3, <1>6, InviteAssumption DEF InviteInv, AdminsAreDone, Admins
<1>13. UsedAreMade'
  <2>1. invite[c].made
    BY <1>5 DEF InviteInv, LocksAreGood
  <2>2. invite'[c] = [invite[c] EXCEPT !.usedBy = k] /\ invite[c] \in InviteRow
    BY <1>0, <1>1, <1>4 DEF InviteTypeOK
  <2>3. invite'[c].made
    BY <2>1, <2>2 DEF InviteRow
  <2> QED
    BY <1>7, <2>3 DEF InviteInv, UsedAreMade
<1> QED
  BY <1>9, <1>10, <1>11, <1>12, <1>13 DEF InviteInv

\* A new code, a code that runs out, or an attempt that failed.
LEMMA CodesKeepInv ==
  ASSUME InviteInv, inviting' \in [Inviter -> 0 .. MaxAttempts + 1],
         invite' \in [InviteCode -> InviteRow],
         \A c \in InviteCode : /\ invite[c].made => invite'[c].made
                               /\ invite'[c].usedBy = invite[c].usedBy,
         UNCHANGED <<adminName, tx, renaming>>
  PROVE  InviteInv'
<1>1. \A k \in Applicant : Holding(k) => tx[k].code \in InviteCode
  BY DEF InviteInv, InviteTypeOK, TxState, Holding
<1>2. LocksAreGood'
  BY <1>1 DEF InviteInv, LocksAreGood, Holding
<1> QED
  BY <1>2 DEF InviteInv, InviteTypeOK, UsedAreMade, InsertsAreGood, Inserted, NameTaken,
     AdminsAreDone

\* Every step keeps the invariant.
LEMMA InviteKeepsInv ==
  ASSUME InviteInv, InviteNext
  PROVE  InviteInv'
<1>0. InviteTypeOK
  BY DEF InviteInv
<1>1. \A k \in Applicant : tx[k].pc \in {"lock", "name", "insert", "mark", "commit"} =>
        adminName[k] = Unnamed
  BY DEF InviteInv, AdminsAreDone
<1>2. \A how \in {"refused", "created", "failed"} : [pc |-> how] \in TxState
  BY DEF TxState
<1>3. ASSUME NEW k \in Applicant, NEW how \in {"refused", "failed"},
             tx[k].pc \in {"lock", "name", "insert", "mark", "commit"}, TxEnds(k, how),
             UNCHANGED <<adminName, invite, inviting, renaming>>
      PROVE  InviteInv'
  BY <1>1, <1>2, <1>3, EndKeepsInv DEF TxEnds
<1>4. ASSUME NEW k \in Applicant, CreateAdmin(k)
      PROVE  InviteInv'
  <2>1. PICK c \in InviteCode, n \in AdminName :
          tx' = [tx EXCEPT ![k] = [pc |-> "lock", code |-> c, name |-> n]]
    BY <1>4 DEF CreateAdmin
  <2>2. [pc |-> "lock", code |-> c, name |-> n] \in TxState
    BY DEF TxState
  <2>3. adminName[k] = Unnamed
    BY <1>4 DEF CreateAdmin, InviteInv, AdminsAreDone
  <2> QED
    BY <1>4, <2>1, <2>2, <2>3, EndKeepsInv DEF CreateAdmin
<1>5. ASSUME NEW k \in Applicant, FindAdminInviteByCodeForUpdate(k)
      PROVE  InviteInv'
  BY <1>3, <1>5, StepKeepsInv DEF FindAdminInviteByCodeForUpdate, Holding
<1>6. ASSUME NEW k \in Applicant, FindOneAdminByUsernameTx(k)
      PROVE  InviteInv'
  BY <1>3, <1>6, StepKeepsInv DEF FindOneAdminByUsernameTx, Holding
<1>7. ASSUME NEW k \in Applicant, InsertOneAdminTx(k)
      PROVE  InviteInv'
  BY <1>3, <1>7, StepKeepsInv DEF InsertOneAdminTx, Holding
<1>8. ASSUME NEW k \in Applicant, UpdateAdminInviteUsedTx(k)
      PROVE  InviteInv'
  BY <1>8, StepKeepsInv DEF UpdateAdminInviteUsedTx, Holding, Inserted
<1>9. ASSUME NEW k \in Applicant, CreateAdminCommits(k) \/ CommitUnknown(k)
      PROVE  InviteInv'
  BY <1>9, CommitKeepsInv DEF CreateAdminCommits, CommitUnknown
<1>10. ASSUME NEW k \in Applicant, CreateAdminFails(k)
       PROVE  InviteInv'
  BY <1>3, <1>10 DEF CreateAdminFails
<1>11. ASSUME NEW i \in Inviter, CreateInviteCode(i) \/ InsertOneAdminInvite(i)
       PROVE  InviteInv'
  <2>1. inviting' \in [Inviter -> 0 .. MaxAttempts + 1]
    <3>1. inviting \in [Inviter -> 0 .. MaxAttempts + 1]
      BY <1>0 DEF InviteTypeOK
    <3> QED
      BY <1>11, <3>1, InviteAssumption DEF CreateInviteCode, InsertOneAdminInvite
  <2>2. \/ invite' = invite
        \/ \E c \in InviteCode : invite' = [invite EXCEPT ![c].made = TRUE]
    BY <1>11 DEF CreateInviteCode, InsertOneAdminInvite
  <2>3. /\ invite' \in [InviteCode -> InviteRow]
        /\ \A c \in InviteCode : /\ invite[c].made => invite'[c].made
                                /\ invite'[c].usedBy = invite[c].usedBy
    <3>1. CASE invite' = invite
      BY <1>0, <3>1 DEF InviteTypeOK
    <3>2. ASSUME NEW d \in InviteCode, invite' = [invite EXCEPT ![d].made = TRUE]
          PROVE  /\ invite' \in [InviteCode -> InviteRow]
                 /\ \A c \in InviteCode : /\ invite[c].made => invite'[c].made
                                         /\ invite'[c].usedBy = invite[c].usedBy
      BY <1>0, <3>2 DEF InviteTypeOK, InviteRow
    <3> QED
      BY <2>2, <3>1, <3>2
  <2>4. UNCHANGED <<adminName, tx, renaming>>
    BY <1>11 DEF CreateInviteCode, InsertOneAdminInvite
  <2> QED
    BY <2>1, <2>3, <2>4, CodesKeepInv
<1>12. ASSUME NEW d \in InviteCode, InviteExpires(d)
       PROVE  InviteInv'
  <2>1. /\ invite' \in [InviteCode -> InviteRow]
        /\ \A c \in InviteCode : /\ invite[c].made => invite'[c].made
                                /\ invite'[c].usedBy = invite[c].usedBy
    BY <1>0, <1>12 DEF InviteExpires, InviteTypeOK, InviteRow
  <2> QED
    BY <1>0, <1>12, <2>1, CodesKeepInv DEF InviteExpires, InviteTypeOK
<1>13. ASSUME NEW a \in Admins, UpdateSelf(a)
       PROVE  InviteInv'
  <2>1. renaming' \in [Admins -> AdminName \cup {Unnamed}]
        /\ \A b \in Admins : b # a => renaming'[b] = renaming[b]
    BY <1>0, <1>13 DEF UpdateSelf, InviteTypeOK
  <2>2. adminName[a] # Unnamed /\ UNCHANGED <<adminName, invite, tx, inviting>>
    BY <1>13 DEF UpdateSelf
  <2> QED
    BY <2>1, <2>2 DEF InviteInv, InviteTypeOK, LocksAreGood, Holding, UsedAreMade,
       InsertsAreGood, Inserted, NameTaken, AdminsAreDone
<1>14. ASSUME NEW a \in Admins, UpdateOneAdminByUid(a)
       PROVE  InviteInv'
  <2> DEFINE n == renaming[a]
  <2>1. /\ n \in AdminName /\ n # Unnamed /\ ~NameHeld(n)
        /\ UNCHANGED <<invite, tx, inviting>>
        /\ renaming' = [renaming EXCEPT ![a] = Unnamed]
    BY <1>0, <1>14 DEF UpdateOneAdminByUid, InviteTypeOK
  <2>2. renaming' \in [Admins -> AdminName \cup {Unnamed}]
        /\ renaming'[a] = Unnamed /\ \A b \in Admins : b # a => renaming'[b] = renaming[b]
    BY <1>0, <2>1 DEF InviteTypeOK
  <2>3. /\ adminName' \in [Admins -> AdminName \cup {Unnamed}]
        /\ \A b \in Admins : \/ adminName'[b] = adminName[b]
                             \/ b = a /\ adminName'[b] = n /\ adminName[b] # Unnamed
        /\ \A b, d \in Admins : adminName'[b] = adminName'[d] => b = d \/ adminName'[b] = Unnamed
    <3>1. CASE \E b \in Admins \ {a} : adminName[b] = n
      <4>1. adminName' = adminName
        BY <1>14, <3>1 DEF UpdateOneAdminByUid
      <4> QED
        BY <1>0, <4>1 DEF InviteTypeOK
    <3>2. CASE ~\E b \in Admins \ {a} : adminName[b] = n
      <4>1. adminName' = [adminName EXCEPT ![a] = n]
        BY <1>14, <3>2 DEF UpdateOneAdminByUid
      <4>2. adminName'[a] = n /\ \A b \in Admins : b # a => adminName'[b] = adminName[b]
        BY <1>0, <4>1 DEF InviteTypeOK
      <4>3. adminName[a] # Unnamed
        BY <2>1 DEF InviteInv, AdminsAreDone
      <4> HIDE DEF n
      <4> QED
        BY <1>0, <2>1, <3>2, <4>1, <4>2, <4>3 DEF InviteTypeOK
    <3> QED
      BY <3>1, <3>2
  <2> HIDE DEF n
  <2>4. InviteTypeOK'
    BY <1>0, <2>1, <2>2, <2>3 DEF InviteTypeOK
  <2>5. LocksAreGood'
    BY <2>1 DEF InviteInv, LocksAreGood, Holding
  <2>6. InsertsAreGood'
    BY <2>1, <2>3 DEF InviteInv, InsertsAreGood, Inserted, NameTaken, NameHeld
  <2>7. AdminsAreDone'
    BY <2>1, <2>2, <2>3 DEF InviteInv, AdminsAreDone, Admins
  <2> QED
    BY <2>1, <2>4, <2>5, <2>6, <2>7 DEF InviteInv, UsedAreMade
<1> QED
  BY <1>4, <1>5, <1>6, <1>7, <1>8, <1>9, <1>10, <1>11, <1>12, <1>13, <1>14 DEF InviteNext

\* What was shown holds on every run.
LEMMA InviteInvHolds == InviteSpec => []InviteInv
<1>1. InviteInv /\ [InviteNext]_inviteVars => InviteInv'
  <2>1. InviteInv /\ UNCHANGED inviteVars => InviteInv'
    BY DEF inviteVars, InviteInv, InviteTypeOK, LocksAreGood, Holding, UsedAreMade,
       InsertsAreGood, Inserted, NameTaken, AdminsAreDone
  <2> QED
    BY <2>1, InviteKeepsInv
<1> QED
  BY <1>1, InviteInitHolds, PTL DEF InviteSpec

\* The invites, the transactions and the admins have their types, and no two admins
\* one username.
THEOREM InviteTypeCorrect == InviteSpec => []InviteTypeOK
BY InviteInvHolds, PTL DEF InviteInv

\* What OneTimeInvite sees of the tables.
StateOf == [c \in InviteCode |->
               IF ~invite[c].made THEN "none"
               ELSE IF invite[c].usedBy = NoAdmin THEN "open" ELSE "spent"]
HolderOf == [c \in InviteCode |-> invite[c].usedBy]
AdminsOf == {a \in Admins : adminName[a] # Unnamed}

LEMMA InviteInitRefines == InviteInit => Promise!Init
<1> SUFFICES ASSUME InviteInit PROVE Promise!Init
  OBVIOUS
<1>1. StateOf = [c \in InviteCode |-> "none"] /\ HolderOf = [c \in InviteCode |-> NoAdmin]
  BY DEF InviteInit, NoInvite, StateOf, HolderOf
<1>2. AdminsOf = {Founder}
  BY InviteAssumption DEF InviteInit, AdminsOf, Admins
<1> QED
  BY <1>1, <1>2 DEF Promise!Init, StateOf, HolderOf, AdminsOf

\* The three stay as they are.
LEMMA SameIsStutter ==
  ASSUME StateOf' = StateOf, HolderOf' = HolderOf, AdminsOf' = AdminsOf
  PROVE  UNCHANGED Promise!vars
BY DEF Promise!vars, StateOf, HolderOf, AdminsOf

\* A commit spends the code, whatever the call then answers.
LEMMA CommitSpends ==
  ASSUME InviteInv, NEW k \in Applicant, TxCommits(k)
  PROVE  Promise!Spend(tx[k].code, k) /\ tx[k].code \in InviteCode
<1>0. InviteTypeOK
  BY DEF InviteInv
<1> DEFINE c == tx[k].code
           n == tx[k].name
<1>1. c \in InviteCode /\ n \in AdminName /\ k \in Admins /\ n # Unnamed /\ k # NoAdmin
  BY <1>0, InviteAssumption DEF InviteTypeOK, TxState, TxCommits, Admins
<1>2. adminName' = [adminName EXCEPT ![k] = n]
      /\ invite' = [invite EXCEPT ![c] = [invite[c] EXCEPT !.usedBy = k]]
  BY <1>0, <1>1 DEF TxCommits, InviteTypeOK
<1>3. invite[c].made /\ invite[c].usedBy = NoAdmin
  BY DEF InviteInv, LocksAreGood, Holding, TxCommits
<1>4. adminName[k] = Unnamed
  BY DEF InviteInv, AdminsAreDone, TxCommits
<1>5. invite[c] \in InviteRow
  BY <1>0, <1>1 DEF InviteTypeOK
<1> HIDE DEF c, n
<1>6. /\ invite'[c].made /\ invite'[c].usedBy = k
      /\ \A d \in InviteCode : d # c => invite'[d] = invite[d]
  BY <1>0, <1>1, <1>2, <1>3, <1>5 DEF InviteTypeOK, InviteRow
<1>7. StateOf[c] = "open" /\ StateOf' = [StateOf EXCEPT ![c] = "spent"]
  BY <1>1, <1>3, <1>6 DEF StateOf
<1>8. HolderOf' = [HolderOf EXCEPT ![c] = k]
  BY <1>1, <1>6 DEF HolderOf
<1>9. adminName'[k] = n /\ \A a \in Admins : a # k => adminName'[a] = adminName[a]
  BY <1>0, <1>1, <1>2 DEF InviteTypeOK
<1>10. k \notin AdminsOf /\ AdminsOf' = AdminsOf \cup {k}
  BY <1>1, <1>4, <1>9 DEF AdminsOf
<1>11. Promise!Spend(c, k)
  BY <1>7, <1>8, <1>10 DEF Promise!Spend, StateOf, HolderOf, AdminsOf
<1> QED
  BY <1>1, <1>11 DEF c

\* Every step is one of OneTimeInvite, or nothing it can see.
LEMMA InviteStepRefines ==
  ASSUME InviteInv, InviteNext
  PROVE  Promise!Next \/ UNCHANGED Promise!vars
<1>0. InviteTypeOK
  BY DEF InviteInv
<1>1. ASSUME UNCHANGED <<adminName, invite>> PROVE UNCHANGED Promise!vars
  BY <1>1, SameIsStutter DEF StateOf, HolderOf, AdminsOf
<1>2. ASSUME NEW k \in Applicant, TxCommits(k) PROVE Promise!Next
  BY <1>2, CommitSpends DEF Promise!Next
<1>3. ASSUME NEW i \in Inviter, InsertOneAdminInvite(i)
      PROVE  Promise!Next \/ UNCHANGED Promise!vars
  <2>1. CASE UNCHANGED invite
    BY <1>1, <1>3, <2>1 DEF InsertOneAdminInvite
  <2>2. CASE ~UNCHANGED invite
    <3>1. PICK c \in InviteCode :
            ~invite[c].made /\ invite' = [invite EXCEPT ![c].made = TRUE]
      BY <1>3, <2>2 DEF InsertOneAdminInvite
    <3>2. invite[c].usedBy = NoAdmin
      BY <3>1 DEF InviteInv, UsedAreMade
    <3>3. /\ invite'[c].made /\ invite'[c].usedBy = NoAdmin
          /\ \A d \in InviteCode : d # c => invite'[d] = invite[d]
      BY <1>0, <3>1, <3>2 DEF InviteTypeOK, InviteRow
    <3>4. StateOf[c] = "none" /\ StateOf' = [StateOf EXCEPT ![c] = "open"]
      BY <3>1, <3>3 DEF StateOf
    <3>5. HolderOf' = HolderOf
      BY <3>2, <3>3 DEF HolderOf
    <3>6. AdminsOf' = AdminsOf
      BY <1>3 DEF InsertOneAdminInvite, AdminsOf
    <3>7. Promise!Issue(c)
      BY <3>4, <3>5, <3>6 DEF Promise!Issue, StateOf, HolderOf, AdminsOf
    <3> QED
      BY <3>7 DEF Promise!Next
  <2> QED
    BY <2>1, <2>2
<1>4. ASSUME NEW c \in InviteCode, InviteExpires(c) PROVE UNCHANGED Promise!vars
  <2>1. \A d \in InviteCode :
          invite'[d].made = invite[d].made /\ invite'[d].usedBy = invite[d].usedBy
    BY <1>0, <1>4 DEF InviteExpires, InviteTypeOK, InviteRow
  <2>2. StateOf' = StateOf /\ HolderOf' = HolderOf
    BY <2>1 DEF StateOf, HolderOf
  <2>3. AdminsOf' = AdminsOf
    BY <1>4 DEF InviteExpires, AdminsOf
  <2> QED
    BY <2>2, <2>3, SameIsStutter
<1>5. ASSUME NEW a \in Admins, UpdateOneAdminByUid(a) PROVE UNCHANGED Promise!vars
  <2>1. /\ renaming[a] # Unnamed /\ UNCHANGED invite
        /\ adminName' \in {adminName, [adminName EXCEPT ![a] = renaming[a]]}
    BY <1>5 DEF UpdateOneAdminByUid
  <2>2. adminName[a] # Unnamed
    BY <2>1 DEF InviteInv, AdminsAreDone
  <2>3. \A b \in Admins : adminName'[b] # Unnamed <=> adminName[b] # Unnamed
    BY <1>0, <2>1, <2>2 DEF InviteTypeOK
  <2>4. AdminsOf' = AdminsOf
    BY <2>3 DEF AdminsOf
  <2> QED
    BY <2>1, <2>4, SameIsStutter DEF StateOf, HolderOf
<1> QED
  BY <1>1, <1>2, <1>3, <1>4, <1>5 DEF InviteNext, CreateAdmin, FindAdminInviteByCodeForUpdate,
     FindOneAdminByUsernameTx, InsertOneAdminTx, UpdateAdminInviteUsedTx, CreateAdminCommits,
     CreateAdminFails, CommitUnknown, CreateInviteCode, UpdateSelf

\* The invites implement OneTimeInvite: a code lets in one admin, and an account
\* appears with the code that paid for it or not at all, whatever calls run at the
\* same time and wherever one fails.
THEOREM InvitesRefinement == InviteSpec => ImplementsInvites
<1>1. InviteInv /\ [InviteNext]_inviteVars => [Promise!Next]_(Promise!vars)
  <2>1. UNCHANGED inviteVars => UNCHANGED Promise!vars
    BY SameIsStutter DEF inviteVars, StateOf, HolderOf, AdminsOf
  <2> QED
    BY <2>1, InviteStepRefines
<1> QED
  BY <1>1, InviteInitRefines, InviteInvHolds, PTL DEF InviteSpec, ImplementsInvites, Promise!Spec
=============================================================================
