------------------------------ MODULE Gateway ------------------------------
(***************************************************************************)
(* The http apis in front of the rpc services: article/api, user/user/api, *)
(* user/admin/api and message/api.  A route is open, or for tokens of one  *)
(* kind; its logic function asks an rpc under a deadline and translates    *)
(* the status that comes back.  One request is followed from end to end:   *)
(* what it asked for may still happen when it has been answered.           *)
(***************************************************************************)
EXTENDS Integers

VARIABLES
    called,  \* the route, and who asks
    api,     \* what the logic function is doing
    rpc,     \* what the rpc it asked for is doing
    done,    \* the rpc did what it is for
    answer   \* the code in the response

gateVars == <<called, api, rpc, done, answer>>

----------------------------------------------------------------------------
(* What an rpc may return.  A refusal comes before it has changed anything; *)
(* a failure may come after.                                                *)

Lost == {"Canceled", "DeadlineExceeded", "Unavailable"}

Rpc(refusals, failures) ==
    {[status |-> "OK", did |-> TRUE]}
    \cup [status : refusals, did : {FALSE}]
    \cup [status : failures \cup Lost, did : BOOLEAN]

UserGetEnds == Rpc({"NotFound"}, {"Internal"})

\* UpdateUserStatusByUid and DeleteOneUserByUid look at the rows first and at the
\* error second: a statement that fails is a user who is not found.
UserRowEnds == Rpc({}, {"NotFound"})

GetUserListEnds == Rpc({}, {"Internal"})
GetSelfEnds == Rpc({"NotFound"}, {"Internal"})

\* An article that is not there is a nil response without an error.
GetArticleEnds == Rpc({"absent"}, {"Unknown"})
UploadFileEnds == Rpc({}, {"Unknown"})
GetPresignedUploadUrlEnds == Rpc({}, {"Internal"})

\* A message rpc puts the text of a business code in its status.
ListNotificationsEnds == Rpc({"InvalidParam"}, {"Unknown"})
GetUnreadSummaryEnds == Rpc({"InvalidParam"}, {"Unknown"})
MarkAllNotificationsReadEnds == Rpc({"InvalidParam"}, {"Unknown"})
MarkNotificationReadEnds == Rpc({"InvalidParam", "NotificationMiss"}, {"Unknown"})
SendNotificationEnds == Rpc({"InvalidParam"}, {"Internal", "Unknown"})
ListConversationsEnds == Rpc({"InvalidParam", "Forbidden"}, {"Unknown"})
GetConversationMessagesEnds ==
    Rpc({"InvalidParam", "ConversationMiss", "Forbidden"}, {"Unknown"})
MarkConversationReadEnds ==
    Rpc({"InvalidParam", "ConversationMiss", "Forbidden"}, {"Unknown"})
SendChatMessageEnds ==
    Rpc({"InvalidParam", "ConversationMiss", "Forbidden", "SelfChat",
         "UnsupportedRole", "AdminOnlyInit", "FirstMsgTooLong", "ChatPending"}, {"Unknown"})

----------------------------------------------------------------------------
(* The logic functions.  told: what each makes of a status; refuses: what   *)
(* it refuses before it asks; owned: only the author of the article may;    *)
(* named: it looks up the names of authors; after: how it may fail with the *)
(* rpc's answer in hand; other: what it makes of any other status.          *)

Logic(group, ends, told) ==
    [group |-> group, ends |-> ends, told |-> told, refuses |-> {"badRequest"},
     owned |-> FALSE, named |-> FALSE, after |-> {}, other |-> "busy"]

\* user/user/api
RegisterLogic ==
    Logic("open", Rpc({"AlreadyExists"}, {"Internal"}),
          [AlreadyExists |-> "userExist", Internal |-> "serverCommon"])

\* A wrong password and a ban are in the body of the rpc's answer.
LoginLogic ==
    [Logic("open", Rpc({"wrong", "banned"}, {"Internal"}),
           [wrong |-> "loginWrong", banned |-> "userBanned", Internal |-> "serverCommon"])
     EXCEPT !.after = {"tokenRuntime"}]

LogoutLogic ==
    Logic("user", Rpc({"InvalidArgument"}, {"Internal"}), [Internal |-> "serverCommon"])

GetuserLogic ==
    Logic("user", UserGetEnds, [NotFound |-> "userNotExist", Internal |-> "serverCommon"])

\* What was updated is gone with the user when the row is not found any more.
UpdateuserLogic ==
    Logic("user", Rpc({"AlreadyExists", "NotFound"}, {"Internal"}),
          [AlreadyExists |-> "userExist", NotFound |-> "userNotExist",
           Internal |-> "serverCommon"])

DeleteuserLogic ==
    Logic("user", Rpc({"NotFound"}, {"Internal"}),
          [NotFound |-> "userNotExist", Internal |-> "serverCommon"])

\* user/admin/api
CreateLogic ==
    Logic("open", Rpc({"AlreadyExists", "PermissionDenied"}, {"Internal"}),
          [AlreadyExists |-> "userExist", PermissionDenied |-> "inviteCodeWrong",
           Internal |-> "serverCommon"])

AdminLoginLogic ==
    [Logic("open", Rpc({"NotFound", "Unauthenticated"}, {"Internal"}),
           [NotFound |-> "userNotExist", Unauthenticated |-> "loginWrong",
            Internal |-> "serverCommon"])
     EXCEPT !.after = {"serverCommon"}]

AdminLogoutLogic ==
    Logic("admin", Rpc({"InvalidArgument"}, {"Internal"}), [Internal |-> "serverCommon"])

CreateinviteLogic ==
    Logic("admin", Rpc({"NotFound"}, {"Internal"}),
          [NotFound |-> "userNotExist", Internal |-> "serverCommon"])

GetselfLogic ==
    Logic("admin", GetSelfEnds, [NotFound |-> "userNotExist", Internal |-> "serverCommon"])

AdminGetuserLogic ==
    Logic("admin", UserGetEnds, [NotFound |-> "userNotExist", Internal |-> "serverCommon"])

GetuserlistLogic == Logic("admin", GetUserListEnds, [Internal |-> "serverCommon"])

UpdateLogic ==
    Logic("admin", Rpc({"NotFound", "AlreadyExists"}, {"Internal"}),
          [NotFound |-> "userNotExist", AlreadyExists |-> "userExist", Internal |-> "dbSelect"])

AdminUpdateuserLogic ==
    Logic("admin", Rpc({"NotFound", "AlreadyExists"}, {"Internal"}),
          [NotFound |-> "userNotExist", AlreadyExists |-> "userExist",
           Internal |-> "serverCommon"])

BanuserLogic ==
    Logic("admin", UserRowEnds, [NotFound |-> "userNotExist", Internal |-> "serverCommon"])

UnbanuserLogic ==
    Logic("admin", UserRowEnds, [NotFound |-> "userNotExist", Internal |-> "dbSelect"])

DeleteLogic ==
    Logic("admin", UserRowEnds, [NotFound |-> "userNotExist", Internal |-> "serverCommon"])

ResetuserpasswordLogic ==
    Logic("admin", Rpc({"NotFound"}, {"Internal"}),
          [NotFound |-> "userNotExist", Internal |-> "dbSelect"])

\* article/api
\* The rpc gets a second, and goes on after it.
CreateArticleLogic ==
    Logic("user", Rpc({}, {"Internal"}),
          [AlreadyExists |-> "articleExist", FailedPrecondition |-> "publishFailed",
           DeadlineExceeded |-> "publishing", Internal |-> "serverCommon"])

\* Wrong variant: it leaves it to the rpc to ask who the author is.
WrongUpdateArticleLogic ==
    Logic("user", Rpc({}, {"Internal", "Unknown"}),
          [NotFound |-> "articleNone", Internal |-> "serverCommon"])

\* The rpc asks nobody who the author is.
UpdateArticleLogic ==
    [Logic("user", Rpc({}, {"Internal", "Unknown"}),
           [NotFound |-> "articleNone", Internal |-> "serverCommon"])
     EXCEPT !.owned = TRUE]

DeleteArticleLogic ==
    [Logic("user", Rpc({}, {"Internal", "Unknown"}),
           [NotFound |-> "articleNone", PermissionDenied |-> "forbidden",
            Internal |-> "serverCommon"])
     EXCEPT !.owned = TRUE]

GetArticleLogic ==
    [Logic("user", GetArticleEnds,
           [absent |-> "articleNone", NotFound |-> "articleNone", Internal |-> "serverCommon"])
     EXCEPT !.named = TRUE]

ListArticlesLogic ==
    [Logic("user", Rpc({}, {"Unknown"}), [Internal |-> "serverCommon"])
     EXCEPT !.named = TRUE]

GetPresignedUploadUrlLogic ==
    [Logic("user", GetPresignedUploadUrlEnds, <<>>) EXCEPT !.other = "serverCommon"]

\* The handler answers every error alike.
UploadImageLogic == [Logic("user", UploadFileEnds, <<>>) EXCEPT !.other = "failed"]

\* message/api
BizText ==
    {"InvalidParam", "Forbidden", "SelfChat", "ConversationMiss", "NotificationMiss",
     "ChatPending", "AdminOnlyInit", "FirstMsgTooLong", "UnsupportedRole"}

\* The text of the status says which code it was, or else the status does.
BizCodeFromError ==
    [s \in BizText \cup {"Internal"} |-> IF s \in BizText THEN s ELSE "serverCommon"]

MessageLogic(group, ends) == Logic(group, ends, BizCodeFromError)

ListConversationsLogic == MessageLogic("user", ListConversationsEnds)
GetConversationMessagesLogic == MessageLogic("user", GetConversationMessagesEnds)
MarkConversationReadLogic == MessageLogic("user", MarkConversationReadEnds)
SendUserChatMessageLogic == MessageLogic("user", SendChatMessageEnds)
ListNotificationsLogic == MessageLogic("user", ListNotificationsEnds)
MarkNotificationReadLogic == MessageLogic("user", MarkNotificationReadEnds)
MarkAllNotificationsReadLogic == MessageLogic("user", MarkAllNotificationsReadEnds)
GetUnreadSummaryLogic == MessageLogic("user", GetUnreadSummaryEnds)
ListAdminConversationsLogic == MessageLogic("admin", ListConversationsEnds)
GetAdminConversationMessagesLogic == MessageLogic("admin", GetConversationMessagesEnds)
MarkAdminConversationReadLogic == MessageLogic("admin", MarkConversationReadEnds)
SendAdminChatMessageLogic == MessageLogic("admin", SendChatMessageEnds)

\* Neither a target nor a broadcast is refused at once.
SendAdminNotificationLogic ==
    [MessageLogic("admin", SendNotificationEnds) EXCEPT !.refuses = @ \cup {"InvalidParam"}]

----------------------------------------------------------------------------
UserApi ==
    [Register |-> RegisterLogic, Login |-> LoginLogic, Logout |-> LogoutLogic,
     Getuser |-> GetuserLogic, Updateuser |-> UpdateuserLogic, Deleteuser |-> DeleteuserLogic]

AdminApi ==
    [Create |-> CreateLogic, Login |-> AdminLoginLogic, Logout |-> AdminLogoutLogic,
     Createinvite |-> CreateinviteLogic, Getself |-> GetselfLogic, Getuser |-> AdminGetuserLogic,
     Getuserlist |-> GetuserlistLogic, Update |-> UpdateLogic,
     Updateuser |-> AdminUpdateuserLogic, Banuser |-> BanuserLogic, Unbanuser |-> UnbanuserLogic,
     Delete |-> DeleteLogic, Resetuserpassword |-> ResetuserpasswordLogic]

ArticleApi ==
    [CreateArticle |-> CreateArticleLogic, UpdateArticle |-> UpdateArticleLogic,
     DeleteArticle |-> DeleteArticleLogic, GetArticle |-> GetArticleLogic,
     ListArticles |-> ListArticlesLogic, UploadImage |-> UploadImageLogic,
     GetPresignedUploadUrl |-> GetPresignedUploadUrlLogic]

MessageApi ==
    [ListConversations |-> ListConversationsLogic,
     GetConversationMessages |-> GetConversationMessagesLogic,
     MarkConversationRead |-> MarkConversationReadLogic,
     SendUserChatMessage |-> SendUserChatMessageLogic,
     ListNotifications |-> ListNotificationsLogic,
     MarkNotificationRead |-> MarkNotificationReadLogic,
     MarkAllNotificationsRead |-> MarkAllNotificationsReadLogic,
     GetUnreadSummary |-> GetUnreadSummaryLogic,
     ListAdminConversations |-> ListAdminConversationsLogic,
     GetAdminConversationMessages |-> GetAdminConversationMessagesLogic,
     MarkAdminConversationRead |-> MarkAdminConversationReadLogic,
     SendAdminChatMessage |-> SendAdminChatMessageLogic,
     SendAdminNotification |-> SendAdminNotificationLogic]

Api == [user |-> UserApi, admin |-> AdminApi, article |-> ArticleApi, message |-> MessageApi]

\* A request: which of the apis, which route, whose token, and whether the caller
\* is the author of the article it names.
Requests ==
    UNION {[api : {a}, route : DOMAIN Api[a], bearer : {"none", "user", "admin"},
            author : BOOLEAN] : a \in DOMAIN Api}

Route == Api[called.api][called.route]

NoRequest == [api |-> "none"]

Codes ==
    {"success", "none", "malformed", "unauthorized", "limited", "forbidden"}
    \cup UNION {UNION {Api[a][r].after \cup Api[a][r].refuses \cup {Api[a][r].other}
                       \cup {Api[a][r].told[s] : s \in DOMAIN Api[a][r].told}
                       : r \in DOMAIN Api[a]} : a \in DOMAIN Api}

GateTypeOK ==
    /\ called \in Requests \cup {NoRequest}
    /\ api \in {"idle", "arrived", "checked", "asked", "naming", "answered"}
    /\ rpc \in {"none", "running", "over"}
    /\ done \in BOOLEAN
    /\ answer \in Codes
    /\ api = "idle" <=> called = NoRequest
    /\ done => rpc = "over"

GateInit ==
    /\ called = NoRequest
    /\ api = "idle" /\ rpc = "none"
    /\ done = FALSE /\ answer = "none"

----------------------------------------------------------------------------
Answers(code) == api' = "answered" /\ answer' = code

\* Wrong variant: a switch without a default.
WrongTold(logic, status) ==
    IF status \in DOMAIN logic.told THEN logic.told[status] ELSE "success"

Told(logic, status) ==
    IF status \in DOMAIN logic.told THEN logic.told[status] ELSE logic.other

\* The signature of the JWT says which secret it was made with.
Entitled == Route.group \in {"open", called.bearer}

\* The handler of a route.
Handler ==
    /\ api = "idle"
    /\ called' \in Requests
    /\ api' = "arrived"
    /\ UNCHANGED <<rpc, done, answer>>

\* No good token, a token that is blacklisted, a bucket that is empty, or a request
\* that cannot be.
TurnAway ==
    /\ api = "arrived"
    /\ \/ ~Entitled /\ Answers("unauthorized")
       \/ Entitled /\ called.api \in {"user", "admin"} /\ Route.group # "open"
              /\ Answers("unauthorized")
       \/ Entitled /\ called.api = "article" /\ Answers("limited")
       \/ Entitled /\ \E code \in Route.refuses : Answers(code)
    /\ UNCHANGED <<called, rpc, done>>

\* The body, the form or the path is not what the route takes.
ParseFails ==
    /\ api = "arrived" /\ Entitled
    /\ Answers("malformed")
    /\ UNCHANGED <<called, rpc, done>>

\* UpdateArticle and DeleteArticle ask GetArticle first.
CheckAuthor ==
    /\ api = "arrived" /\ Entitled /\ Route.owned
    /\ \E e \in GetArticleEnds :
        IF e.status # "OK" THEN Answers(Told(GetArticleLogic, e.status))
        ELSE IF ~called.author THEN Answers("forbidden")
        ELSE api' = "checked" /\ UNCHANGED answer
    /\ UNCHANGED <<called, rpc, done>>

AskRpc ==
    /\ api = IF Route.owned THEN "checked" ELSE "arrived"
    /\ Entitled
    /\ api' = "asked" /\ rpc' = "running"
    /\ UNCHANGED <<called, done, answer>>

Returns(status) ==
    IF status # "OK" THEN Answers(Told(Route, status))
    ELSE IF Route.named THEN api' = "naming" /\ UNCHANGED answer
    ELSE \E code \in {"success"} \cup Route.after : Answers(code)

\* The rpc ends; the api hears of it unless it has answered.
RpcEnds ==
    /\ rpc = "running" /\ rpc' = "over"
    /\ \E e \in Route.ends :
        /\ done' = e.did
        /\ IF api = "asked" THEN Returns(e.status) ELSE UNCHANGED <<api, answer>>
    /\ UNCHANGED called

\* The deadline of the call passes; the rpc is told to stop, and may be past that.
Deadline ==
    /\ api = "asked" /\ rpc = "running"
    /\ Answers(Told(Route, "DeadlineExceeded"))
    /\ UNCHANGED <<called, rpc, done>>

\* An author whose name is not to be had is called by the id.
EnrichArticleAuthor ==
    /\ api = "naming"
    /\ Answers("success")
    /\ UNCHANGED <<called, rpc, done>>

NextRequest ==
    /\ api = "answered" /\ rpc # "running"
    /\ called' = NoRequest
    /\ api' = "idle" /\ rpc' = "none"
    /\ done' = FALSE /\ answer' = "none"

GateNext ==
    \/ Handler \/ NextRequest
    \/ /\ called # NoRequest
       /\ \/ TurnAway \/ ParseFails \/ CheckAuthor
          \/ AskRpc \/ RpcEnds \/ Deadline \/ EnrichArticleAuthor

GateSpec == GateInit /\ [][GateNext]_gateVars

----------------------------------------------------------------------------
(* Properties *)

\* What leaves open whether the request was carried out.
Unclear == {"busy", "serverCommon", "dbSelect", "publishing", "failed", "tokenRuntime"}

\* What a client is told is so: "success" means that the rpc did it, a refusal by
\* name that nothing was done and nothing will be, whichever deadline passes first
\* and wherever the rpc fails.  userNotExist of a ban is not: the statement may
\* have failed (admin/rpc/internal/model/admin.go:51-57, 103-109).
AnswersAreTrue ==
    api = "answered" =>
        /\ answer = "success" => done
        /\ answer \notin Unclear \cup {"success"} =>
              \/ ~done /\ rpc # "running"
              \/ answer = "userNotExist" /\ Route.ends = UserRowEnds

\* Only its author changes or deletes an article, though UpdateArticle of the rpc
\* asks for nobody (article/api/internal/logic/article/update_article_logic.go:43-64).
ArticlesChangeByAuthor ==
    done /\ called.route \in {"UpdateArticle", "DeleteArticle"} =>
        called.bearer = "user" /\ called.author
=============================================================================
