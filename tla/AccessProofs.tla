---------------------------- MODULE AccessProofs ----------------------------
(***************************************************************************)
(* Proofs about Access: the apis and the moderation, and, from             *)
(* AccountProofs and RateLimitProofs, the types of all of its parts.       *)
(***************************************************************************)
EXTENDS Access, AccountProofs, RateLimitProofs, FiniteSetTheorems

----------------------------------------------------------------------------
(* The apis: what the table of routes promises *)

\* What a logic function makes of the ends of its rpc is so: success is told only of
\* what was done, and by name only what was not done, but for UserRowEnds.
EndIsTold(logic, e) ==
    /\ e.did \in BOOLEAN
    /\ e.status = "OK" => e.did
    /\ e.status # "OK" =>
          /\ Told(logic, e.status) # "success"
          /\ \/ Told(logic, e.status) \in Unclear
             \/ ~e.did
             \/ Told(logic, e.status) = "userNotExist" /\ logic.ends = UserRowEnds

Sound(logic) ==
    /\ \A e \in logic.ends : EndIsTold(logic, e)
    /\ Told(logic, "DeadlineExceeded") \in Unclear
    /\ logic.after \subseteq Unclear
    /\ "success" \notin logic.refuses

\* The codes of a logic function: Codes is made of them.
CodesOf(logic) ==
    logic.after \cup logic.refuses \cup {logic.other}
    \cup {logic.told[s] : s \in DOMAIN logic.told}

\* It is enough that refusals are told by names, and failures by what is unclear.
LEMMA SoundLemma ==
  ASSUME NEW logic, NEW refusals, NEW failures,
         logic.ends = Rpc(refusals, failures),
         "OK" \notin refusals \cup failures,
         \A s \in refusals : Told(logic, s) # "success",
         \A s \in failures \cup Lost : Told(logic, s) \in Unclear,
         logic.after \subseteq Unclear,
         "success" \notin logic.refuses
  PROVE  Sound(logic)
<1>1. ASSUME NEW e \in logic.ends PROVE EndIsTold(logic, e)
  <2>1. CASE e = [status |-> "OK", did |-> TRUE]
    BY <2>1 DEF EndIsTold
  <2>2. CASE e \in [status : refusals, did : {FALSE}]
    BY <2>2 DEF EndIsTold
  <2>3. CASE e \in [status : failures \cup Lost, did : BOOLEAN]
    BY <2>3 DEF EndIsTold, Unclear, Lost
  <2> QED
    BY <1>1, <2>1, <2>2, <2>3 DEF Rpc
<1> QED
  BY <1>1 DEF Sound, Lost

LEMMA UserRoutesAreSound ==
  /\ Sound(RegisterLogic) /\ Sound(LoginLogic) /\ Sound(LogoutLogic)
  /\ Sound(GetuserLogic) /\ Sound(UpdateuserLogic) /\ Sound(DeleteuserLogic)
<1>1. Sound(RegisterLogic)
  BY SoundLemma DEF RegisterLogic, Logic, Told, Lost, Unclear
<1>2. Sound(LoginLogic)
  BY SoundLemma DEF LoginLogic, Logic, Told, Lost, Unclear
<1>3. Sound(LogoutLogic)
  BY SoundLemma DEF LogoutLogic, Logic, Told, Lost, Unclear
<1>4. Sound(GetuserLogic)
  BY SoundLemma DEF GetuserLogic, UserGetEnds, Logic, Told, Lost, Unclear
<1>5. Sound(UpdateuserLogic)
  BY SoundLemma DEF UpdateuserLogic, Logic, Told, Lost, Unclear
<1>6. Sound(DeleteuserLogic)
  BY SoundLemma DEF DeleteuserLogic, Logic, Told, Lost, Unclear
<1> QED
  BY <1>1, <1>2, <1>3, <1>4, <1>5, <1>6


LEMMA AdminRoutesAreSound ==
  /\ Sound(CreateLogic) /\ Sound(AdminLoginLogic) /\ Sound(AdminLogoutLogic)
  /\ Sound(CreateinviteLogic) /\ Sound(GetselfLogic) /\ Sound(AdminGetuserLogic)
  /\ Sound(GetuserlistLogic) /\ Sound(UpdateLogic) /\ Sound(AdminUpdateuserLogic)
  /\ Sound(ResetuserpasswordLogic)
<1>1. Sound(CreateLogic)
  BY SoundLemma DEF CreateLogic, Logic, Told, Lost, Unclear
<1>2. Sound(AdminLoginLogic)
  BY SoundLemma DEF AdminLoginLogic, Logic, Told, Lost, Unclear
<1>3. Sound(AdminLogoutLogic)
  BY SoundLemma DEF AdminLogoutLogic, Logic, Told, Lost, Unclear
<1>4. Sound(CreateinviteLogic)
  BY SoundLemma DEF CreateinviteLogic, Logic, Told, Lost, Unclear
<1>5. Sound(GetselfLogic)
  BY SoundLemma DEF GetselfLogic, GetSelfEnds, Logic, Told, Lost, Unclear
<1>6. Sound(AdminGetuserLogic)
  BY SoundLemma DEF AdminGetuserLogic, UserGetEnds, Logic, Told, Lost, Unclear
<1>7. Sound(GetuserlistLogic)
  BY SoundLemma DEF GetuserlistLogic, GetUserListEnds, Logic, Told, Lost, Unclear
<1>8. Sound(UpdateLogic)
  BY SoundLemma DEF UpdateLogic, Logic, Told, Lost, Unclear
<1>9. Sound(AdminUpdateuserLogic)
  BY SoundLemma DEF AdminUpdateuserLogic, Logic, Told, Lost, Unclear
<1>10. Sound(ResetuserpasswordLogic)
  BY SoundLemma DEF ResetuserpasswordLogic, Logic, Told, Lost, Unclear
<1> QED
  BY <1>1, <1>2, <1>3, <1>4, <1>5, <1>6, <1>7, <1>8, <1>9, <1>10

\* UserRowEnds: a failure is told by name, and allowed to be.
LEMMA RowRoutesAreSound ==
  /\ Sound(BanuserLogic) /\ Sound(UnbanuserLogic) /\ Sound(DeleteLogic)
<1>1. ASSUME NEW logic \in {BanuserLogic, UnbanuserLogic, DeleteLogic} PROVE Sound(logic)
  <2>1. /\ logic.ends = UserRowEnds /\ logic.after = {} /\ logic.refuses = {"badRequest"}
        /\ Told(logic, "NotFound") = "userNotExist"
        /\ \A s \in Lost : Told(logic, s) = "busy"
    BY <1>1 DEF BanuserLogic, UnbanuserLogic, DeleteLogic, Logic, Told, Lost
  <2>2. ASSUME NEW e \in logic.ends PROVE EndIsTold(logic, e)
    <3>1. CASE e = [status |-> "OK", did |-> TRUE]
      BY <3>1 DEF EndIsTold
    <3>2. CASE e \in [status : {"NotFound"} \cup Lost, did : BOOLEAN]
      BY <2>1, <3>2 DEF EndIsTold, Unclear, Lost
    <3> QED
      BY <2>1, <2>2, <3>1, <3>2 DEF UserRowEnds, Rpc
  <2> QED
    BY <2>1, <2>2 DEF Sound, Lost, Unclear
<1> QED
  BY <1>1


LEMMA ArticleRoutesAreSound ==
  /\ Sound(CreateArticleLogic) /\ Sound(UpdateArticleLogic) /\ Sound(DeleteArticleLogic)
  /\ Sound(GetArticleLogic) /\ Sound(ListArticlesLogic) /\ Sound(UploadImageLogic)
  /\ Sound(GetPresignedUploadUrlLogic)
<1>1. Sound(CreateArticleLogic)
  BY SoundLemma DEF CreateArticleLogic, Logic, Told, Lost, Unclear
<1>2. Sound(UpdateArticleLogic)
  BY SoundLemma DEF UpdateArticleLogic, Logic, Told, Lost, Unclear
<1>3. Sound(DeleteArticleLogic)
  BY SoundLemma DEF DeleteArticleLogic, Logic, Told, Lost, Unclear
<1>4. Sound(GetArticleLogic)
  BY SoundLemma DEF GetArticleLogic, GetArticleEnds, Logic, Told, Lost, Unclear
<1>5. Sound(ListArticlesLogic)
  BY SoundLemma DEF ListArticlesLogic, Logic, Told, Lost, Unclear
<1>6. Sound(UploadImageLogic)
  BY SoundLemma DEF UploadImageLogic, UploadFileEnds, Logic, Told, Lost, Unclear
<1>7. Sound(GetPresignedUploadUrlLogic)
  BY SoundLemma DEF GetPresignedUploadUrlLogic, GetPresignedUploadUrlEnds, Logic, Told,
     Lost, Unclear
<1> QED
  BY <1>1, <1>2, <1>3, <1>4, <1>5, <1>6, <1>7

LEMMA MessageRoutesAreSound ==
  /\ Sound(ListConversationsLogic) /\ Sound(GetConversationMessagesLogic) /\ Sound(MarkConversationReadLogic)
  /\ Sound(SendUserChatMessageLogic) /\ Sound(ListNotificationsLogic) /\ Sound(MarkNotificationReadLogic)
  /\ Sound(MarkAllNotificationsReadLogic) /\ Sound(GetUnreadSummaryLogic) /\ Sound(ListAdminConversationsLogic)
  /\ Sound(GetAdminConversationMessagesLogic) /\ Sound(MarkAdminConversationReadLogic) /\ Sound(SendAdminChatMessageLogic)
  /\ Sound(SendAdminNotificationLogic)
<1>1. Sound(ListConversationsLogic)
  BY SoundLemma DEF ListConversationsLogic, ListConversationsEnds, MessageLogic,
     BizCodeFromError, BizText, Logic, Told, Lost, Unclear
<1>2. Sound(GetConversationMessagesLogic)
  BY SoundLemma DEF GetConversationMessagesLogic, GetConversationMessagesEnds, MessageLogic,
     BizCodeFromError, BizText, Logic, Told, Lost, Unclear
<1>3. Sound(MarkConversationReadLogic)
  BY SoundLemma DEF MarkConversationReadLogic, MarkConversationReadEnds, MessageLogic,
     BizCodeFromError, BizText, Logic, Told, Lost, Unclear
<1>4. Sound(SendUserChatMessageLogic)
  BY SoundLemma DEF SendUserChatMessageLogic, SendChatMessageEnds, MessageLogic,
     BizCodeFromError, BizText, Logic, Told, Lost, Unclear
<1>5. Sound(ListNotificationsLogic)
  BY SoundLemma DEF ListNotificationsLogic, ListNotificationsEnds, MessageLogic,
     BizCodeFromError, BizText, Logic, Told, Lost, Unclear
<1>6. Sound(MarkNotificationReadLogic)
  BY SoundLemma DEF MarkNotificationReadLogic, MarkNotificationReadEnds, MessageLogic,
     BizCodeFromError, BizText, Logic, Told, Lost, Unclear
<1>7. Sound(MarkAllNotificationsReadLogic)
  BY SoundLemma DEF MarkAllNotificationsReadLogic, MarkAllNotificationsReadEnds,
     MessageLogic, BizCodeFromError, BizText, Logic, Told, Lost, Unclear
<1>8. Sound(GetUnreadSummaryLogic)
  BY SoundLemma DEF GetUnreadSummaryLogic, GetUnreadSummaryEnds, MessageLogic,
     BizCodeFromError, BizText, Logic, Told, Lost, Unclear
<1>9. Sound(ListAdminConversationsLogic)
  BY SoundLemma DEF ListAdminConversationsLogic, ListConversationsEnds, MessageLogic,
     BizCodeFromError, BizText, Logic, Told, Lost, Unclear
<1>10. Sound(GetAdminConversationMessagesLogic)
  BY SoundLemma DEF GetAdminConversationMessagesLogic, GetConversationMessagesEnds,
     MessageLogic, BizCodeFromError, BizText, Logic, Told, Lost, Unclear
<1>11. Sound(MarkAdminConversationReadLogic)
  BY SoundLemma DEF MarkAdminConversationReadLogic, MarkConversationReadEnds, MessageLogic,
     BizCodeFromError, BizText, Logic, Told, Lost, Unclear
<1>12. Sound(SendAdminChatMessageLogic)
  BY SoundLemma DEF SendAdminChatMessageLogic, SendChatMessageEnds, MessageLogic,
     BizCodeFromError, BizText, Logic, Told, Lost, Unclear
<1>13. Sound(SendAdminNotificationLogic)
  <2> DEFINE logic == SendAdminNotificationLogic
  <2>1. /\ logic.ends = Rpc({"InvalidParam"}, {"Internal", "Unknown"})
        /\ logic.after = {} /\ logic.refuses = {"badRequest", "InvalidParam"}
        /\ logic.told = BizCodeFromError /\ logic.other = "busy"
    BY DEF SendAdminNotificationLogic, SendNotificationEnds, MessageLogic, Logic
  <2> HIDE DEF logic
  <2>2. /\ \A s \in {"InvalidParam"} : Told(logic, s) # "success"
        /\ \A s \in {"Internal", "Unknown"} \cup Lost : Told(logic, s) \in Unclear
        /\ logic.after \subseteq Unclear /\ "success" \notin logic.refuses
        /\ "OK" \notin {"InvalidParam"} \cup {"Internal", "Unknown"}
    BY <2>1 DEF Told, BizCodeFromError, BizText, Lost, Unclear
  <2>3. Sound(logic)
    BY <2>1, <2>2, SoundLemma
  <2> QED
    BY <2>3 DEF logic
<1> QED
  BY <1>1, <1>2, <1>3, <1>4, <1>5, <1>6, <1>7, <1>8, <1>9, <1>10, <1>11, <1>12, <1>13

\* Every route of every api is sound.
LEMMA RoutesAreSound ==
  ASSUME NEW a \in DOMAIN Api, NEW r \in DOMAIN Api[a]
  PROVE  Sound(Api[a][r])
<1>1. a \in {"user", "admin", "article", "message"}
  BY DEF Api
<1>2. CASE a = "user"
  BY <1>2, UserRoutesAreSound DEF Api, UserApi
<1>3. CASE a = "admin"
  BY <1>3, AdminRoutesAreSound, RowRoutesAreSound DEF Api, AdminApi
<1>4. CASE a = "article"
  BY <1>4, ArticleRoutesAreSound DEF Api, ArticleApi
<1>5. CASE a = "message"
  BY <1>5, MessageRoutesAreSound DEF Api, MessageApi
<1> QED
  BY <1>1, <1>2, <1>3, <1>4, <1>5


----------------------------------------------------------------------------
(* The apis: one request *)

\* An rpc is asked for those only who may have it, and what has not been asked for
\* has not been done.  While the rpc runs on, its request is under way or has been
\* told nothing for certain.
GateInv ==
    /\ GateTypeOK
    /\ rpc = "none" => ~done
    /\ api \in {"idle", "arrived", "checked"} => rpc = "none"
    /\ api = "asked" => rpc = "running"
    /\ api = "naming" => rpc = "over" /\ done
    /\ api = "checked" => called.author
    /\ rpc # "none" => Entitled /\ (Route.owned => called.author)
    /\ api = "answered" /\ rpc = "running" => answer \in Unclear
    /\ AnswersAreTrue

\* A request names a route.
LEMMA RequestsHaveRoutes ==
  ASSUME NEW req \in Requests
  PROVE  /\ req.api \in DOMAIN Api /\ req.route \in DOMAIN Api[req.api]
         /\ req # NoRequest
<1>1. PICK a \in DOMAIN Api :
         req \in [api : {a}, route : DOMAIN Api[a], bearer : {"none", "user", "admin"},
                  author : BOOLEAN]
  BY DEF Requests
<1>2. req.api \in DOMAIN Api /\ req.route \in DOMAIN Api[req.api]
  BY <1>1
<1>3. req.api # "none"
  BY <1>2 DEF Api
<1> QED
  BY <1>2, <1>3 DEF NoRequest

\* What a route says is a code, and a sound one.
LEMMA RouteLemma ==
  ASSUME GateTypeOK, called # NoRequest
  PROVE  /\ Sound(Route)
         /\ CodesOf(Route) \subseteq Codes
<1>1. called.api \in DOMAIN Api /\ called.route \in DOMAIN Api[called.api]
  BY RequestsHaveRoutes DEF GateTypeOK
<1> QED
  BY <1>1, RoutesAreSound DEF Route, Codes, CodesOf

LEMMA GetArticleLemma ==
  ASSUME NEW e \in GetArticleEnds, e.status # "OK"
  PROVE  /\ Told(GetArticleLogic, e.status) # "success"
         /\ Told(GetArticleLogic, e.status) \in Codes
<1>1. GetArticleLogic.ends = GetArticleEnds
  BY DEF GetArticleLogic, Logic
<1>2. Told(GetArticleLogic, e.status) # "success"
  BY <1>1, ArticleRoutesAreSound DEF Sound, EndIsTold
<1>3. "article" \in DOMAIN Api /\ "GetArticle" \in DOMAIN Api["article"]
      /\ Api["article"]["GetArticle"] = GetArticleLogic
  BY DEF Api, ArticleApi
<1>4. CodesOf(GetArticleLogic) \subseteq Codes
  BY <1>3 DEF Codes, CodesOf
<1>5. Told(GetArticleLogic, e.status) \in CodesOf(GetArticleLogic)
  BY DEF Told, CodesOf
<1> QED
  BY <1>2, <1>4, <1>5

LEMMA GateInitHolds == GateInit => GateInv
  BY DEF GateInit, GateInv, GateTypeOK, AnswersAreTrue, Codes

\* A request is answered with a code before its rpc is asked.
LEMMA RefusalKeepsInv ==
  ASSUME GateInv, NEW code \in Codes \ {"success"},
         api \in {"arrived", "checked"}, called # NoRequest, Answers(code),
         UNCHANGED <<called, rpc, done>>
  PROVE  GateInv'
BY DEF GateInv, GateTypeOK, Answers, AnswersAreTrue, Route, Entitled

LEMMA GateKeepsInv == GateInv /\ [GateNext]_gateVars => GateInv'
<1> SUFFICES ASSUME GateInv, [GateNext]_gateVars PROVE GateInv'
  OBVIOUS
<1>1. CASE UNCHANGED gateVars
  BY <1>1 DEF GateInv, gateVars, GateTypeOK, AnswersAreTrue, Route, Entitled
<1>2. CASE Handler
  <2>1. called' # NoRequest
    BY <1>2, RequestsHaveRoutes DEF Handler
  <2> QED
    BY <1>2, <2>1 DEF Handler, GateInv, GateTypeOK, AnswersAreTrue
<1>3. CASE NextRequest
  BY <1>3 DEF NextRequest, GateInv, GateTypeOK, AnswersAreTrue, Codes
<1>4. CASE called # NoRequest /\ TurnAway
  <2>1. PICK code \in {"unauthorized", "limited"} \cup Route.refuses : Answers(code)
    BY <1>4 DEF TurnAway
  <2>2. code \in Codes \ {"success"}
    BY <1>4, <2>1, RouteLemma DEF GateInv, Sound, Codes, CodesOf
  <2> QED
    BY <1>4, <2>1, <2>2, RefusalKeepsInv DEF TurnAway
<1>5. CASE called # NoRequest /\ ParseFails
  <2>1. "malformed" \in Codes \ {"success"}
    BY DEF Codes
  <2> QED
    BY <1>5, <2>1, RefusalKeepsInv DEF ParseFails
<1>6. CASE called # NoRequest /\ CheckAuthor
  <2>1. PICK e \in GetArticleEnds :
          IF e.status # "OK" THEN Answers(Told(GetArticleLogic, e.status))
          ELSE IF ~called.author THEN Answers("forbidden")
          ELSE api' = "checked" /\ UNCHANGED answer
    BY <1>6 DEF CheckAuthor
  <2>2. CASE e.status # "OK"
    BY <1>6, <2>1, <2>2, GetArticleLemma, RefusalKeepsInv DEF CheckAuthor
  <2>3. CASE e.status = "OK" /\ ~called.author
    <3>1. "forbidden" \in Codes \ {"success"}
      BY DEF Codes
    <3> QED
      BY <1>6, <2>1, <2>3, <3>1, RefusalKeepsInv DEF CheckAuthor
  <2>4. CASE e.status = "OK" /\ called.author
    BY <1>6, <2>1, <2>4 DEF CheckAuthor, GateInv, GateTypeOK, AnswersAreTrue, Route, Entitled
  <2> QED
    BY <2>2, <2>3, <2>4
<1>7. CASE called # NoRequest /\ AskRpc
  BY <1>7 DEF AskRpc, GateInv, GateTypeOK, AnswersAreTrue, Route, Entitled
<1>8. CASE called # NoRequest /\ RpcEnds
  <2>1. PICK e \in Route.ends :
          /\ done' = e.did
          /\ IF api = "asked" THEN Returns(e.status) ELSE UNCHANGED <<api, answer>>
    BY <1>8 DEF RpcEnds
  <2>2. /\ EndIsTold(Route, e) /\ CodesOf(Route) \subseteq Codes
        /\ Route.after \subseteq Unclear
    BY <1>8, RouteLemma DEF GateInv, Sound
  <2>3. e.did \in BOOLEAN
    BY <2>2 DEF EndIsTold
  <2>4. rpc = "running" /\ rpc' = "over" /\ UNCHANGED called /\ UNCHANGED Route
    BY <1>8 DEF RpcEnds, Route
  <2>5. CASE api # "asked"
    <3>1. api = "answered" /\ answer \in Unclear
      BY <2>4, <2>5 DEF GateInv, GateTypeOK
    <3>2. GateTypeOK'
      BY <2>1, <2>3, <2>4, <2>5, <3>1 DEF GateInv, GateTypeOK
    <3>3. AnswersAreTrue'
      BY <2>1, <2>5, <3>1 DEF AnswersAreTrue, Unclear
    <3> QED
      BY <2>1, <2>4, <2>5, <3>1, <3>2, <3>3 DEF GateInv, Entitled
  <2>6. CASE api = "asked" /\ e.status # "OK"
    <3>1. api' = "answered" /\ answer' = Told(Route, e.status)
      BY <2>1, <2>6 DEF Returns, Answers
    <3>2. answer' \in Codes
      BY <2>2, <3>1 DEF Told, CodesOf
    <3>3. GateTypeOK'
      BY <2>1, <2>3, <2>4, <2>6, <3>1, <3>2 DEF GateInv, GateTypeOK
    <3>4. AnswersAreTrue'
      BY <2>1, <2>2, <2>4, <2>6, <3>1 DEF EndIsTold, AnswersAreTrue
    <3> QED
      BY <2>1, <2>4, <2>6, <3>1, <3>3, <3>4 DEF GateInv, Entitled
  <2>7. CASE api = "asked" /\ e.status = "OK"
    <3>1. done'
      BY <2>1, <2>2, <2>7 DEF EndIsTold
    <3>2. CASE Route.named
      BY <1>8, <2>1, <2>4, <2>7, <3>1, <3>2
         DEF Returns, GateInv, GateTypeOK, AnswersAreTrue, Entitled
    <3>3. CASE ~Route.named
      <4>1. api' = "answered" /\ answer' \in {"success"} \cup Unclear /\ answer' \in Codes
        BY <2>1, <2>2, <2>7, <3>3 DEF Returns, Answers, Codes, CodesOf
      <4> QED
        BY <1>8, <2>4, <2>7, <3>1, <4>1 DEF GateInv, GateTypeOK, AnswersAreTrue, Entitled
    <3> QED
      BY <3>2, <3>3
  <2> QED
    BY <2>5, <2>6, <2>7
<1>9. CASE called # NoRequest /\ Deadline
  <2>1. /\ Told(Route, "DeadlineExceeded") \in Unclear
        /\ Told(Route, "DeadlineExceeded") \in Codes
    BY <1>9, RouteLemma DEF GateInv, Sound, Told, CodesOf
  <2> QED
    BY <1>9, <2>1
       DEF Deadline, Answers, GateInv, GateTypeOK, AnswersAreTrue, Unclear, Route, Entitled
<1>10. CASE called # NoRequest /\ EnrichArticleAuthor
  BY <1>10 DEF EnrichArticleAuthor, Answers, GateInv, GateTypeOK, AnswersAreTrue, Codes,
               Unclear, Route, Entitled
<1> QED
  BY <1>1, <1>2, <1>3, <1>4, <1>5, <1>6, <1>7, <1>8, <1>9, <1>10 DEF GateNext

LEMMA GateInvHolds == GateSpec => []GateInv
  BY GateInitHolds, GateKeepsInv, PTL DEF GateSpec

\* What a client is told is so, whichever deadline passes first and wherever the rpc
\* fails (the logic functions of the four apis).
THEOREM AnswersAreTrueHolds == GateSpec => []AnswersAreTrue
<1>1. GateInv => AnswersAreTrue
  BY DEF GateInv
<1> QED
  BY <1>1, GateInvHolds, PTL

\* Only its author changes or deletes an article: who is not is turned away before
\* the rpc is asked (api/internal/logic/article/update_article_logic.go:43-64).
THEOREM ArticlesChangeByAuthorHolds == GateSpec => []ArticlesChangeByAuthor
<1>1. ASSUME GateInv, done, called.route \in {"UpdateArticle", "DeleteArticle"}
      PROVE  called.bearer = "user" /\ called.author
  <2>1. rpc # "none" /\ called \in Requests
    BY <1>1 DEF GateInv, GateTypeOK
  <2>2. Route \in {UpdateArticleLogic, DeleteArticleLogic}
    <3>1. called.api \in DOMAIN Api /\ called.route \in DOMAIN Api[called.api]
      BY <2>1, RequestsHaveRoutes
    <3> QED
      BY <1>1, <3>1 DEF Route, Api, UserApi, AdminApi, ArticleApi, MessageApi
  <2>3. Route.group = "user" /\ Route.owned
    BY <2>2 DEF UpdateArticleLogic, DeleteArticleLogic, Logic
  <2> QED
    BY <1>1, <2>1, <2>3 DEF GateInv, Entitled
<1>2. GateInv => ArticlesChangeByAuthor
  BY <1>1 DEF ArticlesChangeByAuthor
<1> QED
  BY <1>2, GateInvHolds, PTL


----------------------------------------------------------------------------
(* The moderation *)

Results == UNION {[1 .. n -> Result] : n \in 0 .. MaxImages}

\* A batch answers for its images one after the other, and no ad fails.
BatchInv ==
    work.call = "batch" =>
        /\ work.images \in Batch /\ work.results \in Results
        /\ Len(work.results) <= Len(work.images)
        /\ work.ads <= work.passed

ModerationInv == ModerationTypeOK /\ BatchInv /\ PassedWasSeen

LEMMA ResultsLemma ==
  ASSUME NEW results \in Results
  PROVE  /\ results \in Seq(Result) /\ Len(results) \in 0 .. MaxImages
         /\ \A result \in Result : Len(results) < MaxImages => Append(results, result) \in Results
<1>1. PICK n \in 0 .. MaxImages : results \in [1 .. n -> Result]
  BY DEF Results
<1>2. results \in Seq(Result) /\ Len(results) = n
  BY <1>1, ModerationAssumption
<1>3. ASSUME NEW result \in Result, n < MaxImages PROVE Append(results, result) \in Results
  <2>1. Append(results, result) \in [1 .. n + 1 -> Result]
    <3> DEFINE all == Append(results, result)
    <3>1. all \in Seq(Result) /\ Len(all) = n + 1 /\ n \in Nat
      BY <1>2
    <3> HIDE DEF all
    <3>2. all = [i \in 1 .. n + 1 |-> all[i]] /\ \A i \in 1 .. n + 1 : all[i] \in Result
      BY <3>1
    <3>3. all \in [1 .. n + 1 -> Result]
      BY <3>2
    <3> QED
      BY <3>3 DEF all
  <2>2. n + 1 \in 0 .. MaxImages
    BY <1>3, ModerationAssumption
  <2> QED
    BY <2>1, <2>2 DEF Results
<1> QED
  BY <1>1, <1>2, <1>3

LEMMA BatchLemma ==
  ASSUME NEW images \in Batch
  PROVE  /\ images \in Seq(Image) /\ Len(images) \in 0 .. MaxImages
<1>1. PICK n \in 0 .. MaxImages : images \in [1 .. n -> Image]
  BY DEF Batch
<1>2. images \in Seq(Image) /\ Len(images) = n
  BY <1>1, ModerationAssumption
<1> QED
  BY <1>1, <1>2

LEMMA ModerationInitHolds == ModerationInit => ModerationInv
  BY DEF ModerationInit, ModerationInv, ModerationTypeOK, Work, Idle, BatchInv, PassedWasSeen

LEMMA DetectKeepsInv ==
  ASSUME ModerationInv, DetectNext
  PROVE  ModerationInv'
<1> DEFINE image == work.images[Len(work.results) + 1]
           result == IF image = "nil" THEN [ok |-> FALSE, ad |-> FALSE] ELSE DetectImageAd(image)
<1>1. /\ work.call = "batch" /\ Len(work.results) < Len(work.images)
      /\ work' = [work EXCEPT !.results = Append(@, result),
                              !.passed = @ + Count(result.ok),
                              !.failed = @ + Count(~result.ok),
                              !.ads = @ + Count(result.ok /\ result.ad)]
      /\ UNCHANGED configured
  BY DEF DetectNext
<1>2. work \in [call : {"batch"}, images : Batch, results : Results, passed : 0 .. MaxImages,
                failed : 0 .. MaxImages, ads : 0 .. MaxImages]
  BY <1>1 DEF ModerationInv, ModerationTypeOK, Work, Idle, Results
<1> DEFINE k == Len(work.results)
<1>3. /\ work.results \in Seq(Result) /\ k \in Nat /\ Len(work.images) \in 0 .. MaxImages
      /\ work.images \in Seq(Image)
  BY <1>2, ResultsLemma, BatchLemma
<1>4. MaxImages \in Nat /\ configured \in BOOLEAN
  BY ModerationAssumption DEF ModerationInv, ModerationTypeOK
<1>5. image \in Image
  BY <1>1, <1>3
<1>6. result \in Result
  BY <1>4, <1>5 DEF Result, DetectImageAd, Downgraded
<1>7. result.ok /\ ~result.ad =>
        IF configured THEN image \in {"clean", "poster"} ELSE image \notin {"nil", "empty"}
  BY <1>5 DEF DetectImageAd, Downgraded, Image
<1> HIDE DEF image, result
<1>8. /\ work'.call = "batch" /\ work'.images = work.images
      /\ work'.results = Append(work.results, result)
      /\ work'.passed = work.passed + Count(result.ok)
      /\ work'.failed = work.failed + Count(~result.ok)
      /\ work'.ads = work.ads + Count(result.ok /\ result.ad)
  BY <1>1, <1>2
<1>9. /\ work.passed \in Nat /\ work.failed \in Nat /\ work.ads \in Nat
      /\ work.passed + work.failed = k /\ work.ads <= work.passed
  BY <1>1, <1>2 DEF ModerationInv, BatchInv, PassedWasSeen
<1>10. /\ work'.passed + work'.failed = k + 1 /\ work'.ads <= work'.passed
       /\ work'.passed \in 0 .. MaxImages /\ work'.failed \in 0 .. MaxImages
       /\ work'.ads \in 0 .. MaxImages /\ k + 1 <= Len(work.images)
       /\ work'.failed >= work.failed
       /\ result.ok \/ work'.failed > 0
  <2>1. \/ result.ok /\ \E n \in {0, 1} :
             /\ work'.passed = work.passed + 1 /\ work'.failed = work.failed + 0
             /\ work'.ads = work.ads + n
        \/ /\ work'.passed = work.passed + 0 /\ work'.failed = work.failed + 1
           /\ work'.ads = work.ads + 0
    <3>1. Count(result.ok /\ result.ad) \in {0, 1}
      BY DEF Count
    <3>2. CASE result.ok
      <4>1. Count(result.ok) = 1 /\ Count(~result.ok) = 0
        BY <3>2 DEF Count
      <4> QED
        BY <1>8, <3>1, <3>2, <4>1, Zenon
    <3>3. CASE ~result.ok
      <4>1. Count(result.ok) = 0 /\ Count(~result.ok) = 1 /\ Count(result.ok /\ result.ad) = 0
        BY <3>3 DEF Count
      <4> QED
        BY <1>8, <4>1, Zenon
    <3> QED
      BY <3>2, <3>3
  <2>2. k \in Nat /\ Len(work.images) \in Nat /\ k < Len(work.images) /\ Len(work.images) <= MaxImages
    BY <1>1, <1>3, <1>4
  <2> HIDE DEF k
  <2>3. /\ work'.passed \in Nat /\ work'.failed \in Nat /\ work'.ads \in Nat
        /\ work'.passed + work'.failed = k + 1 /\ work'.ads <= work'.passed
        /\ work'.failed >= work.failed
    BY <1>9, <2>1, <2>2
  <2>4. result.ok \/ work'.failed > 0
    BY <1>9, <2>1
  <2> QED
    BY <1>4, <2>2, <2>3, <2>4
<1>11. Append(work.results, result) \in Results
  BY <1>1, <1>2, <1>3, <1>4, <1>6, ResultsLemma
<1>12. ModerationTypeOK'
  <2>1. work' \in [call : {"batch"}, images : Batch, results : Results, passed : 0 .. MaxImages,
                   failed : 0 .. MaxImages, ads : 0 .. MaxImages]
    BY <1>1, <1>2, <1>8, <1>10, <1>11
  <2> QED
    BY <1>1, <1>4, <2>1 DEF ModerationTypeOK, Work, Results
<1>13. /\ Len(work'.results) = k + 1 /\ DOMAIN work'.results = 1 .. k + 1
       /\ work'.results[k + 1] = result
       /\ \A i \in 1 .. k : work'.results[i] = work.results[i]
  BY <1>3, <1>6, <1>8
<1>14. PassedWasSeen'
  <2>1. ASSUME NEW i \in DOMAIN work'.results
        PROVE  /\ work'.results[i].ok /\ ~work'.results[i].ad =>
                     IF configured THEN work.images[i] \in {"clean", "poster"}
                     ELSE work.images[i] \notin {"nil", "empty"}
               /\ ~work'.results[i].ok => work'.failed > 0
    <3>1. CASE i = k + 1
      BY <1>7, <1>10, <1>13, <3>1 DEF image
    <3>2. CASE i \in 1 .. k
      <4>1. i \in DOMAIN work.results /\ work'.results[i] = work.results[i]
        BY <1>3, <1>13, <3>2
      <4>2. ~work.results[i].ok => work'.failed > 0
        BY <1>1, <1>9, <1>10, <4>1 DEF ModerationInv, PassedWasSeen
      <4> QED
        BY <1>1, <4>1, <4>2 DEF ModerationInv, PassedWasSeen
    <3> QED
      BY <1>3, <1>13, <2>1, <3>1, <3>2
  <2> QED
    BY <1>1, <1>8, <1>10, <1>13, <2>1 DEF PassedWasSeen
<1>15. BatchInv'
  BY <1>2, <1>8, <1>10, <1>11, <1>13 DEF BatchInv
<1> QED
  BY <1>12, <1>14, <1>15 DEF ModerationInv

LEMMA ModerationKeepsInv == ModerationInv /\ [ModerationNext]_moderationVars => ModerationInv'
<1> SUFFICES ASSUME ModerationInv, [ModerationNext]_moderationVars PROVE ModerationInv'
  OBVIOUS
<1>1. CASE UNCHANGED moderationVars
  BY <1>1 DEF ModerationInv, moderationVars, ModerationTypeOK, BatchInv, PassedWasSeen
<1>2. CASE SanitizeContent
  <2>1. PICK text \in Text, options \in Options, verdict \in detectAd :
          work' = [call |-> "text", text |-> text, options |-> options,
                   ad |-> text # <<>> /\ IsAd(verdict)]
    BY <1>2 DEF SanitizeContent
  <2>2. work' \in [call : {"text"}, text : Text, options : Options, ad : BOOLEAN]
    BY <2>1 DEF IsAd
  <2>3. work'.call = "text" /\ configured' = configured
    BY <1>2, <2>1 DEF SanitizeContent
  <2> QED
    BY <2>2, <2>3 DEF ModerationInv, ModerationTypeOK, Work, BatchInv, PassedWasSeen
<1>3. CASE DetectImageAdBatch
  <2>1. PICK images \in Batch :
          work' = [call |-> "batch", images |-> images, results |-> <<>>,
                   passed |-> 0, failed |-> 0, ads |-> 0]
    BY <1>3 DEF DetectImageAdBatch
  <2>2. <<>> \in Results
    <3>1. <<>> \in [1 .. 0 -> Result]
      OBVIOUS
    <3> QED
      BY <3>1, ModerationAssumption DEF Results
  <2>3. work' \in [call : {"batch"}, images : Batch, results : Results, passed : 0 .. MaxImages,
                   failed : 0 .. MaxImages, ads : 0 .. MaxImages]
    BY <2>1, <2>2, ModerationAssumption
  <2>4. /\ work'.images = images /\ work'.results = <<>> /\ work'.passed = 0
        /\ work'.failed = 0 /\ work'.ads = 0 /\ configured' = configured
    BY <1>3, <2>1 DEF DetectImageAdBatch
  <2>5. ModerationTypeOK'
    BY <2>3, <2>4 DEF ModerationInv, ModerationTypeOK, Work, Results
  <2> QED
    BY <2>2, <2>4, <2>5, BatchLemma DEF ModerationInv, BatchInv, PassedWasSeen
<1>4. CASE Respond
  BY <1>4 DEF Respond, ModerationInv, ModerationTypeOK, Work, Idle, BatchInv, PassedWasSeen
<1> QED
  BY <1>1, <1>2, <1>3, <1>4, DetectKeepsInv DEF ModerationNext

LEMMA ModerationInvHolds == ModerationSpec => []ModerationInv
  BY ModerationInitHolds, ModerationKeepsInv, PTL DEF ModerationSpec

\* An image passes as no ad only if the model saw it and said so, or there is no
\* model, and each image of a batch is counted once, in a batch of any length
\* (detect_image_ad_batch_logic.go:56-103).
THEOREM PassedWasSeenHolds == ModerationSpec => []PassedWasSeen
<1>1. ModerationInv => PassedWasSeen
  BY DEF ModerationInv
<1> QED
  BY <1>1, ModerationInvHolds, PTL


----------------------------------------------------------------------------
(* The moderation: texts *)

\* The n-th of some places is the one with n of them up to it.
Rank(places, i) == Cardinality(places \cap 1 .. i)

LEMMA PlacesHaveRanks ==
  ASSUME NEW n \in Nat, NEW places \in SUBSET (1 .. n)
  PROVE  /\ Cardinality(places) \in Nat
         /\ \A i \in places : Rank(places, i) \in 1 .. Cardinality(places)
         /\ \A i, j \in places : i < j => Rank(places, i) < Rank(places, j)
         /\ \A m \in 1 .. Cardinality(places) : \E i \in places : Rank(places, i) = m
<1> DEFINE size == Cardinality(places)
           ranks == [i \in places |-> Rank(places, i)]
<1>1. IsFiniteSet(1 .. n) /\ IsFiniteSet(places) /\ size \in Nat
  <2>1. IsFiniteSet(1 .. n)
    BY FS_Interval
  <2> QED
    BY <2>1, FS_Subset, FS_CardinalityType
<1>2. \A i \in places : i \in Nat /\ i >= 1
  OBVIOUS
<1>3. ASSUME NEW i \in places
      PROVE  IsFiniteSet(places \cap 1 .. i) /\ Rank(places, i) \in 1 .. size
  <2> DEFINE upTo == places \cap 1 .. i
  <2>1. upTo \in SUBSET places /\ i \in upTo
    BY <1>2
  <2>2. IsFiniteSet(upTo) /\ Cardinality(upTo) <= size /\ Cardinality(upTo) \in Nat
    BY <1>1, <2>1, FS_Subset, FS_CardinalityType
  <2>3. Cardinality(upTo) # 0
    BY <2>1, <2>2, FS_EmptySet
  <2> QED
    BY <1>1, <2>2, <2>3 DEF Rank
<1>4. ASSUME NEW i \in places, NEW j \in places, i < j
      PROVE  Rank(places, i) < Rank(places, j)
  <2> DEFINE low == places \cap 1 .. i
             high == places \cap 1 .. j
  <2>1. low \cup {j} \in SUBSET high /\ j \notin low
    BY <1>2, <1>4
  <2>2. Cardinality(low \cup {j}) = Cardinality(low) + 1
    BY <1>3, <2>1, FS_AddElement
  <2>3. Cardinality(low \cup {j}) <= Cardinality(high)
    BY <1>3, <2>1, FS_Subset
  <2>4. Cardinality(low) \in Nat /\ Cardinality(high) \in Nat
    BY <1>3, FS_CardinalityType
  <2> QED
    BY <2>2, <2>3, <2>4 DEF Rank
<1>5. ranks \in Injection(places, 1 .. size)
  <2>1. ranks \in [places -> 1 .. size]
    BY <1>3
  <2>2. ASSUME NEW i \in places, NEW j \in places, ranks[i] = ranks[j] PROVE i = j
    <3>1. Rank(places, i) = Rank(places, j)
      BY <2>2
    <3>2. i \in Nat /\ j \in Nat /\ Rank(places, i) \in 1 .. size
      BY <1>2, <1>3
    <3>3. ~(i < j) /\ ~(j < i)
      <4>1. Rank(places, i) \in Int
        BY <3>2
      <4>2. /\ i < j => Rank(places, i) < Rank(places, j)
            /\ j < i => Rank(places, j) < Rank(places, i)
        BY <1>4
      <4> QED
        BY <3>1, <4>1, <4>2
    <3> QED
      BY <1>2, <3>3
  <2> QED
    BY <2>1, <2>2 DEF Injection, IsInjective
<1>6. IsFiniteSet(1 .. size) /\ Cardinality(1 .. size) = size
  BY <1>1, FS_Interval
<1>7. ranks \in Surjection(places, 1 .. size)
  BY <1>5, <1>6, FS_Injection
<1>8. \A m \in 1 .. size : \E i \in places : ranks[i] = m
  BY <1>7 DEF Surjection
<1> QED
  BY <1>1, <1>3, <1>4, <1>8

\* What is kept of a text, and where it comes from.
Selects(kept, text, places, from) ==
    /\ from \in [DOMAIN kept -> places]
    /\ \A i \in DOMAIN kept : kept[i] = text[from[i]]
    /\ \A i, j \in DOMAIN kept : i < j => from[i] < from[j]
    /\ \A p \in places : \E i \in DOMAIN kept : from[i] = p

LEMMA KeptLemma ==
  ASSUME NEW text \in Seq(Char), NEW places \in SUBSET DOMAIN text
  PROVE  /\ Kept(text, places) \in Seq(Char)
         /\ \E from : Selects(Kept(text, places), text, places, from)
<1> DEFINE size == Cardinality(places)
           Nth(m) == CHOOSE i \in places : Rank(places, i) = m
           kept == Kept(text, places)
           from == [m \in 1 .. size |-> Nth(m)]
<1>1. Len(text) \in Nat /\ DOMAIN text = 1 .. Len(text) /\ \A i \in DOMAIN text : text[i] \in Char
  OBVIOUS
<1>2. /\ size \in Nat
      /\ \A i \in places : Rank(places, i) \in 1 .. size
      /\ \A i, j \in places : i < j => Rank(places, i) < Rank(places, j)
      /\ \A m \in 1 .. size : \E i \in places : Rank(places, i) = m
  BY <1>1, PlacesHaveRanks
<1>3. \A m \in 1 .. size : Nth(m) \in places /\ Rank(places, Nth(m)) = m
  BY <1>2
<1>4. kept = [m \in 1 .. size |-> text[Nth(m)]]
  BY DEF Kept, Rank
<1> HIDE DEF Nth, kept, size
<1>5. \A m \in 1 .. size : text[Nth(m)] \in Char
  BY <1>1, <1>3
<1>6. kept \in Seq(Char) /\ DOMAIN kept = 1 .. size
  BY <1>2, <1>4, <1>5
<1>7. \A p \in places : p \in Int
  BY <1>1
<1>8. ASSUME NEW i \in 1 .. size, NEW j \in 1 .. size, i < j PROVE Nth(i) < Nth(j)
  <2>1. ~(Nth(j) < Nth(i)) /\ Nth(i) # Nth(j)
    <3>1. Nth(j) < Nth(i) => j < i
      BY <1>2, <1>3
    <3> QED
      BY <1>2, <1>3, <1>8, <3>1
  <2> QED
    BY <1>3, <1>7, <2>1
<1>9. ASSUME NEW p \in places PROVE \E i \in 1 .. size : Nth(i) = p
  <2> DEFINE i == Rank(places, p)
  <2>1. i \in 1 .. size /\ Nth(i) \in places /\ Rank(places, Nth(i)) = i
    BY <1>2, <1>3
  <2>2. ~(p < Nth(i)) /\ ~(Nth(i) < p)
    BY <1>2, <2>1
  <2> QED
    BY <1>7, <2>1, <2>2
<1>10. Selects(kept, text, places, from)
  BY <1>3, <1>4, <1>6, <1>8, <1>9 DEF Selects
<1> QED
  BY <1>6, <1>10 DEF kept

\* Neighbours in what is kept have nothing between them that is kept, and its ends are
\* the first and the last place.
LEMMA KeptNeighbours ==
  ASSUME NEW text \in Seq(Char), NEW places \in SUBSET DOMAIN text, NEW kept \in Seq(Char),
         NEW from, Selects(kept, text, places, from)
  PROVE  /\ \A i \in DOMAIN kept : from[i] \in places /\ from[i] \in DOMAIN text
         /\ \A i \in 2 .. Len(kept) :
               /\ from[i - 1] < from[i]
               /\ \A p \in places : ~(from[i - 1] < p /\ p < from[i])
         /\ Len(kept) > 0 => \A p \in places : from[1] <= p /\ p <= from[Len(kept)]
<1>1. /\ Len(text) \in Nat /\ DOMAIN text = 1 .. Len(text)
      /\ Len(kept) \in Nat /\ DOMAIN kept = 1 .. Len(kept)
  OBVIOUS
<1>2. \A i \in 1 .. Len(kept) : from[i] \in places /\ from[i] \in 1 .. Len(text)
  BY <1>1 DEF Selects
<1>3. /\ \A i, j \in 1 .. Len(kept) : i < j => from[i] < from[j]
      /\ \A p \in places : \E i \in 1 .. Len(kept) : from[i] = p
  BY <1>1 DEF Selects
<1>4. ASSUME NEW i \in 2 .. Len(kept)
      PROVE  /\ from[i - 1] < from[i]
             /\ \A p \in places : ~(from[i - 1] < p /\ p < from[i])
  <2>1. i \in 1 .. Len(kept) /\ i - 1 \in 1 .. Len(kept) /\ i - 1 < i
    BY <1>1
  <2>2. ASSUME NEW p \in places, from[i - 1] < p, p < from[i] PROVE FALSE
    <3>1. PICK j \in 1 .. Len(kept) : from[j] = p
      BY <1>3
    <3>2. j <= i - 1 \/ j >= i
      BY <1>1, <2>1, <3>1
    <3>3. j < i - 1 => from[j] < from[i - 1]
      BY <1>3, <2>1
    <3>4. i < j => from[i] < from[j]
      BY <1>3, <2>1
    <3>5. from[i - 1] \in Int /\ from[i] \in Int /\ from[j] \in Int
      BY <1>2, <2>1
    <3> QED
      BY <1>1, <2>1, <2>2, <3>1, <3>2, <3>3, <3>4, <3>5
  <2> QED
    BY <1>3, <2>1, <2>2
<1>5. ASSUME Len(kept) > 0, NEW p \in places PROVE from[1] <= p /\ p <= from[Len(kept)]
  <2>1. PICK j \in 1 .. Len(kept) : from[j] = p
    BY <1>3
  <2>2. 1 \in 1 .. Len(kept) /\ Len(kept) \in 1 .. Len(kept)
    BY <1>1, <1>5
  <2>3. (1 < j => from[1] < from[j]) /\ (j < Len(kept) => from[j] < from[Len(kept)])
    BY <1>3, <2>2
  <2>4. from[1] \in Int /\ from[j] \in Int /\ from[Len(kept)] \in Int
    BY <1>2, <2>2
  <2> QED
    BY <1>1, <2>1, <2>2, <2>3, <2>4
<1> QED
  BY <1>1, <1>2, <1>4, <1>5

\* What is kept of all of a text is the text.
LEMMA KeptAll ==
  ASSUME NEW text \in Seq(Char)
  PROVE  Kept(text, DOMAIN text) = text
<1>1. Len(text) \in Nat /\ DOMAIN text = 1 .. Len(text)
  OBVIOUS
<1>2. Cardinality(DOMAIN text) = Len(text)
  BY <1>1, FS_Interval
<1>3. ASSUME NEW i \in 1 .. Len(text)
      PROVE  Cardinality(DOMAIN text \cap 1 .. i) = i
  <2>1. DOMAIN text \cap 1 .. i = 1 .. i /\ i \in Nat /\ i >= 1
    BY <1>1
  <2>2. Cardinality(1 .. i) = IF 1 > i THEN 0 ELSE i - 1 + 1
    BY <2>1, FS_Interval
  <2>3. Cardinality(1 .. i) = i
    BY <2>1, <2>2
  <2> QED
    BY <2>1, <2>3, Zenon
<1> DEFINE Nth(m) == CHOOSE i \in DOMAIN text : Cardinality(DOMAIN text \cap 1 .. i) = m
<1>4. \A m \in 1 .. Len(text) : Nth(m) = m
  BY <1>1, <1>3
<1>5. Kept(text, DOMAIN text) = [m \in 1 .. Len(text) |-> text[m]]
  <2>1. Kept(text, DOMAIN text) = [m \in 1 .. Len(text) |-> text[Nth(m)]]
    BY <1>2, Zenon DEF Kept
  <2> HIDE DEF Nth
  <2> QED
    BY <1>4, <2>1
<1>6. text = [m \in 1 .. Len(text) |-> text[m]]
  OBVIOUS
<1> QED
  BY <1>5, <1>6

\* What the steps leave: no letter before its accent, no element, blanks that are
\* single spaces, and something to see at both ends.
Composed(text) == \A i \in 2 .. Len(text) : ~Joins(text, i)
Untagged(text) == \A i \in DOMAIN text : text[i] # "tag"
Narrow(text) ==
    \A i \in DOMAIN text : text[i] \in Blank =>
        text[i] = "space" /\ (i > 1 => text[i - 1] \notin Blank)
Trimmed(text) ==
    Len(text) > 0 => {text[1], text[Len(text)]} \cap (Blank \cup {"nbsp"}) = {}

LEMMA UnicodeLemma ==
  ASSUME NEW text \in Seq(Char)
  PROVE  /\ normalizeUnicode(text) \in Seq(Char)
         /\ Composed(normalizeUnicode(text))
         /\ Composed(text) => normalizeUnicode(text) = text
<1> DEFINE joined == [i \in DOMAIN text |->
                         IF i < Len(text) /\ Joins(text, i + 1) THEN "composed" ELSE text[i]]
           places == {i \in DOMAIN text : ~Joins(text, i)}
           kept == Kept(joined, places)
<1>1. Len(text) \in Nat /\ DOMAIN text = 1 .. Len(text) /\ \A i \in DOMAIN text : text[i] \in Char
  OBVIOUS
<1>2. joined \in Seq(Char) /\ DOMAIN joined = DOMAIN text /\ places \in SUBSET DOMAIN joined
  <2>1. \A i \in 1 .. Len(text) : joined[i] \in Char
    BY <1>1 DEF Char
  <2>2. joined = [i \in 1 .. Len(text) |-> joined[i]]
    BY <1>1
  <2> HIDE DEF joined
  <2>3. joined \in Seq(Char) /\ DOMAIN joined = 1 .. Len(text)
    BY <1>1, <2>1, <2>2
  <2> QED
    BY <1>1, <2>3
<1>3. normalizeUnicode(text) = kept
  BY DEF normalizeUnicode
<1>4. \A i \in DOMAIN text :
        joined[i] = IF i < Len(text) /\ Joins(text, i + 1) THEN "composed" ELSE text[i]
  OBVIOUS
<1>5. \A i \in DOMAIN text : i \in places <=> ~Joins(text, i)
  OBVIOUS
<1>6. Composed(text) => joined = text /\ places = DOMAIN text
  <2> SUFFICES ASSUME Composed(text) PROVE joined = text /\ places = DOMAIN text
    OBVIOUS
  <2>1. \A i \in 1 .. Len(text) : ~Joins(text, i)
    BY <1>1 DEF Composed, Joins
  <2>2. \A i \in DOMAIN text : joined[i] = text[i]
    BY <1>1, <1>4, <2>1
  <2>3. joined = text
    BY <1>1, <1>2, <2>2
  <2> QED
    BY <1>1, <2>1, <2>3
<1> HIDE DEF joined, places
<1>7. kept \in Seq(Char)
  BY <1>2, KeptLemma
<1>8. PICK from : Selects(kept, joined, places, from)
  BY <1>2, KeptLemma
<1> HIDE DEF kept
<1>9. /\ \A i \in DOMAIN kept : from[i] \in places /\ from[i] \in DOMAIN joined
      /\ \A i \in 2 .. Len(kept) :
            /\ from[i - 1] < from[i]
            /\ \A o \in places : ~(from[i - 1] < o /\ o < from[i])
  BY <1>2, <1>7, <1>8, KeptNeighbours
<1>10. Composed(kept)
  <2> SUFFICES ASSUME NEW i \in 2 .. Len(kept), kept[i] = "accent", kept[i - 1] = "base"
               PROVE  FALSE
    BY DEF Composed, Joins
  <2> DEFINE p == from[i - 1]
             q == from[i]
  <2>1. i \in DOMAIN kept /\ i - 1 \in DOMAIN kept
    BY <1>7
  <2>2. /\ p \in DOMAIN text /\ q \in DOMAIN text /\ p < q /\ p \in places /\ q \in places
        /\ \A o \in places : ~(p < o /\ o < q)
    BY <1>2, <1>9, <2>1
  <2>3. joined[q] = "accent" /\ joined[p] = "base"
    BY <1>8, <2>1 DEF Selects
  <2> HIDE DEF p, q
  <2>4. text[q] = "accent" /\ text[p] = "base" /\ ~Joins(text, p + 1)
    BY <1>1, <1>4, <2>2, <2>3
  <2>5. p + 1 \in DOMAIN text /\ p + 1 \in places /\ ~(p + 1 < q)
    BY <1>1, <1>5, <2>2, <2>4
  <2>6. q = p + 1
    BY <1>1, <2>2, <2>5
  <2> QED
    BY <1>1, <2>2, <2>4, <2>6 DEF Joins
<1>11. Composed(text) => kept = text
  BY <1>6, KeptAll DEF kept
<1> QED
  BY <1>3, <1>7, <1>10, <1>11

LEMMA HtmlLemma ==
  ASSUME NEW text \in Seq(Char)
  PROVE  /\ sanitizeHTML(text) \in Seq(Char)
         /\ Untagged(sanitizeHTML(text))
         /\ Untagged(text) => sanitizeHTML(text) = text
<1> DEFINE places == {i \in DOMAIN text : text[i] # "tag"}
           kept == Kept(text, places)
<1>1. places \in SUBSET DOMAIN text
  OBVIOUS
<1>2. \A i \in places : text[i] # "tag"
  OBVIOUS
<1>3. Untagged(text) => places = DOMAIN text
  BY DEF Untagged
<1>4. sanitizeHTML(text) = kept
  BY DEF sanitizeHTML
<1> HIDE DEF places
<1>5. kept \in Seq(Char) /\ \E from : Selects(kept, text, places, from)
  BY <1>1, KeptLemma
<1>6. Untagged(text) => kept = text
  BY <1>3, KeptAll
<1> HIDE DEF kept
<1>7. Untagged(kept)
  BY <1>2, <1>5 DEF Untagged, Selects
<1> QED
  BY <1>4, <1>5, <1>6, <1>7

\* Trim takes from the ends only.
LEMMA TrimLemma ==
  ASSUME NEW text \in Seq(Char)
  PROVE  /\ Trim(text) \in Seq(Char)
         /\ Trimmed(Trim(text))
         /\ Narrow(text) => Narrow(Trim(text))
         /\ Composed(text) => Composed(Trim(text))
         /\ Untagged(text) => Untagged(Trim(text))
         /\ Trimmed(text) => Trim(text) = text
<1> DEFINE ink == {i \in DOMAIN text : text[i] \notin Blank \cup {"nbsp"}}
           places == {i \in DOMAIN text : \E first, last \in ink : first <= i /\ i <= last}
           kept == Kept(text, places)
<1>1. Len(text) \in Nat /\ DOMAIN text = 1 .. Len(text)
  OBVIOUS
<1>2. places \in SUBSET DOMAIN text
  OBVIOUS
<1>3. Trim(text) = kept
  BY DEF Trim
<1>4. /\ \A i \in ink : i \in DOMAIN text /\ i \in places /\ text[i] \notin Blank \cup {"nbsp"}
      /\ \A p \in places : \E first, last \in ink : first <= p /\ p <= last
      /\ \A p, q \in places, o \in DOMAIN text : p <= o /\ o <= q => o \in places
  <2>1. \A i \in ink : i \in DOMAIN text /\ i \in places /\ text[i] \notin Blank \cup {"nbsp"}
    BY <1>1
  <2>2. \A p \in places : \E first, last \in ink : first <= p /\ p <= last
    OBVIOUS
  <2>3. ASSUME NEW p \in places, NEW q \in places, NEW o \in DOMAIN text, p <= o, o <= q
        PROVE  o \in places
    <3>1. PICK first \in ink : first <= p
      BY <2>2
    <3>2. PICK last \in ink : q <= last
      BY <2>2
    <3>3. first \in Int /\ last \in Int /\ p \in Int /\ q \in Int /\ o \in Int
      BY <1>1, <1>2, <2>1
    <3>4. first <= o /\ o <= last
      BY <2>3, <3>1, <3>2, <3>3
    <3> QED
      BY <3>4
  <2> QED
    BY <2>1, <2>2, <2>3
<1>5. Trimmed(text) => places = DOMAIN text
  <2> SUFFICES ASSUME Trimmed(text), NEW i \in DOMAIN text PROVE i \in places
    BY <1>2
  <2>1. 1 \in ink /\ Len(text) \in ink /\ 1 <= i /\ i <= Len(text)
    BY <1>1 DEF Trimmed
  <2> QED
    BY <2>1
<1> HIDE DEF ink, places
<1>6. kept \in Seq(Char)
  BY <1>2, KeptLemma
<1>7. PICK from : Selects(kept, text, places, from)
  BY <1>2, KeptLemma
<1>8. Trimmed(text) => kept = text
  BY <1>5, KeptAll
<1> HIDE DEF kept
<1>9. Len(kept) \in Nat /\ DOMAIN kept = 1 .. Len(kept)
  BY <1>6
<1>10. \A i \in DOMAIN kept :
         from[i] \in places /\ from[i] \in DOMAIN text /\ kept[i] = text[from[i]]
  BY <1>2, <1>6, <1>7, KeptNeighbours DEF Selects
<1>11. \A i \in 2 .. Len(kept) : from[i] = from[i - 1] + 1
  <2> SUFFICES ASSUME NEW i \in 2 .. Len(kept) PROVE from[i] = from[i - 1] + 1
    OBVIOUS
  <2>1. /\ from[i - 1] < from[i]
        /\ \A p \in places : ~(from[i - 1] < p /\ p < from[i])
    BY <1>2, <1>6, <1>7, KeptNeighbours
  <2>2. from[i - 1] \in places /\ from[i] \in places
    BY <1>9, <1>10
  <2>3. from[i - 1] \in 1 .. Len(text) /\ from[i] \in 1 .. Len(text)
    BY <1>1, <1>2, <2>2
  <2>4. /\ from[i - 1] + 1 \in DOMAIN text
        /\ from[i - 1] <= from[i - 1] + 1 /\ from[i - 1] + 1 <= from[i]
    BY <1>1, <2>1, <2>3
  <2>5. from[i - 1] + 1 \in places
    BY <1>4, <2>2, <2>4
  <2> QED
    BY <2>1, <2>3, <2>5
<1>12. Trimmed(kept)
  <2> SUFFICES ASSUME Len(kept) > 0
               PROVE  /\ kept[1] \notin Blank \cup {"nbsp"}
                      /\ kept[Len(kept)] \notin Blank \cup {"nbsp"}
    BY DEF Trimmed
  <2>1. 1 \in DOMAIN kept /\ Len(kept) \in DOMAIN kept
    BY <1>9
  <2>2. \A p \in places : from[1] <= p /\ p <= from[Len(kept)]
    BY <1>2, <1>6, <1>7, KeptNeighbours
  <2>3. PICK first \in ink : first <= from[1]
    BY <1>4, <1>10, <2>1
  <2>4. PICK last \in ink : from[Len(kept)] <= last
    BY <1>4, <1>10, <2>1
  <2>5. from[1] = first /\ from[Len(kept)] = last
    <3>1. first \in places /\ last \in places
      BY <1>4
    <3>2. from[1] <= first /\ last <= from[Len(kept)]
      BY <2>2, <3>1
    <3>3. from[1] \in 1 .. Len(text) /\ from[Len(kept)] \in 1 .. Len(text)
      BY <1>1, <1>10, <2>1
    <3>4. first \in 1 .. Len(text) /\ last \in 1 .. Len(text)
      BY <1>1, <1>4
    <3> QED
      BY <1>1, <2>3, <2>4, <3>2, <3>3, <3>4
  <2> QED
    BY <1>4, <1>10, <2>1, <2>5
<1>13. \A i \in 2 .. Len(kept) :
         /\ i \in DOMAIN kept /\ i - 1 \in DOMAIN kept
         /\ from[i] \in 2 .. Len(text) /\ from[i] - 1 = from[i - 1]
  <2> SUFFICES ASSUME NEW i \in 2 .. Len(kept)
               PROVE  /\ i \in DOMAIN kept /\ i - 1 \in DOMAIN kept
                      /\ from[i] \in 2 .. Len(text) /\ from[i] - 1 = from[i - 1]
    OBVIOUS
  <2>1. i \in DOMAIN kept /\ i - 1 \in DOMAIN kept
    BY <1>9
  <2>2. from[i] \in 1 .. Len(text) /\ from[i - 1] \in 1 .. Len(text)
    BY <1>1, <1>10, <2>1
  <2> QED
    BY <1>1, <1>11, <2>1, <2>2
<1>14. Narrow(text) => Narrow(kept)
  <2> SUFFICES ASSUME Narrow(text), NEW i \in DOMAIN kept, kept[i] \in Blank
               PROVE  kept[i] = "space" /\ (i > 1 => kept[i - 1] \notin Blank)
    BY DEF Narrow
  <2>1. kept[i] = "space"
    BY <1>10 DEF Narrow
  <2>2. ASSUME i > 1 PROVE kept[i - 1] \notin Blank
    <3>1. i \in 2 .. Len(kept)
      BY <1>9, <2>2
    <3>2. from[i] > 1 /\ from[i] \in DOMAIN text /\ text[from[i]] \in Blank
      BY <1>1, <1>10, <1>13, <3>1
    <3>3. text[from[i] - 1] \notin Blank
      BY <3>2 DEF Narrow
    <3> QED
      BY <1>10, <1>13, <3>1, <3>3
  <2> QED
    BY <2>1, <2>2
<1>15. Composed(text) => Composed(kept)
  BY <1>10, <1>13 DEF Composed, Joins
<1>16. Untagged(text) => Untagged(kept)
  BY <1>10 DEF Untagged
<1> QED
  BY <1>3, <1>6, <1>8, <1>12, <1>14, <1>15, <1>16

LEMMA WhitespaceLemma ==
  ASSUME NEW text \in Seq(Char)
  PROVE  /\ normalizeWhitespace(text) \in Seq(Char)
         /\ Trimmed(normalizeWhitespace(text))
         /\ Narrow(normalizeWhitespace(text))
         /\ Composed(text) => Composed(normalizeWhitespace(text))
         /\ Untagged(text) => Untagged(normalizeWhitespace(text))
         /\ Trimmed(text) /\ Narrow(text) => normalizeWhitespace(text) = text
<1> DEFINE spaced == [i \in DOMAIN text |-> IF text[i] \in Blank THEN "space" ELSE text[i]]
           places == {i \in DOMAIN text : text[i] \in Blank /\ i > 1 => text[i - 1] \notin Blank}
           kept == Kept(spaced, places)
<1>1. Len(text) \in Nat /\ DOMAIN text = 1 .. Len(text) /\ \A i \in DOMAIN text : text[i] \in Char
  OBVIOUS
<1>2. spaced \in Seq(Char) /\ DOMAIN spaced = DOMAIN text /\ places \in SUBSET DOMAIN spaced
  <2>1. \A i \in 1 .. Len(text) : spaced[i] \in Char
    BY <1>1 DEF Char, Blank
  <2>2. spaced = [i \in 1 .. Len(text) |-> spaced[i]]
    BY <1>1
  <2> HIDE DEF spaced
  <2>3. spaced \in Seq(Char) /\ DOMAIN spaced = 1 .. Len(text)
    BY <1>1, <2>1, <2>2
  <2> QED
    BY <1>1, <2>3
<1>3. normalizeWhitespace(text) = Trim(kept)
  BY DEF normalizeWhitespace
<1>4. \A i \in DOMAIN text : spaced[i] = IF text[i] \in Blank THEN "space" ELSE text[i]
  OBVIOUS
<1>5. \A i \in DOMAIN text :
        i \in places <=> (text[i] \in Blank /\ i > 1 => text[i - 1] \notin Blank)
  OBVIOUS
<1>6. Narrow(text) => spaced = text /\ places = DOMAIN text
  <2> SUFFICES ASSUME Narrow(text) PROVE spaced = text /\ places = DOMAIN text
    OBVIOUS
  <2>1. \A i \in DOMAIN text : spaced[i] = text[i]
    BY <1>4 DEF Narrow
  <2>2. spaced = text
    BY <1>1, <1>2, <2>1
  <2>3. places = DOMAIN text
    BY <1>2, <1>5 DEF Narrow
  <2> QED
    BY <2>2, <2>3
<1> HIDE DEF spaced, places
<1>7. kept \in Seq(Char)
  BY <1>2, KeptLemma
<1>8. PICK from : Selects(kept, spaced, places, from)
  BY <1>2, KeptLemma
<1>9. Narrow(text) => kept = text
  BY <1>6, KeptAll
<1> HIDE DEF kept
<1>10. Len(kept) \in Nat /\ DOMAIN kept = 1 .. Len(kept)
  BY <1>7
<1>11. \A i \in DOMAIN kept :
         /\ from[i] \in places /\ from[i] \in DOMAIN text
         /\ kept[i] = IF text[from[i]] \in Blank THEN "space" ELSE text[from[i]]
  BY <1>2, <1>4, <1>7, <1>8, KeptNeighbours DEF Selects
<1>12. \A i \in 2 .. Len(kept) :
         /\ i \in DOMAIN kept /\ i - 1 \in DOMAIN kept
         /\ from[i - 1] < from[i]
         /\ \A p \in places : ~(from[i - 1] < p /\ p < from[i])
  <2>1. \A i \in 2 .. Len(kept) :
          /\ from[i - 1] < from[i]
          /\ \A p \in places : ~(from[i - 1] < p /\ p < from[i])
    BY <1>2, <1>7, <1>8, KeptNeighbours
  <2>2. \A i \in 2 .. Len(kept) : i \in DOMAIN kept /\ i - 1 \in DOMAIN kept
    BY <1>10
  <2> QED
    BY <2>1, <2>2
<1>13. Narrow(kept)
  <2> SUFFICES ASSUME NEW i \in DOMAIN kept, kept[i] \in Blank
               PROVE  kept[i] = "space" /\ (i > 1 => kept[i - 1] \notin Blank)
    BY DEF Narrow
  <2>1. text[from[i]] \in Blank /\ kept[i] = "space"
    BY <1>11
  <2>2. ASSUME i > 1, kept[i - 1] \in Blank PROVE FALSE
    <3> DEFINE p == from[i - 1]
               q == from[i]
    <3>1. i \in 2 .. Len(kept)
      BY <1>10, <2>2
    <3>2. /\ p \in places /\ q \in places /\ p \in DOMAIN text /\ q \in DOMAIN text /\ p < q
          /\ \A o \in places : ~(p < o /\ o < q)
      BY <1>11, <1>12, <3>1
    <3>3. text[p] \in Blank /\ text[q] \in Blank
      BY <1>11, <1>12, <2>1, <2>2, <3>1
    <3> HIDE DEF p, q
    <3>4. q - 1 \in DOMAIN text /\ q > 1 /\ (q - 1 = p \/ (p < q - 1 /\ q - 1 < q))
      BY <1>1, <3>2
    <3>5. text[q - 1] \notin Blank
      BY <1>5, <3>2, <3>3, <3>4
    <3>6. q - 1 \in places
      BY <1>5, <3>4, <3>5
    <3> QED
      BY <3>2, <3>3, <3>4, <3>5, <3>6
  <2> QED
    BY <2>1, <2>2
<1>14. Composed(text) => Composed(kept)
  <2> SUFFICES ASSUME Composed(text), NEW i \in 2 .. Len(kept),
                      kept[i] = "accent", kept[i - 1] = "base"
               PROVE  FALSE
    BY DEF Composed, Joins
  <2> DEFINE p == from[i - 1]
             q == from[i]
  <2>1. /\ q \in places /\ p \in DOMAIN text /\ q \in DOMAIN text /\ p < q
        /\ \A o \in places : ~(p < o /\ o < q)
    BY <1>11, <1>12
  <2>2. text[p] = "base" /\ text[q] = "accent" /\ text[p] \notin Blank
    BY <1>11, <1>12 DEF Blank
  <2> HIDE DEF p, q
  <2>3. /\ p + 1 \in DOMAIN text /\ (p + 1 = q \/ p + 1 < q)
        /\ p + 1 > 1 /\ (p + 1) - 1 = p /\ p < p + 1
    BY <1>1, <2>1
  <2>4. p + 1 \in places
    BY <1>5, <2>2, <2>3
  <2>5. q = p + 1
    BY <2>1, <2>3, <2>4
  <2>6. q \in 2 .. Len(text) /\ Joins(text, q)
    BY <1>1, <2>1, <2>2, <2>3, <2>5 DEF Joins
  <2> QED
    BY <2>6 DEF Composed
<1>15. Untagged(text) => Untagged(kept)
  BY <1>11 DEF Untagged
<1>16. Narrow(text) /\ Trimmed(text) => Trim(kept) = text
  BY <1>9, TrimLemma
<1> QED
  BY <1>3, <1>7, <1>13, <1>14, <1>15, <1>16, TrimLemma

\* Once more changes nothing, with any of the steps, if no letter is left before its accent
\* where elements have gone.
LEMMA SanitizedLemma ==
  ASSUME NEW text \in Seq(Char), NEW options \in Options
  PROVE  LET once == SanitizedText(text, options)
         IN  /\ once \in Seq(Char)
             /\ (options.unicode /\ options.html => Composed(once))
                  => SanitizedText(once, options) = once
<1> DEFINE composed == IF options.unicode THEN normalizeUnicode(text) ELSE text
           clean == IF options.html THEN sanitizeHTML(composed) ELSE composed
           once == IF options.whitespace THEN normalizeWhitespace(clean) ELSE clean
<1>1. once = SanitizedText(text, options)
  BY DEF SanitizedText
<1>2. composed \in Seq(Char) /\ (options.unicode => Composed(composed))
  BY UnicodeLemma
<1> HIDE DEF composed
<1>3. /\ clean \in Seq(Char) /\ (options.html => Untagged(clean))
      /\ options.unicode /\ ~options.html => Composed(clean)
  BY <1>2, HtmlLemma
<1> HIDE DEF clean
<1>4. /\ once \in Seq(Char) /\ (options.html => Untagged(once))
      /\ options.unicode /\ ~options.html => Composed(once)
      /\ options.whitespace => Trimmed(once) /\ Narrow(once)
  BY <1>3, WhitespaceLemma
<1> HIDE DEF once
<1>5. ASSUME options.unicode /\ options.html => Composed(once)
      PROVE  SanitizedText(once, options) = once
  <2>1. options.unicode => Composed(once)
    BY <1>4, <1>5
  <2>2. /\ options.unicode => normalizeUnicode(once) = once
        /\ options.html => sanitizeHTML(once) = once
        /\ options.whitespace => normalizeWhitespace(once) = once
    BY <1>4, <2>1, UnicodeLemma, HtmlLemma, WhitespaceLemma
  <2> QED
    BY <2>2 DEF SanitizedText
<1> QED
  BY <1>1, <1>4, <1>5

LEMMA WorkOfText ==
  ASSUME ModerationTypeOK, work.call = "text"
  PROVE  work.text \in Seq(Char) /\ work.options \in Options
<1>1. work \in [call : {"text"}, text : Text, options : Options, ad : BOOLEAN]
  BY DEF ModerationTypeOK, Work, Idle
<1>2. PICK n \in 0 .. MaxLength : work.text \in [1 .. n -> Char]
  BY <1>1 DEF Text
<1>3. n \in Nat
  BY ModerationAssumption
<1> QED
  BY <1>1, <1>2, <1>3

\* What SanitizeContent leaves of a text is left as it is by another SanitizeContent with
\* the same options, unless a letter met its accent where an element went
\* (sanitize_content_logic.go:239-247).
THEOREM SanitizedIsStableHolds == ModerationSpec => []SanitizedIsStable
<1>1. ModerationInv => SanitizedIsStable
  <2> SUFFICES ASSUME ModerationTypeOK, work.call = "text" PROVE SanitizedIsStable
    BY DEF ModerationInv, SanitizedIsStable
  <2> DEFINE once == SanitizedText(work.text, work.options)
             joins == \E i \in 1 .. Len(once) - 1 : once[i] = "base" /\ once[i + 1] = "accent"
  <2>1. work.text \in Seq(Char) /\ work.options \in Options
    BY WorkOfText
  <2>2. once \in Seq(Char)
    BY <2>1, SanitizedLemma
  <2>3. SanitizedIsStable <=> \/ SanitizedText(once, work.options) = once
                              \/ work.options.unicode /\ work.options.html /\ joins
    BY DEF SanitizedIsStable
  <2>4. (work.options.unicode /\ work.options.html => Composed(once))
          => SanitizedText(once, work.options) = once
    BY <2>1, SanitizedLemma
  <2> HIDE DEF once
  <2>5. joins \/ Composed(once)
    <3>1. SUFFICES ASSUME NEW i \in 2 .. Len(once), Joins(once, i) PROVE joins
      BY DEF Composed
    <3>2. i - 1 \in 1 .. Len(once) - 1 /\ (i - 1) + 1 = i
      BY <2>2
    <3>3. once[i - 1] = "base" /\ once[(i - 1) + 1] = "accent"
      BY <3>1, <3>2 DEF Joins
    <3> QED
      BY <3>2, <3>3
  <2> HIDE DEF joins
  <2> QED
    BY <2>3, <2>4, <2>5
<1> QED
  BY <1>1, ModerationInvHolds, PTL

----------------------------------------------------------------------------
(* All of it *)

\* Each part behaves as its module says, whichever is at work.
LEMMA PartsBehave ==
  Spec => AccountSpec /\ InviteSpec /\ RateSpec /\ GateSpec /\ ModerationSpec
<1>1. Init => AccountInit /\ InviteInit /\ RateInit /\ GateInit /\ ModerationInit
  BY DEF Init
<1>2. [Next]_vars => [AccountNext]_accountVars
  BY DEF Next, Rests, vars
<1>3. [Next]_vars => [InviteNext]_inviteVars
  BY DEF Next, Rests, vars
<1>4. [Next]_vars => [RateNext]_rateVars
  BY DEF Next, Rests, vars
<1>5. [Next]_vars => [GateNext]_gateVars
  BY DEF Next, Rests, vars
<1>6. [Next]_vars => [ModerationNext]_moderationVars
  BY DEF Next, Rests, vars
<1> QED
  BY <1>1, <1>2, <1>3, <1>4, <1>5, <1>6, PTL
     DEF Spec, AccountSpec, InviteSpec, RateSpec, GateSpec, ModerationSpec

\* Accounts, invites, buckets, requests of the apis and texts and images keep their
\* types.
THEOREM AccessTypeCorrect == Spec => []TypeOK
<1>1. Spec => [](part \in Parts)
  <2>1. Init => part \in Parts
    BY DEF Init
  <2>2. part \in Parts /\ [Next]_vars => (part \in Parts)'
    BY DEF Next, vars
  <2> QED
    BY <2>1, <2>2, PTL DEF Spec
<1>2. /\ part \in Parts /\ AccountTypeOK /\ InviteTypeOK /\ RateTypeOK
      /\ GateInv /\ ModerationInv
      => TypeOK
  BY DEF TypeOK, GateInv, ModerationInv
<1> QED
  BY <1>1, <1>2, PartsBehave, AccountTypeCorrect, InviteTypeCorrect, RateTypeCorrect,
     GateInvHolds, ModerationInvHolds, PTL
=============================================================================
