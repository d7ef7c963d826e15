--------------------------- MODULE ArticleService ---------------------------
(***************************************************************************)
(* The handlers of the article rpc that change articles: CreateArticle,    *)
(* UpdateArticle and DeleteArticle (rpc/internal/logic).  A handler reads  *)
(* the row, works on its copy and writes the copy back in a transaction    *)
(* with the outbox event, so other handlers and the review consumers run   *)
(* between its steps.                                                      *)
(*                                                                         *)
(* The module owns request.  It shares articles, objects, payload and      *)
(* forgotten; ArticlePipeline puts the modules together.                     *)
(***************************************************************************)
EXTENDS Integers, Sequences, FiniteSets, ArticleTypes

CONSTANTS
    Article,
    Request,            \* the goroutines that serve UpdateArticle and DeleteArticle
    RequestedStatuses,  \* the statuses authors ask for; "UNSPECIFIED": none
    MaxEvent,           \* bound: outbox events ever inserted
    FaultKinds,         \* the faults considered; "request": a handler gives up
    MaxFaults           \* bound: how many of them happen

VARIABLES
    articles,  \* the table: article -> row
    objects,   \* the content objects MinIO holds
    payload,   \* what the rows inserted into article_sync_outbox carry, in order
    forgotten, \* the outbox rows DeleteSent has removed
    request,   \* what each handler is doing
    faults

RequestPc == {"idle", "update", "removeObject", "delete"}

\* article: FindOne's copy; changed: did the request name a source field;
\* wanted: the status it asked for.
Idle == [pc |-> "idle", id |-> CHOOSE a \in Article : TRUE, copy |-> NoRow,
         changed |-> FALSE, wanted |-> "UNSPECIFIED"]

ServiceTypeOK ==
    /\ articles \in [Article -> ArticleRow]
    /\ objects \subseteq Path
    /\ payload \in Seq([type : EventType, article : Article, path : Path])
    /\ request \in [Request -> [pc : RequestPc, id : Article, copy : ArticleRow,
                                changed : BOOLEAN,
                                wanted : ArticleStatus \cup {"UNSPECIFIED"}]]

ServiceInit ==
    /\ articles = [a \in Article |-> NoRow]
    /\ objects = Path
    /\ payload = <<>>
    /\ request = [q \in Request |-> Idle]

----------------------------------------------------------------------------
At(q, pc) == request[q].pc = pc
Live(a) == articles[a].row = "live"
Done(q) == request' = [request EXCEPT ![q] = Idle]

\* CreateTx: one more pending row in the outbox.
CreateTx(message) ==
    /\ Len(payload) < MaxEvent
    /\ payload' = Append(payload, message)

\* Wrong variant: Unscoped, so that deleted rows match as well.
WrongUpdateTx(a, copy) == articles' = [articles EXCEPT ![a] = copy]

\* UpdateTx and Update: all source and state columns of the copy, deleted_at
\* included, WHERE id = ? AND deleted_at IS NULL.  No row matches once the
\* article is deleted, which is no error.
UpdateTx(a, copy) ==
    articles' = IF Live(a) THEN [articles EXCEPT ![a] = copy] ELSE articles

\* EventKey is unique: review_<id> for every review event of an article, while
\* a delete event's key holds its own id.  A row keeps its key until DeleteSent.
KeyTaken(a) ==
    \E e \in DOMAIN payload :
        /\ payload[e].type = "review" /\ payload[e].article = a
        /\ e \notin forgotten

----------------------------------------------------------------------------
\* A content object the author of a has uploaded; object names are never shared,
\* not with a request under way for another article either.
Uploaded(a, path) ==
    /\ path \in objects
    /\ \A b \in Article \ {a} : articles[b].row # "absent" => articles[b].content # path
    /\ \A q \in Request :
        ~At(q, "idle") /\ request[q].id # a => request[q].copy.content # path

CreateArticle(a) ==
    /\ articles[a].row = "absent"
    /\ \E path \in Path :
        /\ Uploaded(a, path)
        /\ articles' = [articles EXCEPT ![a] = [row |-> "live", status |-> "REVIEWING",
                                                stage |-> "queued", content |-> path]]
        /\ CreateTx(ReviewMessage(a, path))
    /\ UNCHANGED <<objects, forgotten, request, faults>>

\* UpdateArticle, up to applySourceUpdates.
UpdateRead(q) ==
    /\ At(q, "idle")
    /\ \E a \in Article, wanted \in RequestedStatuses, changed \in BOOLEAN, path \in Path :
        /\ Live(a)
        /\ path = articles[a].content \/ (changed /\ Uploaded(a, path))
        /\ request' = [request EXCEPT ![q] =
               [pc |-> "update", id |-> a, copy |-> [articles[a] EXCEPT !.content = path],
                changed |-> changed, wanted |-> wanted]]
    /\ UNCHANGED <<articles, objects, payload, forgotten, faults>>

PrevPublished(q) == request[q].copy.status = "PUBLISHED"
Withdraws(q) ==
    PrevPublished(q) /\ request[q].wanted \notin {"UNSPECIFIED", "PUBLISHED"}

\* updatePublishedToSourceOnly
UpdatePublishedToSourceOnly(q) ==
    LET r == request[q] IN
    /\ Withdraws(q)
    /\ UpdateTx(r.id, SetSyncState([r.copy EXCEPT !.status = r.wanted], "source_only"))
    /\ CreateTx(DeleteEvent(r.id, r.copy.content))

\* updateToReviewingTx: the row and the review event, or neither when the
\* event's key is taken.
UpdateToReviewing(q, copy) ==
    LET a == request[q].id IN
    IF KeyTaken(a) THEN UNCHANGED <<articles, payload>>
    ELSE UpdateTx(a, copy) /\ CreateTx(ReviewMessage(a, copy.content))

\* The second case: a published article whose source changed.
UpdatePublishedSource(q) ==
    LET r == request[q] IN
    /\ PrevPublished(q) /\ ~Withdraws(q)
    /\ r.changed
    /\ UpdateToReviewing(q, SetSyncState([r.copy EXCEPT !.status = "REVIEWING"], "queued"))

\* Wrong variants: an author may ask for PUBLISHED; an absent status is stored.
WrongStatusAny(r) == IF r.wanted = "UNSPECIFIED" THEN r.copy.status ELSE r.wanted
WrongStatusUnset(r) == IF r.wanted = "PUBLISHED" THEN r.copy.status ELSE r.wanted

\* The status the default case sets: authors do not publish.
NewStatus(r) ==
    IF r.wanted \in {"UNSPECIFIED", "PUBLISHED"} THEN r.copy.status ELSE r.wanted

\* The default case.
UpdateOther(q) ==
    LET r == request[q]
        copy == [r.copy EXCEPT !.status = NewStatus(r)]
    IN
    /\ ~Withdraws(q)
    /\ PrevPublished(q) => ~r.changed
    /\ IF copy.status = "REVIEWING" /\ (r.changed \/ r.copy.status # "REVIEWING")
       THEN UpdateToReviewing(q, copy)
       ELSE UpdateTx(r.id, copy) /\ UNCHANGED payload

UpdateWrite(q) ==
    /\ At(q, "update")
    /\ UpdatePublishedToSourceOnly(q) \/ UpdatePublishedSource(q) \/ UpdateOther(q)
    /\ Done(q)
    /\ UNCHANGED <<objects, forgotten, faults>>

\* DeleteArticle by the author, up to the permission check.
DeleteRead(q) ==
    /\ At(q, "idle")
    /\ \E a \in Article :
        /\ Live(a)
        /\ request' = [request EXCEPT ![q] =
               [Idle EXCEPT !.pc = "removeObject", !.id = a, !.copy = articles[a]]]
    /\ UNCHANGED <<articles, objects, payload, forgotten, faults>>

\* The content object goes before the row does.
RemoveObject(q) ==
    /\ At(q, "removeObject")
    /\ objects' = objects \ {request[q].copy.content}
    /\ request' = [request EXCEPT ![q].pc = "delete"]
    /\ UNCHANGED <<articles, payload, forgotten, faults>>

\* Wrong variants: no event; an event key shared with the review event.
WrongDeleteTxSilent(q) ==
    /\ At(q, "delete")
    /\ articles' = [articles EXCEPT ![request[q].id].row = "deleted"]
    /\ Done(q)
    /\ UNCHANGED <<objects, payload, forgotten, faults>>
WrongDeleteTxKey(q) ==
    /\ At(q, "delete")
    /\ IF KeyTaken(request[q].id) THEN UNCHANGED <<articles, payload>>
       ELSE /\ CreateTx(DeleteEvent(request[q].id, request[q].copy.content))
            /\ articles' = [articles EXCEPT ![request[q].id].row = "deleted"]
    /\ Done(q)
    /\ UNCHANGED <<objects, forgotten, faults>>

DeleteTx(q) ==
    /\ At(q, "delete")
    /\ CreateTx(DeleteEvent(request[q].id, request[q].copy.content))
    /\ articles' = [articles EXCEPT ![request[q].id].row = "deleted"]
    /\ Done(q)
    /\ UNCHANGED <<objects, forgotten, faults>>

\* A transaction or MinIO fails, the client goes away, or the process dies.
RequestFails(q) ==
    /\ ~At(q, "idle")
    /\ "request" \in FaultKinds
    /\ faults < MaxFaults
    /\ faults' = faults + 1
    /\ Done(q)
    /\ UNCHANGED <<articles, objects, payload, forgotten>>

HandlerStep(q) == UpdateWrite(q) \/ RemoveObject(q) \/ DeleteTx(q)

ServiceNext ==
    \/ \E a \in Article : CreateArticle(a)
    \/ \E q \in Request :
        UpdateRead(q) \/ DeleteRead(q) \/ HandlerStep(q) \/ RequestFails(q)

----------------------------------------------------------------------------
\* Nothing brings a deleted article back or changes it: every write of a copy
\* made before the deletion, deleted_at included, finds no row.
DeletedIsFinal ==
    [][\A a \in Article :
        articles[a].row = "deleted" => articles'[a] = articles[a]]_articles

\* A deleted article has announced its deletion to the search and
\* recommendation systems: the event is committed with the deletion.
DeletionAnnounced ==
    \A a \in Article : articles[a].row = "deleted" =>
        \E e \in DOMAIN payload : payload[e].type = "delete" /\ payload[e].article = a

\* DeleteArticle removes the content first, so a live article can be without
\* its content; unless something failed, a handler is about to delete it.
ContentLossNeedsAFault ==
    \A a \in Article :
        Live(a) /\ articles[a].content \notin objects /\ faults = 0 =>
            \E q \in Request : At(q, "delete") /\ request[q].id = a
=============================================================================
