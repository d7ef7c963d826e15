------------------------- MODULE SyncResultConsumer -------------------------
(***************************************************************************)
(* The consumers of article-sync-results: ArticleSyncResultConsumer        *)
(* (rpc/internal/mqs/article_sync_result_consumer.go) records in ext_info  *)
(* what the search and recommendation systems answer to an event.  In this *)
(* build only deletions are sent to them, for articles that were deleted   *)
(* or withdrawn, so the branch for upserts is not reached.  A consumer     *)
(* reads the row and writes ext_info later, while handlers and review      *)
(* consumers go on.                                                        *)
(*                                                                         *)
(* The module owns syncing; ArticlePipeline puts it together with the rest. *)
(***************************************************************************)
EXTENDS Integers, Sequences, ArticleTypes

CONSTANTS
    Article,
    SyncConsumer  \* the goroutines that run Consume, over all processes

VARIABLES
    articles,  \* the table: article -> row
    payload,   \* the committed events, in order of commit
    written,   \* copies of each event in its topic
    syncing    \* what each consumer is doing

\* outcome: the publish_stage it is about to record.
SyncTypeOK ==
    syncing \in [SyncConsumer -> [pc : {"idle", "write"}, id : Article, outcome : PublishStage]]

SyncIdle == [pc |-> "idle", id |-> CHOOSE a \in Article : TRUE, outcome |-> "source_only"]

SyncInit == syncing = [s \in SyncConsumer |-> SyncIdle]

----------------------------------------------------------------------------
SyncEnds(s) == syncing' = [syncing EXCEPT ![s] = SyncIdle]

\* The systems answer an event as soon as they have it, any number of times, and
\* well or badly.
Answered(e) == payload[e].type = "delete" /\ written[e] > 0

\* FindOneUnscoped; a deleted article needs no record.
ReadResult(s) ==
    /\ syncing[s].pc = "idle"
    /\ \E e \in DOMAIN payload, outcome \in {"source_only", "delete_failed"} :
        /\ Answered(e)
        /\ articles[payload[e].article].row = "live"
        /\ syncing' = [syncing EXCEPT ![s] =
               [pc |-> "write", id |-> payload[e].article, outcome |-> outcome]]
    /\ UNCHANGED articles

\* Wrong variant: Unscoped, so that deleted rows match as well.
WrongRecordResult(s) ==
    /\ syncing[s].pc = "write"
    /\ articles' = [articles EXCEPT ![syncing[s].id].stage = syncing[s].outcome]
    /\ SyncEnds(s)

\* UpdateExtInfo, of a row that is not deleted by now; ext_info is replaced by the
\* copy read, with the outcome in it.
RecordResult(s) ==
    LET a == syncing[s].id IN
    /\ syncing[s].pc = "write"
    /\ articles' = IF articles[a].row = "live"
                   THEN [articles EXCEPT ![a] = SetSyncState(@, syncing[s].outcome)]
                   ELSE articles
    /\ SyncEnds(s)

\* The update fails or the process dies; kq commits the offset in the first case.
ResultFails(s) ==
    /\ syncing[s].pc = "write"
    /\ SyncEnds(s)
    /\ UNCHANGED articles

SyncNext == \E s \in SyncConsumer : ReadResult(s) \/ RecordResult(s) \/ ResultFails(s)
=============================================================================
