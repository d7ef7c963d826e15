---------------------------- MODULE ArticleTypes ----------------------------
(***************************************************************************)
(* The article row, as far as the publication pipeline tells rows apart:   *)
(* its status, the publish_stage kept in ext_info, the path of its content *)
(* object, and whether the row is there (rpc/internal/model/article.go,    *)
(* rpc/internal/mqs/article_sync_types.go).                                *)
(***************************************************************************)

CONSTANT Path  \* names of content objects

ArticleStatus == {"DRAFT", "PUBLISHED", "REVIEWING", "REJECTED", "DELETED"}

\* publish_stage; the other keys that SetSyncState writes go with it.
PublishStage == {"queued", "security_checking", "published", "rejected", "source_only",
                 "delete_failed"}

\* "deleted": soft-deleted, deleted_at is set.
RowState == {"absent", "live", "deleted"}

ArticleRow ==
    [row : RowState, status : ArticleStatus, stage : PublishStage, content : Path]

NoRow == [row |-> "absent", status |-> "REVIEWING", stage |-> "queued",
          content |-> CHOOSE p \in Path : TRUE]

\* What an outbox row carries: EventType, Op, AggregateID and ContentPath.
EventType == {"review", "delete"}

ReviewMessage(a, path) == [type |-> "review", article |-> a, path |-> path]
DeleteEvent(a, path) == [type |-> "delete", article |-> a, path |-> path]

SetSyncState(article, stage) == [article EXCEPT !.stage = stage]
=============================================================================
