-------------------------- MODULE ArticlePipeline --------------------------
(***************************************************************************)
(* The publication pipeline of the article service: its handlers, the      *)
(* outbox, the review consumers and the consumers of sync results, over    *)
(* one database, one MinIO, one Redis and one Kafka, as rpc/article.go     *)
(* starts them in every process.                                           *)
(* The outbox and its relays appear as the promise they keep,              *)
(* EventDelivery, which OutboxRelay is shown to implement.                 *)
(*                                                                         *)
(* A crash of a process is the crash of each of its goroutines in turn.    *)
(***************************************************************************)
EXTENDS Integers, Sequences, FiniteSets

CONSTANTS
    Article, Path,
    Request, RequestedStatuses,             \* ArticleService
    MaxEvent,                               \* EventDelivery
    Consumer, AuditVerdicts, LockMayLapse,  \* ReviewConsumer
    SyncConsumer,                           \* SyncResultConsumer
    FaultKinds,                             \* the faults considered
    MaxCopies,                              \* bound: copies of an event in Kafka
    MaxFaults                               \* bound: faults of all parts together

ASSUME PipelineAssumption ==
    /\ Article # {} /\ Path # {}
    /\ RequestedStatuses \subseteq
         {"UNSPECIFIED", "DRAFT", "PUBLISHED", "REVIEWING", "REJECTED", "DELETED"}
    /\ AuditVerdicts \subseteq {"clean", "ad", "error"}
    /\ LockMayLapse \in BOOLEAN
    /\ FaultKinds \subseteq {"redis", "minio", "db", "crash", "rebalance", "request"}
    /\ MaxEvent \in Nat /\ MaxCopies \in Nat /\ MaxFaults \in Nat

VARIABLES
    articles, objects,         \* PostgreSQL and MinIO
    payload, forgotten,        \* the outbox
    written, taken,            \* Kafka
    request,                   \* the handlers
    lock, consumer, audited,   \* the review consumers
    syncing,                   \* the consumers of sync results
    faults

Svc == INSTANCE ArticleService
Evt == INSTANCE EventDelivery WITH committed <- Len(payload)
Rev == INSTANCE ReviewConsumer
Res == INSTANCE SyncResultConsumer

reviewVars == <<taken, lock, consumer, audited>>
vars == <<articles, objects, payload, forgotten, written, request, reviewVars,
          syncing, faults>>

TypeOK ==
    /\ Svc!ServiceTypeOK
    /\ Rev!ReviewTypeOK
    /\ Res!SyncTypeOK
    /\ written \in [Evt!Event -> 0..MaxCopies]
    /\ forgotten \subseteq DOMAIN payload
    /\ faults \in 0..MaxFaults

Init == Svc!ServiceInit /\ Evt!Init /\ Rev!ReviewInit /\ Res!SyncInit /\ faults = 0

ServiceStep == Svc!ServiceNext /\ UNCHANGED <<written, reviewVars, syncing>>

\* A relay writes an event, again when it could not mark it sent; DeleteSent
\* removes rows of events written.
RelayWrite(e) ==
    /\ written[e] < MaxCopies
    /\ UNCHANGED <<articles, objects, payload, request, reviewVars, syncing, faults>>
    /\ Evt!Write({e})

RelayForget(e) ==
    /\ UNCHANGED <<articles, objects, payload, request, reviewVars, syncing, faults>>
    /\ e \notin forgotten
    /\ Evt!Forget({e})

ReviewStep == Rev!ReviewNext /\ UNCHANGED <<forgotten, request, syncing>>

SyncStep ==
    /\ Res!SyncNext
    /\ UNCHANGED <<objects, payload, forgotten, written, request, reviewVars, faults>>

Next ==
    \/ ServiceStep
    \/ \E e \in Evt!Event : RelayWrite(e) \/ RelayForget(e)
    \/ ReviewStep
    \/ SyncStep

Spec == Init /\ [][Next]_vars

\* Handlers and consumers that can go on do go on, every committed event is
\* written once at least (OutboxRelay), and a lock nobody deletes expires.
\* Nothing obliges authors, and faults need not happen.
Fairness ==
    /\ \A q \in Request :
        WF_vars(Svc!HandlerStep(q) /\ UNCHANGED <<written, reviewVars, syncing>>)
    /\ \A e \in Evt!Event : WF_vars(written[e] = 0 /\ RelayWrite(e))
    /\ \A c \in Consumer :
        WF_vars((Rev!Deliver(c) \/ Rev!ConsumeStep(c)) /\ UNCHANGED <<forgotten, request, syncing>>)
    /\ \A a \in Article : WF_vars(Rev!LockExpires(a) /\ UNCHANGED <<forgotten, request, syncing>>)
LiveSpec == Spec /\ Fairness

----------------------------------------------------------------------------
Reviewing(a) == articles[a].row = "live" /\ articles[a].status = "REVIEWING"

\* No article is public unless some version of it has passed the audit:
\* neither an author's request nor a write of an outdated copy, by a handler
\* or a consumer, publishes an article that was never reviewed.
PublishedWasAudited ==
    \A a \in Article :
        articles[a].row = "live" /\ articles[a].status = "PUBLISHED" => audited[a] # {}

\* The three invariants of the parts, over the whole pipeline.
LockExclusive == Rev!LockExclusive
DeletionAnnounced == Svc!DeletionAnnounced
ContentLossNeedsAFault == Svc!ContentLossNeedsAFault
DeletedIsFinal == Svc!DeletedIsFinal

\* README.md:70, "no duplicate message makes dirty data": without requests of
\* its author, what a review has concluded no further delivery changes
\* (as long as MinIO and Redis answer).
Concluded(a) == articles[a].row = "live" /\ articles[a].status \in {"PUBLISHED", "REJECTED"}
DuplicatesHarmless ==
    [][\A a \in Article : Concluded(a) => articles'[a] = articles[a]]_articles

\* README.md:67, the state check, and article_consumer.go:83, "review skipped
\* because status changed": only an article under review gets published.
OnlyReviewingIsPublished ==
    [][\A a \in Article :
        /\ articles[a].row = "live" /\ articles[a].status # "PUBLISHED"
        /\ articles'[a].status = "PUBLISHED"
        => articles[a].status = "REVIEWING"]_articles

\* A review ends: an article under review is published or rejected in the end,
\* however often its message is written, or something failed.
ReviewConcludes == \A a \in Article : Reviewing(a) ~> (~Reviewing(a) \/ faults > 0)
=============================================================================
