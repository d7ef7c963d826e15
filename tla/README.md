# TLA+ models of Sea-Article

Sea-Article is a set of Go services around articles: authors write them, a
review publishes them, readers read them and get messages about them. This
directory models the parts whose correctness depends on the order of events,
checks the models with TLC and proves the properties that matter most with
TLAPS. `PROJECT.json` lists every run, property, mutant, finding and theorem,
and maps each definition to the lines of the source it stands for.

    tlc -workers 2 -config OutboxRelays.cfg MCOutboxRelay.tla
    tlapm OutboxRelayProofs.tla

## The system

| Part | State | Operations | Correct when |
|:--|:--|:--|:--|
| Outbox and relay (`article_sync_outbox.go`, `article_sync_outbox_sender.go`, `article.go`) | table `article_sync_outbox`; per process a batch and the pusher's queue; the Kafka topics | `CreateTx` in a service transaction; `SendPending` every tick: `FetchPending`, push, `MarkSent` or `MarkFailed`, `DeleteSent` | every committed event is in Kafka at least once before its row goes; order of first pushes; bounded retries |
| Article write handlers (`create_`, `update_`, `delete_article_logic.go`) | table `article`, MinIO objects | Create, Update, Delete; each reads, works on a copy and writes it with an event | nothing unaudited is published, deletion is final and announced, content goes with its article only |
| Review consumer (`article_consumer.go`) | Redis lock per article, position in Kafka | `Consume`: lock, read content, check status, audit, publish or reject | one review at a time, duplicates harmless, every review ends |
| Sync result consumer (`article_sync_result_consumer.go`) | `ext_info` of articles | `Consume` of the results of deletions | no late result brings a deleted article back |
| View counter (`view_counter.go`) | Redis delta keys and dirty set, `view_count`, per process a batch and an interval | `Incr`; `flushBatch`: pop, read, write, acknowledge | no view lost, none invented, every view written in the end |
| Article cache (`article_cache.go`, `local_ttl.go`) | local caches per process, Redis caches and nil markers, a pub/sub channel | get, load once, set, delete and broadcast, for articles and lists | an update is seen after a bounded time; lists are at most twice their time to live old |
| Reads and pagination (`list_articles_logic.go`, `article.go`) | cursors | Get, List, ListByCursor | a scan meets each unchanged article once |
| Http apis (`*/api/internal`) | none | a route per operation: token, blacklist or limiter, one rpc under a deadline, a business code | what the client is told is so; only authors change their articles |
| Rate limiter (article api) | token bucket per user in Redis | one script per request | never more than burst plus rate times the time elapsed |
| Conversations (message rpc) | conversations with a status and a pending sender, messages | send, list, mark read | a stranger sends one message before an answer; one conversation per pair |
| Notifications (message rpc) | notifications | send, broadcast, mark read | each user once per broadcast |
| Accounts and tokens (user, admin) | users, blacklisted tokens | register, update, delete, log in and out; admins ban, edit, reset | names unique, a ban and a log-out hold |
| Admins and invites (admin rpc) | administrators, invites | create an invite, come in by one | an invite is spent once |
| Security service | none | sanitize a text, judge an image, judge a batch | what was not judged does not pass |
| Upload, snowflake, logging | none, or a library's | | |

The parts meet in four places: the database (handlers, consumers, relays and
flushers of every process work on the same rows, mostly by reading a row and
writing it back later), Kafka (the relay writes, the consumers read, at least
once), Redis (locks, deltas, caches, buckets, blacklists) and MinIO (handlers
remove what consumers read). What is hard is therefore: copies that are out of
date when they are written back, messages delivered again, processes that die
between two of those stores, faults of one store that the code answers by going
on without it, and clocks and times to live that several processes read. The
hazards of `PROJECT.json` name the lines.

## Modules

| Module | Models | Kind |
|:--|:--|:--|
| `EventDelivery` | what the outbox promises: commit once, write at least once, forget only after that | abstract specification |
| `OutboxRelay`, `MCOutboxRelay` | the table, the relays, the pusher and crashes | component |
| `ArticleTypes` | article rows and what messages carry | data |
| `ArticleService` | Create, Update and Delete | component |
| `ReviewConsumer` | `Consume`, Redis' lock, redelivery, rebalance, crash | component |
| `SyncResultConsumer` | `handleDeleteResult`, its read and its write | component |
| `ArticlePipeline`, `MCArticlePipeline` | the four above and `EventDelivery` over one state | composition |
| `ViewCounter`, `MCViewCounter` | `Incr` and `flushBatch` | component |
| `ArticleCache`, `MCArticleCache` | `GetArticle` through `GetOrLoadDetail`, `DelDetail`, the subscriber | component |
| `ListCache` | `ListArticles` through `GetOrLoadList` | component |
| `ArticleListing` | `List` by offset, `ListByCursor` | component |
| `ArticleReads`, `MCArticleReads` | `ArticleCache`, `ListCache` and `ArticleListing` side by side | composition |
| `Conversation` | sending, listing and reading messages between two | component |
| `Notification` | notifications to one user and to all | component |
| `MessageService`, `MCMessageService` | `Conversation` and `Notification` side by side | composition |
| `UserAccounts` | users, tokens, the blacklist | component |
| `OneTimeInvite` | what an invite promises: it lets in one admin | abstract specification |
| `AdminInvites` | `CreateAdmin`, `CreateInviteCode`, `UpdateSelf`, statement by statement | component |
| `RateLimit` | the limiter's script, clocks and expiry | component |
| `Gateway` | the routes of the four apis in front of their rpcs | component |
| `Moderation` | the security service | component |
| `Access`, `MCAccess` | the last five components side by side | composition |
| `OutboxRelayProofs`, `ViewCounterProofs`, `ArticlePipelineProofs`, `RateLimitProofs` | theorems about the modules they are named after | proofs |
| `ArticleReadsProofs` | theorems about `ArticleCache`, `ListCache`, `ArticleListing` | proofs |
| `MessageServiceProofs` | theorems about `Conversation`, `Notification`, `MessageService` | proofs |
| `AccountProofs` | theorems about `UserAccounts`, `AdminInvites` | proofs |
| `AccessProofs` | theorems about `Gateway`, `Moderation`, `Access` | proofs |

Operators named `Wrong...` stand before the definition they are variants of.
They are plausible mistakes in the code; replacing the definition by the variant
must break the property that `PROJECT.json` names beside it.

`MessageService`, `Access` and `ArticleReads` put parts side by side that share
no row, no key and no call. Their variable `part` picks the one that works in a
behaviour: interleaving independent parts would multiply states and show nothing
else. In these modules a request may fail at any of its steps, in any number:
a failure only ends the request, so it needs no bound.

### OutboxRelay

An event is its position in the order of `created_at`. `outbox` has status and
`retry_count` of each row, `relay[r]` the step of `SendPending` in process `r`
and the rest of its batch, `buffer[r]` what go-queue's pusher has accepted and
not written, `written` the copies in Kafka, `attempts` the pushes (history).
Each statement that another process can get between is an action: the query,
each push, each mark, the purge. `BufferedPusher` chooses the pusher: `TRUE` is
the one `service_context.go:119-120` builds, which answers as soon as it has
queued the message; `FALSE` is a pusher that waits for the broker, for which the
relay's own logic can be judged. The age of a sent row is abstracted: any sent
row may be old enough to purge.

### ArticlePipeline

`articles` has row state, status, `publish_stage` and content path; `payload` is
the sequence of outbox rows ever inserted, `written` and `taken` the copies of
each in Kafka and those handed to a consumer, `forgotten` the purged rows. The
relay appears as `EventDelivery`, which `OutboxRelay` implements, so a message
comes any number of times up to `MaxCopies` and in any order. A handler is two
steps (three for Delete): the read, which takes the request's parameters and
makes the copy, and the transaction. A consumer is one step per call to Redis,
MinIO or the database. A result consumer reads a row and writes back its
`ext_info`, for any deletion event that was written, as late and as often as it
likes. Three facts of the code shape the results:

  - `UPDATE`s of GORM match live rows only and carry no condition on what was
    read, so a late write is lost on a deleted article and blind on a live one;
  - `event_key` is unique and `review_<id>` the same for every review of an
    article, so a second review cannot be asked for until the row is purged;
  - go-queue commits the offset whatever `Consume` returns, so only a crash or a
    rebalance brings a message back.

`AuditVerdicts` are the outcomes of `auditArticle`. In this build the language
model is commented out and `auditImage` answers FALSE, so "ad" is dead code that
the check keeps reachable, and "error" needs a missing client; both stay in the
model, "error" outside `pipeline_duplicates`.

### ViewCounter

`delta` and `dirty` are Redis, `db` is `view_count`, `flusher[f]` a position in
`flushBatch`: the ids popped and not finished, the current id and the delta read.
`Incr`'s pipeline is two steps, since a pipeline is not a transaction. The
histories count what the properties compare with: `views`, views written and
left in Redis (`recounted`), views gone with an expired key (`expired`), articles
viewed between a read and its ack (`overlapped`), articles two flushers have had
in hand at once (`shared`), for which a view may be written twice. Articles are
never deleted here; an update of a deleted article matches no row and its views
are dropped, which the model leaves out.

### ArticleCache, ListCache, ArticleListing

`ArticleCache` follows one article. `row` is the database, `redis` and
`nilMarker` the two keys, `local`, `flight`, `inbox` and `connected` what each
process has: its local copy, whether a singleflight call runs, the invalidations
not yet handled, the subscription. A copy is the version of the row it was read
from. A reader goes through `GetOrLoadDetail` one call at a time, twice through
`GetDetail` if it leads the flight; a writer, whose transaction is one step here,
through `DelDetail`. The histories name the three ways a copy can be out of date
without a fault: `late`, stored by a reader that had read the row before its
invalidation; `silent`, written by the review consumer, which tells no cache;
`created`, an article that appears while it is being read. Faults are errors of
Redis or of the database, a subscription that breaks, a process that dies.

A `Set` of the local cache is taken to be visible at once: ristretto queues it
and may drop it (`local_ttl.go:32`), which is a miss, as `LocalExpires` is.

`ListCache` follows one list through the same two levels, which nothing
invalidates: a copy is the time it was loaded at, and the question is how old an
answer can be. `ArticleListing` keeps no cache: a table of articles that come and
go between the pages of a scan, by offset or by the pair `(created_at, id)` of
the cursor.

### Conversation, Notification

`Conversation` has the rows of `conversations` and `conversation_messages` and
one record per request in flight: what it read, what it decided, what it has yet
to write. `SendChatMessage` reads and decides outside the transaction that
writes, so the read, the choice and the commit are steps of their own, and an
answer of a commit may be lost. Ids and times are taken when a message is
composed, so a history (`crossed`) names the conversations with two messages
under way at once. Paging through messages and previews are left out.
`Notification` sends to one user or to all of them, a page of users at a time,
while users register and are deleted.

### UserAccounts, AdminInvites

`UserAccounts` has users (name, status, deleted or not), the tokens that were
given out with their second of issue, and the blacklist with its expiry; users
and admins are told apart by whose secret signed the token. A request is its
checks and its statement. Two tokens of one user and one second are the same
string (`jwt.go:7-15` has seconds only), and the model has them so. Passwords,
e-mail and extra info are left out.

`AdminInvites` takes `CreateAdmin` apart into the statements of its transaction
under READ COMMITTED: `SELECT ... FOR UPDATE` waits for the row lock, unique
names are held by uncommitted inserts, a commit may succeed without its answer.
`OneTimeInvite` is one step, an invite spent for an admin.

### RateLimit

The clock counts in `1/Second` of a second, so that tokens, which the script
computes as `rate` times elapsed seconds, are exact. `Lags` are the clocks of the
api nodes, which the script trusts (`now` is an argument). A request is answered
by `EVALSHA`, or by `EVAL` when Redis does not know the script, and either may be
carried out late. `granted`, `late`, `losses` and `promised` are histories: what
was granted, by how much stamps that ran back came up again, how often a failover
lost the bucket, when the last refusal told the user to come again. `MaxLate`
bounds the second: from there on only the fastest clock is asked.

### Gateway, Moderation

`Gateway` has a record per route of the four apis: who may call it, what its rpc
may return and whether that did what it is for (`Rpc`), what the logic function
makes of each status, and what it does before and after; a request that
`httpx.Parse` does not understand ends before the logic. One request is followed
at a time; the point is what happens between its answer and the end of the rpc,
which goes on when a deadline has passed. The fields that a route copies into
its rpc are left out, and so are the names that are looked up for authors.

In `Moderation` a text is a sequence of kinds of characters: a letter, an accent,
the letter they make, blanks, a space only `TrimSpace` knows, an element that no
policy allows. What the language model says of a text or an image is any of its
outcomes, no answer included.

## Runs

States are distinct states; times are on two workers.

| Run | Shows | Bounds |
|:--|:--|:--|
| `outbox_relays` (127k, 55 s) | nothing marked sent is missing in Kafka, first pushes in order, retries at most `MaxRetry - 1` plus the number of relays, refinement of `EventDelivery`, every event is sent or exhausted | 2 events, 2 relays, batches of 1, 2 retries, 1 fault, any number of refused pushes |
| `outbox_buffered` (16k, 11 s) | with the configured pusher all is delivered without a fault | 2 events, 2 relays, 1 fault |
| `pipeline_safety` (1.05M, 86 s) | published means audited, deletion announced, content lost only by a fault | 1 article, 2 versions, 1 handler, 1 consumer, 2 events, 1 fault of any kind |
| `pipeline_authors` (0.89M, 88 s) | deletion is final, whatever outdated copies are written back | 1 article, 2 handlers, 1 consumer, 1 result consumer, 3 events, no faults |
| `pipeline_duplicates` (21k, 14 s) | the lock excludes; duplicates harmless; every review ends | 1 article, 3 consumers, 3 copies, 2 faults |
| `view_flushers` (0.21M, 87 s) | views add up, but for articles two flushers share; none is lost; every view is written, overlap and faults aside | 2 flushers, 2 articles, 2 views each, batches of 2, 2 faults of any kind |
| `cache_processes` (344k, 71 s) | copies out of date are being invalidated, late ones aside; "not found" is true; caches are fresh in the end | 2 processes, 1 reader, 1 writer, 2 versions, 1 fault of any kind |
| `article_reads` (3.35M, 90 s) | who waits in singleflight shares the answer; a list is younger than twice its time to live; a scan meets what stays, once | 1 process, 2 readers, 1 writer, 1 fault; lists: 2 processes, 2 requests, time to live 2; pages: 4 articles, 3 moments, pages of 2 |
| `message_service` (0.74M, 110 s) | a stranger sends one message; only an answer opens a conversation; the last message is the newest; who is told it can send can; a broadcast reaches each user once | 2 users, 1 admin, 2 requests at once, 3 messages; broadcast over 4 users, pages of 2 |
| `access` (1.65M, 150 s) | log-outs and bans hold; the limiter's grants and promises; an invite lets in one admin; the apis tell the truth; only authors change articles; sanitizing is stable; what was not judged does not pass | 2 users, 1 admin, 2 requests, tokens of 2 s, 3 seconds; 2 codes, 2 applicants, 3 names; nodes 0 and 1/3 s behind, rate and burst 2, 7/3 s, stamps 1/3 s late, 1 loss; one api request of any kind; texts of 3 characters, batches of 2 images |

The bounds are the smallest at which what they are about can happen. Two events
with batches of one make a batch that leaves a row out, and a later row that
overtakes it if the order is wrong; two relays are enough for a stale mark; two
retries make rows run out while another relay still holds them. One article is
enough for the pipeline because no property relates two articles and no step
but `Uploaded` looks at another one; two events are a review and the deletion,
or the second review, and a third one the withdrawal whose result comes late.
Two views of one article are one before and one after the read; two flushers
with two articles in a batch can share one article and not the other. Two
processes are one that updates and one that has to be told; two readers of one
process are one that leads and one that waits. Four articles in pages of two are
a scan of two pages with one article that comes or goes between them and a tie
in `created_at`. Two users, an admin and three messages are a first message, an
answer and a message that was composed before it. Two requests at once are all
that a check and its write can be separated by; with two codes and two names
they can meet on either. Seven thirds of a second reach past the two seconds of
the bucket's key, so it expires and is used again. Three characters are an
accent, what it belongs to and what stands between. Every kind of fault is in
some run, and the mutants show that the states in which the properties could
fail are reached.

The pipeline's configurations say `CHECK_DEADLOCK FALSE`: with its articles
settled and its events used up the bounded pipeline has nothing left to do. All
other runs check for deadlock.

### What the code does not keep

Two runs check a statement of the repository and TLC finds it violated; they are
the findings of `PROJECT.json`, with the quotations.

| Run | The statement | What happens |
|:--|:--|:--|
| `pipeline_withdrawn` | illegal states are refused | a withdrawn article is published by a write without a condition |
| `view_gap` | views between read and ack are kept | they are, but no longer marked dirty |

Other departures are what the properties' conditions are for. Dropping the
condition, or adding the fault to the configuration, shows each of them:

| Condition | Without it |
|:--|:--|
| `DeliveredUnlessFault`: no fault | the pusher answers before it delivers, so an event marked sent goes with the process's memory (README.md:54 promises the opposite) |
| `SettledOrExhausted`: or exhausted | a row with `MaxRetry` failures is never read again, and nothing handles dead letters |
| `LockExclusive`: both obtained the lock | a Redis error lets a review go on without it (README.md:66) |
| `DuplicatesHarmless`: FaultKinds without "minio" and "redis" | a duplicate that meets a MinIO error rejects a published article (README.md:70) |
| `ReviewConcludes`: or something failed | a consumer dies holding the lock, the redelivered message meets it and is dropped; or a database error is returned to go-queue, which commits the offset |
| `NoStrandedDelta`, with the faults "db" or "exit" | the dirty mark went with `SPopN`, so no later tick finds the delta (view_counter.go:126, :142) |
| `OnlyLateCopiesAreStale`: not late, not silent, no fault | a slow reader stores an old copy behind `DelDetail`; the review consumer deletes nothing from the caches; a process that reconnects misses invalidations: each leaves the old article for its time to live (README.md:102) |
| `FallThroughIsRare`: the article was there | a nil marker spares no query: `GetDetail` answers it like a miss, so the loader runs, and then `GetArticle` queries again (README.md:101 promises that absent articles do not reach the database) |
| `ListIsRecent`: twice the time to live | a list about to expire in Redis lives once more in a local cache; the jitter of README.md:100 is for articles only |
| `ScanMeetsAll`: stays, not tied, nothing before it comes or goes (by offset) | pages by offset repeat or skip articles; articles of one `created_at` have no order there |
| `GrantedWithinRate`: plus what late stamps and lost buckets give | a node whose clock runs behind moves the stamp back and the time in between is granted again (README.md:82 promises none) |
| `EachUserOnce`: nobody was deleted meanwhile | a deletion moves a user from a page not read to one that was |
| `LastIsNewest`: not crossed | two messages sent at once may leave the older one as the last |
| `LoggedOutStaysOut`: the check was made | when Redis does not answer, the request goes on; the article and message apis check no blacklist at all |
| `AnswersAreTrue`: but for `UserRowEnds` | a ban, an unban or a deletion whose statement failed is answered "user does not exist" (`admin.go:51-57`, `:103-109` look at the rows before the error) |
| `SanitizedIsStable`: no letter before an accent | an element dropped between the two leaves a text that is not in NFC |

Met on the way, and in the models as they are: `flushBatch` never returns a
database error, so the interval grows only when `SPopN` fails (README.md:115);
a ban or a deletion ends no session; a late result of a withdrawal overwrites
the `ext_info` of an article resubmitted since, and its version is not compared;
withdrawing a published article to REVIEWING commits no event; the api gives
`CreateArticle` a second and a client that tries again makes a second article;
an rpc that misses an article returns GORM's error as it is, so the "no such
article" of the api's Update and Delete comes from the read before it only; a
text whose ad check fails passes; and the e-mail column of users is unique while
the field is optional.

## Fairness

  - `OutboxRelay.Fairness`: the ticker calls `SendPending` again after every
    return (`article.go:111-120`), and the executor flushes its chunk on a timer.
    Weak fairness of each; no fairness of commits, crashes, or of the broker
    accepting anything.
  - `ArticlePipeline.Fairness`: goroutines that can go on do (handlers,
    consumers), every committed event is written once (proved of the outbox up
    to retries that run out: `SettledOrExhausted`), a key that has a time to live
    expires. Authors owe nothing.
  - `ViewCounter.Fairness`: a pipeline sent is executed, the ticker ticks.
  - `ArticleCache.Fairness`: requests and writers that have begun go on, a
    subscriber handles what has arrived (`article_cache.go:354`), copies expire.
    Nobody need come, and a connection need not come back.

`message_service`, `access` and `article_reads` check safety only: nothing there
must happen that a client does not ask for.

## Proofs

For every value of the constants that satisfies the assumptions, TLAPS checks:

| Theorem | States | Inductive invariant |
|:--|:--|:--|
| `OutboxRelayProofs!TypeCorrect` | `TypeOK` | itself |
| `NoSilentLossHolds` | `NoSilentLoss`, if the pusher waits | `DeliveryInv`: with it `PushedBeforeMark`, that a relay about to mark an event sent has written it. Alone, `NoSilentLoss` does not survive `MarkSent` |
| `OldestFirstHolds` | `OldestFirst`, either pusher | `OrderInv`: rows are inserted in order; rows marked have been tried; a batch is closed, that is, all that is older than one of its rows is in it or has been tried |
| `DeliveryRefinement` | `Spec => ImplementsDelivery`, if the pusher waits | `RefinementInv`, both and empty buffers; the steps map one by one, `CommittedCount` turns an insertion into an increment of the counter |
| `RetriesAreBounded` | `RetryOvershoot`, for a finite set of relays | `RetryInv`: the retries of a row and the relays that hold it together are at most `MaxRetry - 1` plus the number of relays. A relay fetches a row only while its retries are below `MaxRetry`, and gives it up with the one it adds |
| `ViewCounterProofs!TypeCorrect` | `TypeOK` | itself |
| `ConservationHolds` | `Conservation`, for any number of flushers | `ConservationInv`: with it `ReadIsThere`, that what a flusher has read of an article it shares with none is still in the delta key, so the script takes off exactly what was written |
| `NoViewIsLost` | `NothingLost` | `LossInv`, a ledger per article: what is written, waiting and expired covers the views and what flushers have written and not yet acknowledged. The last is counted as the size of a set of pairs, so that no sum over the flushers is needed |
| `PipelineTypes` | `TypeOK` of the pipeline | `TypeInv`: consumers work on committed events |
| `DeletionsAnnounced`, `DeletionIsFinal` | `DeletionAnnounced`, `DeletedIsFinal` | `DeletionInv`: the copy of a handler is of a row that was live (`CopiesAreLive`), so what it writes back never sets `deleted_at` |
| `NothingUnaudited` | `PublishedWasAudited` | `AuditInv`: the copy of a handler says PUBLISHED, and a consumer is about to publish, only if the article has passed an audit |
| `ContentIsLostByFaults` | `ContentLossNeedsAFault` | `ContentInv`: rows, copies and requests of two articles share no object (`NoSharedContent`), and without a fault only a handler that deletes an article has removed its content. `NoSharedContent` is inductive because a path is the article's: an upload takes one that neither an article nor a request under way has |
| `ReviewsExclude` | `LockExclusive`, if `~LockMayLapse` | `LockInv`: who holds a lock has its key set, and only who holds it deletes it |
| `DuplicatesAreHarmless` | `DuplicatesHarmless`, if `Quiet`: no authors, `~LockMayLapse`, no faults of MinIO or Redis | `QuietInv`: a consumer past `SetNX` has the lock, and one past its check of the status finds its article under review still when it writes |
| `ArticleReadsProofs!TypeCorrect` | `TypeOK` of `ArticleCache` | itself |
| `AnswersAreHonest`, `WaitersShare` | `NotFoundOnlyIfAbsent`, `FallThroughIsRare` | `Answers`: whoever is at work while the article is gone has noticed, a copy about to be stored is a copy, and a flight that returns with nothing found nothing, with nothing created since, or failed. Waiters know only what the leader knows, so the last part is what carries over to them |
| `CopiesAreInvalidated` | `OnlyLateCopiesAreStale` | `Copies`: with it, that all processes listen until something fails; without it `Publish` would leave one out |
| `ListIsRecentHolds` | `ListIsRecent` | `ListInv`: the age of a copy and what is left of its life are at most one time to live in Redis, two in a local cache, and the time it was in the hands of requests |
| `ScanMeetsAllHolds` | `ScanMeetsAll` | `ScanInv`: by cursor, what is before the cursor and stayed has been met, what is after it has not. By offset, an article not met has a rank at or past the offset while none goes, since ranks then only rise; one that was met has a rank below it while none comes |
| `RateTypeCorrect` | `RateTypeOK` | with `StampsArePast` |
| `GrantedWithinRateHolds`, `RetryAfterIsEnoughHolds` | `GrantedWithinRate`, `RetryAfterIsEnough` | `RateInv`: no stamp is ahead of the clock; a bucket's key lives as long as it takes to fill the bucket (`BucketIsTimed`), so its expiry gives nothing; `Budget`, tokens granted and tokens left together; `PromiseIsKept`, what will be in the bucket at the promised time |
| `ChatTypeCorrect` | `ChatTypeOK` | itself |
| `StrangerSendsOneHolds`, `OpenedByReplyHolds`, `LastIsNewestHolds`, `CanSendIsKeptHolds` | the properties named | `ChatInv`: messages belong to conversations of their senders; a copy that a request has read holds of the row still, or the row has been opened since (`CopiesHold`); who was told it can send can; messages sent in turn are in order |
| `EachUserOnceHolds` | `EachUserOnce` | `NoteInv`: a broadcast collects no user twice (`CollectsOnce`), none that stays is passed by a page (`NobodyIsPassed`), a call that is done has written what it collected |
| `ServiceTypeCorrect` | `TypeOK` of `MessageService` | those of its two parts |
| `AccountTypeCorrect`, `LoggedOutStaysOutHolds`, `StatusIsKeptHolds` | `AccountTypeOK`, the properties named | `AccountInv`: a token logged out is on the blacklist until it expires, and whoever was admitted had a token |
| `InviteTypeCorrect` | `InviteTypeOK` | itself |
| `InvitesRefinement` | `InviteSpec => ImplementsInvites` | `InviteInv`: two transactions never hold one invite or one name, an invite marked used was made, a request past its insert has its admin |
| `AnswersAreTrueHolds`, `ArticlesChangeByAuthorHolds` | `AnswersAreTrue`, `ArticlesChangeByAuthor` | `GateInv`: the rpc was asked for by somebody entitled to it, and an answer given while it still runs is one that promises nothing. That each route turns the ends of its rpc into a true answer is a lemma about the table of routes (`RoutesAreSound`) |
| `PassedWasSeenHolds` | `PassedWasSeen` | `BatchInv`: the answers so far are those of the images so far, the counters count them |
| `SanitizedIsStableHolds` | `SanitizedIsStable`, for texts of any length | `ModerationTypeOK`; the proof is about the four steps: each leaves its mark on a text (`Composed`, `Untagged`, `Narrow`, `Trimmed`), a text with its mark is left as it is, and the later steps keep the marks of the earlier ones, but for the elements that separate a letter from its accent |
| `AccessTypeCorrect` | `TypeOK` of `Access` | those of its five parts |

The assumptions are those of the modules (`OutboxAssumption`, `ViewAssumption`,
`PipelineAssumption`, `CacheAssumption`, `ListAssumption`, `ListingAssumption`,
`RateAssumption`, `ChatAssumption`, `NotificationAssumption`,
`AccountAssumption`, `InviteAssumption`, `ModerationAssumption`). Five theorems
have a hypothesis of their own, and each names what the property fails without:

  - `~BufferedPusher` (`NoSilentLossHolds`, `DeliveryRefinement`): with the
    buffering pusher a crash breaks both;
  - `IsFiniteSet(Relay)` (`RetriesAreBounded`): the bound is a number of relays;
  - `~LockMayLapse` (`ReviewsExclude`, and part of `Quiet`): a review that
    outlives the five minutes of its lease shares its article with another one;
  - `Quiet` (`DuplicatesAreHarmless`): an author may withdraw and resubmit an
    article, and a fault of MinIO or Redis makes a duplicate harmful. Events of
    articles that are created, redelivery, rebalances, crashes and faults of the
    database remain; `pipeline_duplicates` is a configuration of this kind.

Bounds such as `MaxFaults`, `MaxEvent`, `MaxViews` and `MaxVersion` are arbitrary
naturals there. The type invariants of the view counter and of the article cache
are proved and not run again.

Every safety property of a passing run is stated by a theorem. Only model-checked
is what must happen in the end: `SettledOrExhausted`, `DeliveredUnlessFault`,
`ReviewConcludes`, `CountedUnlessOverlap`, `EventuallyFresh`. Liveness under
fairness and `ENABLED` are outside what this prover does. So is induction over
data, which shapes the models: what the code does with loops over lists is stated
with sets of places and their sizes (`Rank` in the listing and of the characters
of a text), and where a proof needs an induction it takes the least counterexample
of a set of numbers.

## Not modelled, and why

  - The production path of the review consumer, commented out in the source, and
    with it the results of upserts in the sync result consumer: nothing sends
    the events they answer.
  - Snowflake ids: the generator is a library, and ids are taken to be distinct.
    They are while node ids are; a node id is a 16-bit hash of the service's
    name and process id, modulo 1024, which nothing keeps apart.
  - Lease times of the review lock: `LockMayLapse = FALSE` in every run says that
    reviews take less than the five minutes of the lock.
  - Logging, metrics, tracing, configuration, service wiring, and request and
    response types: no state that other parts read.
  - Fields that are only carried: titles, previews, passwords, e-mail.
  - Generated code. It is 10,026 of the 25,346 lines counted for Go, and a good
    part of the rest is the scaffolding of goctl (handlers, types, servers,
    clients), so the share of lines that definitions stand for stays low while
    the operations that change state are covered.

## Plan

What is left:

  1. The review consumer under a lease that runs out: what two overlapping
     reviews may do to an article, as a run of `ArticlePipeline` with
     `LockMayLapse`, and the part of `DuplicatesHarmless` that survives it.
  2. `DuplicatesHarmless` with authors at work: an article changes after its
     review only by a request of its author.
  3. That `OutboxRelay` and `ArticlePipeline` mean the same `EventDelivery`: the
     pipeline's relay as a refinement, and the pipeline's properties for events
     whose retries ran out.
