--------------------------- MODULE ReviewConsumer ---------------------------
(***************************************************************************)
(* The consumers of article-creation-topic: ArticleConsumer.Consume        *)
(* (rpc/internal/mqs/article_consumer.go), one step per call to Redis,     *)
(* MinIO, the security service or the database, so that consumers, authors *)
(* and crashes interleave between any two of them.                         *)
(*                                                                         *)
(* The module owns lock, consumer and taken.  It shares the articles, the  *)
(* content objects and the topic (payload, written) with the modules that  *)
(* write them; ArticlePipeline puts them together.                         *)
(***************************************************************************)
EXTENDS Integers, Sequences, FiniteSets, ArticleTypes

CONSTANTS
    Article,
    Consumer,       \* the goroutines that run Consume, over all processes
    AuditVerdicts,  \* what auditArticle can answer: "clean", "ad", "error"
    LockMayLapse,   \* TRUE: a review can take longer than the lock's 5 minutes
    FaultKinds,     \* the faults considered
    MaxFaults       \* bound: how many of them happen

VARIABLES
    articles,  \* the table: article -> row
    objects,   \* the content objects MinIO holds
    payload,   \* the committed events, in order of commit
    written,   \* copies of each event in its topic
    taken,     \* copies of each event handed to a consumer for good
    lock,      \* is the Redis key lock:article_review:<id> set
    consumer,  \* what each consumer is doing
    audited,   \* history: contents of each article that passed the audit
    faults

reviewVars == <<taken, lock, consumer, audited>>

\* The steps of Consume; "unlock" is the deferred Del of the lock key.
ConsumerPc == {"idle", "lock", "read", "rejectFind", "rejectWrite", "find",
               "stage", "audit", "publish", "unlock"}

\* copy: the row FindOne returned, as Consume has changed it since.
Idle == [pc |-> "idle", event |-> 0, locked |-> FALSE, copy |-> NoRow]

ReviewTypeOK ==
    /\ taken \in [DOMAIN written -> Nat]
    /\ lock \in [Article -> BOOLEAN]
    /\ consumer \in [Consumer -> [pc : ConsumerPc, event : {0} \cup DOMAIN written,
                                  locked : BOOLEAN, copy : ArticleRow]]
    /\ audited \in [Article -> SUBSET Path]

ReviewInit ==
    /\ taken = [e \in DOMAIN written |-> 0]
    /\ lock = [a \in Article |-> FALSE]
    /\ consumer = [c \in Consumer |-> Idle]
    /\ audited = [a \in Article |-> {}]

----------------------------------------------------------------------------
At(c, pc) == consumer[c].pc = pc
Message(c) == payload[consumer[c].event]
Subject(c) == Message(c).article

Goto(c, pc) == consumer' = [consumer EXCEPT ![c].pc = pc]

\* return: through the deferred Del when the lock was taken.
Return(c) ==
    IF consumer[c].locked THEN Goto(c, "unlock")
    ELSE consumer' = [consumer EXCEPT ![c] = Idle]

Fault(kind) ==
    /\ kind \in FaultKinds
    /\ faults < MaxFaults
    /\ faults' = faults + 1

\* UPDATE ... WHERE id = ? AND deleted_at IS NULL, of the columns given.  No
\* condition on what the columns held: FindOne's copy may be out of date.
UpdateStatusAndExtInfo(a, copy) ==
    articles' = IF articles[a].row = "live"
                THEN [articles EXCEPT ![a].status = copy.status, ![a].stage = copy.stage]
                ELSE articles
UpdateExtInfo(a, copy) ==
    articles' = IF articles[a].row = "live"
                THEN [articles EXCEPT ![a].stage = copy.stage]
                ELSE articles

----------------------------------------------------------------------------
\* kq hands a message to a free goroutine.
Deliver(c) ==
    /\ At(c, "idle")
    /\ \E e \in DOMAIN payload :
        /\ payload[e].type = "review"
        /\ taken[e] < written[e]
        /\ taken' = [taken EXCEPT ![e] = @ + 1]
        /\ consumer' = [consumer EXCEPT ![c] = [Idle EXCEPT !.pc = "lock", !.event = e]]
    /\ UNCHANGED <<articles, objects, payload, written, lock, audited, faults>>

\* SetNX answers TRUE: go on, and delete the key on return.
Busy(c) == lock[Subject(c)]
Lock(c) ==
    /\ At(c, "lock")
    /\ ~Busy(c)
    /\ lock' = [lock EXCEPT ![Subject(c)] = TRUE]
    /\ consumer' = [consumer EXCEPT ![c].pc = "read", ![c].locked = TRUE]
    /\ UNCHANGED <<articles, objects, payload, written, taken, audited, faults>>

\* Wrong variant: the Del is deferred before the answer is looked at.
WrongLockRefused(c) ==
    /\ At(c, "lock")
    /\ Busy(c)
    /\ Goto(c, "unlock")
    /\ UNCHANGED <<articles, objects, payload, written, taken, lock, audited, faults>>

\* SetNX answers FALSE: the message is dropped, its offset committed.
LockRefused(c) ==
    /\ At(c, "lock")
    /\ Busy(c)
    /\ consumer' = [consumer EXCEPT ![c] = Idle]
    /\ UNCHANGED <<articles, objects, payload, written, taken, lock, audited, faults>>

\* SetNX returns an error, whether or not Redis has set the key: go on, and
\* leave the key alone on return.
LockError(c) ==
    /\ At(c, "lock")
    /\ Fault("redis")
    /\ \E set \in BOOLEAN : lock' = [lock EXCEPT ![Subject(c)] = @ \/ set]
    /\ Goto(c, "read")
    /\ UNCHANGED <<articles, objects, payload, written, taken, audited>>

\* GetObject and ReadAll.
ReadContent(c) ==
    /\ At(c, "read")
    /\ Goto(c, IF Message(c).path \in objects THEN "find" ELSE "rejectFind")
    /\ UNCHANGED <<articles, objects, payload, written, taken, lock, audited, faults>>

\* MinIO fails although the object is there.
ReadError(c) ==
    /\ At(c, "read")
    /\ Fault("minio")
    /\ Goto(c, "rejectFind")
    /\ UNCHANGED <<articles, objects, payload, written, taken, lock, audited>>

\* markArticleRejected: FindOne, then the update; the status found does not matter.
RejectFind(c) ==
    /\ At(c, "rejectFind")
    /\ LET found == articles[Subject(c)] IN
        IF found.row = "live"
        THEN consumer' = [consumer EXCEPT ![c].pc = "rejectWrite", ![c].copy = found]
        ELSE Return(c)
    /\ UNCHANGED <<articles, objects, payload, written, taken, lock, audited, faults>>

\* Also the rejection at the end of auditArticle.
RejectWrite(c) ==
    /\ At(c, "rejectWrite")
    /\ UpdateStatusAndExtInfo(Subject(c),
           SetSyncState([consumer[c].copy EXCEPT !.status = "REJECTED"], "rejected"))
    /\ Return(c)
    /\ UNCHANGED <<objects, payload, written, taken, lock, audited, faults>>

\* Wrong variant: the status is not checked.
WrongFind(c) ==
    /\ At(c, "find")
    /\ LET found == articles[Subject(c)] IN
        IF found.row = "live"
        THEN consumer' = [consumer EXCEPT ![c].pc = "stage", ![c].copy =
                             SetSyncState(found, "security_checking")]
        ELSE Return(c)
    /\ UNCHANGED <<articles, objects, payload, written, taken, lock, audited, faults>>

\* FindOne, and the check of the status it found.
Find(c) ==
    /\ At(c, "find")
    /\ LET found == articles[Subject(c)] IN
        IF found.row = "live" /\ found.status = "REVIEWING"
        THEN consumer' = [consumer EXCEPT ![c].pc = "stage", ![c].copy =
                             SetSyncState(found, "security_checking")]
        ELSE Return(c)
    /\ UNCHANGED <<articles, objects, payload, written, taken, lock, audited, faults>>

\* Wrong variant: straight on to publication.
WrongStage(c) ==
    /\ At(c, "stage")
    /\ UpdateExtInfo(Subject(c), consumer[c].copy)
    /\ Goto(c, "publish")
    /\ UNCHANGED <<objects, payload, written, taken, lock, audited, faults>>

Stage(c) ==
    /\ At(c, "stage")
    /\ UpdateExtInfo(Subject(c), consumer[c].copy)
    /\ Goto(c, "audit")
    /\ UNCHANGED <<objects, payload, written, taken, lock, audited, faults>>

\* auditArticle.
Audit(c) ==
    /\ At(c, "audit")
    /\ \E verdict \in AuditVerdicts :
        \/ /\ verdict = "clean"
           /\ audited' = [audited EXCEPT ![Subject(c)] = @ \cup {Message(c).path}]
           /\ Goto(c, "publish")
        \/ /\ verdict = "ad"
           /\ Goto(c, "rejectWrite")
           /\ UNCHANGED audited
        \/ /\ verdict = "error"
           /\ Return(c)
           /\ UNCHANGED audited
    /\ UNCHANGED <<articles, objects, payload, written, taken, lock, faults>>

\* Wrong variant: ext_info is written and the status is not.
WrongPublish(c) ==
    /\ At(c, "publish")
    /\ UpdateExtInfo(Subject(c), SetSyncState(consumer[c].copy, "published"))
    /\ Return(c)
    /\ UNCHANGED <<objects, payload, written, taken, lock, audited, faults>>

\* The development path that follows the audit.
Publish(c) ==
    /\ At(c, "publish")
    /\ UpdateStatusAndExtInfo(Subject(c),
           SetSyncState([consumer[c].copy EXCEPT !.status = "PUBLISHED"], "published"))
    /\ Return(c)
    /\ UNCHANGED <<objects, payload, written, taken, lock, audited, faults>>

\* A database call or the event id fails: Consume returns, and kq commits the
\* offset whatever it returned.
DbError(c) ==
    /\ consumer[c].pc \in {"rejectFind", "rejectWrite", "find", "stage", "publish"}
    /\ Fault("db")
    /\ Return(c)
    /\ UNCHANGED <<articles, objects, payload, written, taken, lock, audited>>

\* The deferred Del.  The key holds no owner: whoever set it, it is gone.
Unlock(c) ==
    /\ At(c, "unlock")
    /\ lock' = [lock EXCEPT ![Subject(c)] = FALSE]
    /\ consumer' = [consumer EXCEPT ![c] = Idle]
    /\ UNCHANGED <<articles, objects, payload, written, taken, audited, faults>>

\* Del fails: the key stays until it expires.
UnlockError(c) ==
    /\ At(c, "unlock")
    /\ Fault("redis")
    /\ consumer' = [consumer EXCEPT ![c] = Idle]
    /\ UNCHANGED <<articles, objects, payload, written, taken, lock, audited>>

----------------------------------------------------------------------------
(* Kafka, Redis and the processes *)

\* A message whose offset is not committed is delivered again.
Redelivered(e) == taken' = [taken EXCEPT ![e] = IF @ = 0 THEN 0 ELSE @ - 1]

\* The process dies and nothing is unlocked.
Crash(c) ==
    /\ ~At(c, "idle")
    /\ Fault("crash")
    /\ Redelivered(consumer[c].event)
    /\ consumer' = [consumer EXCEPT ![c] = Idle]
    /\ UNCHANGED <<articles, objects, payload, written, lock, audited>>

\* A rebalance hands the message of a consumer still at work to another one.
Rebalance(c) ==
    /\ ~At(c, "idle")
    /\ Fault("rebalance")
    /\ Redelivered(consumer[c].event)
    /\ UNCHANGED <<articles, objects, payload, written, lock, consumer, audited>>

Holds(c, a) == consumer[c].locked /\ Subject(c) = a

\* The lock's time to live runs out.
LockExpires(a) ==
    /\ lock[a]
    /\ LockMayLapse \/ \A c \in Consumer : ~Holds(c, a)
    /\ lock' = [lock EXCEPT ![a] = FALSE]
    /\ UNCHANGED <<articles, objects, payload, written, taken, consumer, audited, faults>>

ConsumeStep(c) ==
    \/ Lock(c) \/ LockRefused(c)
    \/ ReadContent(c) \/ RejectFind(c) \/ RejectWrite(c)
    \/ Find(c) \/ Stage(c) \/ Audit(c) \/ Publish(c) \/ Unlock(c)

ReviewFault(c) ==
    \/ LockError(c) \/ ReadError(c) \/ DbError(c) \/ UnlockError(c)
    \/ Crash(c) \/ Rebalance(c)

ReviewNext ==
    \/ \E c \in Consumer : Deliver(c) \/ ConsumeStep(c) \/ ReviewFault(c)
    \/ \E a \in Article : LockExpires(a)

----------------------------------------------------------------------------
\* Two consumers that both obtained the lock never review the same article at
\* the same time (article_consumer.go:46-56), however often the message is
\* delivered and whoever crashes, as long as a review outlives no lease.
LockExclusive ==
    \A c, d \in Consumer :
        c # d /\ consumer[c].locked /\ consumer[d].locked => Subject(c) # Subject(d)
=============================================================================
