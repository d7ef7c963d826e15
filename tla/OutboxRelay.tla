---------------------------- MODULE OutboxRelay ----------------------------
(***************************************************************************)
(* The transactional outbox of the article service and the relay that      *)
(* empties it: the table article_sync_outbox                               *)
(* (rpc/internal/model/article_sync_outbox.go), SendPending                *)
(* (rpc/internal/mqs/article_sync_outbox_sender.go) and the ticker that    *)
(* calls it (rpc/article.go).  Every article rpc process runs one relay,   *)
(* all over the same table.                                                *)
(*                                                                         *)
(* An event is named by its position in the order of created_at.  What it  *)
(* carries is fixed when it is inserted and plays no part here; it is a    *)
(* variable of the modules that insert events.                             *)
(***************************************************************************)
EXTENDS Integers, FiniteSets

CONSTANTS
    MaxEvent,        \* bound: events ever inserted
    Relay,           \* the article rpc processes
    BatchSize,       \* ArticleSyncOutbox.BatchSize
    MaxRetry,        \* ArticleSyncOutbox.MaxRetry; 0 stands for no limit
    BufferedPusher,  \* TRUE: go-queue's default pusher, which queues in memory
                     \* FALSE: a pusher that waits for the broker
    MaxFaults        \* bound: crashes and failed database updates

ASSUME OutboxAssumption ==
    /\ MaxEvent \in Nat
    /\ BatchSize \in Nat \ {0}
    /\ MaxRetry \in Nat
    /\ BufferedPusher \in BOOLEAN
    /\ MaxFaults \in Nat

VARIABLES
    outbox,    \* the table: event -> status and retry_count
    relay,     \* per process: what SendPending is doing, on which rows
    buffer,    \* per process: messages accepted by the pusher, not yet written
    written,   \* copies of each event ever appended to its Kafka topic
    attempts,  \* history: calls of PushWithKey made for each event
    faults     \* faults that have happened

relayVars == <<relay, buffer, written, attempts>>
vars == <<outbox, relayVars, faults>>

Event == 1..MaxEvent

\* "absent": not inserted yet; "purged": deleted by DeleteSent.
RowStatus == {"absent", "pending", "sent", "failed", "purged"}

RelayPc == {"idle", "push", "markSent", "markFailed", "purge"}

Row == [status : RowStatus, retry : Nat]
RelayState == [pc : RelayPc, batch : SUBSET Event]

TypeOK ==
    /\ outbox \in [Event -> Row]
    /\ relay \in [Relay -> RelayState]
    /\ buffer \in [Relay -> SUBSET Event]
    /\ written \in [Event -> Nat]
    /\ attempts \in [Event -> Nat]
    /\ faults \in Nat

Init ==
    /\ outbox = [e \in Event |-> [status |-> "absent", retry |-> 0]]
    /\ relay = [r \in Relay |-> [pc |-> "idle", batch |-> {}]]
    /\ buffer = [r \in Relay |-> {}]
    /\ written = [e \in Event |-> 0]
    /\ attempts = [e \in Event |-> 0]
    /\ faults = 0

----------------------------------------------------------------------------
(* The table *)

Status(e) == outbox[e].status
Committed(e) == Status(e) # "absent"
Settled(e) == Status(e) \in {"sent", "purged"}

\* Rows FetchPending never returns again although they are not sent.
Exhausted(e) == MaxRetry > 0 /\ outbox[e].retry >= MaxRetry

\* CreateTx, the part of a transaction that inserts event e.
CreateTx(e) ==
    /\ ~Committed(e)
    /\ \A f \in Event : f < e => Committed(f)
    /\ outbox' = [outbox EXCEPT ![e] = [status |-> "pending", retry |-> 0]]

\* Wrong variants: failed rows forgotten, no retry limit.
WrongFetchPendingOnly(e) == Status(e) = "pending" /\ ~Exhausted(e)
WrongFetchForever(e) == Status(e) \in {"pending", "failed"}

\* The rows the WHERE clause of FetchPending selects.
Fetchable(e) == Status(e) \in {"pending", "failed"} /\ ~Exhausted(e)

\* Wrong variant: ORDER BY created_at DESC.
WrongNewestFirst(B) ==
    /\ \A e \in B : Fetchable(e)
    /\ \A e \in B, f \in Event \ B : Fetchable(f) => f < e
    /\ Cardinality(B) <= BatchSize

\* ORDER BY created_at LIMIT BatchSize
IsBatch(B) ==
    /\ \A e \in B : Fetchable(e)
    /\ \A e \in B, f \in Event \ B : Fetchable(f) => e < f
    /\ Cardinality(B) <= BatchSize
    /\ Cardinality(B) < BatchSize => \A f \in Event \ B : ~Fetchable(f)

\* Wrong variant: retry_count counted the wrong way.
WrongMarkRow(e, status, retries) ==
    outbox' = [outbox EXCEPT ![e] = [status |-> status, retry |-> @.retry - retries]]

\* No condition on the present status: the row may have been marked, or
\* deleted, by another relay since it was fetched.
MarkRow(e, status, retries) ==
    outbox' = IF Status(e) \in {"absent", "purged"} THEN outbox
              ELSE [outbox EXCEPT ![e] =
                       [status |-> status, retry |-> @.retry + retries]]

----------------------------------------------------------------------------
(* SendPending: the relay's loop over one batch, oldest event first *)

Current(r, e) ==
    /\ e \in relay[r].batch
    /\ \A f \in relay[r].batch : e <= f

Goto(r, pc) == relay' = [relay EXCEPT ![r].pc = pc]

\* The loop variable moves on; after the last event the purge follows.
NextEvent(r, e) ==
    relay' = [relay EXCEPT ![r] =
        [pc |-> IF @.batch = {e} THEN "purge" ELSE "push", batch |-> @.batch \ {e}]]

FetchPending(r) ==
    /\ relay[r].pc = "idle"
    /\ \E B \in SUBSET Event :
        /\ IsBatch(B)
        /\ relay' = [relay EXCEPT ![r] =
               [pc |-> IF B = {} THEN "purge" ELSE "push", batch |-> B]]
    /\ UNCHANGED <<outbox, buffer, written, attempts, faults>>

Attempt(r, e) ==
    /\ relay[r].pc = "push"
    /\ Current(r, e)
    /\ attempts' = [attempts EXCEPT ![e] = @ + 1]

\* PushWithKey returns nil: the broker has the message, or the pusher has
\* queued it.
PushAccepted(r, e) ==
    /\ Attempt(r, e)
    /\ IF BufferedPusher
       THEN /\ buffer' = [buffer EXCEPT ![r] = @ \cup {e}]
            /\ UNCHANGED written
       ELSE /\ written' = [written EXCEPT ![e] = @ + 1]
            /\ UNCHANGED buffer
    /\ Goto(r, "markSent")
    /\ UNCHANGED <<outbox, faults>>

\* PushWithKey returns an error.  A write that timed out may be in the topic
\* all the same.
PushFailed(r, e) ==
    /\ Attempt(r, e)
    /\ ~BufferedPusher
    /\ \E copies \in {0, 1} : written' = [written EXCEPT ![e] = @ + copies]
    /\ Goto(r, "markFailed")
    /\ UNCHANGED <<outbox, buffer, faults>>

MarkSent(r, e) ==
    /\ relay[r].pc = "markSent"
    /\ Current(r, e)
    /\ MarkRow(e, "sent", 0)
    /\ NextEvent(r, e)
    /\ UNCHANGED <<buffer, written, attempts, faults>>

\* Wrong variant: marked sent although the push failed.
WrongMarkFailed(r, e) ==
    /\ relay[r].pc = "markFailed"
    /\ Current(r, e)
    /\ MarkRow(e, "sent", 0)
    /\ NextEvent(r, e)
    /\ UNCHANGED <<buffer, written, attempts, faults>>

MarkFailed(r, e) ==
    /\ relay[r].pc = "markFailed"
    /\ Current(r, e)
    /\ MarkRow(e, "failed", 1)
    /\ NextEvent(r, e)
    /\ UNCHANGED <<buffer, written, attempts, faults>>

\* MarkSent or MarkFailed returns an error, which is logged: the row keeps the
\* status it had and the event is fetched, and pushed, again.
MarkError(r, e) ==
    /\ relay[r].pc \in {"markSent", "markFailed"}
    /\ Current(r, e)
    /\ faults < MaxFaults
    /\ faults' = faults + 1
    /\ NextEvent(r, e)
    /\ UNCHANGED <<outbox, buffer, written, attempts>>

\* Wrong variant: no condition on the status.
WrongDeleteSent(r) ==
    /\ relay[r].pc = "purge"
    /\ \E old \in SUBSET {e \in Event : Committed(e)} :
        outbox' = [e \in Event |-> IF e \in old
                                   THEN [outbox[e] EXCEPT !.status = "purged"]
                                   ELSE outbox[e]]
    /\ Goto(r, "idle")
    /\ UNCHANGED <<buffer, written, attempts, faults>>

\* DeleteSent.  Any sent row may be older than outboxRetention.
DeleteSent(r) ==
    /\ relay[r].pc = "purge"
    /\ \E old \in SUBSET {e \in Event : Status(e) = "sent"} :
        outbox' = [e \in Event |-> IF e \in old
                                   THEN [outbox[e] EXCEPT !.status = "purged"]
                                   ELSE outbox[e]]
    /\ Goto(r, "idle")
    /\ UNCHANGED <<buffer, written, attempts, faults>>

----------------------------------------------------------------------------
(* The pusher's own goroutine, and the process *)

\* The chunk executor writes what it holds ...
FlushChunk(r) ==
    /\ buffer[r] # {}
    /\ written' = [e \in Event |-> IF e \in buffer[r] THEN written[e] + 1 ELSE written[e]]
    /\ buffer' = [buffer EXCEPT ![r] = {}]
    /\ UNCHANGED <<outbox, relay, attempts, faults>>

\* ... or the write fails, which is logged.
FlushFailed(r) ==
    /\ buffer[r] # {}
    /\ faults < MaxFaults
    /\ faults' = faults + 1
    /\ buffer' = [buffer EXCEPT ![r] = {}]
    /\ UNCHANGED <<outbox, relay, written, attempts>>

\* The process dies and is started again.
Crash(r) ==
    /\ faults < MaxFaults
    /\ faults' = faults + 1
    /\ relay' = [relay EXCEPT ![r] = [pc |-> "idle", batch |-> {}]]
    /\ buffer' = [buffer EXCEPT ![r] = {}]
    /\ UNCHANGED <<outbox, written, attempts>>

SendPending(r) ==
    \/ FetchPending(r)
    \/ \E e \in Event :
        \/ PushAccepted(r, e)
        \/ PushFailed(r, e)
        \/ MarkSent(r, e)
        \/ MarkFailed(r, e)
        \/ MarkError(r, e)
    \/ DeleteSent(r)

RelayStep(r) == SendPending(r) \/ FlushChunk(r) \/ FlushFailed(r) \/ Crash(r)

\* A transaction of the service, reduced to the row it inserts.
Commit == \E e \in Event : CreateTx(e) /\ UNCHANGED <<relayVars, faults>>

Next == Commit \/ \E r \in Relay : RelayStep(r)

Spec == Init /\ [][Next]_vars

\* The ticker keeps calling SendPending and the executor keeps flushing;
\* transactions, faults and crashes happen or do not.
Fairness == \A r \in Relay : WF_vars(SendPending(r)) /\ WF_vars(FlushChunk(r))
LiveSpec == Spec /\ Fairness

----------------------------------------------------------------------------
(* Properties *)

\* An event the table counts as delivered (marked sent, or purged after that)
\* is in its Kafka topic: SendPending marks after the push, never before.
\* The relay's promise when the pusher waits for the broker.
NoSilentLoss == \A e \in Event : Settled(e) => written[e] > 0

\* No event is pushed for the first time before every older one has been
\* tried: the batch is the oldest rows, it is pushed in order, and rows the
\* query leaves out have been tried already.
OldestFirst ==
    \A e, f \in Event : attempts[e] > 0 /\ f < e => attempts[f] > 0

\* MaxRetry is checked when a row is fetched and not when it is marked, so
\* every relay that holds a stale row can add one failure, and no more.
RetryOvershoot ==
    MaxRetry > 0 =>
        \A e \in Event : outbox[e].retry <= MaxRetry - 1 + Cardinality(Relay)

\* Whatever the broker does, every committed event is marked sent or has used
\* up its retries: a failing row does not keep later rows from being tried.
SettledOrExhausted ==
    \A e \in Event : Committed(e) ~> (Settled(e) \/ Exhausted(e))

\* Every committed event reaches Kafka, or something failed.
DeliveredUnlessFault ==
    \A e \in Event : Committed(e) ~> (written[e] > 0 \/ faults > 0)

----------------------------------------------------------------------------
(* What the outbox promises: EventDelivery, under this mapping *)

CommittedEvents == {e \in Event : Committed(e)}
PurgedEvents == {e \in Event : Status(e) = "purged"}

Promise == INSTANCE EventDelivery WITH
    committed <- Cardinality(CommittedEvents),
    forgotten <- PurgedEvents

\* The table, the relays and a pusher that waits for the broker implement
\* at-least-once delivery: a row disappears only after its event is in Kafka.
ImplementsDelivery == Promise!Spec
=============================================================================
