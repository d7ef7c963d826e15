------------------------- MODULE OutboxRelayProofs -------------------------
(***************************************************************************)
(* Proofs about OutboxRelay, for any number of events, relays and faults,  *)
(* any batch size and any retry limit.                                     *)
(***************************************************************************)
EXTENDS OutboxRelay, FiniteSetTheorems, TLAPS

----------------------------------------------------------------------------
(* What the steps of the loop do to the relay and to the table *)

\* Goto changes the step of one relay and keeps its batch.
LEMMA GotoLemma ==
  ASSUME TypeOK, NEW r \in Relay, NEW pc \in RelayPc, Goto(r, pc)
  PROVE  /\ relay' \in [Relay -> RelayState]
         /\ relay'[r] = [pc |-> pc, batch |-> relay[r].batch]
         /\ \A s \in Relay : s # r => relay'[s] = relay[s]
<1>1. relay \in [Relay -> RelayState] /\ relay[r] \in RelayState
  BY DEF TypeOK
<1>2. [relay[r] EXCEPT !.pc = pc] = [pc |-> pc, batch |-> relay[r].batch]
  BY <1>1 DEF RelayState
<1>3. [pc |-> pc, batch |-> relay[r].batch] \in RelayState
  BY <1>1 DEF RelayState
<1>4. relay' = [relay EXCEPT ![r] = [pc |-> pc, batch |-> relay[r].batch]]
  BY <1>2 DEF Goto
<1> QED
  BY <1>1, <1>3, <1>4

\* NextEvent takes the current event out of the batch.
LEMMA NextEventLemma ==
  ASSUME TypeOK, NEW r \in Relay, NEW e \in Event, NextEvent(r, e)
  PROVE  /\ relay' \in [Relay -> RelayState]
         /\ relay'[r].pc \in {"purge", "push"}
         /\ relay'[r].batch = relay[r].batch \ {e}
         /\ \A s \in Relay : s # r => relay'[s] = relay[s]
<1> DEFINE next == [pc |-> IF relay[r].batch = {e} THEN "purge" ELSE "push",
                    batch |-> relay[r].batch \ {e}]
<1>1. relay \in [Relay -> RelayState] /\ relay[r] \in RelayState
  BY DEF TypeOK
<1>2. next \in RelayState
  BY <1>1 DEF RelayState, RelayPc
<1>3. relay' = [relay EXCEPT ![r] = next]
  BY DEF NextEvent
<1> QED
  BY <1>1, <1>2, <1>3

\* FetchPending starts from a batch of rows that may be fetched.
LEMMA FetchLemma ==
  ASSUME TypeOK, NEW r \in Relay, FetchPending(r)
  PROVE  /\ relay' \in [Relay -> RelayState]
         /\ relay'[r].pc \in {"purge", "push"}
         /\ relay'[r].batch \in SUBSET Event
         /\ IsBatch(relay'[r].batch)
         /\ \A s \in Relay : s # r => relay'[s] = relay[s]
<1>1. PICK B \in SUBSET Event :
        /\ IsBatch(B)
        /\ relay' = [relay EXCEPT ![r] =
               [pc |-> IF B = {} THEN "purge" ELSE "push", batch |-> B]]
  BY DEF FetchPending
<1> DEFINE next == [pc |-> IF B = {} THEN "purge" ELSE "push", batch |-> B]
<1>2. relay \in [Relay -> RelayState]
  BY DEF TypeOK
<1>3. next \in RelayState
  BY DEF RelayState, RelayPc
<1>4. relay'[r] = next
  BY <1>1, <1>2
<1> QED
  BY <1>1, <1>2, <1>3, <1>4

\* MarkRow sets the status of one row, of a row that is there.
LEMMA MarkRowLemma ==
  ASSUME TypeOK, NEW e \in Event, NEW status \in {"sent", "failed"},
         NEW retries \in Nat, MarkRow(e, status, retries)
  PROVE  /\ outbox' \in [Event -> Row]
         /\ \A f \in Event \ {e} : outbox'[f] = outbox[f]
         /\ Status(e) \in {"absent", "purged"} => outbox'[e] = outbox[e]
         /\ Status(e) \notin {"absent", "purged"} =>
              outbox'[e] = [status |-> status, retry |-> outbox[e].retry + retries]
         /\ Committed(e)' <=> Committed(e)
<1>1. outbox \in [Event -> Row] /\ outbox[e] \in Row
  BY DEF TypeOK
<1> DEFINE row == [status |-> status, retry |-> outbox[e].retry + retries]
<1>2. row \in Row
  BY <1>1 DEF Row, RowStatus
<1>3. CASE Status(e) \in {"absent", "purged"}
  BY <1>1, <1>3 DEF MarkRow, Committed, Status
<1>4. CASE Status(e) \notin {"absent", "purged"}
  <2>1. outbox' = [outbox EXCEPT ![e] = row]
    BY <1>4 DEF MarkRow
  <2> QED
    BY <1>1, <1>2, <1>4, <2>1 DEF Committed, Status
<1> QED
  BY <1>3, <1>4

\* DeleteSent changes rows marked sent, and only their status.
LEMMA PurgeLemma ==
  ASSUME TypeOK, NEW r \in Relay, DeleteSent(r)
  PROVE  /\ outbox' \in [Event -> Row]
         /\ \A e \in Event :
              \/ outbox'[e] = outbox[e]
              \/ /\ Status(e) = "sent"
                 /\ outbox'[e].status = "purged"
                 /\ outbox'[e].retry = outbox[e].retry
<1>1. PICK old \in SUBSET {e \in Event : Status(e) = "sent"} :
        outbox' = [e \in Event |-> IF e \in old
                                   THEN [outbox[e] EXCEPT !.status = "purged"]
                                   ELSE outbox[e]]
  BY DEF DeleteSent
<1>2. ASSUME NEW e \in Event
      PROVE  /\ outbox[e] \in Row
             /\ [outbox[e] EXCEPT !.status = "purged"]
                   = [status |-> "purged", retry |-> outbox[e].retry]
             /\ [status |-> "purged", retry |-> outbox[e].retry] \in Row
  BY DEF TypeOK, Row, RowStatus
<1> QED
  BY <1>1, <1>2

\* CreateTx inserts one pending row.
LEMMA CreateTxLemma ==
  ASSUME TypeOK, NEW e \in Event, CreateTx(e)
  PROVE  /\ outbox' \in [Event -> Row]
         /\ outbox'[e] = [status |-> "pending", retry |-> 0]
         /\ \A f \in Event \ {e} : outbox'[f] = outbox[f]
<1>1. [status |-> "pending", retry |-> 0] \in Row
  BY DEF Row, RowStatus
<1> QED
  BY <1>1 DEF TypeOK, CreateTx

\* A push is an attempt at the current event alone.
LEMMA AttemptLemma ==
  ASSUME TypeOK, NEW r \in Relay, NEW e \in Event, Attempt(r, e)
  PROVE  /\ attempts' \in [Event -> Nat]
         /\ attempts'[e] = attempts[e] + 1
         /\ \A f \in Event \ {e} : attempts'[f] = attempts[f]
BY DEF TypeOK, Attempt

\* A crash leaves the process idle, with an empty batch.
LEMMA CrashLemma ==
  ASSUME TypeOK, NEW r \in Relay, Crash(r)
  PROVE  /\ relay' \in [Relay -> RelayState]
         /\ relay'[r] = [pc |-> "idle", batch |-> {}]
         /\ \A s \in Relay : s # r => relay'[s] = relay[s]
<1>1. [pc |-> "idle", batch |-> {}] \in RelayState
  BY DEF RelayState, RelayPc
<1> QED
  BY <1>1 DEF TypeOK, Crash

----------------------------------------------------------------------------
\* The table, the relays and the counters keep their types.
LEMMA TypeStep ==
  ASSUME TypeOK, [Next]_vars
  PROVE  TypeOK'
<1>1. ASSUME NEW e \in Event, CreateTx(e), UNCHANGED <<relayVars, faults>>
      PROVE  TypeOK'
  BY <1>1, CreateTxLemma DEF TypeOK, relayVars
<1>2. ASSUME NEW r \in Relay, FetchPending(r) PROVE TypeOK'
  <2>1. relay' \in [Relay -> RelayState]
    BY <1>2, FetchLemma
  <2>2. UNCHANGED <<outbox, buffer, written, attempts, faults>>
    BY <1>2 DEF FetchPending
  <2> QED
    BY <2>1, <2>2 DEF TypeOK
<1>3. ASSUME NEW r \in Relay, NEW e \in Event, PushAccepted(r, e) PROVE TypeOK'
  <2>1. relay' \in [Relay -> RelayState]
    BY <1>3, GotoLemma DEF PushAccepted, RelayPc
  <2>2. attempts' \in [Event -> Nat]
    BY <1>3, AttemptLemma DEF PushAccepted
  <2>3. buffer' \in [Relay -> SUBSET Event] /\ written' \in [Event -> Nat]
    <3>1. CASE BufferedPusher
      BY <1>3, <3>1 DEF PushAccepted, TypeOK
    <3>2. CASE ~BufferedPusher
      BY <1>3, <3>2 DEF PushAccepted, TypeOK
    <3> QED
      BY <3>1, <3>2
  <2> QED
    BY <1>3, <2>1, <2>2, <2>3 DEF TypeOK, PushAccepted
<1>4. ASSUME NEW r \in Relay, NEW e \in Event, PushFailed(r, e) PROVE TypeOK'
  <2>1. relay' \in [Relay -> RelayState]
    BY <1>4, GotoLemma DEF PushFailed, RelayPc
  <2>2. attempts' \in [Event -> Nat]
    BY <1>4, AttemptLemma DEF PushFailed
  <2>3. written' \in [Event -> Nat]
    BY <1>4 DEF PushFailed, TypeOK
  <2> QED
    BY <1>4, <2>1, <2>2, <2>3 DEF TypeOK, PushFailed
<1>5. ASSUME NEW r \in Relay, NEW e \in Event, MarkSent(r, e) PROVE TypeOK'
  BY <1>5, MarkRowLemma, NextEventLemma DEF TypeOK, MarkSent
<1>6. ASSUME NEW r \in Relay, NEW e \in Event, MarkFailed(r, e) PROVE TypeOK'
  BY <1>6, MarkRowLemma, NextEventLemma DEF TypeOK, MarkFailed
<1>7. ASSUME NEW r \in Relay, NEW e \in Event, MarkError(r, e) PROVE TypeOK'
  BY <1>7, NextEventLemma DEF TypeOK, MarkError
<1>8. ASSUME NEW r \in Relay, DeleteSent(r) PROVE TypeOK'
  <2>1. relay' \in [Relay -> RelayState]
    BY <1>8, GotoLemma DEF DeleteSent, RelayPc
  <2> QED
    BY <1>8, <2>1, PurgeLemma DEF TypeOK, DeleteSent
<1>9. ASSUME NEW r \in Relay, FlushChunk(r) PROVE TypeOK'
  <2>1. written' \in [Event -> Nat] /\ buffer' \in [Relay -> SUBSET Event]
    BY <1>9 DEF TypeOK, FlushChunk
  <2> QED
    BY <1>9, <2>1 DEF TypeOK, FlushChunk
<1>10. ASSUME NEW r \in Relay, FlushFailed(r) PROVE TypeOK'
  BY <1>10 DEF TypeOK, FlushFailed
<1>11. ASSUME NEW r \in Relay, Crash(r) PROVE TypeOK'
  <2>1. buffer' \in [Relay -> SUBSET Event] /\ faults' \in Nat
    BY <1>11 DEF TypeOK, Crash
  <2> QED
    BY <1>11, <2>1, CrashLemma DEF TypeOK, Crash
<1>12. CASE UNCHANGED vars
  BY <1>12 DEF TypeOK, vars, relayVars
<1> QED
  BY <1>1, <1>2, <1>3, <1>4, <1>5, <1>6, <1>7, <1>8, <1>9, <1>10, <1>11, <1>12
  DEF Next, Commit, RelayStep, SendPending

\* The table, the relays, the pushers' buffers and the counters keep their
\* types through SendPending, crashes and transactions (article_sync_outbox.go,
\* article_sync_outbox_sender.go:23-59).
THEOREM TypeCorrect == Spec => []TypeOK
<1>1. Init => TypeOK
  BY DEF Init, TypeOK, Row, RelayState, RowStatus, RelayPc
<1> QED
  BY <1>1, TypeStep, PTL DEF Spec

----------------------------------------------------------------------------
(* Nothing is counted as delivered before it is in Kafka *)

\* NoSilentLoss is not inductive: it needs that a relay which is about to mark
\* an event has pushed it.
PushedBeforeMark ==
    \A r \in Relay, e \in Event :
        relay[r].pc = "markSent" /\ Current(r, e) => written[e] > 0

DeliveryInv == TypeOK /\ NoSilentLoss /\ PushedBeforeMark

\* Every step keeps DeliveryInv when the pusher waits for the broker.
LEMMA DeliveryStep ==
  ASSUME ~BufferedPusher, DeliveryInv, [Next]_vars
  PROVE  DeliveryInv'
<1> USE DEF DeliveryInv
<1>1. TypeOK'
  BY TypeStep
<1>2. ASSUME NEW e \in Event, CreateTx(e), UNCHANGED <<relayVars, faults>>
      PROVE  NoSilentLoss' /\ PushedBeforeMark'
  <2>1. NoSilentLoss'
    BY <1>2, CreateTxLemma DEF NoSilentLoss, Settled, Status, relayVars
  <2>2. PushedBeforeMark'
    BY <1>2 DEF PushedBeforeMark, Current, relayVars
  <2> QED
    BY <2>1, <2>2
<1>3. ASSUME NEW r \in Relay, FetchPending(r)
      PROVE  NoSilentLoss' /\ PushedBeforeMark'
  <2>1. NoSilentLoss'
    BY <1>3 DEF FetchPending, NoSilentLoss, Settled, Status
  <2>2. PushedBeforeMark'
    BY <1>3, FetchLemma DEF FetchPending, PushedBeforeMark, Current
  <2> QED
    BY <2>1, <2>2
<1>4. ASSUME NEW r \in Relay, NEW e \in Event, PushAccepted(r, e)
      PROVE  NoSilentLoss' /\ PushedBeforeMark'
  <2>1. /\ written'[e] > 0
        /\ \A f \in Event : written'[f] >= written[f]
    BY <1>4 DEF PushAccepted, TypeOK
  <2>2. NoSilentLoss'
    BY <1>4, <2>1 DEF PushAccepted, NoSilentLoss, Settled, Status, TypeOK
  <2>3. /\ relay'[r] = [pc |-> "markSent", batch |-> relay[r].batch]
        /\ \A s \in Relay : s # r => relay'[s] = relay[s]
    BY <1>4, GotoLemma DEF PushAccepted, RelayPc
  <2>4. ASSUME NEW s \in Relay, NEW f \in Event,
               relay'[s].pc = "markSent", Current(s, f)'
        PROVE  written'[f] > 0
    <3>1. CASE s = r
      <4>1. Current(r, f) /\ Current(r, e)
        BY <1>4, <2>3, <2>4, <3>1 DEF Current, PushAccepted, Attempt
      <4>2. f = e
        BY <4>1, OutboxAssumption DEF Current, Event
      <4> QED
        BY <4>2, <2>1
    <3>2. CASE s # r
      <4>1. written[f] > 0
        BY <2>3, <2>4, <3>2 DEF Current, PushedBeforeMark
      <4> QED
        BY <1>1, <2>1, <4>1 DEF TypeOK
    <3> QED
      BY <3>1, <3>2
  <2> QED
    BY <2>2, <2>4 DEF PushedBeforeMark
<1>5. ASSUME NEW r \in Relay, NEW e \in Event, PushFailed(r, e)
      PROVE  NoSilentLoss' /\ PushedBeforeMark'
  <2>1. \A f \in Event : written'[f] >= written[f]
    BY <1>5 DEF PushFailed, TypeOK
  <2>2. NoSilentLoss'
    BY <1>5, <2>1 DEF PushFailed, NoSilentLoss, Settled, Status, TypeOK
  <2>3. PushedBeforeMark'
    BY <1>5, <1>1, <2>1, GotoLemma
    DEF PushFailed, PushedBeforeMark, Current, RelayPc, TypeOK
  <2> QED
    BY <2>2, <2>3
<1>6. ASSUME NEW r \in Relay, NEW e \in Event, MarkSent(r, e)
      PROVE  NoSilentLoss' /\ PushedBeforeMark'
  <2>1. written[e] > 0 /\ UNCHANGED written
    BY <1>6 DEF MarkSent, PushedBeforeMark
  <2>2. NoSilentLoss'
    BY <1>6, <2>1, MarkRowLemma DEF MarkSent, NoSilentLoss, Settled, Status
  <2>3. PushedBeforeMark'
    BY <1>6, NextEventLemma DEF MarkSent, PushedBeforeMark, Current
  <2> QED
    BY <2>2, <2>3
<1>7. ASSUME NEW r \in Relay, NEW e \in Event, MarkFailed(r, e)
      PROVE  NoSilentLoss' /\ PushedBeforeMark'
  <2>1. NoSilentLoss'
    <3> SUFFICES ASSUME NEW f \in Event, Settled(f)' PROVE written'[f] > 0
      BY DEF NoSilentLoss
    <3>1. /\ \A g \in Event \ {e} : outbox'[g] = outbox[g]
          /\ Status(e) \in {"absent", "purged"} => outbox'[e] = outbox[e]
          /\ Status(e) \notin {"absent", "purged"} =>
               outbox'[e] = [status |-> "failed", retry |-> outbox[e].retry + 1]
      BY <1>7, MarkRowLemma DEF MarkFailed
    <3>2. Settled(f)
      BY <3>1 DEF Settled, Status
    <3> QED
      BY <1>7, <3>2 DEF MarkFailed, NoSilentLoss
  <2>2. PushedBeforeMark'
    BY <1>7, NextEventLemma DEF MarkFailed, PushedBeforeMark, Current
  <2> QED
    BY <2>1, <2>2
<1>8. ASSUME NEW r \in Relay, NEW e \in Event, MarkError(r, e)
      PROVE  NoSilentLoss' /\ PushedBeforeMark'
  <2>1. NoSilentLoss'
    BY <1>8 DEF MarkError, NoSilentLoss, Settled, Status
  <2>2. PushedBeforeMark'
    BY <1>8, NextEventLemma DEF MarkError, PushedBeforeMark, Current
  <2> QED
    BY <2>1, <2>2
<1>9. ASSUME NEW r \in Relay, DeleteSent(r)
      PROVE  NoSilentLoss' /\ PushedBeforeMark'
  <2>1. NoSilentLoss'
    <3> SUFFICES ASSUME NEW e \in Event, Settled(e)' PROVE written'[e] > 0
      BY DEF NoSilentLoss
    <3>1. Settled(e)
      BY <1>9, PurgeLemma DEF Settled, Status
    <3> QED
      BY <1>9, <3>1 DEF DeleteSent, NoSilentLoss
  <2>2. /\ relay'[r] = [pc |-> "idle", batch |-> relay[r].batch]
        /\ \A s \in Relay : s # r => relay'[s] = relay[s]
    BY <1>9, GotoLemma DEF DeleteSent, RelayPc
  <2>3. PushedBeforeMark'
    BY <1>9, <2>2 DEF DeleteSent, PushedBeforeMark, Current
  <2> QED
    BY <2>1, <2>3
<1>10. ASSUME NEW r \in Relay, FlushChunk(r)
       PROVE  NoSilentLoss' /\ PushedBeforeMark'
  <2>1. \A f \in Event : written'[f] >= written[f]
    BY <1>10 DEF FlushChunk, TypeOK
  <2>2. NoSilentLoss'
    BY <1>1, <1>10, <2>1 DEF FlushChunk, NoSilentLoss, Settled, Status, TypeOK
  <2>3. PushedBeforeMark'
    BY <1>1, <1>10, <2>1 DEF FlushChunk, PushedBeforeMark, Current, TypeOK
  <2> QED
    BY <2>2, <2>3
<1>11. ASSUME NEW r \in Relay, FlushFailed(r)
       PROVE  NoSilentLoss' /\ PushedBeforeMark'
  BY <1>11 DEF FlushFailed, NoSilentLoss, Settled, Status, PushedBeforeMark, Current
<1>12. ASSUME NEW r \in Relay, Crash(r)
       PROVE  NoSilentLoss' /\ PushedBeforeMark'
  <2>1. NoSilentLoss'
    BY <1>12 DEF Crash, NoSilentLoss, Settled, Status
  <2>2. PushedBeforeMark'
    BY <1>12, CrashLemma DEF Crash, PushedBeforeMark, Current
  <2> QED
    BY <2>1, <2>2
<1>13. ASSUME UNCHANGED vars
       PROVE  NoSilentLoss' /\ PushedBeforeMark'
  BY <1>13 DEF vars, relayVars, NoSilentLoss, Settled, Status, PushedBeforeMark, Current
<1>14. NoSilentLoss' /\ PushedBeforeMark'
  BY <1>2, <1>3, <1>4, <1>5, <1>6, <1>7, <1>8, <1>9, <1>10, <1>11, <1>12, <1>13
  DEF Next, Commit, RelayStep, SendPending
<1> QED
  BY <1>1, <1>14

\* DeliveryInv holds of an empty table.
LEMMA InitDelivery == Init => DeliveryInv
BY OutboxAssumption
DEF Init, DeliveryInv, TypeOK, Row, RelayState, RowStatus, RelayPc, NoSilentLoss,
    Settled, Status, PushedBeforeMark

\* If the pusher waits for the broker, an event the table counts as delivered
\* is in its topic: SendPending (article_sync_outbox_sender.go:35-56) marks
\* after the push, whatever the other relays, failures and crashes do.
THEOREM NoSilentLossHolds ==
  ASSUME ~BufferedPusher
  PROVE  Spec => []NoSilentLoss
<1>1. Init => DeliveryInv
  BY InitDelivery
<1>2. DeliveryInv /\ [Next]_vars => DeliveryInv'
  BY DeliveryStep
<1>3. DeliveryInv => NoSilentLoss
  BY DEF DeliveryInv
<1> QED
  BY <1>1, <1>2, <1>3, PTL DEF Spec

----------------------------------------------------------------------------
(* No event is tried before every older one *)

\* Rows are inserted in order, and only rows inserted are tried or fetched.
CommittedInOrder ==
    /\ \A e, f \in Event : Committed(e) /\ f < e => Committed(f)
    /\ \A r \in Relay : \A e \in relay[r].batch : Committed(e)

\* A row leaves "pending", and loses a retry, only when its event has been tried.
TriedBeforeMarked ==
    /\ \A e \in Event :
         Status(e) \in {"sent", "failed", "purged"} \/ outbox[e].retry > 0
         => attempts[e] > 0
    /\ \A r \in Relay, e \in Event :
         relay[r].pc \in {"markSent", "markFailed"} /\ Current(r, e) => attempts[e] > 0

\* What a relay has in hand leaves no older event out that was never tried.
BatchClosed ==
    \A r \in Relay : \A e \in relay[r].batch, f \in Event :
        f < e => f \in relay[r].batch \/ attempts[f] > 0

OrderInv ==
    TypeOK /\ CommittedInOrder /\ TriedBeforeMarked /\ BatchClosed /\ OldestFirst

\* The fetch: an older row that the query leaves out has been tried.
LEMMA FetchedInOrder ==
  ASSUME OrderInv, NEW B \in SUBSET Event, IsBatch(B),
         NEW e \in B, NEW f \in Event \ B, f < e
  PROVE  attempts[f] > 0
<1>1. e \in Event /\ f \in Event /\ e \in Nat /\ f \in Nat
  BY OutboxAssumption DEF Event
<1>2. ~Fetchable(f)
  BY <1>1 DEF IsBatch
<1>3. Committed(f)
  BY <1>1 DEF OrderInv, CommittedInOrder, IsBatch, Fetchable, Committed
<1>4. outbox[f] \in Row
  BY <1>1 DEF OrderInv, TypeOK
<1>5. Status(f) \in {"sent", "failed", "purged"} \/ outbox[f].retry > 0
  BY <1>2, <1>3, <1>4, OutboxAssumption
  DEF Fetchable, Exhausted, Committed, Status, Row, RowStatus
<1> QED
  BY <1>1, <1>5 DEF OrderInv, TriedBeforeMarked

\* A push keeps the order: the event pushed is the oldest of the batch.
LEMMA AttemptInOrder ==
  ASSUME OrderInv, NEW r \in Relay, NEW e \in Event, Attempt(r, e),
         NEW pc \in {"markSent", "markFailed"}, Goto(r, pc), UNCHANGED outbox
  PROVE  CommittedInOrder' /\ TriedBeforeMarked' /\ BatchClosed' /\ OldestFirst'
<1> USE DEF OrderInv
<1>1. /\ attempts'[e] > 0
      /\ \A f \in Event : attempts[f] > 0 => attempts'[f] > 0
      /\ \A f \in Event : attempts'[f] > 0 => f = e \/ attempts[f] > 0
  BY AttemptLemma DEF TypeOK
<1>2. /\ relay'[r] = [pc |-> pc, batch |-> relay[r].batch]
      /\ \A s \in Relay : s # r => relay'[s] = relay[s]
  BY GotoLemma DEF RelayPc
<1>3. \A s \in Relay : relay'[s].batch = relay[s].batch
  BY <1>2
<1>4. \A f \in Event : f < e => attempts[f] > 0
  <2> SUFFICES ASSUME NEW f \in Event, f < e PROVE attempts[f] > 0
    OBVIOUS
  <2>1. f \notin relay[r].batch
    BY OutboxAssumption DEF Attempt, Current, Event
  <2> QED
    BY <2>1 DEF Attempt, Current, BatchClosed
<1>5. CommittedInOrder'
  BY <1>3 DEF CommittedInOrder, Committed, Status
<1>6. TriedBeforeMarked'
  <2>1. ASSUME NEW s \in Relay, NEW f \in Event,
               relay'[s].pc \in {"markSent", "markFailed"}, Current(s, f)'
        PROVE  attempts'[f] > 0
    <3>1. Current(s, f)
      BY <1>3, <2>1 DEF Current
    <3>2. CASE s = r
      <4>1. f = e
        BY <3>1, <3>2, OutboxAssumption DEF Attempt, Current, Event
      <4> QED
        BY <1>1, <4>1
    <3>3. CASE s # r
      BY <1>1, <1>2, <2>1, <3>1, <3>3 DEF TriedBeforeMarked
    <3> QED
      BY <3>2, <3>3
  <2> QED
    BY <1>1, <2>1 DEF TriedBeforeMarked, Status
<1>7. BatchClosed'
  BY <1>1, <1>3 DEF BatchClosed
<1>8. OldestFirst'
  BY <1>1, <1>4 DEF OldestFirst
<1> QED
  BY <1>5, <1>6, <1>7, <1>8

\* The end of the loop's body: the event of the row marked has been tried.
LEMMA MarkInOrder ==
  ASSUME OrderInv, NEW r \in Relay, NEW e \in Event,
         relay[r].pc \in {"markSent", "markFailed"}, Current(r, e),
         NextEvent(r, e), UNCHANGED attempts,
         \A f \in Event \ {e} : outbox'[f] = outbox[f],
         Committed(e) => Committed(e)',
         Committed(e)' => Committed(e)
  PROVE  CommittedInOrder' /\ TriedBeforeMarked' /\ BatchClosed' /\ OldestFirst'
<1> USE DEF OrderInv
<1>1. attempts[e] > 0
  BY DEF TriedBeforeMarked
<1>2. /\ relay'[r].pc \in {"purge", "push"}
      /\ relay'[r].batch = relay[r].batch \ {e}
      /\ \A s \in Relay : s # r => relay'[s] = relay[s]
  BY NextEventLemma
<1>3. \A f \in Event : Committed(f)' <=> Committed(f)
  BY DEF Committed, Status
<1>4. CommittedInOrder'
  <2>1. \A s \in Relay : relay'[s].batch \subseteq relay[s].batch
    BY <1>2
  <2>2. \A s \in Relay : relay[s].batch \subseteq Event
    BY DEF TypeOK, RelayState
  <2>3. \A s \in Relay : \A f \in relay'[s].batch : Committed(f)'
    BY <1>3, <2>1, <2>2 DEF CommittedInOrder
  <2>4. \A f, g \in Event : Committed(f)' /\ g < f => Committed(g)'
    BY <1>3 DEF CommittedInOrder
  <2> QED
    BY <2>3, <2>4 DEF CommittedInOrder
<1>5. TriedBeforeMarked'
  <2>1. ASSUME NEW s \in Relay, NEW f \in Event,
               relay'[s].pc \in {"markSent", "markFailed"}, Current(s, f)'
        PROVE  attempts'[f] > 0
    <3>1. s # r
      BY <1>2, <2>1
    <3> QED
      BY <1>2, <2>1, <3>1 DEF TriedBeforeMarked, Current
  <2>2. ASSUME NEW f \in Event,
               Status(f)' \in {"sent", "failed", "purged"} \/ outbox'[f].retry > 0
        PROVE  attempts'[f] > 0
    <3>1. CASE f = e
      BY <1>1, <3>1
    <3>2. CASE f # e
      BY <2>2, <3>2 DEF TriedBeforeMarked, Status
    <3> QED
      BY <3>1, <3>2
  <2> QED
    BY <2>1, <2>2 DEF TriedBeforeMarked
<1>6. BatchClosed'
  <2> SUFFICES ASSUME NEW s \in Relay, NEW g \in relay'[s].batch, NEW f \in Event, f < g
               PROVE  f \in relay'[s].batch \/ attempts'[f] > 0
    BY DEF BatchClosed
  <2>1. g \in relay[s].batch
    BY <1>2
  <2>2. f \in relay[s].batch \/ attempts[f] > 0
    BY <2>1 DEF BatchClosed
  <2> QED
    BY <1>1, <1>2, <2>2
<1>7. OldestFirst'
  BY DEF OldestFirst
<1> QED
  BY <1>4, <1>5, <1>6, <1>7

\* Every step keeps OrderInv.
LEMMA OrderStep ==
  ASSUME OrderInv, [Next]_vars
  PROVE  OrderInv'
<1> USE DEF OrderInv
<1> DEFINE Order == CommittedInOrder /\ TriedBeforeMarked /\ BatchClosed /\ OldestFirst
<1>1. TypeOK'
  BY TypeStep
<1>2. ASSUME NEW e \in Event, CreateTx(e), UNCHANGED <<relayVars, faults>>
      PROVE  Order'
  <2>1. /\ outbox'[e] = [status |-> "pending", retry |-> 0]
        /\ \A f \in Event \ {e} : outbox'[f] = outbox[f]
    BY <1>2, CreateTxLemma
  <2>2. UNCHANGED <<relay, attempts>>
    BY <1>2 DEF relayVars
  <2>3. \A f \in Event : Committed(f)' <=> f = e \/ Committed(f)
    BY <2>1 DEF Committed, Status
  <2>4. CommittedInOrder'
    <3>1. ASSUME NEW f \in Event, NEW g \in Event, Committed(f)', g < f
          PROVE  Committed(g)'
      BY <1>2, <2>3, <3>1 DEF CreateTx, CommittedInOrder
    <3>2. \A r \in Relay : relay[r].batch \subseteq Event
      BY DEF TypeOK, RelayState
    <3> QED
      BY <2>2, <2>3, <3>1, <3>2 DEF CommittedInOrder
  <2>5. TriedBeforeMarked'
    BY <2>1, <2>2 DEF TriedBeforeMarked, Status, Current
  <2>6. BatchClosed' /\ OldestFirst'
    BY <2>2 DEF BatchClosed, OldestFirst
  <2> QED
    BY <2>4, <2>5, <2>6
<1>3. ASSUME NEW r \in Relay, FetchPending(r)
      PROVE  Order'
  <2> DEFINE B == relay'[r].batch
  <2>1. /\ relay'[r].pc \in {"purge", "push"}
        /\ B \in SUBSET Event
        /\ \A s \in Relay : s # r => relay'[s] = relay[s]
    BY <1>3, FetchLemma
  <2>2. IsBatch(B)
    BY <1>3, FetchLemma
  <2>3. UNCHANGED <<outbox, attempts>>
    BY <1>3 DEF FetchPending
  <2>4. \A e \in B : Committed(e)
    BY <2>2 DEF IsBatch, Fetchable, Committed
  <2>5. \A e \in B, f \in Event : f < e => f \in B \/ attempts[f] > 0
    BY <2>1, <2>2, FetchedInOrder
  <2>6. CommittedInOrder'
    BY <2>1, <2>3, <2>4 DEF CommittedInOrder, Committed, Status
  <2>7. TriedBeforeMarked'
    BY <2>1, <2>3 DEF TriedBeforeMarked, Status, Current
  <2>8. BatchClosed'
    BY <2>1, <2>3, <2>5 DEF BatchClosed
  <2>9. OldestFirst'
    BY <2>3 DEF OldestFirst
  <2> QED
    BY <2>6, <2>7, <2>8, <2>9
<1>4. ASSUME NEW r \in Relay, NEW e \in Event, PushAccepted(r, e)
      PROVE  Order'
  BY <1>4, AttemptInOrder DEF PushAccepted
<1>5. ASSUME NEW r \in Relay, NEW e \in Event, PushFailed(r, e)
      PROVE  Order'
  BY <1>5, AttemptInOrder DEF PushFailed
<1>6. ASSUME NEW r \in Relay, NEW e \in Event, MarkSent(r, e)
      PROVE  Order'
  <2>1. /\ \A f \in Event \ {e} : outbox'[f] = outbox[f]
        /\ Committed(e) <=> Committed(e)'
    BY <1>6, MarkRowLemma DEF MarkSent
  <2> QED
    BY <1>6, <2>1, MarkInOrder DEF MarkSent
<1>7. ASSUME NEW r \in Relay, NEW e \in Event, MarkFailed(r, e)
      PROVE  Order'
  <2>1. /\ \A f \in Event \ {e} : outbox'[f] = outbox[f]
        /\ Committed(e) <=> Committed(e)'
    BY <1>7, MarkRowLemma DEF MarkFailed
  <2> QED
    BY <1>7, <2>1, MarkInOrder DEF MarkFailed
<1>8. ASSUME NEW r \in Relay, NEW e \in Event, MarkError(r, e)
      PROVE  Order'
  <2>1. UNCHANGED <<outbox, attempts>> /\ (Committed(e) <=> Committed(e)')
    BY <1>8 DEF MarkError, Committed, Status
  <2> QED
    BY <1>8, <2>1, MarkInOrder DEF MarkError
<1>9. ASSUME NEW r \in Relay, DeleteSent(r)
      PROVE  Order'
  <2>1. /\ relay'[r] = [pc |-> "idle", batch |-> relay[r].batch]
        /\ \A s \in Relay : s # r => relay'[s] = relay[s]
    BY <1>9, GotoLemma DEF DeleteSent, RelayPc
  <2>2. UNCHANGED attempts /\ \A s \in Relay : relay'[s].batch = relay[s].batch
    BY <1>9, <2>1 DEF DeleteSent
  <2>3. \A e \in Event :
          \/ outbox'[e] = outbox[e]
          \/ /\ Status(e) = "sent"
             /\ outbox'[e].status = "purged"
             /\ outbox'[e].retry = outbox[e].retry
    BY <1>9, PurgeLemma
  <2>4. \A e \in Event : Committed(e)' <=> Committed(e)
    <3>1. TAKE e \in Event
    <3>2. CASE outbox'[e] = outbox[e]
      BY <3>2 DEF Committed, Status
    <3>3. CASE outbox'[e] # outbox[e]
      <4>1. outbox[e].status = "sent" /\ outbox'[e].status = "purged"
        BY <2>3, <3>3 DEF Status
      <4> QED
        BY <4>1 DEF Committed, Status
    <3> QED
      BY <3>2, <3>3
  <2>5. CommittedInOrder'
    <3>1. \A s \in Relay : relay[s].batch \subseteq Event
      BY DEF TypeOK, RelayState
    <3> QED
      BY <2>2, <2>4, <3>1 DEF CommittedInOrder
  <2>6. TriedBeforeMarked'
    <3>1. \A e \in Event :
            Status(e)' \in {"sent", "failed", "purged"} \/ outbox'[e].retry > 0
            => attempts'[e] > 0
      BY <2>2, <2>3 DEF TriedBeforeMarked, Status
    <3>2. \A s \in Relay, e \in Event :
            relay'[s].pc \in {"markSent", "markFailed"} /\ Current(s, e)'
            => attempts'[e] > 0
      BY <2>1, <2>2 DEF TriedBeforeMarked, Current
    <3> QED
      BY <3>1, <3>2 DEF TriedBeforeMarked
  <2>7. BatchClosed' /\ OldestFirst'
    BY <2>2 DEF BatchClosed, OldestFirst
  <2> QED
    BY <2>5, <2>6, <2>7
<1>10. ASSUME NEW r \in Relay, FlushChunk(r) \/ FlushFailed(r)
       PROVE  Order'
  <2>1. UNCHANGED <<outbox, relay, attempts>>
    BY <1>10 DEF FlushChunk, FlushFailed
  <2> QED
    BY <2>1 DEF CommittedInOrder, Committed, Status, TriedBeforeMarked, Current,
                BatchClosed, OldestFirst
<1>11. ASSUME NEW r \in Relay, Crash(r)
       PROVE  Order'
  <2>1. /\ relay'[r] = [pc |-> "idle", batch |-> {}]
        /\ \A s \in Relay : s # r => relay'[s] = relay[s]
    BY <1>11, CrashLemma
  <2>2. UNCHANGED <<outbox, attempts>>
    BY <1>11 DEF Crash
  <2>3. CommittedInOrder' /\ BatchClosed' /\ OldestFirst'
    BY <2>1, <2>2 DEF CommittedInOrder, Committed, Status, BatchClosed, OldestFirst
  <2>4. TriedBeforeMarked'
    BY <2>1, <2>2 DEF TriedBeforeMarked, Status, Current
  <2> QED
    BY <2>3, <2>4
<1>12. ASSUME UNCHANGED vars
       PROVE  Order'
  BY <1>12 DEF vars, relayVars, CommittedInOrder, Committed, Status,
               TriedBeforeMarked, Current, BatchClosed, OldestFirst
<1>13. Order'
  BY <1>2, <1>3, <1>4, <1>5, <1>6, <1>7, <1>8, <1>9, <1>10, <1>11, <1>12
  DEF Next, Commit, RelayStep, SendPending
<1> QED
  BY <1>1, <1>13

\* OrderInv holds of an empty table.
LEMMA InitOrder == Init => OrderInv
BY OutboxAssumption
DEF Init, OrderInv, TypeOK, Row, RelayState, RowStatus, RelayPc, CommittedInOrder,
    Committed, Status, TriedBeforeMarked, Current, BatchClosed, OldestFirst

\* With either pusher, an event is pushed only when every older one has been:
\* FetchPending (article_sync_outbox.go:53-62) takes the oldest rows first, and
\* no fault, and no other relay, lets an event jump the queue.
THEOREM OldestFirstHolds == Spec => []OldestFirst
<1>1. Init => OrderInv
  BY InitOrder
<1>2. OrderInv /\ [Next]_vars => OrderInv'
  BY OrderStep
<1>3. OrderInv => OldestFirst
  BY DEF OrderInv
<1> QED
  BY <1>1, <1>2, <1>3, PTL DEF Spec

----------------------------------------------------------------------------
(* The relay implements EventDelivery *)

\* A pusher that waits keeps nothing back.
NothingBuffered == \A r \in Relay : buffer[r] = {}

RefinementInv == DeliveryInv /\ OrderInv /\ NothingBuffered

\* Every step keeps RefinementInv when the pusher waits for the broker.
LEMMA RefinementStep ==
  ASSUME ~BufferedPusher, RefinementInv, [Next]_vars
  PROVE  RefinementInv'
<1>1. DeliveryInv' /\ OrderInv'
  BY DeliveryStep, OrderStep DEF RefinementInv
<1>2. buffer' = buffer \/ \E r \in Relay : buffer' = [buffer EXCEPT ![r] = {}]
  BY DEF Next, vars, relayVars, Commit, RelayStep, SendPending, FetchPending, PushAccepted,
         PushFailed, MarkSent, MarkFailed, MarkError, DeleteSent, FlushChunk, FlushFailed, Crash
<1>3. NothingBuffered'
  BY <1>2 DEF RefinementInv, DeliveryInv, TypeOK, NothingBuffered
<1> QED
  BY <1>1, <1>3 DEF RefinementInv

\* Rows are inserted in order, so counting them names them.
LEMMA CommittedCount ==
  ASSUME OrderInv
  PROVE  /\ IsFiniteSet(CommittedEvents)
         /\ Cardinality(CommittedEvents) \in Nat
         /\ Cardinality(CommittedEvents) <= MaxEvent
         /\ \A e \in CommittedEvents : e \in 1..Cardinality(CommittedEvents)
<1>1. IsFiniteSet(Event) /\ Cardinality(Event) = MaxEvent
  BY FS_Interval, OutboxAssumption DEF Event
<1>2. /\ IsFiniteSet(CommittedEvents)
      /\ Cardinality(CommittedEvents) <= MaxEvent
  BY <1>1, FS_Subset DEF CommittedEvents
<1>3. Cardinality(CommittedEvents) \in Nat
  BY <1>2, FS_CardinalityType
<1>4. ASSUME NEW e \in CommittedEvents
      PROVE  e \in 1..Cardinality(CommittedEvents)
  <2>1. e \in Nat /\ e >= 1 /\ 1..e \subseteq Event
    BY OutboxAssumption DEF CommittedEvents, Event
  <2>2. 1..e \in SUBSET CommittedEvents
    BY <2>1 DEF CommittedEvents, OrderInv, CommittedInOrder
  <2>3. Cardinality(1..e) <= Cardinality(CommittedEvents)
    BY <1>2, <2>2, FS_Subset
  <2>4. Cardinality(1..e) = e
    BY <2>1, FS_Interval
  <2> QED
    BY <1>3, <2>1, <2>3, <2>4
<1> QED
  BY <1>2, <1>3, <1>4

\* The mapping of the initial states.
LEMMA InitRefines == Init => Promise!Init
<1> SUFFICES ASSUME Init PROVE Promise!Init
  OBVIOUS
<1>1. CommittedEvents = {} /\ PurgedEvents = {}
  BY DEF Init, CommittedEvents, PurgedEvents, Committed, Status
<1>2. Cardinality(CommittedEvents) = 0
  BY <1>1, FS_EmptySet
<1> QED
  BY <1>1, <1>2 DEF Init, Promise!Init, Promise!Event, Event

\* The mapping of the steps.
LEMMA StepRefines ==
  ASSUME ~BufferedPusher, RefinementInv, [Next]_vars
  PROVE  [Promise!Next]_(Promise!vars)
<1> USE DEF RefinementInv
<1>1. TypeOK /\ OrderInv /\ NoSilentLoss
  BY DEF DeliveryInv
<1> DEFINE SameRows == CommittedEvents' = CommittedEvents /\ PurgedEvents' = PurgedEvents
<1>2. ASSUME UNCHANGED outbox PROVE SameRows
  BY <1>2 DEF CommittedEvents, PurgedEvents, Committed, Status
<1>3. ASSUME SameRows, UNCHANGED written PROVE UNCHANGED Promise!vars
  BY <1>3 DEF Promise!vars
<1>4. ASSUME NEW e \in Event, e \in CommittedEvents, SameRows,
             written' = [written EXCEPT ![e] = @ + 1]
      PROVE  Promise!Next
  <2>1. {e} \subseteq 1..Cardinality(CommittedEvents)
    BY <1>1, <1>4, CommittedCount
  <2>2. written' = [f \in Promise!Event |-> IF f \in {e} THEN written[f] + 1 ELSE written[f]]
    BY <1>1, <1>4 DEF TypeOK, Promise!Event, Event
  <2>3. Promise!Write({e})
    BY <1>4, <2>1, <2>2 DEF Promise!Write
  <2> QED
    BY <2>3 DEF Promise!Next, Promise!Event, Event
<1>5. ASSUME NEW e \in Event, CreateTx(e), UNCHANGED <<relayVars, faults>>
      PROVE  Promise!Commit
  <2>1. /\ outbox'[e].status = "pending"
        /\ \A f \in Event \ {e} : outbox'[f] = outbox[f]
    BY <1>1, <1>5, CreateTxLemma
  <2>2. e \notin CommittedEvents /\ CommittedEvents' = CommittedEvents \cup {e}
    BY <1>5, <2>1 DEF CreateTx, CommittedEvents, Committed, Status
  <2>3. PurgedEvents' = PurgedEvents
    BY <1>5, <2>1 DEF CreateTx, PurgedEvents, Committed, Status
  <2>4. Cardinality(CommittedEvents') = Cardinality(CommittedEvents) + 1
    BY <1>1, <2>2, CommittedCount, FS_AddElement
  <2>5. Cardinality(CommittedEvents') <= MaxEvent
    <3>1. CommittedEvents' \in SUBSET Event
      BY DEF CommittedEvents
    <3>2. IsFiniteSet(Event) /\ Cardinality(Event) = MaxEvent
      BY FS_Interval, OutboxAssumption DEF Event
    <3>3. Cardinality(CommittedEvents') <= Cardinality(Event)
      BY <3>1, <3>2, FS_Subset
    <3> QED
      BY <3>2, <3>3
  <2>6. Cardinality(CommittedEvents) < MaxEvent
    BY <1>1, <2>4, <2>5, CommittedCount, OutboxAssumption
  <2> QED
    BY <1>5, <2>3, <2>4, <2>6 DEF Promise!Commit, relayVars
<1>6. ASSUME NEW r \in Relay, NEW e \in Event, PushAccepted(r, e)
      PROVE  Promise!Next
  <2>1. e \in CommittedEvents
    BY <1>1, <1>6
    DEF PushAccepted, Attempt, Current, OrderInv, CommittedInOrder, CommittedEvents
  <2>2. written' = [written EXCEPT ![e] = @ + 1] /\ UNCHANGED outbox
    BY <1>6 DEF PushAccepted
  <2> QED
    BY <1>2, <1>4, <2>1, <2>2
<1>7. ASSUME NEW r \in Relay, NEW e \in Event, PushFailed(r, e)
      PROVE  Promise!Next \/ UNCHANGED Promise!vars
  <2>1. e \in CommittedEvents
    BY <1>1, <1>7
    DEF PushFailed, Attempt, Current, OrderInv, CommittedInOrder, CommittedEvents
  <2>2. SameRows
    BY <1>2, <1>7 DEF PushFailed
  <2>3. CASE written' = [written EXCEPT ![e] = @ + 0]
    BY <1>1, <1>3, <2>2, <2>3 DEF TypeOK
  <2>4. CASE written' = [written EXCEPT ![e] = @ + 1]
    BY <1>4, <2>1, <2>2, <2>4
  <2> QED
    BY <1>7, <2>3, <2>4 DEF PushFailed
<1>8. ASSUME NEW e \in Event, NEW status \in {"sent", "failed"}, NEW retries \in Nat,
             MarkRow(e, status, retries), UNCHANGED written
      PROVE  UNCHANGED Promise!vars
  <2>1. /\ \A f \in Event \ {e} : outbox'[f] = outbox[f]
        /\ Committed(e)' <=> Committed(e)
        /\ Status(e)' = "purged" <=> Status(e) = "purged"
    <3>1. /\ \A f \in Event \ {e} : outbox'[f] = outbox[f]
          /\ Committed(e)' <=> Committed(e)
          /\ Status(e) \in {"absent", "purged"} => outbox'[e] = outbox[e]
          /\ Status(e) \notin {"absent", "purged"} =>
               outbox'[e] = [status |-> status, retry |-> outbox[e].retry + retries]
      BY <1>1, <1>8, MarkRowLemma
    <3> QED
      BY <3>1 DEF Status
  <2>2. SameRows
    BY <2>1 DEF CommittedEvents, PurgedEvents, Committed, Status
  <2> QED
    BY <1>3, <1>8, <2>2
<1>9. ASSUME NEW r \in Relay, DeleteSent(r)
      PROVE  Promise!Next
  <2>1. \A e \in Event :
          \/ outbox'[e] = outbox[e]
          \/ Status(e) = "sent" /\ Status(e)' = "purged"
    BY <1>1, <1>9, PurgeLemma DEF Status
  <2>2. CommittedEvents' = CommittedEvents
    BY <2>1 DEF CommittedEvents, Committed, Status
  <2>3. PurgedEvents' = PurgedEvents \cup PurgedEvents'
    BY <2>1 DEF PurgedEvents, Status
  <2>4. ASSUME NEW e \in PurgedEvents'
        PROVE  e \in 1..Cardinality(CommittedEvents) /\ written[e] > 0
    <3>1. e \in Event /\ Settled(e)
      BY <2>1 DEF PurgedEvents, Status, Settled
    <3>2. e \in CommittedEvents
      BY <3>1 DEF Settled, CommittedEvents, Committed
    <3> QED
      BY <1>1, <3>1, <3>2, CommittedCount DEF NoSilentLoss
  <2>5. Promise!Forget(PurgedEvents')
    BY <1>9, <2>2, <2>3, <2>4 DEF Promise!Forget, DeleteSent
  <2>6. PurgedEvents' \in SUBSET Promise!Event
    BY DEF PurgedEvents, Promise!Event, Event
  <2> QED
    BY <2>5, <2>6 DEF Promise!Next
<1>10. ASSUME NEW r \in Relay, ~FlushChunk(r), RelayStep(r)
       PROVE  Promise!Next \/ UNCHANGED Promise!vars
  <2>1. ASSUME FetchPending(r) \/ FlushFailed(r) \/ Crash(r) \/ \E e \in Event : MarkError(r, e)
        PROVE  UNCHANGED Promise!vars
    <3>1. UNCHANGED outbox /\ UNCHANGED written
      BY <2>1 DEF FetchPending, FlushFailed, Crash, MarkError
    <3> QED
      BY <1>2, <1>3, <3>1
  <2>2. ASSUME NEW e \in Event, MarkSent(r, e) \/ MarkFailed(r, e)
        PROVE  UNCHANGED Promise!vars
    BY <1>8, <2>2 DEF MarkSent, MarkFailed
  <2> QED
    BY <1>6, <1>7, <1>9, <1>10, <2>1, <2>2 DEF RelayStep, SendPending
<1>11. ASSUME NEW r \in Relay PROVE ~FlushChunk(r)
  BY DEF NothingBuffered, FlushChunk
<1>12. ASSUME UNCHANGED vars PROVE UNCHANGED Promise!vars
  BY <1>2, <1>3, <1>12 DEF vars, relayVars
<1> QED
  BY <1>5, <1>10, <1>11, <1>12 DEF Next, Commit, Promise!Next

\* If the pusher waits for the broker, the table and any number of relays
\* deliver every event at least once, in the sense of EventDelivery: DeleteSent
\* (article_sync_outbox.go:85-90) never removes the only trace of an event.
THEOREM DeliveryRefinement ==
  ASSUME ~BufferedPusher
  PROVE  Spec => ImplementsDelivery
<1>1. Init => RefinementInv
  BY InitDelivery, InitOrder DEF RefinementInv, NothingBuffered, Init
<1>2. RefinementInv /\ [Next]_vars => RefinementInv'
  BY RefinementStep
<1>3. Init => Promise!Init
  BY InitRefines
<1>4. RefinementInv /\ [Next]_vars => [Promise!Next]_(Promise!vars)
  BY StepRefines
<1> QED
  BY <1>1, <1>2, <1>3, <1>4, PTL DEF Spec, ImplementsDelivery, Promise!Spec

----------------------------------------------------------------------------
(* The limit of retries *)

\* The relays that have fetched e and not marked it yet: each of them can still
\* count one failure of it.
Holders(e) == {r \in Relay : e \in relay[r].batch}

RetryInv ==
    MaxRetry > 0 =>
        \A e \in Event :
            outbox[e].retry + Cardinality(Holders(e)) <= MaxRetry - 1 + Cardinality(Relay)

\* The holders of an event are some of the relays.
LEMMA HoldersFinite ==
  ASSUME IsFiniteSet(Relay), NEW e \in Event
  PROVE  /\ IsFiniteSet(Holders(e)) /\ IsFiniteSet(Holders(e)')
         /\ Cardinality(Holders(e)) \in Nat /\ Cardinality(Holders(e)') \in Nat
         /\ Cardinality(Relay) \in Nat
         /\ Cardinality(Holders(e)) <= Cardinality(Relay)
         /\ Cardinality(Holders(e)') <= Cardinality(Relay)
<1>1. Holders(e) \in SUBSET Relay /\ Holders(e)' \in SUBSET Relay
  BY DEF Holders
<1> QED
  BY <1>1, FS_Subset, FS_CardinalityType

\* What a step does to one event: nothing that counts, or it is fetched below the
\* limit, or one of its holders marks it.
LEMMA RetryCases ==
  ASSUME TypeOK, [Next]_vars, NEW e \in Event
  PROVE  \/ outbox'[e].retry = outbox[e].retry /\ Holders(e)' \subseteq Holders(e)
         \/ outbox'[e].retry = outbox[e].retry /\ ~Exhausted(e)
         \/ outbox'[e].retry = 0
         \/ /\ outbox'[e].retry \in {outbox[e].retry, outbox[e].retry + 1}
            /\ \E r \in Holders(e) : Holders(e)' = Holders(e) \ {r}
<1> DEFINE Goal == \/ outbox'[e].retry = outbox[e].retry /\ Holders(e)' \subseteq Holders(e)
                   \/ outbox'[e].retry = outbox[e].retry /\ ~Exhausted(e)
                   \/ outbox'[e].retry = 0
                   \/ /\ outbox'[e].retry \in {outbox[e].retry, outbox[e].retry + 1}
                      /\ \E r \in Holders(e) : Holders(e)' = Holders(e) \ {r}
<1>1. ASSUME NEW f \in Event, CreateTx(f), UNCHANGED <<relayVars, faults>>
      PROVE  Goal
  BY <1>1, CreateTxLemma DEF relayVars, Holders
<1>2. ASSUME NEW r \in Relay, FetchPending(r) PROVE Goal
  <2>1. CASE e \in relay'[r].batch
    BY <1>2, <2>1, FetchLemma DEF FetchPending, IsBatch, Fetchable
  <2>2. CASE e \notin relay'[r].batch
    BY <1>2, <2>2, FetchLemma DEF FetchPending, Holders
  <2> QED
    BY <2>1, <2>2
<1>3. ASSUME NEW r \in Relay, NEW pc \in RelayPc, Goto(r, pc),
             outbox'[e].retry = outbox[e].retry
      PROVE  Goal
  <2>1. /\ relay'[r] = [pc |-> pc, batch |-> relay[r].batch]
        /\ \A s \in Relay : s # r => relay'[s] = relay[s]
    BY <1>3, GotoLemma
  <2> QED
    BY <1>3, <2>1 DEF Holders
<1>4. ASSUME NEW r \in Relay, NEW f \in Event, PushAccepted(r, f) \/ PushFailed(r, f)
      PROVE  Goal
  BY <1>3, <1>4 DEF PushAccepted, PushFailed, RelayPc
<1>5. ASSUME NEW r \in Relay, NEW f \in Event, MarkSent(r, f) \/ MarkFailed(r, f)
      PROVE  Goal
  <2>1. /\ f \in relay[r].batch
        /\ relay'[r].batch = relay[r].batch \ {f}
        /\ \A s \in Relay : s # r => relay'[s] = relay[s]
    BY <1>5, NextEventLemma DEF MarkSent, MarkFailed, Current
  <2>2. /\ \A g \in Event \ {f} : outbox'[g] = outbox[g]
        /\ outbox'[f].retry \in {outbox[f].retry, outbox[f].retry + 1}
    <3>1. outbox[f].retry \in Nat
      BY DEF TypeOK, Row
    <3>2. PICK status \in {"sent", "failed"}, retries \in {0, 1} : MarkRow(f, status, retries)
      BY <1>5 DEF MarkSent, MarkFailed
    <3>3. /\ \A g \in Event \ {f} : outbox'[g] = outbox[g]
          /\ \/ outbox'[f] = outbox[f]
             \/ outbox'[f] = [status |-> status, retry |-> outbox[f].retry + retries]
      BY <3>2, MarkRowLemma
    <3> QED
      BY <3>1, <3>3
  <2>3. CASE e = f
    <3>1. r \in Holders(e) /\ Holders(e)' = Holders(e) \ {r}
      BY <2>1, <2>3 DEF Holders
    <3> QED
      BY <2>2, <2>3, <3>1
  <2>4. CASE e # f
    BY <2>1, <2>2, <2>4 DEF Holders
  <2> QED
    BY <2>3, <2>4
<1>6. ASSUME NEW r \in Relay, NEW f \in Event, MarkError(r, f) PROVE Goal
  BY <1>6, NextEventLemma DEF MarkError, Holders
<1>7. ASSUME NEW r \in Relay, DeleteSent(r) PROVE Goal
  <2>1. outbox'[e].retry = outbox[e].retry
    BY <1>7, PurgeLemma
  <2> QED
    BY <1>3, <1>7, <2>1 DEF DeleteSent, RelayPc
<1>8. ASSUME NEW r \in Relay, FlushChunk(r) \/ FlushFailed(r) PROVE Goal
  BY <1>8 DEF FlushChunk, FlushFailed, Holders
<1>9. ASSUME NEW r \in Relay, Crash(r) PROVE Goal
  BY <1>9, CrashLemma DEF Crash, Holders
<1>10. CASE UNCHANGED vars
  BY <1>10 DEF vars, relayVars, Holders
<1> QED
  BY <1>1, <1>2, <1>4, <1>5, <1>6, <1>7, <1>8, <1>9, <1>10
  DEF Next, Commit, RelayStep, SendPending

LEMMA RetryStep ==
  ASSUME IsFiniteSet(Relay), TypeOK, RetryInv, [Next]_vars
  PROVE  RetryInv'
<1> SUFFICES ASSUME MaxRetry > 0, NEW e \in Event
             PROVE  outbox'[e].retry + Cardinality(Holders(e)')
                      <= MaxRetry - 1 + Cardinality(Relay)
  BY DEF RetryInv, Holders
<1> DEFINE n == Cardinality(Holders(e))
           m == Cardinality(Holders(e)')
<1>1. /\ n \in Nat /\ m \in Nat /\ Cardinality(Relay) \in Nat
      /\ m <= Cardinality(Relay)
      /\ IsFiniteSet(Holders(e)) /\ IsFiniteSet(Holders(e)')
  BY HoldersFinite
<1>2. outbox[e].retry \in Nat /\ MaxRetry \in Nat
  BY OutboxAssumption DEF TypeOK, Row
<1>3. outbox[e].retry + n <= MaxRetry - 1 + Cardinality(Relay)
  BY DEF RetryInv
<1>4. CASE outbox'[e].retry = outbox[e].retry /\ Holders(e)' \subseteq Holders(e)
  <2>1. m <= n
    BY <1>1, <1>4, FS_Subset
  <2> QED
    BY <1>1, <1>2, <1>3, <1>4, <2>1
<1>5. CASE outbox'[e].retry = outbox[e].retry /\ ~Exhausted(e)
  <2>1. outbox[e].retry < MaxRetry
    BY <1>2, <1>5 DEF Exhausted
  <2> QED
    BY <1>1, <1>2, <1>5, <2>1
<1>6. CASE outbox'[e].retry = 0
  BY <1>1, <1>2, <1>6
<1>7. CASE /\ outbox'[e].retry \in {outbox[e].retry, outbox[e].retry + 1}
           /\ \E r \in Holders(e) : Holders(e)' = Holders(e) \ {r}
  <2>1. m = n - 1
    BY <1>1, <1>7, FS_RemoveElement
  <2> QED
    BY <1>1, <1>2, <1>3, <1>7, <2>1
<1> QED
  BY <1>4, <1>5, <1>6, <1>7, RetryCases

\* FetchPending checks the limit when it reads a row and MarkFailed counts without
\* looking (article_sync_outbox.go:53-82): an event fails at most once more
\* for every relay but one, whatever the batches, the crashes and the broker do.
THEOREM RetriesAreBounded ==
  ASSUME IsFiniteSet(Relay)
  PROVE  Spec => []RetryOvershoot
<1>1. Init => RetryInv
  <2> SUFFICES ASSUME Init, MaxRetry > 0, NEW e \in Event
               PROVE  outbox[e].retry + Cardinality(Holders(e))
                        <= MaxRetry - 1 + Cardinality(Relay)
    BY DEF RetryInv
  <2>1. outbox[e].retry = 0
    BY DEF Init
  <2> QED
    BY <2>1, HoldersFinite, OutboxAssumption
<1>2. TypeOK /\ RetryInv /\ [Next]_vars => RetryInv'
  BY RetryStep
<1>3. TypeOK /\ RetryInv => RetryOvershoot
  <2> SUFFICES ASSUME TypeOK, RetryInv, MaxRetry > 0, NEW e \in Event
               PROVE  outbox[e].retry <= MaxRetry - 1 + Cardinality(Relay)
    BY DEF RetryOvershoot
  <2>1. outbox[e].retry + Cardinality(Holders(e)) <= MaxRetry - 1 + Cardinality(Relay)
    BY DEF RetryInv
  <2>2. outbox[e].retry \in Nat
    BY DEF TypeOK, Row
  <2> QED
    BY <2>1, <2>2, HoldersFinite, OutboxAssumption
<1> QED
  BY <1>1, <1>2, <1>3, TypeCorrect, PTL DEF Spec
=============================================================================
