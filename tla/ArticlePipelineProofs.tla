----------------------- MODULE ArticlePipelineProofs -----------------------
(***************************************************************************)
(* Proofs about ArticlePipeline, for any articles, content objects,        *)
(* handlers, consumers, copies of events, kinds and number of faults.      *)
(***************************************************************************)
EXTENDS ArticlePipeline, SequenceTheorems, TLAPS

----------------------------------------------------------------------------
(* The inductive invariants *)

Busy(q) == request[q].pc # "idle"
Working(c) == consumer[c].pc # "idle"

\* A consumer at work is at work on a committed event, and there are no more
\* events than the bound allows: the message of a consumer is one of payload.
TypeInv ==
    /\ TypeOK
    /\ Len(payload) <= MaxEvent
    /\ \A c \in Consumer : Working(c) => consumer[c].event \in DOMAIN payload

\* The copy of a handler is of a row that was there.
CopiesAreLive ==
    \A q \in Request : Busy(q) =>
        request[q].copy.row = "live" /\ articles[request[q].id].row # "absent"

DeletionInv == CopiesAreLive /\ DeletionAnnounced

\* A copy says PUBLISHED, and a consumer is about to write it, only if some
\* version of the article has passed the audit.
AuditInv ==
    /\ PublishedWasAudited
    /\ \A q \in Request :
          Busy(q) /\ request[q].copy.status = "PUBLISHED" => audited[request[q].id] # {}
    /\ \A c \in Consumer : consumer[c].pc = "publish" => audited[Rev!Subject(c)] # {}

\* Who holds the lock has its key set, and only who holds it deletes it.
LockInv ==
    /\ \A c \in Consumer :
          /\ consumer[c].locked => consumer[c].pc \notin {"idle", "lock"} /\ lock[Rev!Subject(c)]
          /\ consumer[c].pc = "unlock" => consumer[c].locked
    /\ LockExclusive

\* Articles and the requests for them share no content object with another
\* article.
NoSharedContent ==
    /\ \A a, b \in Article :
          a # b /\ articles[a].row # "absent" /\ articles[b].row # "absent" =>
              articles[a].content # articles[b].content
    /\ \A q \in Request, b \in Article :
          Busy(q) /\ request[q].id # b /\ articles[b].row # "absent" =>
              request[q].copy.content # articles[b].content
    /\ \A q, r \in Request :
          Busy(q) /\ Busy(r) /\ request[q].id # request[r].id =>
              request[q].copy.content # request[r].copy.content

\* Some handler has removed content of a and is about to delete a.
Deleting(a) == \E q \in Request : Svc!At(q, "delete") /\ request[q].id = a

\* A content object that is missed belongs to an article that is being deleted,
\* whether the row names it or the copy of a handler.
ContentInv ==
    /\ NoSharedContent
    /\ ContentLossNeedsAFault
    /\ faults = 0 =>
          \A q \in Request :
              /\ Busy(q)
              /\ articles[request[q].id].row = "live"
              /\ request[q].copy.content \notin objects
              => Deleting(request[q].id)

----------------------------------------------------------------------------
(* Types *)

Row == Svc!ArticleRow
OutboxEvent == [type : Svc!EventType, article : Article, path : Path]
RequestState == [pc : Svc!RequestPc, id : Article, copy : Row, changed : BOOLEAN,
                 wanted : Svc!ArticleStatus \cup {"UNSPECIFIED"}]
ConsumerState == [pc : Rev!ConsumerPc, event : {0} \cup (1..MaxEvent), locked : BOOLEAN,
                  copy : Row]

\* The modules speak of the same rows, stages and events.
LEMMA SameTypes ==
  /\ Rev!ArticleRow = Row
  /\ Rev!NoRow = Svc!NoRow
  /\ Rev!PublishStage = Svc!PublishStage
  /\ Res!PublishStage = Svc!PublishStage
  /\ Rev!ArticleStatus = Svc!ArticleStatus
BY DEF Row, Svc!ArticleRow, Rev!ArticleRow, Svc!RowState, Rev!RowState, Svc!ArticleStatus,
       Rev!ArticleStatus, Svc!PublishStage, Rev!PublishStage, Res!PublishStage,
       Svc!NoRow, Rev!NoRow

\* The row of an article not written yet is a row.
LEMMA NoRowLemma == Svc!NoRow \in Row
BY PipelineAssumption
DEF Row, Svc!NoRow, Svc!ArticleRow, Svc!RowState, Svc!ArticleStatus, Svc!PublishStage

\* What TypeInv says of each part of the state.
LEMMA TypeFacts ==
  ASSUME TypeInv
  PROVE  /\ articles \in [Article -> Row]
         /\ objects \subseteq Path
         /\ payload \in Seq(OutboxEvent)
         /\ DOMAIN payload = 1..Len(payload)
         /\ Len(payload) \in Nat /\ Len(payload) <= MaxEvent
         /\ \A q \in Request :
               /\ request[q].pc \in Svc!RequestPc
               /\ request[q].id \in Article
               /\ request[q].copy \in Row
               /\ request[q].changed \in BOOLEAN
               /\ request[q].wanted \in Svc!ArticleStatus \cup {"UNSPECIFIED"}
         /\ \A c \in Consumer :
               /\ consumer[c].pc \in Rev!ConsumerPc
               /\ consumer[c].locked \in BOOLEAN
               /\ consumer[c].copy \in Row
               /\ consumer[c].event \in {0} \cup (1..MaxEvent)
               /\ Working(c) => /\ consumer[c].event \in DOMAIN payload
                                /\ Rev!Subject(c) \in Article
         /\ faults \in Nat
<1>1. /\ articles \in [Article -> Row]
      /\ objects \subseteq Path
      /\ payload \in Seq(OutboxEvent)
      /\ Len(payload) <= MaxEvent
      /\ faults \in Nat
  BY PipelineAssumption DEF TypeInv, TypeOK, Svc!ServiceTypeOK, Row, OutboxEvent
<1>2. DOMAIN payload = 1..Len(payload) /\ Len(payload) \in Nat
  BY <1>1
<1>3. ASSUME NEW q \in Request
      PROVE  /\ request[q].pc \in Svc!RequestPc
             /\ request[q].id \in Article
             /\ request[q].copy \in Row
             /\ request[q].changed \in BOOLEAN
             /\ request[q].wanted \in Svc!ArticleStatus \cup {"UNSPECIFIED"}
  BY DEF TypeInv, TypeOK, Svc!ServiceTypeOK, Row
<1>4. ASSUME NEW c \in Consumer
      PROVE  /\ consumer[c].pc \in Rev!ConsumerPc
             /\ consumer[c].locked \in BOOLEAN
             /\ consumer[c].copy \in Row
             /\ consumer[c].event \in {0} \cup (1..MaxEvent)
             /\ Working(c) => /\ consumer[c].event \in DOMAIN payload
                              /\ Rev!Subject(c) \in Article
  <2>1. DOMAIN written = 1..MaxEvent
    BY DEF TypeInv, TypeOK, Evt!Event
  <2>2. /\ consumer[c].pc \in Rev!ConsumerPc
        /\ consumer[c].locked \in BOOLEAN
        /\ consumer[c].copy \in Row
        /\ consumer[c].event \in {0} \cup (1..MaxEvent)
    BY <2>1, SameTypes DEF TypeInv, TypeOK, Rev!ReviewTypeOK
  <2>3. Working(c) => consumer[c].event \in DOMAIN payload
    BY DEF TypeInv
  <2>4. ASSUME Working(c) PROVE payload[consumer[c].event].article \in Article
    <3>1. payload[consumer[c].event] \in OutboxEvent
      BY <1>1, <1>2, <2>3, <2>4, ElementOfSeq
    <3> QED
      BY <3>1 DEF OutboxEvent
  <2> QED
    BY <2>2, <2>3, <2>4 DEF Rev!Subject, Rev!Message
<1> QED
  BY <1>1, <1>2, <1>3, <1>4

\* Idle is a state of a handler.
LEMMA IdleLemma == Svc!Idle \in RequestState /\ Svc!Idle.pc = "idle"
<1>1. (CHOOSE a \in Article : TRUE) \in Article
  BY PipelineAssumption
<1> QED
  BY <1>1, NoRowLemma DEF Svc!Idle, RequestState, Svc!RequestPc

\* A transaction that inserts an event keeps the events there are.
LEMMA CreateTxLemma ==
  ASSUME TypeInv, NEW message \in OutboxEvent, Svc!CreateTx(message)
  PROVE  /\ payload' \in Seq(OutboxEvent)
         /\ Len(payload') = Len(payload) + 1
         /\ Len(payload') <= MaxEvent
         /\ DOMAIN payload' = 1..Len(payload')
         /\ \A e \in DOMAIN payload : e \in DOMAIN payload' /\ payload'[e] = payload[e]
         /\ payload'[Len(payload')] = message
<1>1. payload \in Seq(OutboxEvent) /\ Len(payload) \in Nat /\ DOMAIN payload = 1..Len(payload)
  BY TypeFacts
<1>2. Len(payload) < MaxEvent /\ payload' = Append(payload, message)
  BY DEF Svc!CreateTx
<1>3. /\ payload' \in Seq(OutboxEvent)
      /\ Len(payload') = Len(payload) + 1
      /\ \A e \in 1..Len(payload) : payload'[e] = payload[e]
      /\ payload'[Len(payload) + 1] = message
  BY <1>1, <1>2, AppendProperties
<1> QED
  BY <1>1, <1>2, <1>3, PipelineAssumption

\* What UpdateArticle writes: a row with the content of its copy, which is published
\* only if the copy was, and at most one event.
UpdatedRow(q, row) ==
    /\ row \in Row
    /\ row.row = request[q].copy.row
    /\ row.content = request[q].copy.content
    /\ row.status = "PUBLISHED" => request[q].copy.status = "PUBLISHED"

LEMMA UpdateEffect ==
  ASSUME TypeInv, NEW q \in Request, Svc!UpdateWrite(q)
  PROVE  /\ articles' = articles
            \/ /\ Svc!Live(request[q].id)
               /\ \E row : /\ UpdatedRow(q, row)
                            /\ articles' = [articles EXCEPT ![request[q].id] = row]
         /\ payload' = payload \/ \E message \in OutboxEvent : Svc!CreateTx(message)
<1> DEFINE r == request[q]
<1>1. /\ r.id \in Article /\ r.copy \in Row
      /\ r.wanted \in Svc!ArticleStatus \cup {"UNSPECIFIED"}
  BY TypeFacts
<1>2. ASSUME NEW status \in Svc!ArticleStatus, NEW stage \in Svc!PublishStage,
             status = "PUBLISHED" => r.copy.status = "PUBLISHED"
      PROVE  /\ UpdatedRow(q, [r.copy EXCEPT !.status = status])
             /\ UpdatedRow(q, Svc!SetSyncState([r.copy EXCEPT !.status = status], stage))
  BY <1>1, <1>2 DEF UpdatedRow, Row, Svc!ArticleRow, Svc!SetSyncState
<1>3. ASSUME NEW row, UpdatedRow(q, row)
      PROVE  /\ Svc!ReviewMessage(r.id, row.content) \in OutboxEvent
             /\ Svc!DeleteEvent(r.id, row.content) \in OutboxEvent
  BY <1>1, <1>3
  DEF UpdatedRow, OutboxEvent, Row, Svc!ArticleRow, Svc!EventType, Svc!ReviewMessage,
      Svc!DeleteEvent
<1>4. ASSUME NEW row, UpdatedRow(q, row), Svc!UpdateToReviewing(q, row)
      PROVE  /\ articles' = articles \/ Svc!UpdateTx(r.id, row)
             /\ payload' = payload \/ \E message \in OutboxEvent : Svc!CreateTx(message)
  BY <1>3, <1>4 DEF Svc!UpdateToReviewing
<1> SUFFICES \/ \E row : /\ UpdatedRow(q, row)
                         /\ articles' = articles \/ Svc!UpdateTx(r.id, row)
                         /\ payload' = payload \/ \E message \in OutboxEvent : Svc!CreateTx(message)
  BY DEF Svc!UpdateTx
<1>5. CASE Svc!UpdatePublishedToSourceOnly(q)
  <2> DEFINE row == Svc!SetSyncState([r.copy EXCEPT !.status = r.wanted], "source_only")
  <2>1. r.wanted \in Svc!ArticleStatus /\ r.wanted # "PUBLISHED"
    BY <1>1, <1>5 DEF Svc!UpdatePublishedToSourceOnly, Svc!Withdraws
  <2>2. UpdatedRow(q, row)
    BY <1>2, <2>1 DEF Svc!PublishStage
  <2>3. row.content = r.copy.content
    BY <2>2 DEF UpdatedRow
  <2> QED
    BY <1>3, <1>5, <2>2, <2>3 DEF Svc!UpdatePublishedToSourceOnly
<1>6. CASE Svc!UpdatePublishedSource(q)
  <2> DEFINE row == Svc!SetSyncState([r.copy EXCEPT !.status = "REVIEWING"], "queued")
  <2>1. UpdatedRow(q, row)
    BY <1>2 DEF Svc!PublishStage, Svc!ArticleStatus
  <2> QED
    BY <1>4, <1>6, <2>1 DEF Svc!UpdatePublishedSource
<1>7. CASE Svc!UpdateOther(q)
  <2> DEFINE row == [r.copy EXCEPT !.status = Svc!NewStatus(r)]
  <2>1. /\ Svc!NewStatus(r) \in Svc!ArticleStatus
        /\ Svc!NewStatus(r) = "PUBLISHED" => r.copy.status = "PUBLISHED"
    BY <1>1 DEF Svc!NewStatus, Row, Svc!ArticleRow
  <2>2. UpdatedRow(q, row)
    BY <1>2, <2>1 DEF Svc!PublishStage
  <2> QED
    BY <1>4, <1>7, <2>2 DEF Svc!UpdateOther
<1> QED
  BY <1>5, <1>6, <1>7 DEF Svc!UpdateWrite

\* A handler's step keeps the tables and the events that were committed.
EventsKept == \A e \in DOMAIN payload : e \in DOMAIN payload' /\ payload'[e] = payload[e]

LEMMA ServiceTypes ==
  ASSUME TypeInv, Svc!ServiceNext
  PROVE  /\ articles' \in [Article -> Row]
         /\ objects' \subseteq Path
         /\ payload' \in Seq(OutboxEvent)
         /\ Len(payload') <= MaxEvent
         /\ EventsKept
         /\ request' \in [Request -> RequestState]
         /\ forgotten' = forgotten
         /\ faults' \in 0..MaxFaults
<1> USE TypeFacts DEF EventsKept
<1>1. request \in [Request -> RequestState] /\ faults \in 0..MaxFaults
  BY DEF TypeInv, TypeOK, Svc!ServiceTypeOK, RequestState, Row
<1>2. ASSUME NEW q \in Request, Svc!Done(q)
      PROVE  request' \in [Request -> RequestState]
  BY <1>1, <1>2, IdleLemma DEF Svc!Done
<1>3. ASSUME NEW a \in Article, Svc!CreateArticle(a)
      PROVE  /\ articles' \in [Article -> Row]
             /\ \E message \in OutboxEvent : Svc!CreateTx(message)
  <2>1. PICK path \in Path :
          /\ articles' = [articles EXCEPT ![a] = [row |-> "live", status |-> "REVIEWING",
                                                  stage |-> "queued", content |-> path]]
          /\ Svc!CreateTx(Svc!ReviewMessage(a, path))
    BY <1>3 DEF Svc!CreateArticle
  <2> QED
    BY <2>1
    DEF Row, Svc!ArticleRow, Svc!RowState, Svc!ArticleStatus, Svc!PublishStage,
        Svc!ReviewMessage, OutboxEvent, Svc!EventType
<1>4. CASE \E a \in Article : Svc!CreateArticle(a)
  BY <1>1, <1>3, <1>4, CreateTxLemma DEF Svc!CreateArticle
<1>5. ASSUME NEW q \in Request, Svc!UpdateRead(q)
      PROVE  request' \in [Request -> RequestState]
  <2>1. PICK a \in Article, wanted \in RequestedStatuses, changed \in BOOLEAN, path \in Path :
          request' = [request EXCEPT ![q] =
             [pc |-> "update", id |-> a, copy |-> [articles[a] EXCEPT !.content = path],
              changed |-> changed, wanted |-> wanted]]
    BY <1>5 DEF Svc!UpdateRead
  <2>2. [articles[a] EXCEPT !.content = path] \in Row
    BY DEF Row, Svc!ArticleRow
  <2>3. wanted \in Svc!ArticleStatus \cup {"UNSPECIFIED"}
    BY PipelineAssumption DEF Svc!ArticleStatus
  <2> QED
    BY <1>1, <2>1, <2>2, <2>3 DEF RequestState, Svc!RequestPc
<1>6. ASSUME NEW q \in Request, Svc!DeleteRead(q)
      PROVE  request' \in [Request -> RequestState]
  <2>1. PICK a \in Article :
          request' = [request EXCEPT ![q] =
             [Svc!Idle EXCEPT !.pc = "removeObject", !.id = a, !.copy = articles[a]]]
    BY <1>6 DEF Svc!DeleteRead
  <2> QED
    BY <1>1, <2>1, IdleLemma DEF RequestState, Svc!RequestPc
<1>7. ASSUME NEW q \in Request, Svc!UpdateRead(q) \/ Svc!DeleteRead(q)
      PROVE  UNCHANGED <<articles, objects, payload, forgotten, faults>>
  BY <1>7 DEF Svc!UpdateRead, Svc!DeleteRead
<1>8. CASE \E q \in Request : Svc!UpdateRead(q) \/ Svc!DeleteRead(q)
  BY <1>1, <1>5, <1>6, <1>7, <1>8
<1>9. CASE \E q \in Request : Svc!UpdateWrite(q)
  <2>1. PICK q \in Request : Svc!UpdateWrite(q)
    BY <1>9
  <2>2. articles' \in [Article -> Row]
    BY <2>1, UpdateEffect DEF UpdatedRow
  <2>3. payload' = payload \/ \E message \in OutboxEvent : Svc!CreateTx(message)
    BY <2>1, UpdateEffect
  <2> QED
    BY <1>1, <1>2, <2>1, <2>2, <2>3, CreateTxLemma DEF Svc!UpdateWrite
<1>10. CASE \E q \in Request : Svc!RemoveObject(q)
  <2>1. PICK q \in Request : Svc!RemoveObject(q)
    BY <1>10
  <2>2. request' \in [Request -> RequestState]
    BY <1>1, <2>1 DEF Svc!RemoveObject, RequestState, Svc!RequestPc
  <2> QED
    BY <1>1, <2>1, <2>2 DEF Svc!RemoveObject
<1>11. CASE \E q \in Request : Svc!DeleteTx(q)
  <2>1. PICK q \in Request : Svc!DeleteTx(q)
    BY <1>11
  <2>2. Svc!DeleteEvent(request[q].id, request[q].copy.content) \in OutboxEvent
    BY DEF Row, Svc!ArticleRow, Svc!DeleteEvent, OutboxEvent, Svc!EventType
  <2>3. articles' \in [Article -> Row]
    BY <2>1 DEF Svc!DeleteTx, Row, Svc!ArticleRow, Svc!RowState
  <2> QED
    BY <1>1, <1>2, <2>1, <2>2, <2>3, CreateTxLemma DEF Svc!DeleteTx
<1>12. CASE \E q \in Request : Svc!RequestFails(q)
  BY <1>1, <1>2, <1>12, PipelineAssumption DEF Svc!RequestFails
<1> QED
  BY <1>4, <1>8, <1>9, <1>10, <1>11, <1>12 DEF Svc!ServiceNext, Svc!HandlerStep

\* The steps of consumer c; the others stay where they are.
ConsumerStep(c) == Rev!Deliver(c) \/ Rev!ConsumeStep(c) \/ Rev!ReviewFault(c)

\* What a consumer's step makes of its own state: it starts with an event that is
\* committed, or stays at the one it has.
Moves(c) ==
    /\ consumer' \in [Consumer -> ConsumerState]
    /\ \A d \in Consumer \ {c} : consumer'[d] = consumer[d]
    /\ \/ consumer'[c].pc = "idle"
       \/ Working(c) /\ consumer'[c].event = consumer[c].event
       \/ /\ consumer[c].pc = "idle" /\ consumer'[c].pc = "lock"
          /\ consumer'[c].event \in DOMAIN payload

\* Any change of pc, lock and copy is a move of a consumer at work.
LEMMA MoveLemma ==
  ASSUME TypeInv, NEW c \in Consumer, Working(c), NEW state,
         state \in ConsumerState, state.pc = "idle" \/ state.event = consumer[c].event,
         consumer' = [consumer EXCEPT ![c] = state]
  PROVE  Moves(c)
<1>1. consumer \in [Consumer -> ConsumerState]
  BY SameTypes DEF TypeInv, TypeOK, Rev!ReviewTypeOK, ConsumerState, Evt!Event
<1> QED
  BY <1>1 DEF Moves

\* Idle is a state of a consumer.
LEMMA RevIdleLemma == Rev!Idle \in ConsumerState /\ Rev!Idle.pc = "idle"
BY NoRowLemma, SameTypes DEF Rev!Idle, ConsumerState, Rev!ConsumerPc

LEMMA GotoLemma ==
  ASSUME TypeInv, NEW c \in Consumer, Working(c), NEW pc \in Rev!ConsumerPc, Rev!Goto(c, pc)
  PROVE  Moves(c)
<1> DEFINE state == [consumer[c] EXCEPT !.pc = pc]
<1>1. consumer[c] \in ConsumerState
  BY SameTypes DEF TypeInv, TypeOK, Rev!ReviewTypeOK, ConsumerState, Evt!Event
<1>2. state \in ConsumerState /\ state.event = consumer[c].event
  BY <1>1 DEF ConsumerState
<1>3. consumer' = [consumer EXCEPT ![c] = state]
  BY DEF Rev!Goto
<1> QED
  BY <1>2, <1>3, MoveLemma

LEMMA ReturnLemma ==
  ASSUME TypeInv, NEW c \in Consumer, Working(c), Rev!Return(c)
  PROVE  Moves(c)
<1>1. CASE consumer[c].locked
  BY <1>1, GotoLemma DEF Rev!Return, Rev!ConsumerPc
<1>2. CASE ~consumer[c].locked
  BY <1>2, MoveLemma, RevIdleLemma DEF Rev!Return
<1> QED
  BY <1>1, <1>2

LEMMA ConsumerMoves ==
  ASSUME TypeInv, NEW c \in Consumer, ConsumerStep(c)
  PROVE  Moves(c)
<1>1. consumer \in [Consumer -> ConsumerState] /\ consumer[c] \in ConsumerState
  BY SameTypes DEF TypeInv, TypeOK, Rev!ReviewTypeOK, ConsumerState, Evt!Event
<1>2. CASE Rev!Deliver(c)
  <2>1. PICK e \in DOMAIN payload : consumer' = [consumer EXCEPT ![c] =
                                       [Rev!Idle EXCEPT !.pc = "lock", !.event = e]]
    BY <1>2 DEF Rev!Deliver
  <2>2. e \in {0} \cup (1..MaxEvent)
    BY TypeFacts, PipelineAssumption
  <2>3. [Rev!Idle EXCEPT !.pc = "lock", !.event = e] \in ConsumerState
    BY <2>2, RevIdleLemma DEF ConsumerState, Rev!ConsumerPc
  <2>4. [Rev!Idle EXCEPT !.pc = "lock", !.event = e].event = e
    BY RevIdleLemma DEF ConsumerState
  <2> QED
    BY <1>1, <1>2, <2>1, <2>3, <2>4, RevIdleLemma
    DEF Moves, Rev!Deliver, Rev!At, ConsumerState
<1>3. CASE Rev!Lock(c)
  <2> DEFINE state == [consumer[c] EXCEPT !.pc = "read", !.locked = TRUE]
  <2>1. state \in ConsumerState /\ state.event = consumer[c].event
    BY <1>1 DEF ConsumerState, Rev!ConsumerPc
  <2>2. consumer' = [consumer EXCEPT ![c] = state] /\ Working(c)
    BY <1>3 DEF Rev!Lock, Rev!At, Working
  <2> QED
    BY <2>1, <2>2, MoveLemma
<1>4. CASE Rev!LockRefused(c) \/ Rev!Unlock(c) \/ Rev!UnlockError(c) \/ Rev!Crash(c)
  BY <1>4, MoveLemma, RevIdleLemma
  DEF Rev!LockRefused, Rev!Unlock, Rev!UnlockError, Rev!Crash, Rev!At, Working
<1>5. CASE Rev!LockError(c) \/ Rev!ReadContent(c) \/ Rev!ReadError(c) \/ Rev!Stage(c)
  BY <1>5, GotoLemma
  DEF Rev!LockError, Rev!ReadContent, Rev!ReadError, Rev!Stage, Rev!At, Working, Rev!ConsumerPc
<1>6. CASE Rev!RejectWrite(c) \/ Rev!Publish(c) \/ Rev!DbError(c)
  BY <1>6, ReturnLemma
  DEF Rev!RejectWrite, Rev!Publish, Rev!DbError, Rev!At, Working
<1>7. CASE Rev!Audit(c)
  BY <1>7, GotoLemma, ReturnLemma DEF Rev!Audit, Rev!At, Working, Rev!ConsumerPc
<1>8. ASSUME NEW copy \in Row, NEW pc \in {"rejectWrite", "stage"}, Working(c),
             consumer' = [consumer EXCEPT ![c].pc = pc, ![c].copy = copy]
      PROVE  Moves(c)
  <2> DEFINE state == [consumer[c] EXCEPT !.pc = pc, !.copy = copy]
  <2>1. state \in ConsumerState /\ state.event = consumer[c].event
    BY <1>1 DEF ConsumerState, Rev!ConsumerPc
  <2>2. consumer' = [consumer EXCEPT ![c] = state]
    BY <1>8
  <2> QED
    BY <1>8, <2>1, <2>2, MoveLemma
<1>9. CASE Rev!RejectFind(c)
  <2>1. Working(c) /\ articles[Rev!Subject(c)] \in Row
    BY <1>9, TypeFacts DEF Rev!RejectFind, Rev!At, Working
  <2> QED
    BY <1>8, <1>9, <2>1, ReturnLemma DEF Rev!RejectFind
<1>10. CASE Rev!Find(c)
  <2> DEFINE found == articles[Rev!Subject(c)]
  <2>1. Working(c) /\ found \in Row
    BY <1>10, TypeFacts DEF Rev!Find, Rev!At, Working
  <2>2. Rev!SetSyncState(found, "security_checking") \in Row
    BY <2>1 DEF Row, Svc!ArticleRow, Svc!PublishStage, Rev!SetSyncState
  <2> QED
    BY <1>8, <1>10, <2>1, <2>2, ReturnLemma DEF Rev!Find
<1>11. CASE Rev!Rebalance(c)
  BY <1>1, <1>11 DEF Rev!Rebalance, Moves, Rev!At, Working
<1> QED
  BY <1>2, <1>3, <1>4, <1>5, <1>6, <1>7, <1>9, <1>10, <1>11
  DEF ConsumerStep, Rev!ConsumeStep, Rev!ReviewFault

\* What consumers do to the articles: rows stay, and so does their content; only
\* live ones change; an article becomes published only by a consumer that is about to publish it.
RowsKept ==
    /\ articles' \in [Article -> Row]
    /\ \A a \in Article :
          /\ articles[a].row # "live" => articles'[a] = articles[a]
          /\ articles'[a].row = articles[a].row
          /\ articles'[a].content = articles[a].content
          /\ articles'[a].status = "PUBLISHED" =>
                \/ articles[a].status = "PUBLISHED"
                \/ \E c \in Consumer : consumer[c].pc = "publish" /\ Rev!Subject(c) = a

LEMMA SetStatusLemma ==
  ASSUME TypeInv, NEW a \in Article, NEW copy \in Row, Rev!UpdateStatusAndExtInfo(a, copy),
         copy.status = "PUBLISHED" =>
            \E c \in Consumer : consumer[c].pc = "publish" /\ Rev!Subject(c) = a
  PROVE  RowsKept
<1> DEFINE row == [row |-> articles[a].row, status |-> copy.status, stage |-> copy.stage,
                   content |-> articles[a].content]
<1>1. articles \in [Article -> Row] /\ articles[a] \in Row
  BY TypeFacts
<1>2. row \in Row
  BY <1>1 DEF Row, Svc!ArticleRow
<1>3. ASSUME articles[a].row = "live" PROVE articles' = [articles EXCEPT ![a] = row]
  <2>1. ASSUME NEW r \in Row
        PROVE  [[r EXCEPT !.status = copy.status] EXCEPT !.stage = copy.stage] =
                 [row |-> r.row, status |-> copy.status, stage |-> copy.stage,
                  content |-> r.content]
    <3> DEFINE half == [r EXCEPT !.status = copy.status]
    <3>1. half = [row |-> r.row, status |-> copy.status, stage |-> r.stage, content |-> r.content]
      BY DEF Row, Svc!ArticleRow
    <3> HIDE DEF half
    <3>2. [half EXCEPT !.stage = copy.stage] =
            [row |-> r.row, status |-> copy.status, stage |-> copy.stage, content |-> r.content]
      BY <3>1
    <3> QED
      BY <3>2 DEF half
  <2>2. articles' = [[articles EXCEPT ![a].status = copy.status] EXCEPT ![a].stage = copy.stage]
    BY <1>3 DEF Rev!UpdateStatusAndExtInfo
  <2> QED
    BY <1>1, <2>1, <2>2
<1>4. articles[a].row # "live" => articles' = articles
  BY DEF Rev!UpdateStatusAndExtInfo
<1> QED
  BY <1>1, <1>2, <1>3, <1>4 DEF RowsKept

LEMMA SetStageLemma ==
  ASSUME TypeInv, NEW a \in Article, NEW stage \in Svc!PublishStage,
         \/ articles' = articles
         \/ articles[a].row = "live" /\ articles' = [articles EXCEPT ![a].stage = stage]
  PROVE  RowsKept
<1> DEFINE row == [row |-> articles[a].row, status |-> articles[a].status, stage |-> stage,
                   content |-> articles[a].content]
<1>1. articles \in [Article -> Row] /\ articles[a] \in Row
  BY TypeFacts
<1>2. row \in Row
  BY <1>1 DEF Row, Svc!ArticleRow
<1>3. articles' = articles \/ (articles[a].row = "live" /\ articles' = [articles EXCEPT ![a] = row])
  BY <1>1 DEF Row, Svc!ArticleRow
<1> QED
  BY <1>1, <1>2, <1>3 DEF RowsKept

LEMMA ConsumerKeepsRows ==
  ASSUME TypeInv, NEW c \in Consumer, ConsumerStep(c)
  PROVE  RowsKept
<1>1. consumer[c].copy \in Row /\ (Working(c) => Rev!Subject(c) \in Article)
  BY TypeFacts
<1>2. CASE UNCHANGED articles
  BY <1>2, TypeFacts DEF RowsKept
<1>3. CASE Rev!RejectWrite(c)
  <2> DEFINE copy == Rev!SetSyncState([consumer[c].copy EXCEPT !.status = "REJECTED"], "rejected")
  <2>1. copy \in Row /\ copy.status = "REJECTED"
    BY <1>1 DEF Row, Svc!ArticleRow, Svc!PublishStage, Svc!ArticleStatus, Rev!SetSyncState
  <2> QED
    BY <1>1, <1>3, <2>1, SetStatusLemma DEF Rev!RejectWrite, Rev!At, Working
<1>4. CASE Rev!Publish(c)
  <2> DEFINE copy == Rev!SetSyncState([consumer[c].copy EXCEPT !.status = "PUBLISHED"], "published")
  <2>1. copy \in Row
    BY <1>1 DEF Row, Svc!ArticleRow, Svc!PublishStage, Svc!ArticleStatus, Rev!SetSyncState
  <2> QED
    BY <1>1, <1>4, <2>1, SetStatusLemma DEF Rev!Publish, Rev!At, Working
<1>5. CASE Rev!Stage(c)
  <2>1. consumer[c].copy.stage \in Svc!PublishStage
    BY <1>1 DEF Row, Svc!ArticleRow
  <2> QED
    BY <1>1, <1>5, <2>1, SetStageLemma DEF Rev!Stage, Rev!At, Working, Rev!UpdateExtInfo
<1> QED
  BY <1>2, <1>3, <1>4, <1>5
  DEF ConsumerStep, Rev!ConsumeStep, Rev!ReviewFault, Rev!Deliver, Rev!Lock, Rev!LockRefused,
      Rev!LockError, Rev!ReadContent, Rev!ReadError, Rev!RejectFind, Rev!Find, Rev!Audit,
      Rev!DbError, Rev!Unlock, Rev!UnlockError, Rev!Crash, Rev!Rebalance

LEMMA SyncKeepsRows ==
  ASSUME TypeInv, SyncStep
  PROVE  RowsKept /\ Res!SyncTypeOK'
<1>0. /\ syncing \in [SyncConsumer -> [pc : {"idle", "write"}, id : Article, outcome : Svc!PublishStage]]
      /\ Res!SyncIdle \in [pc : {"idle", "write"}, id : Article, outcome : Svc!PublishStage]
  <2>1. (CHOOSE a \in Article : TRUE) \in Article
    BY PipelineAssumption
  <2> QED
    BY <2>1, SameTypes DEF TypeInv, TypeOK, Res!SyncTypeOK, Res!SyncIdle, Svc!PublishStage
<1> SUFFICES /\ RowsKept
             /\ syncing' \in [SyncConsumer -> [pc : {"idle", "write"}, id : Article,
                                               outcome : Svc!PublishStage]]
  BY SameTypes DEF Res!SyncTypeOK
<1>1. PICK s \in SyncConsumer : Res!ReadResult(s) \/ Res!RecordResult(s) \/ Res!ResultFails(s)
  BY DEF SyncStep, Res!SyncNext
<1>2. CASE Res!ReadResult(s)
  <2>1. PICK e \in DOMAIN payload, outcome \in {"source_only", "delete_failed"} :
          syncing' = [syncing EXCEPT ![s] =
               [pc |-> "write", id |-> payload[e].article, outcome |-> outcome]]
    BY <1>2 DEF Res!ReadResult
  <2>2. payload[e] \in OutboxEvent
    BY TypeFacts, ElementOfSeq
  <2> QED
    BY <1>0, <1>2, <2>1, <2>2, TypeFacts DEF Res!ReadResult, RowsKept, OutboxEvent, Svc!PublishStage
<1>3. CASE Res!RecordResult(s)
  <2>1. syncing[s].id \in Article /\ syncing[s].outcome \in Svc!PublishStage
    BY <1>0
  <2> QED
    BY <1>0, <1>3, <2>1, SetStageLemma DEF Res!RecordResult, Res!SyncEnds, Res!SetSyncState
<1>4. CASE Res!ResultFails(s)
  BY <1>0, <1>4, TypeFacts DEF Res!ResultFails, Res!SyncEnds, RowsKept
<1> QED
  BY <1>1, <1>2, <1>3, <1>4

\* What is left of the state of the consumers.
LEMMA ReviewTypes ==
  ASSUME TypeInv, Rev!ReviewNext
  PROVE  /\ taken' \in [DOMAIN written -> Nat]
         /\ lock' \in [Article -> BOOLEAN]
         /\ audited' \in [Article -> SUBSET Path]
         /\ faults' \in 0..MaxFaults
         /\ UNCHANGED <<objects, payload, written>>
<1>1. /\ taken \in [DOMAIN written -> Nat]
      /\ lock \in [Article -> BOOLEAN]
      /\ audited \in [Article -> SUBSET Path]
      /\ faults \in 0..MaxFaults
  BY DEF TypeInv, TypeOK, Rev!ReviewTypeOK
<1>2. ASSUME NEW a \in Article, Rev!LockExpires(a)
      PROVE  /\ lock' \in [Article -> BOOLEAN]
             /\ UNCHANGED <<taken, audited, faults, objects, payload, written>>
  BY <1>1, <1>2 DEF Rev!LockExpires
<1>3. ASSUME NEW c \in Consumer, ConsumerStep(c)
      PROVE  /\ taken' \in [DOMAIN written -> Nat]
             /\ lock' \in [Article -> BOOLEAN]
             /\ audited' \in [Article -> SUBSET Path]
             /\ faults' \in 0..MaxFaults
             /\ UNCHANGED <<objects, payload, written>>
  <2>1. UNCHANGED <<objects, payload, written>>
    BY <1>3
    DEF ConsumerStep, Rev!ConsumeStep, Rev!ReviewFault, Rev!Deliver, Rev!Lock, Rev!LockRefused,
        Rev!LockError, Rev!ReadContent, Rev!ReadError, Rev!RejectFind, Rev!RejectWrite, Rev!Find,
        Rev!Stage, Rev!Audit, Rev!Publish, Rev!DbError, Rev!Unlock, Rev!UnlockError, Rev!Crash,
        Rev!Rebalance
  <2>2. faults' \in 0..MaxFaults
    <3>1. UNCHANGED faults \/ (faults < MaxFaults /\ faults' = faults + 1)
      BY <1>3
      DEF ConsumerStep, Rev!ConsumeStep, Rev!ReviewFault, Rev!Deliver, Rev!Lock, Rev!LockRefused,
          Rev!LockError, Rev!ReadContent, Rev!ReadError, Rev!RejectFind, Rev!RejectWrite, Rev!Find,
          Rev!Stage, Rev!Audit, Rev!Publish, Rev!DbError, Rev!Unlock, Rev!UnlockError, Rev!Crash,
          Rev!Rebalance, Rev!Fault
    <3> QED
      BY <1>1, <3>1, PipelineAssumption
  <2>3. taken' \in [DOMAIN written -> Nat]
    <3>1. CASE Rev!Deliver(c)
      <4>1. PICK e \in DOMAIN payload : taken' = [taken EXCEPT ![e] = @ + 1]
        BY <3>1 DEF Rev!Deliver
      <4>2. e \in DOMAIN written
        BY TypeFacts, PipelineAssumption DEF TypeInv, TypeOK, Evt!Event
      <4> QED
        BY <1>1, <4>1, <4>2
    <3>2. CASE Rev!Crash(c) \/ Rev!Rebalance(c)
      <4>1. taken' = [taken EXCEPT ![consumer[c].event] = IF @ = 0 THEN 0 ELSE @ - 1]
        BY <3>2 DEF Rev!Crash, Rev!Rebalance, Rev!Redelivered
      <4>2. \A n \in Nat : (IF n = 0 THEN 0 ELSE n - 1) \in Nat
        OBVIOUS
      <4> QED
        BY <1>1, <4>1, <4>2
    <3>3. CASE UNCHANGED taken
      BY <1>1, <3>3
    <3> QED
      BY <1>3, <3>1, <3>2, <3>3
      DEF ConsumerStep, Rev!ConsumeStep, Rev!ReviewFault, Rev!Lock, Rev!LockRefused,
          Rev!LockError, Rev!ReadContent, Rev!ReadError, Rev!RejectFind, Rev!RejectWrite, Rev!Find,
          Rev!Stage, Rev!Audit, Rev!Publish, Rev!DbError, Rev!Unlock, Rev!UnlockError
  <2>4. lock' \in [Article -> BOOLEAN]
    <3>1. CASE Rev!Lock(c) \/ Rev!Unlock(c)
      BY <1>1, <3>1 DEF Rev!Lock, Rev!Unlock
    <3>2. CASE Rev!LockError(c)
      <4>1. PICK set \in BOOLEAN : lock' = [lock EXCEPT ![Rev!Subject(c)] = @ \/ set]
        BY <3>2 DEF Rev!LockError
      <4> QED
        BY <1>1, <4>1
    <3>3. CASE UNCHANGED lock
      BY <1>1, <3>3
    <3> QED
      BY <1>3, <3>1, <3>2, <3>3
      DEF ConsumerStep, Rev!ConsumeStep, Rev!ReviewFault, Rev!Deliver, Rev!LockRefused,
          Rev!ReadContent, Rev!ReadError, Rev!RejectFind, Rev!RejectWrite, Rev!Find,
          Rev!Stage, Rev!Audit, Rev!Publish, Rev!DbError, Rev!UnlockError, Rev!Crash,
          Rev!Rebalance
  <2>5. audited' \in [Article -> SUBSET Path]
    <3>1. CASE Rev!Audit(c)
      <4>1. payload[consumer[c].event] \in OutboxEvent
        BY <3>1, TypeFacts, ElementOfSeq DEF Rev!Audit, Rev!At, Working
      <4>2. Rev!Message(c).path \in Path
        BY <4>1 DEF Rev!Message, OutboxEvent
      <4> QED
        BY <1>1, <3>1, <4>2 DEF Rev!Audit
    <3>2. CASE UNCHANGED audited
      BY <1>1, <3>2
    <3> QED
      BY <1>3, <3>1, <3>2
      DEF ConsumerStep, Rev!ConsumeStep, Rev!ReviewFault, Rev!Deliver, Rev!Lock, Rev!LockRefused,
          Rev!LockError, Rev!ReadContent, Rev!ReadError, Rev!RejectFind, Rev!RejectWrite, Rev!Find,
          Rev!Stage, Rev!Publish, Rev!DbError, Rev!Unlock, Rev!UnlockError, Rev!Crash,
          Rev!Rebalance
  <2> QED
    BY <2>1, <2>2, <2>3, <2>4, <2>5
<1> QED
  BY <1>1, <1>2, <1>3 DEF Rev!ReviewNext, ConsumerStep

\* The types of the initial state.
LEMMA InitTypes == Init => TypeInv
<1> SUFFICES ASSUME Init PROVE TypeInv
  OBVIOUS
<1>1. /\ articles = [a \in Article |-> Svc!NoRow] /\ objects = Path /\ payload = <<>>
      /\ request = [q \in Request |-> Svc!Idle]
      /\ written = [e \in Evt!Event |-> 0] /\ forgotten = {} /\ faults = 0
      /\ taken = [e \in DOMAIN written |-> 0] /\ lock = [a \in Article |-> FALSE]
      /\ consumer = [c \in Consumer |-> Rev!Idle] /\ audited = [a \in Article |-> {}]
      /\ syncing = [s \in SyncConsumer |-> Res!SyncIdle]
  BY DEF Init, Svc!ServiceInit, Evt!Init, Rev!ReviewInit, Res!SyncInit
<1>2. Svc!ServiceTypeOK
  BY <1>1, NoRowLemma, IdleLemma DEF Svc!ServiceTypeOK, Row, RequestState
<1>3. Rev!ReviewTypeOK
  BY <1>1, RevIdleLemma, SameTypes DEF Rev!ReviewTypeOK, ConsumerState, Evt!Event
<1>4. Res!SyncTypeOK
  <2>1. (CHOOSE a \in Article : TRUE) \in Article
    BY PipelineAssumption
  <2> QED
    BY <1>1, <2>1 DEF Res!SyncTypeOK, Res!SyncIdle, Res!PublishStage
<1>5. written \in [Evt!Event -> 0..MaxCopies] /\ faults \in 0..MaxFaults
  BY <1>1, PipelineAssumption
<1>6. Len(payload) <= MaxEvent /\ \A c \in Consumer : ~Working(c)
  BY <1>1, PipelineAssumption, RevIdleLemma DEF Working
<1> QED
  BY <1>1, <1>2, <1>3, <1>4, <1>5, <1>6 DEF TypeInv, TypeOK

\* Every step keeps the types.
LEMMA TypeStep ==
  ASSUME TypeInv, [Next]_vars
  PROVE  TypeInv'
<1> USE DEF TypeInv, TypeOK, Working
<1>1. CASE ServiceStep
  <2>1. /\ Svc!ServiceTypeOK' /\ Len(payload') <= MaxEvent /\ faults' \in 0..MaxFaults
        /\ EventsKept /\ forgotten' = forgotten
    BY <1>1, ServiceTypes DEF ServiceStep, Svc!ServiceTypeOK, Row, RequestState, OutboxEvent
  <2>2. /\ UNCHANGED <<written, taken, lock, consumer, audited, syncing>>
    BY <1>1 DEF ServiceStep, reviewVars
  <2> QED
    BY <2>1, <2>2 DEF Rev!ReviewTypeOK, Res!SyncTypeOK, EventsKept
<1>2. ASSUME NEW e \in Evt!Event, RelayWrite(e) PROVE TypeInv'
  <2>1. UNCHANGED <<articles, objects, payload, request, taken, lock, consumer, audited,
                    syncing, faults, forgotten>>
    BY <1>2 DEF RelayWrite, reviewVars, Evt!Write
  <2>2. written' \in [Evt!Event -> 0..MaxCopies]
    <3>1. written' = [f \in Evt!Event |-> IF f \in {e} THEN written[f] + 1 ELSE written[f]]
      BY <1>2 DEF RelayWrite, Evt!Write
    <3>2. written[e] < MaxCopies
      BY <1>2 DEF RelayWrite
    <3>3. \A f \in Evt!Event : (IF f \in {e} THEN written[f] + 1 ELSE written[f]) \in 0..MaxCopies
      BY <3>2, PipelineAssumption
    <3> QED
      BY <3>1, <3>3
  <2>3. DOMAIN written' = DOMAIN written
    BY <2>2
  <2> QED
    BY <2>1, <2>2, <2>3 DEF Svc!ServiceTypeOK, Rev!ReviewTypeOK, Res!SyncTypeOK
<1>3. ASSUME NEW e \in Evt!Event, RelayForget(e) PROVE TypeInv'
  <2>1. /\ UNCHANGED <<articles, objects, payload, request, taken, lock, consumer, audited,
                       syncing, faults, written>>
        /\ forgotten' = forgotten \cup {e}
        /\ e \in DOMAIN payload
    BY <1>3, TypeFacts DEF RelayForget, reviewVars, Evt!Forget
  <2> QED
    BY <2>1 DEF Svc!ServiceTypeOK, Rev!ReviewTypeOK, Res!SyncTypeOK
<1>4. CASE ReviewStep
  <2>1. UNCHANGED <<forgotten, request, syncing>> /\ Rev!ReviewNext
    BY <1>4 DEF ReviewStep
  <2>2. /\ taken' \in [DOMAIN written -> Nat]
        /\ lock' \in [Article -> BOOLEAN]
        /\ audited' \in [Article -> SUBSET Path]
        /\ faults' \in 0..MaxFaults
        /\ UNCHANGED <<objects, payload, written>>
    BY <2>1, ReviewTypes
  <2>3. /\ articles' \in [Article -> Row]
        /\ consumer' \in [Consumer -> ConsumerState]
        /\ \A c \in Consumer : Working(c)' => consumer'[c].event \in DOMAIN payload
    <3>1. ASSUME NEW c \in Consumer, ConsumerStep(c)
          PROVE  /\ articles' \in [Article -> Row]
                 /\ consumer' \in [Consumer -> ConsumerState]
                 /\ \A d \in Consumer : Working(d)' => consumer'[d].event \in DOMAIN payload
      BY <3>1, ConsumerMoves, ConsumerKeepsRows DEF Moves, RowsKept
    <3>2. ASSUME NEW a \in Article, Rev!LockExpires(a)
          PROVE  UNCHANGED <<articles, consumer>>
      BY <3>2 DEF Rev!LockExpires
    <3>3. consumer \in [Consumer -> ConsumerState] /\ articles \in [Article -> Row]
      BY SameTypes, TypeFacts DEF Rev!ReviewTypeOK, ConsumerState, Evt!Event
    <3> QED
      BY <2>1, <3>1, <3>2, <3>3 DEF Rev!ReviewNext, ConsumerStep
  <2>4. Rev!ReviewTypeOK'
    BY <2>2, <2>3, SameTypes DEF Rev!ReviewTypeOK, ConsumerState, Evt!Event
  <2> QED
    BY <2>1, <2>2, <2>3, <2>4 DEF Svc!ServiceTypeOK, Res!SyncTypeOK, Row
<1>5. CASE SyncStep
  <2>1. articles' \in [Article -> Row] /\ Res!SyncTypeOK'
    BY <1>5, SyncKeepsRows DEF RowsKept
  <2> QED
    BY <1>5, <2>1 DEF SyncStep, reviewVars, Svc!ServiceTypeOK, Rev!ReviewTypeOK, Row
<1>6. CASE UNCHANGED vars
  BY <1>6 DEF vars, reviewVars, Svc!ServiceTypeOK, Rev!ReviewTypeOK, Res!SyncTypeOK
<1> QED
  BY <1>1, <1>2, <1>3, <1>4, <1>5, <1>6 DEF Next

\* The pipeline keeps its types: in particular consumers are only at work on
\* committed events and no counter leaves its bound.
THEOREM PipelineTypes == Spec => []TypeOK
<1>1. Init => TypeInv
  BY InitTypes
<1>2. TypeInv /\ [Next]_vars => TypeInv'
  BY TypeStep
<1>3. TypeInv => TypeOK
  BY DEF TypeInv
<1> QED
  BY <1>1, <1>2, <1>3, PTL DEF Spec

LEMMA TypeInvariant == Spec => []TypeInv
BY InitTypes, TypeStep, PTL DEF Spec

----------------------------------------------------------------------------
(* Deletions *)

\* Relays and consumers leave requests, events and objects alone, and whatever has
\* passed the audit has.
LEMMA OthersStep ==
  ASSUME TypeInv, [Next]_vars, ~ServiceStep
  PROVE  /\ RowsKept
         /\ UNCHANGED <<objects, payload, request>>
         /\ \A a \in Article : audited[a] \subseteq audited'[a]
         /\ faults <= faults'
<1> USE TypeFacts
<1>1. ASSUME UNCHANGED <<articles, objects, payload, request, audited, faults>>
      PROVE  /\ RowsKept
             /\ \A a \in Article : audited[a] \subseteq audited'[a]
             /\ faults <= faults'
  BY <1>1 DEF RowsKept
<1>2. CASE SyncStep
  BY <1>2, SyncKeepsRows DEF SyncStep, reviewVars
<1>3. CASE ReviewStep
  <2>1. ASSUME NEW c \in Consumer, ConsumerStep(c)
        PROVE  /\ \A a \in Article : audited[a] \subseteq audited'[a]
               /\ faults <= faults'
    <3>1. UNCHANGED faults \/ faults' = faults + 1
      BY <2>1
      DEF ConsumerStep, Rev!ConsumeStep, Rev!ReviewFault, Rev!Deliver, Rev!Lock, Rev!LockRefused,
          Rev!LockError, Rev!ReadContent, Rev!ReadError, Rev!RejectFind, Rev!RejectWrite, Rev!Find,
          Rev!Stage, Rev!Audit, Rev!Publish, Rev!DbError, Rev!Unlock, Rev!UnlockError, Rev!Crash,
          Rev!Rebalance, Rev!Fault
    <3>2. CASE Rev!Audit(c)
      BY <3>1, <3>2 DEF Rev!Audit, TypeInv, TypeOK, Rev!ReviewTypeOK
    <3>3. CASE UNCHANGED audited
      BY <3>1, <3>3
    <3> QED
      BY <2>1, <3>2, <3>3
      DEF ConsumerStep, Rev!ConsumeStep, Rev!ReviewFault, Rev!Deliver, Rev!Lock, Rev!LockRefused,
          Rev!LockError, Rev!ReadContent, Rev!ReadError, Rev!RejectFind, Rev!RejectWrite, Rev!Find,
          Rev!Stage, Rev!Publish, Rev!DbError, Rev!Unlock, Rev!UnlockError, Rev!Crash,
          Rev!Rebalance
  <2>2. ASSUME NEW a \in Article, Rev!LockExpires(a)
        PROVE  UNCHANGED <<articles, objects, payload, request, audited, faults>>
    BY <1>3, <2>2 DEF Rev!LockExpires, ReviewStep
  <2>3. UNCHANGED <<objects, payload, request>>
    BY <1>3, ReviewTypes DEF ReviewStep
  <2> QED
    BY <1>1, <1>3, <2>1, <2>2, <2>3, ConsumerKeepsRows DEF ReviewStep, Rev!ReviewNext, ConsumerStep
<1>4. ASSUME NEW e \in Evt!Event, RelayWrite(e) \/ RelayForget(e)
      PROVE  UNCHANGED <<articles, objects, payload, request, audited, faults>>
  BY <1>4 DEF RelayWrite, RelayForget, reviewVars
<1>5. CASE UNCHANGED vars
  BY <1>1, <1>5 DEF vars, reviewVars
<1> QED
  BY <1>1, <1>2, <1>3, <1>4, <1>5 DEF Next

\* What a handler's step does to the rows: it creates one, changes a live one to one
\* with the content of its copy, or deletes one.
RowsStep ==
    \A a \in Article :
        \/ articles'[a] = articles[a]
        \/ articles[a].row = "absent" /\ articles'[a].row = "live" /\ Svc!CreateArticle(a)
        \/ /\ articles[a].row = "live"
           /\ \E q \in Request :
                 Svc!UpdateWrite(q) /\ request[q].id = a /\ UpdatedRow(q, articles'[a])
        \/ /\ articles'[a] = [articles[a] EXCEPT !.row = "deleted"]
           /\ \E q \in Request : Svc!DeleteTx(q) /\ request[q].id = a

LEMMA ServiceRows ==
  ASSUME TypeInv, Svc!ServiceNext
  PROVE  RowsStep
<1> USE TypeFacts DEF RowsStep
<1>1. CASE UNCHANGED articles
  BY <1>1
<1>2. ASSUME NEW a \in Article, Svc!CreateArticle(a) PROVE RowsStep
  <2>1. PICK path \in Path :
          articles' = [articles EXCEPT ![a] = [row |-> "live", status |-> "REVIEWING",
                                              stage |-> "queued", content |-> path]]
    BY <1>2 DEF Svc!CreateArticle
  <2>2. articles[a].row = "absent"
    BY <1>2 DEF Svc!CreateArticle
  <2> QED
    BY <1>2, <2>1, <2>2
<1>3. ASSUME NEW q \in Request, Svc!UpdateWrite(q) PROVE RowsStep
  BY <1>1, <1>3, UpdateEffect DEF Svc!Live
<1>4. ASSUME NEW q \in Request, Svc!DeleteTx(q) PROVE RowsStep
  BY <1>4 DEF Svc!DeleteTx
<1> QED
  BY <1>1, <1>2, <1>3, <1>4
  DEF Svc!ServiceNext, Svc!HandlerStep, Svc!UpdateRead, Svc!DeleteRead, Svc!RemoveObject,
      Svc!RequestFails

\* What happens to the requests: one of them starts, with a copy of a live article,
\* goes on with what it has, or is over.
RequestStep ==
    \A q \in Request :
        \/ request'[q] = request[q]
        \/ request'[q].pc = "idle"
        \/ /\ ~Busy(q)
           /\ Svc!Live(request'[q].id)
           /\ request'[q].id \in Article
           /\ request'[q].copy.row = "live"
           /\ request'[q].copy.status = articles[request'[q].id].status
           /\ \/ request'[q].copy.content = articles[request'[q].id].content
              \/ Svc!Uploaded(request'[q].id, request'[q].copy.content)
           /\ UNCHANGED <<articles, objects, faults>>
           /\ \A r \in Request \ {q} : request'[r] = request[r]
        \/ /\ request[q].pc = "removeObject" /\ request'[q].pc = "delete"
           /\ request'[q].id = request[q].id /\ request'[q].copy = request[q].copy
           /\ Svc!RemoveObject(q)

LEMMA ServiceRequests ==
  ASSUME TypeInv, Svc!ServiceNext
  PROVE  RequestStep
<1> USE TypeFacts DEF RequestStep
<1>0. request \in [Request -> RequestState]
  BY DEF TypeInv, TypeOK, Svc!ServiceTypeOK, RequestState, Row
<1>1. CASE UNCHANGED request
  BY <1>1
<1>2. ASSUME NEW q \in Request, Svc!Done(q) PROVE RequestStep
  BY <1>0, <1>2, IdleLemma DEF Svc!Done
<1>3. ASSUME NEW q \in Request, Svc!UpdateRead(q) PROVE RequestStep
  <2>1. PICK a \in Article, wanted \in RequestedStatuses, changed \in BOOLEAN, path \in Path :
          /\ Svc!Live(a)
          /\ path = articles[a].content \/ (changed /\ Svc!Uploaded(a, path))
          /\ request' = [request EXCEPT ![q] =
               [pc |-> "update", id |-> a, copy |-> [articles[a] EXCEPT !.content = path],
                changed |-> changed, wanted |-> wanted]]
    BY <1>3 DEF Svc!UpdateRead
  <2>2. /\ [articles[a] EXCEPT !.content = path].row = "live"
        /\ [articles[a] EXCEPT !.content = path].status = articles[a].status
        /\ [articles[a] EXCEPT !.content = path].content = path
    BY <2>1 DEF Svc!Live, Row, Svc!ArticleRow
  <2> QED
    BY <1>0, <1>3, <2>1, <2>2 DEF Svc!UpdateRead, Svc!At, Busy
<1>4. ASSUME NEW q \in Request, Svc!DeleteRead(q) PROVE RequestStep
  <2>1. PICK a \in Article :
          /\ Svc!Live(a)
          /\ request' = [request EXCEPT ![q] =
               [Svc!Idle EXCEPT !.pc = "removeObject", !.id = a, !.copy = articles[a]]]
    BY <1>4 DEF Svc!DeleteRead
  <2>2. request'[q].id = a /\ request'[q].copy = articles[a]
    BY <1>0, <2>1, IdleLemma DEF RequestState
  <2>3. \A r \in Request \ {q} : request'[r] = request[r]
    BY <1>0, <2>1
  <2> QED
    BY <1>4, <2>1, <2>2, <2>3 DEF Svc!DeleteRead, Svc!At, Svc!Live, Busy
<1>5. ASSUME NEW q \in Request, Svc!RemoveObject(q) PROVE RequestStep
  BY <1>0, <1>5 DEF Svc!RemoveObject, Svc!At, RequestState
<1> QED
  BY <1>1, <1>2, <1>3, <1>4, <1>5
  DEF Svc!ServiceNext, Svc!HandlerStep, Svc!CreateArticle, Svc!UpdateWrite, Svc!DeleteTx,
      Svc!RequestFails

LEMMA DeletionStep ==
  ASSUME TypeInv, DeletionInv, [Next]_vars
  PROVE  DeletionInv'
<1> USE DEF DeletionInv
<1>1. CASE ServiceStep
  <2>1. RowsStep /\ RequestStep /\ EventsKept
    BY <1>1, ServiceRows, ServiceRequests, ServiceTypes DEF ServiceStep
  <2>2. \A a \in Article : articles[a].row # "absent" => articles'[a].row # "absent"
    <3>1. \A a \in Article : [articles[a] EXCEPT !.row = "deleted"].row = "deleted"
      BY TypeFacts DEF Row, Svc!ArticleRow
    <3>2. \A q \in Request : Svc!UpdateWrite(q) => request[q].copy.row = "live"
      BY DEF Svc!UpdateWrite, Svc!At, CopiesAreLive, Busy
    <3> QED
      BY <2>1, <3>1, <3>2 DEF RowsStep, UpdatedRow
  <2>3. CopiesAreLive'
    <3> SUFFICES ASSUME NEW q \in Request, request'[q].pc # "idle"
                 PROVE  /\ request'[q].copy.row = "live"
                        /\ articles'[request'[q].id].row # "absent"
      BY DEF CopiesAreLive, Busy
    <3>1. CASE request'[q] = request[q]
      BY <2>2, <3>1, TypeFacts DEF CopiesAreLive, Busy
    <3>2. CASE request[q].pc = "removeObject" /\ request'[q].id = request[q].id
                 /\ request'[q].copy = request[q].copy
      BY <2>2, <3>2, TypeFacts DEF CopiesAreLive, Busy
    <3> QED
      BY <2>1, <3>1, <3>2 DEF RequestStep, Svc!Live
  <2>4. DeletionAnnounced'
    <3> SUFFICES ASSUME NEW a \in Article, articles'[a].row = "deleted"
                 PROVE  \E e \in DOMAIN payload' :
                          payload'[e].type = "delete" /\ payload'[e].article = a
      BY DEF DeletionAnnounced, Svc!DeletionAnnounced
    <3>1. CASE articles[a].row = "deleted"
      BY <2>1, <3>1 DEF DeletionAnnounced, Svc!DeletionAnnounced, EventsKept
    <3>2. ASSUME articles[a].row # "deleted"
          PROVE  \E q \in Request : Svc!DeleteTx(q) /\ request[q].id = a
      BY <2>1, <3>2 DEF RowsStep, UpdatedRow, CopiesAreLive, Busy, Svc!UpdateWrite, Svc!At
    <3>3. ASSUME NEW q \in Request, Svc!DeleteTx(q), request[q].id = a
          PROVE  \E e \in DOMAIN payload' :
                   payload'[e].type = "delete" /\ payload'[e].article = a
      <4> DEFINE message == Svc!DeleteEvent(a, request[q].copy.content)
      <4>1. message \in OutboxEvent /\ message.type = "delete" /\ message.article = a
        BY <3>3, TypeFacts DEF Row, Svc!ArticleRow, Svc!DeleteEvent, OutboxEvent, Svc!EventType
      <4>2. Svc!CreateTx(message)
        BY <3>3 DEF Svc!DeleteTx
      <4>3. Len(payload') \in DOMAIN payload' /\ payload'[Len(payload')] = message
        BY <4>1, <4>2, CreateTxLemma, TypeFacts
      <4> QED
        BY <4>1, <4>3
    <3> QED
      BY <3>1, <3>2, <3>3
  <2> QED
    BY <2>3, <2>4
<1>2. CASE ~ServiceStep
  BY <1>2, OthersStep, TypeFacts
  DEF RowsKept, CopiesAreLive, Busy, DeletionAnnounced, Svc!DeletionAnnounced
<1> QED
  BY <1>1, <1>2

LEMMA InitDeletion == Init => DeletionInv
BY IdleLemma
DEF Init, Svc!ServiceInit, DeletionInv, CopiesAreLive, Busy, DeletionAnnounced,
    Svc!DeletionAnnounced, Svc!NoRow

\* Every deletion has been announced, by an event committed in its transaction
\* (delete_article_logic.go:83-136): no write of an outdated copy, deleted_at
\* included, deletes an article silently.
THEOREM DeletionsAnnounced == Spec => []DeletionAnnounced
<1>1. Init => DeletionInv
  BY InitDeletion
<1>2. TypeInv /\ DeletionInv /\ [Next]_vars => DeletionInv'
  BY DeletionStep
<1>3. DeletionInv => DeletionAnnounced
  BY DEF DeletionInv
<1> QED
  BY <1>1, <1>2, <1>3, TypeInvariant, PTL DEF Spec

LEMMA DeletionInvariant == Spec => []DeletionInv
BY InitDeletion, DeletionStep, TypeInvariant, PTL DEF Spec

\* No copy that a handler or a consumer writes back late revives a deleted article or
\* changes it: UpdateTx and the updates of the consumers only find live rows.
THEOREM DeletionIsFinal == Spec => DeletedIsFinal
<1>1. TypeInv /\ [Next]_vars =>
        [\A a \in Article : articles[a].row = "deleted" => articles'[a] = articles[a]]_articles
  <2> SUFFICES ASSUME TypeInv, [Next]_vars, NEW a \in Article, articles[a].row = "deleted"
               PROVE  articles'[a] = articles[a]
    OBVIOUS
  <2>1. CASE ServiceStep
    <3>1. RowsStep
      BY <2>1, ServiceRows DEF ServiceStep
    <3>2. articles[a] = [articles[a] EXCEPT !.row = "deleted"]
      BY TypeFacts DEF Row, Svc!ArticleRow
    <3> QED
      BY <3>1, <3>2 DEF RowsStep
  <2>2. CASE ~ServiceStep
    BY <2>2, OthersStep DEF RowsKept
  <2> QED
    BY <2>1, <2>2
<1> QED
  BY <1>1, TypeInvariant, PTL DEF Spec, DeletedIsFinal, Svc!DeletedIsFinal

----------------------------------------------------------------------------
(* Publication *)

\* A consumer gets to publish by the audit of its own message.
LEMMA PublishStep ==
  ASSUME TypeInv, NEW c \in Consumer, ConsumerStep(c), consumer'[c].pc = "publish"
  PROVE  /\ Working(c)
         /\ consumer'[c].event = consumer[c].event
         /\ consumer[c].pc = "publish" \/ audited'[Rev!Subject(c)] # {}
<1>1. Moves(c)
  BY ConsumerMoves
<1>2. consumer \in [Consumer -> ConsumerState]
  BY SameTypes DEF TypeInv, TypeOK, Rev!ReviewTypeOK, ConsumerState, Evt!Event
<1>3. Working(c) /\ consumer'[c].event = consumer[c].event
  BY <1>1 DEF Moves
<1>4. ASSUME Rev!Return(c) PROVE FALSE
  BY <1>2, <1>4, RevIdleLemma DEF Rev!Return, Rev!Goto, ConsumerState
<1>5. ASSUME NEW pc, pc # "publish", Rev!Goto(c, pc) PROVE FALSE
  BY <1>2, <1>5 DEF Rev!Goto, ConsumerState
<1>6. ASSUME NEW pc, NEW copy, pc # "publish",
             consumer' = [consumer EXCEPT ![c].pc = pc, ![c].copy = copy]
      PROVE  FALSE
  BY <1>2, <1>6 DEF ConsumerState
<1>7. ASSUME consumer' = [consumer EXCEPT ![c] = Rev!Idle] PROVE FALSE
  BY <1>2, <1>7, RevIdleLemma
<1>8. ~Rev!Lock(c)
  BY <1>2 DEF Rev!Lock, ConsumerState
<1>9. ~Rev!Deliver(c)
  BY <1>3 DEF Rev!Deliver, Rev!At, Working
<1>10. ~(Rev!LockRefused(c) \/ Rev!Unlock(c) \/ Rev!UnlockError(c) \/ Rev!Crash(c))
  BY <1>7 DEF Rev!LockRefused, Rev!Unlock, Rev!UnlockError, Rev!Crash
<1>11. ~(Rev!LockError(c) \/ Rev!ReadContent(c) \/ Rev!ReadError(c) \/ Rev!Stage(c))
  BY <1>5 DEF Rev!LockError, Rev!ReadContent, Rev!ReadError, Rev!Stage
<1>12. ~(Rev!RejectWrite(c) \/ Rev!Publish(c) \/ Rev!DbError(c))
  BY <1>4 DEF Rev!RejectWrite, Rev!Publish, Rev!DbError
<1>13. ~(Rev!RejectFind(c) \/ Rev!Find(c))
  BY <1>4, <1>6 DEF Rev!RejectFind, Rev!Find
<1>14. CASE Rev!Audit(c)
  <2>1. audited' = [audited EXCEPT ![Rev!Subject(c)] = @ \cup {Rev!Message(c).path}]
    BY <1>4, <1>5, <1>14 DEF Rev!Audit
  <2>2. Rev!Subject(c) \in Article /\ audited \in [Article -> SUBSET Path]
    BY <1>3, TypeFacts DEF TypeInv, TypeOK, Rev!ReviewTypeOK
  <2> QED
    BY <1>3, <2>1, <2>2
<1>15. CASE Rev!Rebalance(c)
  BY <1>3, <1>15 DEF Rev!Rebalance
<1> QED
  BY <1>8, <1>9, <1>10, <1>11, <1>12, <1>13, <1>14, <1>15
  DEF ConsumerStep, Rev!ConsumeStep, Rev!ReviewFault

LEMMA AuditStep ==
  ASSUME TypeInv, AuditInv, CopiesAreLive, [Next]_vars
  PROVE  AuditInv'
<1>1. CASE ServiceStep
  <2>1. RowsStep /\ RequestStep /\ EventsKept
    BY <1>1, ServiceRows, ServiceRequests, ServiceTypes DEF ServiceStep
  <2>2. UNCHANGED <<consumer, audited>>
    BY <1>1 DEF ServiceStep, reviewVars
  <2>3. PublishedWasAudited'
    <3> SUFFICES ASSUME NEW a \in Article, articles'[a].row = "live",
                        articles'[a].status = "PUBLISHED"
                 PROVE  audited[a] # {}
      BY <2>2 DEF PublishedWasAudited
    <3>1. CASE articles'[a] = articles[a]
      BY <3>1 DEF AuditInv, PublishedWasAudited
    <3>2. ~Svc!CreateArticle(a)
      <4>1. ASSUME NEW path, articles' = [articles EXCEPT ![a] =
                      [row |-> "live", status |-> "REVIEWING", stage |-> "queued", content |-> path]]
            PROVE  FALSE
        BY <4>1, TypeFacts
      <4> QED
        BY <4>1 DEF Svc!CreateArticle
    <3>3. [articles[a] EXCEPT !.row = "deleted"].row = "deleted"
      BY TypeFacts DEF Row, Svc!ArticleRow
    <3>4. CASE \E q \in Request :
                 Svc!UpdateWrite(q) /\ request[q].id = a /\ UpdatedRow(q, articles'[a])
      BY <3>4 DEF AuditInv, UpdatedRow, Svc!UpdateWrite, Svc!At, Busy
    <3> QED
      BY <2>1, <3>1, <3>2, <3>3, <3>4 DEF RowsStep
  <2>4. ASSUME NEW q \in Request, request'[q].pc # "idle",
               request'[q].copy.status = "PUBLISHED"
        PROVE  audited[request'[q].id] # {}
    BY <2>1, <2>4 DEF RequestStep, AuditInv, PublishedWasAudited, Busy, Svc!Live
  <2>5. ASSUME NEW c \in Consumer, consumer[c].pc = "publish"
        PROVE  audited[payload'[consumer[c].event].article] # {}
    BY <2>1, <2>5, TypeFacts DEF AuditInv, EventsKept, Working, Rev!Subject, Rev!Message
  <2> QED
    BY <2>2, <2>3, <2>4, <2>5 DEF AuditInv, Busy, Rev!Subject, Rev!Message
<1>2. CASE ~ServiceStep
  <2>1. /\ RowsKept
        /\ UNCHANGED <<payload, request>>
        /\ \A a \in Article : audited[a] \subseteq audited'[a]
    BY <1>2, OthersStep
  <2>2. PublishedWasAudited'
    <3> SUFFICES ASSUME NEW a \in Article, articles'[a].row = "live",
                        articles'[a].status = "PUBLISHED"
                 PROVE  audited'[a] # {}
      BY DEF PublishedWasAudited
    <3>1. audited[a] # {}
      BY <2>1 DEF AuditInv, PublishedWasAudited, RowsKept
    <3> QED
      BY <2>1, <3>1
  <2>3. ASSUME NEW q \in Request, Busy(q), request[q].copy.status = "PUBLISHED"
        PROVE  audited'[request[q].id] # {}
    BY <2>1, <2>3, TypeFacts DEF AuditInv
  <2>4. ASSUME NEW c \in Consumer, consumer'[c].pc = "publish"
        PROVE  audited'[payload[consumer'[c].event].article] # {}
    <3>1. CASE consumer'[c] = consumer[c]
      BY <2>1, <2>4, <3>1, TypeFacts DEF AuditInv, Working, Rev!Subject, Rev!Message
    <3>2. CASE ConsumerStep(c)
      <4>1. /\ Working(c) /\ consumer'[c].event = consumer[c].event
            /\ consumer[c].pc = "publish" \/ audited'[Rev!Subject(c)] # {}
        BY <2>4, <3>2, PublishStep
      <4> QED
        BY <2>1, <4>1, TypeFacts DEF AuditInv, Rev!Subject, Rev!Message
    <3>3. ASSUME NEW d \in Consumer \ {c}, ConsumerStep(d)
          PROVE  consumer'[c] = consumer[c]
      BY <3>3, ConsumerMoves DEF Moves
    <3>4. ASSUME NEW a \in Article, Rev!LockExpires(a)
          PROVE  consumer'[c] = consumer[c]
      BY <3>4 DEF Rev!LockExpires
    <3> QED
      BY <1>2, <3>1, <3>2, <3>3, <3>4
      DEF Next, ReviewStep, Rev!ReviewNext, ConsumerStep, SyncStep, RelayWrite, RelayForget, vars,
          reviewVars
  <2> QED
    BY <2>1, <2>2, <2>3, <2>4 DEF AuditInv, Busy, Rev!Subject, Rev!Message
<1> QED
  BY <1>1, <1>2

LEMMA InitAudit == Init => AuditInv
BY IdleLemma, RevIdleLemma
DEF Init, Svc!ServiceInit, Rev!ReviewInit, AuditInv, PublishedWasAudited, Busy, Svc!NoRow

\* Nothing is public that was never reviewed: neither what an author asks for, nor a
\* copy made before the review and written after it, nor a redelivered message
\* publishes an article no version of which has passed the audit
\* (update_article_logic.go:96-127, article_consumer.go:75-127).
THEOREM NothingUnaudited == Spec => []PublishedWasAudited
<1>1. Init => AuditInv
  BY InitAudit
<1>2. TypeInv /\ DeletionInv /\ AuditInv /\ [Next]_vars => AuditInv'
  BY AuditStep DEF DeletionInv
<1>3. AuditInv => PublishedWasAudited
  BY DEF AuditInv
<1> QED
  BY <1>1, <1>2, <1>3, TypeInvariant, DeletionInvariant, PTL DEF Spec

----------------------------------------------------------------------------
(* The lock of a review *)

\* What a step of consumer c does to the lock: it obtains a key that is not set, or
\* deletes the key it has set, or leaves what it holds and what is set alone.
KeepsKeys == \A a \in Article : lock[a] => lock'[a]
GoesOn(c) ==
    /\ KeepsKeys
    /\ consumer'[c].locked = consumer[c].locked
    /\ consumer'[c].event = consumer[c].event
    /\ consumer'[c].pc \notin {"idle", "lock"}
    /\ consumer'[c].pc = "unlock" => consumer[c].locked
LetsGo(c) == KeepsKeys /\ ~consumer'[c].locked /\ consumer'[c].pc # "unlock"
Obtains(c) ==
    /\ ~lock[Rev!Subject(c)] /\ lock'[Rev!Subject(c)]
    /\ KeepsKeys
    /\ consumer'[c].event = consumer[c].event
    /\ consumer'[c].pc = "read"
Deletes(c) ==
    /\ consumer[c].pc = "unlock"
    /\ \A a \in Article \ {Rev!Subject(c)} : lock[a] => lock'[a]
    /\ ~consumer'[c].locked /\ consumer'[c].pc = "idle"

LEMMA LockStep ==
  ASSUME TypeInv, NEW c \in Consumer, ConsumerStep(c)
  PROVE  \/ consumer'[c] = consumer[c] /\ KeepsKeys
         \/ LetsGo(c)
         \/ Working(c) /\ (GoesOn(c) \/ Obtains(c) \/ Deletes(c))
<1>1. consumer \in [Consumer -> ConsumerState] /\ lock \in [Article -> BOOLEAN]
  BY SameTypes DEF TypeInv, TypeOK, Rev!ReviewTypeOK, ConsumerState, Evt!Event
<1>2. Rev!Idle.pc = "idle" /\ Rev!Idle.locked = FALSE
  BY DEF Rev!Idle
<1>3. ASSUME NEW pc \in Rev!ConsumerPc, pc \notin {"idle", "lock", "unlock"},
             Rev!Goto(c, pc), KeepsKeys
      PROVE  GoesOn(c)
  BY <1>1, <1>3 DEF Rev!Goto, GoesOn, ConsumerState
<1>4. ASSUME Rev!Return(c), KeepsKeys
      PROVE  LetsGo(c) \/ GoesOn(c)
  BY <1>1, <1>2, <1>4 DEF Rev!Return, Rev!Goto, LetsGo, GoesOn, ConsumerState
<1>5. ASSUME NEW pc \in {"rejectWrite", "stage"}, NEW copy, KeepsKeys,
             consumer' = [consumer EXCEPT ![c].pc = pc, ![c].copy = copy]
      PROVE  GoesOn(c)
  BY <1>1, <1>5 DEF GoesOn, ConsumerState
<1>6. CASE Rev!Deliver(c)
  <2>1. PICK e \in DOMAIN payload :
          consumer' = [consumer EXCEPT ![c] = [Rev!Idle EXCEPT !.pc = "lock", !.event = e]]
    BY <1>6 DEF Rev!Deliver
  <2>2. consumer'[c].pc = "lock" /\ ~consumer'[c].locked
    BY <1>1, <2>1 DEF Rev!Idle
  <2> QED
    BY <1>6, <2>2 DEF Rev!Deliver, LetsGo, KeepsKeys
<1>7. CASE Rev!Lock(c)
  <2>1. consumer'[c].event = consumer[c].event /\ consumer'[c].pc = "read"
    BY <1>1, <1>7 DEF Rev!Lock, ConsumerState
  <2>2. Working(c) /\ Rev!Subject(c) \in Article
    BY <1>7, TypeFacts DEF Rev!Lock, Rev!At, Working
  <2> QED
    BY <1>1, <1>7, <2>1, <2>2 DEF Rev!Lock, Rev!Busy, Obtains, KeepsKeys
<1>8. CASE Rev!LockRefused(c) \/ Rev!UnlockError(c) \/ Rev!Crash(c)
  BY <1>1, <1>2, <1>8 DEF Rev!LockRefused, Rev!UnlockError, Rev!Crash, LetsGo, KeepsKeys
<1>9. CASE Rev!Unlock(c)
  BY <1>1, <1>2, <1>9 DEF Rev!Unlock, Rev!At, Deletes, Working
<1>10. CASE Rev!LockError(c)
  <2>1. PICK set \in BOOLEAN : lock' = [lock EXCEPT ![Rev!Subject(c)] = @ \/ set]
    BY <1>10 DEF Rev!LockError
  <2>2. KeepsKeys
    BY <1>1, <2>1 DEF KeepsKeys
  <2> QED
    BY <1>3, <1>10, <2>2 DEF Rev!LockError, Rev!ConsumerPc, Rev!At, Working
<1>11. ASSUME UNCHANGED lock PROVE KeepsKeys
  BY <1>11 DEF KeepsKeys
<1>12. CASE Rev!ReadContent(c) \/ Rev!ReadError(c) \/ Rev!Stage(c)
  BY <1>3, <1>11, <1>12
  DEF Rev!ReadContent, Rev!ReadError, Rev!Stage, Rev!ConsumerPc, Rev!At, Working
<1>13. CASE Rev!RejectWrite(c) \/ Rev!Publish(c) \/ Rev!DbError(c)
  BY <1>4, <1>11, <1>13 DEF Rev!RejectWrite, Rev!Publish, Rev!DbError, Rev!At, Working
<1>14. CASE Rev!Audit(c)
  BY <1>3, <1>4, <1>11, <1>14 DEF Rev!Audit, Rev!ConsumerPc, Rev!At, Working
<1>15. CASE Rev!RejectFind(c) \/ Rev!Find(c)
  BY <1>4, <1>5, <1>11, <1>15 DEF Rev!RejectFind, Rev!Find, Rev!At, Working
<1>16. CASE Rev!Rebalance(c)
  BY <1>11, <1>16 DEF Rev!Rebalance
<1> QED
  BY <1>6, <1>7, <1>8, <1>9, <1>10, <1>12, <1>13, <1>14, <1>15, <1>16
  DEF ConsumerStep, Rev!ConsumeStep, Rev!ReviewFault

\* A step of no consumer leaves the consumers and what they are at work on alone, and
\* no key of theirs expires.
LEMMA LockOthers ==
  ASSUME TypeInv, [Next]_vars, ~LockMayLapse, \A c \in Consumer : ~ConsumerStep(c)
  PROVE  /\ consumer' = consumer
         /\ \A e \in DOMAIN payload : payload'[e] = payload[e]
         /\ \A a \in Article : lock[a] /\ ~lock'[a] => \A c \in Consumer : ~Rev!Holds(c, a)
<1>1. CASE ServiceStep
  BY <1>1, ServiceTypes DEF ServiceStep, reviewVars, EventsKept
<1>2. ASSUME NEW a \in Article, Rev!LockExpires(a)
      PROVE  /\ consumer' = consumer /\ payload' = payload
             /\ \A b \in Article : lock[b] /\ ~lock'[b] => \A c \in Consumer : ~Rev!Holds(c, b)
  BY <1>2 DEF Rev!LockExpires, TypeInv, TypeOK, Rev!ReviewTypeOK
<1>3. CASE \/ \E e \in Evt!Event : RelayWrite(e) \/ RelayForget(e)
           \/ SyncStep
           \/ UNCHANGED vars
  BY <1>3 DEF RelayWrite, RelayForget, SyncStep, vars, reviewVars
<1> QED
  BY <1>1, <1>2, <1>3 DEF Next, ReviewStep, Rev!ReviewNext, ConsumerStep

LEMMA LockInvStep ==
  ASSUME TypeInv, LockInv, [Next]_vars, ~LockMayLapse
  PROVE  LockInv'
<1> DEFINE Held(c) ==
      /\ consumer[c].locked => consumer[c].pc \notin {"idle", "lock"} /\ lock[Rev!Subject(c)]
      /\ consumer[c].pc = "unlock" => consumer[c].locked
<1>1. LockInv <=> /\ \A c \in Consumer : Held(c)
                  /\ \A c, d \in Consumer :
                       c # d /\ consumer[c].locked /\ consumer[d].locked =>
                         Rev!Subject(c) # Rev!Subject(d)
  BY DEF LockInv, LockExclusive, Rev!LockExclusive
<1>2. \A c \in Consumer : Working(c) => Rev!Subject(c) \in Article
  BY TypeFacts
<1>3. \A c \in Consumer : consumer[c].locked => Working(c)
  BY <1>1 DEF Working
<1>4. ASSUME NEW c \in Consumer, ConsumerStep(c)
      PROVE  LockInv'
  <2>1. payload' = payload /\ Moves(c)
    <3>1. payload' = payload
      BY <1>4
      DEF ConsumerStep, Rev!ConsumeStep, Rev!ReviewFault, Rev!Deliver, Rev!Lock, Rev!LockRefused,
          Rev!LockError, Rev!ReadContent, Rev!ReadError, Rev!RejectFind, Rev!RejectWrite, Rev!Find,
          Rev!Stage, Rev!Audit, Rev!Publish, Rev!DbError, Rev!Unlock, Rev!UnlockError, Rev!Crash,
          Rev!Rebalance
    <3> QED
      BY <1>4, <3>1, ConsumerMoves
  <2>2. \A d \in Consumer \ {c} : consumer'[d] = consumer[d] /\ Rev!Subject(d)' = Rev!Subject(d)
    BY <2>1 DEF Moves, Rev!Subject, Rev!Message
  <2>3. consumer'[c].event = consumer[c].event => Rev!Subject(c)' = Rev!Subject(c)
    BY <2>1 DEF Rev!Subject, Rev!Message
  <2>4. CASE KeepsKeys /\ (consumer'[c] = consumer[c] \/ LetsGo(c) \/ GoesOn(c))
    <3>1. \A d \in Consumer : Held(d)'
      BY <1>1, <1>2, <1>3, <2>2, <2>3, <2>4 DEF KeepsKeys, LetsGo, GoesOn
    <3>2. \A d \in Consumer : consumer'[d].locked =>
            consumer[d].locked /\ Rev!Subject(d)' = Rev!Subject(d)
      BY <1>1, <2>2, <2>3, <2>4 DEF LetsGo, GoesOn
    <3> QED
      BY <1>1, <3>1, <3>2 DEF LockInv, LockExclusive, Rev!LockExclusive
  <2>5. CASE Working(c) /\ Obtains(c)
    <3>1. \A d \in Consumer \ {c} : consumer[d].locked => Rev!Subject(d) # Rev!Subject(c)
      BY <1>1, <2>5 DEF Obtains
    <3>2. \A d \in Consumer : Held(d)'
      BY <1>1, <1>2, <1>3, <2>2, <2>3, <2>5 DEF Obtains, KeepsKeys
    <3> QED
      BY <1>1, <2>2, <2>3, <2>5, <3>1, <3>2 DEF LockInv, LockExclusive, Rev!LockExclusive, Obtains
  <2>6. CASE Working(c) /\ Deletes(c)
    <3>1. consumer[c].locked
      BY <1>1, <2>6 DEF Deletes
    <3>2. \A d \in Consumer \ {c} : consumer[d].locked => Rev!Subject(d) # Rev!Subject(c)
      BY <1>1, <3>1
    <3>3. \A d \in Consumer : Held(d)'
      BY <1>1, <1>2, <1>3, <2>2, <2>6, <3>2 DEF Deletes
    <3> QED
      BY <1>1, <2>2, <2>6, <3>2, <3>3 DEF LockInv, LockExclusive, Rev!LockExclusive, Deletes
  <2> QED
    BY <1>4, <2>4, <2>5, <2>6, LockStep DEF LetsGo, GoesOn
<1>5. ASSUME \A c \in Consumer : ~ConsumerStep(c)
      PROVE  LockInv'
  <2>1. /\ consumer' = consumer
        /\ \A e \in DOMAIN payload : payload'[e] = payload[e]
        /\ \A a \in Article : lock[a] /\ ~lock'[a] => \A c \in Consumer : ~Rev!Holds(c, a)
    BY <1>5, LockOthers
  <2>2. \A c \in Consumer : Working(c) => Rev!Subject(c)' = Rev!Subject(c)
    BY <2>1, TypeFacts DEF Rev!Subject, Rev!Message
  <2>3. \A c \in Consumer : Held(c)'
    BY <1>1, <1>2, <1>3, <2>1, <2>2 DEF Rev!Holds
  <2> QED
    BY <1>1, <1>3, <2>1, <2>2, <2>3 DEF LockInv, LockExclusive, Rev!LockExclusive
<1> QED
  BY <1>4, <1>5

LEMMA InitLock == Init => LockInv
BY RevIdleLemma DEF Init, Rev!ReviewInit, LockInv, LockExclusive, Rev!LockExclusive, Rev!Idle

\* As long as no review outlives its lease, two consumers that both obtained the lock
\* of Redis review different articles, however messages are delivered, whichever
\* consumer crashes and whatever Redis fails to answer (article_consumer.go:46-56).
THEOREM ReviewsExclude ==
  ASSUME ~LockMayLapse
  PROVE  Spec => []LockExclusive
<1>1. Init => LockInv
  BY InitLock
<1>2. TypeInv /\ LockInv /\ [Next]_vars => LockInv'
  BY LockInvStep
<1>3. LockInv => LockExclusive
  BY DEF LockInv
<1> QED
  BY <1>1, <1>2, <1>3, TypeInvariant, PTL DEF Spec

----------------------------------------------------------------------------
(* The contents of the articles *)

\* What a handler's step leaves of requests and rows when it is done.
LEMMA DoneLemma ==
  ASSUME TypeInv, NEW q \in Request, Svc!Done(q)
  PROVE  /\ ~Busy(q)'
         /\ \A r \in Request \ {q} : request'[r] = request[r]
BY IdleLemma DEF Svc!Done, Busy, TypeInv, TypeOK, Svc!ServiceTypeOK

\* A new article has a content object of its own.
LEMMA CreateKeepsContent ==
  ASSUME TypeInv, CopiesAreLive, ContentInv, NEW a \in Article, Svc!CreateArticle(a)
  PROVE  ContentInv'
<1> USE TypeFacts
<1>1. PICK path \in Path :
        /\ Svc!Uploaded(a, path)
        /\ articles' = [articles EXCEPT ![a] = [row |-> "live", status |-> "REVIEWING",
                                                stage |-> "queued", content |-> path]]
  BY DEF Svc!CreateArticle
<1>2. /\ articles'[a].row = "live" /\ articles'[a].content = path
      /\ \A b \in Article \ {a} : articles'[b] = articles[b]
      /\ UNCHANGED <<objects, request, faults>> /\ articles[a].row = "absent"
  BY <1>1 DEF Svc!CreateArticle
<1>3. \A q \in Request : Busy(q) => request[q].id # a
  BY <1>2 DEF CopiesAreLive
<1>4. /\ path \in objects
      /\ \A b \in Article \ {a} : articles[b].row # "absent" => articles[b].content # path
      /\ \A q \in Request : Busy(q) /\ request[q].id # a => request[q].copy.content # path
  BY <1>1 DEF Svc!Uploaded, Svc!At, Busy
<1>5. NoSharedContent'
  BY <1>2, <1>3, <1>4 DEF ContentInv, NoSharedContent, Busy
<1>6. ContentLossNeedsAFault'
  BY <1>2, <1>4 DEF ContentInv, ContentLossNeedsAFault, Svc!ContentLossNeedsAFault, Svc!Live, Svc!At
<1> QED
  BY <1>2, <1>3, <1>5, <1>6 DEF ContentInv, Busy, Deleting, Svc!At

\* The copy of a new request has the content of its article, or one uploaded for it.
LEMMA ReadKeepsContent ==
  ASSUME TypeInv, ContentInv, NEW q \in Request, Svc!UpdateRead(q) \/ Svc!DeleteRead(q)
  PROVE  ContentInv'
<1> DEFINE a == request'[q].id
           path == request'[q].copy.content
<1>1. /\ ~Busy(q) /\ a \in Article /\ Svc!Live(a)
      /\ path = articles[a].content \/ Svc!Uploaded(a, path)
      /\ UNCHANGED <<articles, objects, faults>>
      /\ \A r \in Request \ {q} : request'[r] = request[r]
  <2>1. UNCHANGED <<articles, objects, faults>>
    BY DEF Svc!UpdateRead, Svc!DeleteRead
  <2>2. request \in [Request -> RequestState] /\ Svc!Idle \in RequestState
    BY IdleLemma DEF TypeInv, TypeOK, Svc!ServiceTypeOK, RequestState, Row
  <2>3. CASE Svc!UpdateRead(q)
    <3>1. PICK b \in Article, wanted \in RequestedStatuses, changed \in BOOLEAN, p \in Path :
            /\ Svc!Live(b)
            /\ p = articles[b].content \/ (changed /\ Svc!Uploaded(b, p))
            /\ request' = [request EXCEPT ![q] =
                 [pc |-> "update", id |-> b, copy |-> [articles[b] EXCEPT !.content = p],
                  changed |-> changed, wanted |-> wanted]]
      BY <2>3 DEF Svc!UpdateRead
    <3>2. [articles[b] EXCEPT !.content = p].content = p
      BY TypeFacts DEF Row, Svc!ArticleRow
    <3>3. a = b /\ path = p
      BY <2>2, <3>1, <3>2
    <3> QED
      BY <2>1, <2>2, <2>3, <3>1, <3>3 DEF Svc!UpdateRead, Svc!At, Busy
  <2>4. CASE Svc!DeleteRead(q)
    <3>1. PICK b \in Article :
            /\ Svc!Live(b)
            /\ request' = [request EXCEPT ![q] =
                 [Svc!Idle EXCEPT !.pc = "removeObject", !.id = b, !.copy = articles[b]]]
      BY <2>4 DEF Svc!DeleteRead
    <3>2. a = b /\ path = articles[b].content
      BY <2>2, <3>1 DEF RequestState
    <3> QED
      BY <2>1, <2>2, <2>4, <3>1, <3>2 DEF Svc!DeleteRead, Svc!At, Busy
  <2> QED
    BY <2>3, <2>4
<1> HIDE DEF a, path
<1>2. \/ path = articles[a].content
      \/ /\ path \in objects
         /\ \A b \in Article \ {a} : articles[b].row # "absent" => articles[b].content # path
         /\ \A r \in Request : Busy(r) /\ request[r].id # a => request[r].copy.content # path
  BY <1>1 DEF Svc!Uploaded, Svc!At, Busy
<1>3. articles[a].row = "live" /\ \A r \in Request : request[r].id \in Article
  BY <1>1, TypeFacts DEF Svc!Live
<1>4. NoSharedContent'
  BY <1>1, <1>2, <1>3 DEF ContentInv, NoSharedContent, Busy, a, path
<1>5. \A b \in Article : Deleting(b) => Deleting(b)'
  BY <1>1 DEF Deleting, Svc!At, Busy
<1>6. ContentLossNeedsAFault'
  BY <1>1, <1>5
  DEF ContentInv, ContentLossNeedsAFault, Svc!ContentLossNeedsAFault, Svc!Live, Deleting
<1>7. ASSUME faults' = 0, NEW r \in Request, Busy(r)', articles'[request'[r].id].row = "live",
             request'[r].copy.content \notin objects'
      PROVE  Deleting(request[r].id)'
  <2>1. CASE r = q
    BY <1>1, <1>2, <1>5, <1>7, <2>1
    DEF ContentInv, ContentLossNeedsAFault, Svc!ContentLossNeedsAFault, Svc!Live, Deleting, a, path
  <2>2. CASE r # q
    BY <1>1, <1>3, <1>5, <1>7, <2>2 DEF ContentInv, Busy
  <2> QED
    BY <2>1, <2>2
<1> QED
  BY <1>4, <1>6, <1>7 DEF ContentInv

\* A handler that writes its copy gives the article the content of that copy.
LEMMA WriteKeepsContent ==
  ASSUME TypeInv, CopiesAreLive, ContentInv, NEW q \in Request, Svc!UpdateWrite(q)
  PROVE  ContentInv'
<1> DEFINE a == request[q].id
<1>1. /\ Busy(q) /\ request[q].pc = "update" /\ request[q].copy.row = "live"
      /\ ~Busy(q)' /\ \A r \in Request \ {q} : request'[r] = request[r]
      /\ UNCHANGED <<objects, faults>>
  BY DoneLemma DEF Svc!UpdateWrite, Svc!At, Busy, CopiesAreLive
<1>2. /\ a \in Article /\ \A r \in Request : request[r].id \in Article
  BY TypeFacts
<1>3. \A b \in Article :
        /\ articles'[b].row = articles[b].row
        /\ \/ articles'[b].content = articles[b].content
           \/ b = a /\ articles[a].row = "live" /\ articles'[b].content = request[q].copy.content
  BY <1>1, TypeFacts, UpdateEffect DEF UpdatedRow, Svc!Live
<1>4. NoSharedContent'
  BY <1>1, <1>2, <1>3 DEF ContentInv, NoSharedContent, Busy
<1>5. \A b \in Article : Deleting(b) => Deleting(b)'
  BY <1>1 DEF Deleting, Svc!At, Busy
<1>6. ContentLossNeedsAFault'
  BY <1>1, <1>2, <1>3, <1>5
  DEF ContentInv, ContentLossNeedsAFault, Svc!ContentLossNeedsAFault, Svc!Live, Deleting
<1>7. ASSUME faults' = 0, NEW r \in Request, Busy(r)', articles'[request'[r].id].row = "live",
             request'[r].copy.content \notin objects'
      PROVE  Deleting(request[r].id)'
  BY <1>1, <1>2, <1>3, <1>5, <1>7 DEF ContentInv, Busy
<1> QED
  BY <1>4, <1>6, <1>7 DEF ContentInv

\* The content object that goes is that of the article about to be deleted.
LEMMA RemoveKeepsContent ==
  ASSUME TypeInv, CopiesAreLive, ContentInv, NEW q \in Request, Svc!RemoveObject(q)
  PROVE  ContentInv'
<1> DEFINE a == request[q].id
<1>1. /\ Busy(q) /\ a \in Article /\ \A r \in Request : request[r].id \in Article
      /\ UNCHANGED <<articles, faults>> /\ objects' = objects \ {request[q].copy.content}
  BY TypeFacts DEF Svc!RemoveObject, Svc!At, Busy
<1>2. /\ request'[q].pc = "delete" /\ request'[q].id = a
      /\ \A r \in Request : /\ Busy(r)' <=> Busy(r)
                             /\ request'[r].id = request[r].id
                             /\ request'[r].copy = request[r].copy
      /\ \A r \in Request \ {q} : request'[r] = request[r]
  BY <1>1 DEF Svc!RemoveObject, Busy, TypeInv, TypeOK, Svc!ServiceTypeOK
<1>3. NoSharedContent'
  BY <1>1, <1>2 DEF ContentInv, NoSharedContent
<1>4. \A b \in Article : b = a \/ Deleting(b) => Deleting(b)'
  BY <1>1, <1>2 DEF Deleting, Svc!At
<1>5. ASSUME NEW b \in Article, articles[b].row = "live", articles[b].content = request[q].copy.content
      PROVE  b = a
  BY <1>1, <1>5 DEF ContentInv, NoSharedContent
<1>6. ContentLossNeedsAFault'
  <2> SUFFICES ASSUME NEW b \in Article, articles[b].row = "live",
                      articles[b].content \notin objects', faults = 0
               PROVE  Deleting(b)'
    BY <1>1
    DEF ContentLossNeedsAFault, Svc!ContentLossNeedsAFault, Svc!Live, Deleting, Svc!At
  <2>1. CASE articles[b].content \in objects
    BY <1>1, <1>4, <1>5, <2>1
  <2>2. CASE articles[b].content \notin objects
    <3>1. Deleting(b)
      BY <2>2
      DEF ContentInv, ContentLossNeedsAFault, Svc!ContentLossNeedsAFault, Svc!Live, Deleting
    <3> QED
      BY <1>4, <3>1
  <2> QED
    BY <2>1, <2>2
<1>7. ASSUME faults' = 0, NEW r \in Request, Busy(r)', articles'[request'[r].id].row = "live",
             request'[r].copy.content \notin objects'
      PROVE  Deleting(request[r].id)'
  <2>1. CASE request[r].copy.content = request[q].copy.content
    BY <1>1, <1>2, <1>4, <1>7, <2>1 DEF ContentInv, NoSharedContent
  <2>2. CASE request[r].copy.content # request[q].copy.content
    BY <1>1, <1>2, <1>4, <1>7, <2>2 DEF ContentInv
  <2> QED
    BY <2>1, <2>2
<1> QED
  BY <1>3, <1>6, <1>7 DEF ContentInv

\* The deletion ends the request and the article together.
LEMMA DeleteKeepsContent ==
  ASSUME TypeInv, CopiesAreLive, ContentInv, NEW q \in Request, Svc!DeleteTx(q)
  PROVE  ContentInv'
<1> DEFINE a == request[q].id
<1>1. /\ ~Busy(q)' /\ \A r \in Request \ {q} : request'[r] = request[r]
      /\ UNCHANGED <<objects, faults>>
  BY DoneLemma DEF Svc!DeleteTx
<1>2. a \in Article /\ \A r \in Request : request[r].id \in Article
  BY TypeFacts
<1>3. articles[a].row # "absent"
  BY DEF Svc!DeleteTx, Svc!At, CopiesAreLive, Busy
<1>4. /\ articles'[a].row = "deleted" /\ articles'[a].content = articles[a].content
      /\ \A b \in Article \ {a} : articles'[b] = articles[b]
  BY <1>2, TypeFacts DEF Svc!DeleteTx, Row, Svc!ArticleRow
<1>5. NoSharedContent'
  BY <1>1, <1>2, <1>3, <1>4 DEF ContentInv, NoSharedContent, Busy
<1>6. \A b \in Article \ {a} : Deleting(b) => Deleting(b)'
  BY <1>1 DEF Deleting, Svc!At
<1>7. ContentLossNeedsAFault'
  BY <1>1, <1>4, <1>6
  DEF ContentInv, ContentLossNeedsAFault, Svc!ContentLossNeedsAFault, Svc!Live, Deleting
<1>8. ASSUME faults' = 0, NEW r \in Request, Busy(r)', articles'[request'[r].id].row = "live",
             request'[r].copy.content \notin objects'
      PROVE  Deleting(request[r].id)'
  BY <1>1, <1>2, <1>4, <1>6, <1>8 DEF ContentInv, Busy
<1> QED
  BY <1>5, <1>7, <1>8 DEF ContentInv

LEMMA ContentStep ==
  ASSUME TypeInv, CopiesAreLive, ContentInv, [Next]_vars
  PROVE  ContentInv'
<1>1. CASE ServiceStep
  <2>1. ASSUME NEW q \in Request, Svc!RequestFails(q) PROVE ContentInv'
    <3>1. /\ ~Busy(q)' /\ \A r \in Request \ {q} : request'[r] = request[r]
          /\ UNCHANGED articles /\ faults' # 0
      BY <2>1, DoneLemma, TypeFacts DEF Svc!RequestFails
    <3> QED
      BY <3>1
      DEF ContentInv, NoSharedContent, Busy, ContentLossNeedsAFault, Svc!ContentLossNeedsAFault
  <2> QED
    BY <1>1, <2>1, CreateKeepsContent, ReadKeepsContent, WriteKeepsContent, RemoveKeepsContent,
       DeleteKeepsContent
    DEF ServiceStep, Svc!ServiceNext, Svc!HandlerStep
<1>2. CASE ~ServiceStep
  <2>1. /\ UNCHANGED <<objects, request>>
        /\ \A a \in Article : articles'[a].row = articles[a].row
                               /\ articles'[a].content = articles[a].content
        /\ faults' = 0 => faults = 0
    BY <1>2, OthersStep, TypeFacts, TypeStep DEF RowsKept
  <2>2. \A q \in Request : request[q].id \in Article
    BY TypeFacts
  <2>3. NoSharedContent'
    BY <2>1, <2>2 DEF ContentInv, NoSharedContent, Busy
  <2>4. ContentLossNeedsAFault'
    BY <2>1 DEF ContentInv, ContentLossNeedsAFault, Svc!ContentLossNeedsAFault, Svc!Live, Svc!At
  <2> QED
    BY <2>1, <2>2, <2>3, <2>4 DEF ContentInv, Busy, Deleting, Svc!At
<1> QED
  BY <1>1, <1>2

LEMMA InitContent == Init => ContentInv
BY IdleLemma
DEF Init, Svc!ServiceInit, ContentInv, NoSharedContent, ContentLossNeedsAFault,
    Svc!ContentLossNeedsAFault, Svc!Live, Svc!NoRow, Busy

\* DeleteArticle removes the content before the row (delete_article_logic.go:74-112): an
\* article whose content is missed is about to be deleted by the handler that removed
\* it, unless something failed, whatever requests are served in the meantime.
THEOREM ContentIsLostByFaults == Spec => []ContentLossNeedsAFault
<1>1. Init => ContentInv
  BY InitContent
<1>2. TypeInv /\ DeletionInv /\ ContentInv /\ [Next]_vars => ContentInv'
  BY ContentStep DEF DeletionInv
<1>3. ContentInv => ContentLossNeedsAFault
  BY DEF ContentInv
<1> QED
  BY <1>1, <1>2, <1>3, TypeInvariant, DeletionInvariant, PTL DEF Spec

----------------------------------------------------------------------------
(* Duplicates of a message *)

\* Nobody writes articles but the review consumers, and MinIO and Redis answer.
Quiet ==
    /\ ~LockMayLapse
    /\ Request = {}
    /\ "minio" \notin FaultKinds /\ "redis" \notin FaultKinds

\* Past its check of the status, until it returns.
Writing(c) == consumer[c].pc \in {"stage", "audit", "publish", "rejectWrite"}

\* Every consumer past SetNX has obtained the lock, and one that is past its check of
\* the status finds its article under review still when it writes.
QuietInv ==
    /\ objects = Path
    /\ \A e \in DOMAIN payload : payload[e].type = "review"
    /\ \A s \in SyncConsumer : syncing[s].pc = "idle"
    /\ \A c \in Consumer :
          /\ consumer[c].pc # "rejectFind"
          /\ consumer[c].pc \notin {"idle", "lock"} => consumer[c].locked
          /\ Writing(c) => Reviewing(Rev!Subject(c))

\* What a step of consumer c does then: it only changes an article under review, which
\* is its own, and is past the check only with one that is under review still.
QuietMove(c) ==
    /\ consumer'[c].pc # "rejectFind"
    /\ consumer'[c].pc \notin {"idle", "lock"} => consumer'[c].locked
    /\ Writing(c)' =>
          /\ Working(c) /\ consumer'[c].event = consumer[c].event
          /\ articles'[Rev!Subject(c)].row = "live"
          /\ articles'[Rev!Subject(c)].status = "REVIEWING"
    /\ \A a \in Article :
          articles'[a] = articles[a] \/ (Writing(c) /\ a = Rev!Subject(c))

LEMMA QuietStep ==
  ASSUME TypeInv, QuietInv, Quiet, NEW c \in Consumer, ConsumerStep(c)
  PROVE  QuietMove(c)
<1>1. consumer \in [Consumer -> ConsumerState]
  BY SameTypes DEF TypeInv, TypeOK, Rev!ReviewTypeOK, ConsumerState, Evt!Event
<1>2. /\ consumer[c].pc # "rejectFind"
      /\ consumer[c].pc \notin {"idle", "lock"} => consumer[c].locked
      /\ Writing(c) => Reviewing(Rev!Subject(c))
  BY DEF QuietInv
<1>3. RowsKept
  BY ConsumerKeepsRows
<1>4. Working(c) => Rev!Subject(c) \in Article
  BY TypeFacts
<1>5. ASSUME Rev!Return(c), consumer[c].pc \notin {"idle", "lock"}
      PROVE  consumer'[c].pc = "unlock" /\ consumer'[c].locked
  BY <1>1, <1>2, <1>5 DEF Rev!Return, Rev!Goto, ConsumerState
<1>6. ASSUME consumer'[c].pc = "unlock" /\ consumer'[c].locked
      PROVE  consumer'[c].pc # "rejectFind" /\ consumer'[c].locked /\ ~Writing(c)'
  BY <1>6 DEF Writing
<1>7. ASSUME UNCHANGED articles, consumer'[c].pc \in {"idle", "lock"}
      PROVE  QuietMove(c)
  BY <1>7 DEF QuietMove, Writing
<1>8. ASSUME UNCHANGED articles, consumer'[c].pc \in {"read", "find", "unlock"},
             consumer'[c].locked
      PROVE  QuietMove(c)
  BY <1>8 DEF QuietMove, Writing
<1>9. CASE Rev!Deliver(c) \/ Rev!LockRefused(c) \/ Rev!Unlock(c) \/ Rev!Crash(c)
  <2>1. consumer'[c].pc \in {"idle", "lock"}
    BY <1>1, <1>9, RevIdleLemma
    DEF Rev!Deliver, Rev!LockRefused, Rev!Unlock, Rev!Crash, Rev!Idle
  <2> QED
    BY <1>7, <1>9, <2>1 DEF Rev!Deliver, Rev!LockRefused, Rev!Unlock, Rev!Crash
<1>10. CASE Rev!Lock(c)
  <2>1. consumer'[c].pc = "read" /\ consumer'[c].locked
    BY <1>1, <1>10 DEF Rev!Lock, ConsumerState
  <2> QED
    BY <1>8, <1>10, <2>1 DEF Rev!Lock
<1>11. CASE Rev!ReadContent(c)
  <2>1. payload[consumer[c].event] \in OutboxEvent
    BY <1>11, TypeFacts, ElementOfSeq DEF Rev!ReadContent, Rev!At, Working
  <2>2. Rev!Message(c).path \in objects
    BY <2>1 DEF Rev!Message, OutboxEvent, QuietInv
  <2>3. consumer'[c].pc = "find" /\ consumer'[c].locked
    BY <1>1, <1>2, <1>11, <2>2 DEF Rev!ReadContent, Rev!At, Rev!Goto, ConsumerState
  <2> QED
    BY <1>8, <1>11, <2>3 DEF Rev!ReadContent
<1>12. CASE Rev!Find(c)
  <2> DEFINE found == articles[Rev!Subject(c)]
  <2>1. CASE found.row = "live" /\ found.status = "REVIEWING"
    <3>1. /\ consumer'[c].pc = "stage" /\ consumer'[c].locked
          /\ consumer'[c].event = consumer[c].event
      BY <1>1, <1>2, <1>12, <2>1 DEF Rev!Find, Rev!At, ConsumerState
    <3> QED
      BY <1>12, <2>1, <3>1 DEF Rev!Find, Rev!At, QuietMove, Working
  <2>2. CASE ~(found.row = "live" /\ found.status = "REVIEWING")
    <3>1. Rev!Return(c)
      BY <1>12, <2>2 DEF Rev!Find
    <3> QED
      BY <1>5, <1>8, <1>12, <3>1 DEF Rev!Find, Rev!At
  <2> QED
    BY <2>1, <2>2
<1>13. CASE Rev!Stage(c)
  <2>1. /\ consumer'[c].pc = "audit" /\ consumer'[c].locked
        /\ consumer'[c].event = consumer[c].event
    BY <1>1, <1>2, <1>13 DEF Rev!Stage, Rev!At, Rev!Goto, ConsumerState
  <2>2. Writing(c) /\ Working(c) /\ Reviewing(Rev!Subject(c))
    BY <1>2, <1>13 DEF Rev!Stage, Rev!At, Writing, Working
  <2>3. articles' = [articles EXCEPT ![Rev!Subject(c)].stage = consumer[c].copy.stage]
    BY <1>13, <2>2 DEF Rev!Stage, Rev!UpdateExtInfo, Reviewing
  <2>4. /\ articles'[Rev!Subject(c)].row = "live"
        /\ articles'[Rev!Subject(c)].status = "REVIEWING"
        /\ \A a \in Article : a # Rev!Subject(c) => articles'[a] = articles[a]
    BY <1>4, <2>2, <2>3, TypeFacts DEF Row, Svc!ArticleRow, Reviewing
  <2> QED
    BY <2>1, <2>2, <2>4 DEF QuietMove
<1>14. CASE Rev!Audit(c)
  <2>1. Writing(c) /\ Working(c) /\ Reviewing(Rev!Subject(c)) /\ UNCHANGED articles
    BY <1>2, <1>14 DEF Rev!Audit, Rev!At, Writing, Working
  <2>2. ASSUME NEW pc \in {"publish", "rejectWrite"}, Rev!Goto(c, pc) PROVE QuietMove(c)
    <3>1. /\ consumer'[c].pc = pc /\ consumer'[c].locked
          /\ consumer'[c].event = consumer[c].event
      BY <1>1, <1>2, <1>14, <2>2 DEF Rev!Audit, Rev!At, Rev!Goto, ConsumerState
    <3> QED
      BY <2>1, <3>1 DEF QuietMove, Reviewing
  <2>3. ASSUME Rev!Return(c) PROVE QuietMove(c)
    BY <1>5, <1>8, <1>14, <2>1, <2>3 DEF Rev!Audit, Rev!At
  <2> QED
    BY <1>14, <2>2, <2>3 DEF Rev!Audit
<1>15. CASE Rev!RejectWrite(c) \/ Rev!Publish(c)
  <2>1. Rev!Return(c) /\ Writing(c)
    BY <1>15 DEF Rev!RejectWrite, Rev!Publish, Rev!At, Writing
  <2>2. consumer'[c].pc = "unlock" /\ consumer'[c].locked
    BY <1>5, <2>1 DEF Writing
  <2>3. \A a \in Article : a # Rev!Subject(c) => articles'[a] = articles[a]
    BY <1>15, TypeFacts DEF Rev!RejectWrite, Rev!Publish, Rev!UpdateStatusAndExtInfo
  <2> QED
    BY <1>6, <2>1, <2>2, <2>3 DEF QuietMove
<1>16. CASE Rev!DbError(c)
  BY <1>5, <1>8, <1>16 DEF Rev!DbError
<1>17. CASE Rev!Rebalance(c)
  BY <1>2, <1>17 DEF Rev!Rebalance, QuietMove, Writing, Working, Reviewing
<1>18. ~(Rev!LockError(c) \/ Rev!UnlockError(c) \/ Rev!ReadError(c) \/ Rev!RejectFind(c))
  BY <1>2
  DEF Rev!LockError, Rev!UnlockError, Rev!ReadError, Rev!RejectFind, Rev!Fault, Rev!At, Quiet
<1> QED
  BY <1>9, <1>10, <1>11, <1>12, <1>13, <1>14, <1>15, <1>16, <1>17, <1>18
  DEF ConsumerStep, Rev!ConsumeStep, Rev!ReviewFault

\* Without requests the only other writer is CreateArticle, of a row that is new.
LEMMA QuietOthers ==
  ASSUME TypeInv, QuietInv, Quiet, [Next]_vars, \A c \in Consumer : ~ConsumerStep(c)
  PROVE  /\ UNCHANGED <<objects, consumer, syncing>>
         /\ EventsKept
         /\ \A e \in DOMAIN payload' : payload'[e].type = "review"
         /\ \A a \in Article : articles[a].row # "absent" => articles'[a] = articles[a]
<1> USE TypeFacts
<1>1. CASE ServiceStep
  <2>1. PICK a \in Article : Svc!CreateArticle(a)
    BY <1>1 DEF ServiceStep, Svc!ServiceNext, Quiet
  <2>2. PICK path \in Path :
          /\ articles' = [articles EXCEPT ![a] = [row |-> "live", status |-> "REVIEWING",
                                                  stage |-> "queued", content |-> path]]
          /\ Svc!CreateTx(Svc!ReviewMessage(a, path))
    BY <2>1 DEF Svc!CreateArticle
  <2>3. Svc!ReviewMessage(a, path) \in OutboxEvent /\ Svc!ReviewMessage(a, path).type = "review"
    BY DEF Svc!ReviewMessage, OutboxEvent, Svc!EventType
  <2>4. \A e \in DOMAIN payload' : payload'[e].type = "review"
    <3>1. /\ DOMAIN payload' = 1..Len(payload) + 1
          /\ \A e \in DOMAIN payload : payload'[e] = payload[e]
          /\ payload'[Len(payload) + 1] = Svc!ReviewMessage(a, path)
      BY <2>2, <2>3, CreateTxLemma
    <3>2. \A e \in DOMAIN payload' : e \in DOMAIN payload \/ e = Len(payload) + 1
      BY <3>1
    <3> QED
      BY <2>3, <3>1, <3>2 DEF QuietInv
  <2>5. EventsKept
    BY <1>1, ServiceTypes DEF ServiceStep
  <2>6. \A b \in Article : articles[b].row # "absent" => articles'[b] = articles[b]
    BY <2>1, <2>2 DEF Svc!CreateArticle
  <2> QED
    BY <1>1, <2>1, <2>4, <2>5, <2>6 DEF ServiceStep, reviewVars, Svc!CreateArticle
<1>2. CASE \E a \in Article : Rev!LockExpires(a) /\ ReviewStep
  BY <1>2 DEF Rev!LockExpires, ReviewStep, QuietInv, EventsKept
<1>3. CASE \/ \E e \in Evt!Event : RelayWrite(e) \/ RelayForget(e)
           \/ UNCHANGED vars
  BY <1>3 DEF RelayWrite, RelayForget, vars, reviewVars, QuietInv, EventsKept
<1>4. ~SyncStep
  BY DEF SyncStep, Res!SyncNext, Res!ReadResult, Res!Answered, Res!RecordResult, Res!ResultFails,
         QuietInv
<1> QED
  BY <1>1, <1>2, <1>3, <1>4 DEF Next, ReviewStep, Rev!ReviewNext, ConsumerStep

LEMMA QuietInvStep ==
  ASSUME TypeInv, LockInv, QuietInv, Quiet, [Next]_vars
  PROVE  QuietInv'
<1>1. ASSUME NEW c \in Consumer, ConsumerStep(c)
      PROVE  QuietInv'
  <2>1. QuietMove(c) /\ Moves(c)
    BY <1>1, QuietStep, ConsumerMoves
  <2>2. UNCHANGED <<objects, payload, syncing>>
    <3>1. UNCHANGED <<objects, payload>>
      BY <1>1, ReviewTypes DEF Rev!ReviewNext, ConsumerStep
    <3>2. ~SyncStep
      BY DEF SyncStep, Res!SyncNext, Res!ReadResult, Res!Answered, Res!RecordResult,
             Res!ResultFails, QuietInv
    <3> QED
      BY <3>1, <3>2 DEF Next, ServiceStep, RelayWrite, RelayForget, ReviewStep, vars
  <2>3. \A d \in Consumer \ {c} : consumer'[d] = consumer[d]
    BY <2>1 DEF Moves
  <2>4. ASSUME NEW d \in Consumer, d # c, Writing(d)
        PROVE  /\ articles'[Rev!Subject(d)].row = "live"
               /\ articles'[Rev!Subject(d)].status = "REVIEWING"
    <3>1. consumer[d].locked /\ Reviewing(Rev!Subject(d)) /\ Rev!Subject(d) \in Article
      BY <2>4, TypeFacts DEF QuietInv, Writing, Working
    <3>2. Writing(c) => Rev!Subject(c) # Rev!Subject(d)
      BY <2>4, <3>1 DEF QuietInv, Writing, LockInv, LockExclusive, Rev!LockExclusive
    <3> QED
      BY <2>1, <3>1, <3>2 DEF QuietMove, Reviewing
  <2> QED
    BY <2>1, <2>2, <2>3, <2>4
    DEF QuietInv, QuietMove, Writing, Reviewing, Rev!Subject, Rev!Message
<1>2. ASSUME \A c \in Consumer : ~ConsumerStep(c)
      PROVE  QuietInv'
  <2>1. /\ UNCHANGED <<objects, consumer, syncing>>
        /\ EventsKept
        /\ \A e \in DOMAIN payload' : payload'[e].type = "review"
        /\ \A a \in Article : articles[a].row # "absent" => articles'[a] = articles[a]
    BY <1>2, QuietOthers
  <2>2. ASSUME NEW c \in Consumer, Writing(c)
        PROVE  /\ articles'[payload'[consumer[c].event].article].row = "live"
               /\ articles'[payload'[consumer[c].event].article].status = "REVIEWING"
    BY <2>1, <2>2, TypeFacts
    DEF QuietInv, Writing, Working, Reviewing, EventsKept, Rev!Subject, Rev!Message
  <2> QED
    BY <2>1, <2>2 DEF QuietInv, Writing, Reviewing, Rev!Subject, Rev!Message
<1> QED
  BY <1>1, <1>2

LEMMA InitQuiet == Init => QuietInv
BY RevIdleLemma
DEF Init, Svc!ServiceInit, Rev!ReviewInit, Res!SyncInit, Res!SyncIdle, QuietInv, Writing

\* As long as no author is at work, no review outlives its lease, and MinIO and Redis
\* answer, an article that was published or rejected stays as it is, however often its
\* message is written, redelivered or handed to another consumer, and whichever
\* consumer crashes or fails to update (article_consumer.go:46-127, README.md:67-70).
THEOREM DuplicatesAreHarmless ==
  ASSUME Quiet
  PROVE  Spec => DuplicatesHarmless
<1>1. Init => QuietInv /\ LockInv
  BY InitQuiet, InitLock
<1>2. TypeInv /\ QuietInv /\ LockInv /\ [Next]_vars => QuietInv' /\ LockInv'
  BY QuietInvStep, LockInvStep DEF Quiet
<1>3. TypeInv /\ QuietInv /\ [Next]_vars =>
        [\A a \in Article : Concluded(a) => articles'[a] = articles[a]]_articles
  <2> SUFFICES ASSUME TypeInv, QuietInv, [Next]_vars, NEW a \in Article, Concluded(a)
               PROVE  articles'[a] = articles[a]
    OBVIOUS
  <2>1. ASSUME NEW c \in Consumer, ConsumerStep(c)
        PROVE  articles'[a] = articles[a]
    BY <2>1, QuietStep DEF QuietMove, QuietInv, Reviewing, Concluded
  <2>2. ASSUME \A c \in Consumer : ~ConsumerStep(c)
        PROVE  articles'[a] = articles[a]
    BY <2>2, QuietOthers DEF Concluded
  <2> QED
    BY <2>1, <2>2
<1> QED
  BY <1>1, <1>2, <1>3, TypeInvariant, PTL DEF Spec, DuplicatesHarmless
=============================================================================
