------------------------- MODULE ViewCounterProofs -------------------------
(***************************************************************************)
(* Proofs about ViewCounter, for any articles, views, batch size, kinds    *)
(* and number of faults.                                                   *)
(***************************************************************************)
EXTENDS ViewCounter, FiniteSetTheorems, TLAPS

----------------------------------------------------------------------------
(* The helpers *)

\* Add changes one entry, by n.
LEMMA AddLemma ==
  ASSUME NEW count \in [Article -> Nat], NEW a \in Article, NEW n \in Nat
  PROVE  /\ Add(count, a, n) \in [Article -> Nat]
         /\ Add(count, a, n)[a] = count[a] + n
         /\ \A b \in Article \ {a} : Add(count, a, n)[b] = count[b]
BY DEF Add

\* Idle is a state of a flusher.
LEMMA IdleLemma == Idle \in FlusherState
BY ViewAssumption DEF Idle, FlusherState, FlusherPc

\* The doubled interval is one of the intervals.
LEMMA TwiceLemma == \A s \in Intervals : Twice(s) \in Intervals
BY DEF Twice, Intervals

\* The script takes off what was written, or all there is.
LEMMA AckedLemma ==
  ASSUME TypeOK, NEW a \in Article, NEW n \in Nat
  PROVE  /\ Acked(a, n) \in [Article -> Nat]
         /\ n <= delta[a] => Acked(a, n)[a] = delta[a] - n
         /\ \A b \in Article \ {a} : Acked(a, n)[b] = delta[b]
BY DEF TypeOK, Acked

\* After Continue the flusher is idle or about to read another delta.
LEMMA ContinueLemma ==
  ASSUME TypeOK, NEW f \in Flusher, NEW a \in Article, Continue(f, a)
  PROVE  /\ flusher' \in [Flusher -> FlusherState]
         /\ interval' \in [Flusher -> Intervals]
         /\ flusher'[f].pc \in {"idle", "next"}
         /\ flusher'[f].batch \subseteq flusher[f].batch
         /\ \A g \in Flusher \ {f} : flusher'[g] = flusher[g]
<1> DEFINE rest == flusher[f].batch \ {a}
           more == [Idle EXCEPT !.pc = "next", !.batch = rest]
<1>1. flusher \in [Flusher -> FlusherState] /\ flusher[f] \in FlusherState
  BY DEF TypeOK
<1>2. rest \in SUBSET Article
  BY <1>1 DEF FlusherState
<1>3. /\ more \in FlusherState /\ more.pc = "next" /\ more.batch = rest
      /\ Idle.pc = "idle" /\ Idle.batch = {}
  BY <1>2, ViewAssumption DEF Idle, FlusherState, FlusherPc
<1>4. flusher' = [flusher EXCEPT ![f] = IF rest = {} THEN Idle ELSE more]
  BY DEF Continue
<1>5. interval' = [interval EXCEPT ![f] = IF rest = {} THEN 5 ELSE @]
  BY DEF Continue
<1>6. interval' \in [Flusher -> Intervals]
  BY <1>5 DEF TypeOK, Intervals
<1> QED
  BY <1>1, <1>3, <1>4, <1>6, IdleLemma

\* ReadDelta remembers the delta it read.
LEMMA ReadLemma ==
  ASSUME TypeOK, NEW f \in Flusher, ReadDelta(f)
  PROVE  \E a \in flusher[f].batch :
           /\ a \in Article
           /\ flusher' \in [Flusher -> FlusherState]
           /\ flusher'[f].pc \in {"clean", "add"}
           /\ flusher'[f].batch = flusher[f].batch
           /\ flusher'[f].id = a
           /\ flusher'[f].delta = delta[a]
           /\ \A g \in Flusher \ {f} : flusher'[g] = flusher[g]
<1>1. flusher \in [Flusher -> FlusherState] /\ flusher[f] \in FlusherState
  BY DEF TypeOK
<1>2. PICK a \in flusher[f].batch :
        flusher' = [flusher EXCEPT ![f] =
            [pc |-> IF delta[a] = 0 THEN "clean" ELSE "add", batch |-> @.batch,
             id |-> a, delta |-> delta[a]]]
  BY DEF ReadDelta
<1> DEFINE now == [pc |-> IF delta[a] = 0 THEN "clean" ELSE "add",
                   batch |-> flusher[f].batch, id |-> a, delta |-> delta[a]]
<1>3. a \in Article /\ delta[a] \in Nat
  BY <1>1 DEF FlusherState, TypeOK
<1>4. now \in FlusherState
  BY <1>1, <1>3 DEF FlusherState, FlusherPc
<1>5. flusher' = [flusher EXCEPT ![f] = now]
  BY <1>2
<1> QED
  BY <1>1, <1>3, <1>4, <1>5

\* What a successful AddViewCount changes.
LEMMA WriteLemma ==
  ASSUME TypeOK, NEW f \in Flusher, AddViewCount(f)
  PROVE  /\ flusher' \in [Flusher -> FlusherState]
         /\ flusher'[f].pc = "ack"
         /\ flusher'[f].batch = flusher[f].batch
         /\ flusher'[f].id = flusher[f].id
         /\ flusher'[f].delta = flusher[f].delta
         /\ \A g \in Flusher \ {f} : flusher'[g] = flusher[g]
<1>1. flusher \in [Flusher -> FlusherState] /\ flusher[f] \in FlusherState
  BY DEF TypeOK
<1> DEFINE now == [pc |-> "ack", batch |-> flusher[f].batch, id |-> flusher[f].id,
                   delta |-> flusher[f].delta]
<1>2. now \in FlusherState
  BY <1>1 DEF FlusherState, FlusherPc
<1>3. now = [flusher[f] EXCEPT !.pc = "ack"]
  BY <1>1 DEF FlusherState
<1>4. flusher' = [flusher EXCEPT ![f] = now]
  BY <1>3 DEF AddViewCount
<1> QED
  BY <1>1, <1>2, <1>4

----------------------------------------------------------------------------
\* Counters never become negative, and intervals stay between 5 s and 2 min.
LEMMA TypeStep ==
  ASSUME TypeOK, [Next]_vars
  PROVE  TypeOK'
<1> USE DEF history
<1>0. ASSUME NEW f \in Flusher
      PROVE  /\ flusher[f].batch \subseteq Article
             /\ flusher[f].id \in Article
             /\ flusher[f].delta \in Nat
  BY DEF TypeOK, FlusherState
<1>1. ASSUME NEW a \in Article, Incr(a) PROVE TypeOK'
  BY <1>1, AddLemma DEF TypeOK, Incr
<1>2. ASSUME NEW a \in Article, IncrMark(a) PROVE TypeOK'
  <2>1. marking' \in [Article -> Nat]
    BY <1>2 DEF TypeOK, IncrMark, Add
  <2> QED
    BY <1>2, <2>1 DEF TypeOK, IncrMark
<1>3. ASSUME NEW a \in Article, Expire(a) PROVE TypeOK'
  <2>1. delta' \in [Article -> Nat] /\ expired' \in [Article -> Nat]
    BY <1>3, AddLemma DEF TypeOK, Expire
  <2> QED
    BY <1>3, <2>1 DEF TypeOK, Expire
<1>4. ASSUME NEW f \in Flusher, Pop(f) PROVE TypeOK'
  <2>1. PICK ids \in SUBSET dirty :
          /\ dirty' = dirty \ ids
          /\ flusher' = [flusher EXCEPT ![f] =
                IF ids = {} THEN Idle ELSE [Idle EXCEPT !.pc = "next", !.batch = ids]]
          /\ interval' = [interval EXCEPT ![f] = IF ids = {} THEN 5 ELSE @]
    BY <1>4 DEF Pop
  <2>2. [Idle EXCEPT !.pc = "next", !.batch = ids] \in FlusherState
    BY ViewAssumption DEF TypeOK, Idle, FlusherState, FlusherPc
  <2>3. flusher' \in [Flusher -> FlusherState]
    BY <2>1, <2>2, IdleLemma DEF TypeOK
  <2>4. interval' \in [Flusher -> Intervals]
    BY <2>1 DEF TypeOK, Intervals
  <2>5. shared' \subseteq Article
    BY <1>4 DEF TypeOK, Pop
  <2> QED
    BY <1>4, <2>1, <2>3, <2>4, <2>5 DEF TypeOK, Pop
<1>5. ASSUME NEW f \in Flusher, PopError(f) PROVE TypeOK'
  <2>1. interval' \in [Flusher -> Intervals]
    BY <1>5, TwiceLemma DEF TypeOK, PopError
  <2> QED
    BY <1>5, <2>1 DEF TypeOK, PopError, Fault
<1>6. ASSUME NEW f \in Flusher, ReadDelta(f) PROVE TypeOK'
  BY <1>6, ReadLemma DEF TypeOK, ReadDelta
<1>7. ASSUME NEW f \in Flusher, ReadError(f) PROVE TypeOK'
  <2>1. PICK a \in flusher[f].batch, restored \in BOOLEAN :
          /\ dirty' = IF restored THEN dirty \cup {a} ELSE dirty
          /\ Continue(f, a)
    BY <1>7 DEF ReadError
  <2>2. a \in Article
    BY <1>0
  <2> QED
    BY <1>7, <2>1, <2>2, ContinueLemma DEF TypeOK, ReadError, Fault
<1>8. ASSUME NEW f \in Flusher, Clean(f) PROVE TypeOK'
  BY <1>0, <1>8, ContinueLemma DEF TypeOK, Clean
<1>9. ASSUME NEW f \in Flusher, AddViewCount(f) PROVE TypeOK'
  <2>1. db' \in [Article -> Nat]
    BY <1>0, <1>9, AddLemma DEF TypeOK, AddViewCount
  <2> QED
    BY <1>9, <2>1, WriteLemma DEF TypeOK, AddViewCount
<1>10. ASSUME NEW f \in Flusher, AddViewCountError(f) PROVE TypeOK'
  <2>1. PICK n \in {0, flusher[f].delta} :
          /\ db' = Add(db, flusher[f].id, n)
          /\ recounted' = Add(recounted, flusher[f].id, n)
    BY <1>10 DEF AddViewCountError
  <2>2. n \in Nat
    BY <1>0
  <2>3. db' \in [Article -> Nat] /\ recounted' \in [Article -> Nat]
    BY <1>0, <2>1, <2>2, AddLemma DEF TypeOK
  <2>4. Continue(f, flusher[f].id)
    BY <1>10 DEF AddViewCountError
  <2> QED
    BY <1>0, <1>10, <2>3, <2>4, ContinueLemma DEF TypeOK, AddViewCountError, Fault
<1>11. ASSUME NEW f \in Flusher, AckDelta(f) PROVE TypeOK'
  BY <1>0, <1>11, AckedLemma, ContinueLemma DEF TypeOK, AckDelta
<1>12. ASSUME NEW f \in Flusher, AckError(f) PROVE TypeOK'
  <2>1. recounted' \in [Article -> Nat]
    BY <1>0, <1>12, AddLemma DEF TypeOK, AckError
  <2> QED
    BY <1>0, <1>12, <2>1, ContinueLemma DEF TypeOK, AckError, Fault
<1>13. ASSUME NEW f \in Flusher, Exit(f) PROVE TypeOK'
  <2>1. recounted' \in [Article -> Nat]
    BY <1>0, <1>13, AddLemma DEF TypeOK, Exit
  <2>2. interval' \in [Flusher -> Intervals]
    BY <1>13 DEF TypeOK, Exit, Intervals
  <2>3. flusher' \in [Flusher -> FlusherState]
    BY <1>13, IdleLemma DEF TypeOK, Exit
  <2> QED
    BY <1>13, <2>1, <2>2, <2>3 DEF TypeOK, Exit, Fault
<1>14. CASE UNCHANGED vars
  BY <1>14 DEF TypeOK, vars
<1> QED
  BY <1>1, <1>2, <1>3, <1>4, <1>5, <1>6, <1>7, <1>8, <1>9, <1>10, <1>11, <1>12, <1>13, <1>14
  DEF Next, FlushStep, FlushFault

\* The types hold at the start.
LEMMA InitType == Init => TypeOK
BY IdleLemma DEF Init, TypeOK, Zero, Intervals

\* The keys in Redis, the columns in PostgreSQL and the flushers keep their
\* types through every step of Incr and flushBatch (view_counter.go:24-139).
THEOREM TypeCorrect == Spec => []TypeOK
BY InitType, TypeStep, PTL DEF Spec

----------------------------------------------------------------------------
(* The views are neither lost nor invented *)

\* Conservation is not inductive.  It needs that an article nobody shared has
\* one flusher at most, ...
Alone(a) ==
    \A f, g \in Flusher : Flushing(f, a) /\ Flushing(g, a) => f = g

\* ... that a flusher works on an article of its batch, ...
InBatch(f) ==
    flusher[f].pc \in {"clean", "add", "ack"} => flusher[f].id \in flusher[f].batch

\* ... and that the delta it has read is still there when it is taken off.
IsThere(a) ==
    \A f \in Flusher :
        flusher[f].pc \in {"add", "ack"} /\ flusher[f].id = a => flusher[f].delta <= delta[a]

Balanced(a) == db[a] + delta[a] + expired[a] = views[a] + Owed(a) + recounted[a]

ConservationInv ==
    /\ TypeOK
    /\ \A f \in Flusher : InBatch(f)
    /\ \A a \in Article \ shared : Alone(a) /\ IsThere(a) /\ Balanced(a)

\* Nothing is owed for an article no flusher is about to acknowledge.
LEMMA NothingOwed ==
  ASSUME NEW a, \A f \in Flusher : ~Unacked(f, a)
  PROVE  Owed(a) = 0
BY DEF Owed

\* What is owed for an article of one flusher is the delta it has read.
LEMMA OwedByOne ==
  ASSUME NEW a, NEW f \in Flusher, Unacked(f, a), \A g \in Flusher : Unacked(g, a) => g = f
  PROVE  Owed(a) = flusher[f].delta
BY DEF Owed

\* A flusher that acknowledges an article is flushing it, so there is one such
\* flusher at most.
LEMMA OneOwes ==
  ASSUME NEW a, Alone(a), \A f \in Flusher : InBatch(f)
  PROVE  \A f, g \in Flusher : Unacked(f, a) /\ Flushing(g, a) => g = f
<1>1. ASSUME NEW f \in Flusher, Unacked(f, a) PROVE Flushing(f, a)
  BY <1>1 DEF Unacked, At, Flushing, InBatch
<1> QED
  BY <1>1 DEF Alone

\* What is owed stays the same while the flushers about to acknowledge do.
LEMMA OwedSame ==
  ASSUME NEW a, \A f \in Flusher : Unacked(f, a)' <=> Unacked(f, a),
         \A f \in Flusher : Unacked(f, a) => flusher'[f].delta = flusher[f].delta,
         \A f, g \in Flusher : Unacked(f, a) /\ Unacked(g, a) => g = f
  PROVE  Owed(a)' = Owed(a)
<1>1. CASE \E f \in Flusher : Unacked(f, a)
  <2>1. PICK f \in Flusher : Unacked(f, a)
    BY <1>1
  <2>2. Owed(a) = flusher[f].delta
    BY <2>1, OwedByOne
  <2>3. \A g \in Flusher : Unacked(g, a)' => g = f
    BY <2>1
  <2>4. Owed(a)' = flusher'[f].delta
    BY <2>1, <2>3 DEF Owed
  <2> QED
    BY <2>1, <2>2, <2>4
<1>2. CASE ~\E f \in Flusher : Unacked(f, a)
  BY <1>2 DEF Owed
<1> QED
  BY <1>1, <1>2

\* What is owed is a number.
LEMMA OwedNat ==
  ASSUME TypeOK, NEW a \in Article
  PROVE  Owed(a) \in Nat
<1>1. CASE \E f \in Flusher : Unacked(f, a)
  <2>1. (CHOOSE f \in Flusher : Unacked(f, a)) \in Flusher
    BY <1>1
  <2>2. \A f \in Flusher : flusher[f].delta \in Nat
    BY DEF TypeOK, FlusherState
  <2> QED
    BY <1>1, <2>1, <2>2 DEF Owed
<1>2. CASE ~\E f \in Flusher : Unacked(f, a)
  BY <1>2 DEF Owed
<1> QED
  BY <1>1, <1>2

\* The step of a flusher that neither comes to nor leaves the acknowledgement
\* of an article changes nothing that is owed for it.
LEMMA QuietStep ==
  ASSUME NEW a, NEW f \in Flusher, Alone(a), \A g \in Flusher : InBatch(g),
         \A g \in Flusher \ {f} : flusher'[g] = flusher[g],
         ~Unacked(f, a), ~Unacked(f, a)'
  PROVE  Owed(a)' = Owed(a)
<1>1. \A g \in Flusher : Unacked(g, a)' <=> Unacked(g, a)
  BY DEF Unacked, At
<1>2. \A g \in Flusher : Unacked(g, a) => flusher'[g].delta = flusher[g].delta
  OBVIOUS
<1>3. \A g, h \in Flusher : Unacked(g, a) /\ Unacked(h, a) => h = g
  BY OneOwes DEF Unacked, At, Flushing, InBatch
<1> QED
  BY <1>1, <1>2, <1>3, OwedSame

\* A step of a flusher.  What it pops it adds to its batch; all else takes
\* articles out of the batch; no step touches another flusher.
LEMMA FlusherSteps ==
  ASSUME TypeOK, NEW f \in Flusher, FlushStep(f) \/ FlushFault(f), InBatch(f)
  PROVE  /\ \A g \in Flusher \ {f} : flusher'[g] = flusher[g]
         /\ InBatch(f)'
         /\ \A a \in Article \ shared' :
               Flushing(f, a)' => Flushing(f, a) \/ \A g \in Flusher : ~Flushing(g, a)
<1> USE DEF history
<1>0. flusher[f].id \in Article /\ flusher[f].batch \subseteq Article
  BY DEF TypeOK, FlusherState
<1>1. ASSUME NEW a \in Article, Continue(f, a), flusher[f].pc # "idle"
      PROVE  /\ \A g \in Flusher \ {f} : flusher'[g] = flusher[g]
             /\ InBatch(f)'
             /\ \A b : Flushing(f, b)' => Flushing(f, b)
  BY <1>1, ContinueLemma DEF InBatch, Flushing
<1>2. CASE Pop(f)
  <2>1. PICK ids \in SUBSET dirty :
          /\ flusher' = [flusher EXCEPT ![f] =
                IF ids = {} THEN Idle ELSE [Idle EXCEPT !.pc = "next", !.batch = ids]]
          /\ shared' = shared \cup {a \in ids : \E g \in Flusher : Flushing(g, a)}
    BY <1>2 DEF Pop
  <2>2. \/ flusher'[f] = Idle
        \/ flusher'[f].pc = "next" /\ flusher'[f].batch = ids
    BY <2>1 DEF TypeOK, Idle
  <2>3. InBatch(f)'
    BY <2>2 DEF InBatch, Idle
  <2>4. \A a : Flushing(f, a)' => a \in ids
    BY <2>2 DEF Flushing, Idle
  <2> QED
    BY <2>1, <2>3, <2>4 DEF TypeOK
<1>3. CASE PopError(f)
  BY <1>3 DEF PopError, InBatch, Flushing
<1>4. CASE ReadDelta(f)
  BY <1>4, ReadLemma DEF ReadDelta, At, InBatch, Flushing
<1>5. CASE ReadError(f)
  BY <1>0, <1>1, <1>5 DEF ReadError, At
<1>6. CASE Clean(f) \/ AckDelta(f)
  BY <1>0, <1>1, <1>6 DEF Clean, AckDelta, At
<1>7. CASE AddViewCount(f)
  BY <1>7, WriteLemma DEF AddViewCount, At, InBatch, Flushing
<1>8. CASE AddViewCountError(f) \/ AckError(f)
  BY <1>0, <1>1, <1>8 DEF AddViewCountError, AckError, At
<1>9. CASE Exit(f)
  BY <1>9 DEF Exit, TypeOK, InBatch, Flushing, Idle
<1> QED
  BY <1>2, <1>3, <1>4, <1>5, <1>6, <1>7, <1>8, <1>9 DEF FlushStep, FlushFault

\* A flusher keeps the balance of an article that has never been shared.
LEMMA FlusherBalance ==
  ASSUME ConservationInv, NEW f \in Flusher, FlushStep(f) \/ FlushFault(f),
         NEW a \in Article \ shared'
  PROVE  IsThere(a)' /\ Balanced(a)'
<1> USE DEF history
<1>0. /\ TypeOK /\ InBatch(f) /\ flusher[f].id \in Article /\ flusher[f].delta \in Nat
      /\ \A g \in Flusher : InBatch(g)
  BY DEF ConservationInv, TypeOK, FlusherState
<1>1. a \notin shared
  BY DEF FlushStep, FlushFault, Pop, PopError, ReadDelta, ReadError, Clean, AddViewCount,
         AddViewCountError, AckDelta, AckError, Exit
<1>2. Alone(a) /\ IsThere(a) /\ Balanced(a)
  BY <1>1 DEF ConservationInv
<1>3. \A g \in Flusher \ {f} : flusher'[g] = flusher[g]
  BY <1>0, FlusherSteps
<1>4. /\ db[a] \in Nat /\ delta[a] \in Nat /\ expired[a] \in Nat
      /\ views[a] \in Nat /\ recounted[a] \in Nat /\ Owed(a) \in Nat
      /\ delta \in [Article -> Nat] /\ db \in [Article -> Nat]
      /\ recounted \in [Article -> Nat]
  BY <1>0, OwedNat DEF TypeOK
<1> DEFINE Others == UNCHANGED <<db, delta, expired, views, recounted>>
\* Steps that write nothing.
<1>5. ASSUME ~Unacked(f, a), ~Unacked(f, a)', Others PROVE Balanced(a)'
  BY <1>0, <1>2, <1>3, <1>5, QuietStep DEF Balanced
<1>6. ASSUME delta'[a] = delta[a], flusher'[f].pc \in {"idle", "next", "clean"}
      PROVE  IsThere(a)'
  BY <1>2, <1>3, <1>6 DEF IsThere
<1>7. ASSUME flusher'[f].pc \in {"idle", "next"}, flusher[f].pc # "ack", Others
      PROVE  IsThere(a)' /\ Balanced(a)'
  BY <1>5, <1>6, <1>7 DEF Unacked, At
<1>8. CASE Pop(f)
  <2>1. flusher'[f].pc \in {"idle", "next"}
    BY <1>0, <1>8 DEF Pop, TypeOK, Idle
  <2> QED
    BY <1>7, <1>8, <2>1 DEF Pop, At
<1>9. CASE PopError(f)
  BY <1>2, <1>5, <1>9 DEF PopError, Unacked, At, IsThere
<1>10. CASE ReadDelta(f)
  <2>1. /\ flusher'[f].pc \in {"clean", "add"} /\ flusher[f].pc = "next"
        /\ flusher'[f].delta = delta[flusher'[f].id]
    BY <1>0, <1>10, ReadLemma DEF ReadDelta, At
  <2>2. IsThere(a)'
    BY <1>2, <1>3, <1>4, <1>10, <2>1 DEF IsThere, ReadDelta
  <2> QED
    BY <1>5, <1>10, <2>1, <2>2 DEF ReadDelta, Unacked, At
<1>11. CASE ReadError(f)
  <2>1. flusher'[f].pc \in {"idle", "next"}
    BY <1>0, <1>11, ContinueLemma DEF ReadError, TypeOK, FlusherState
  <2> QED
    BY <1>7, <1>11, <2>1 DEF ReadError, At
<1>12. CASE Clean(f)
  BY <1>0, <1>7, <1>12, ContinueLemma DEF Clean, At
<1>13. ASSUME flusher[f].id = a, flusher[f].pc \in {"add", "ack"}
       PROVE  /\ \A g \in Flusher \ {f} : ~Unacked(g, a)
              /\ flusher[f].pc = "add" => Owed(a) = 0
              /\ flusher[f].pc = "ack" => Owed(a) = flusher[f].delta
              /\ flusher[f].delta <= delta[a]
  <2>1. Flushing(f, a)
    BY <1>0, <1>13 DEF Flushing, InBatch
  <2>2. \A g \in Flusher : Unacked(g, a) => g = f
    BY <1>0, <1>2, <2>1, OneOwes
  <2>3. flusher[f].pc = "add" => Owed(a) = 0
    BY <2>2, NothingOwed DEF Unacked, At
  <2>4. flusher[f].pc = "ack" => Owed(a) = flusher[f].delta
    BY <1>13, <2>2, OwedByOne DEF Unacked, At
  <2>5. flusher[f].delta <= delta[a]
    BY <1>2, <1>13 DEF IsThere
  <2> QED
    BY <2>2, <2>3, <2>4, <2>5
<1>14. CASE AddViewCount(f)
  <2>1. /\ flusher'[f].pc = "ack" /\ flusher'[f].id = flusher[f].id
        /\ flusher'[f].delta = flusher[f].delta
        /\ flusher[f].pc = "add"
    BY <1>0, <1>14, WriteLemma DEF AddViewCount, At
  <2>2. db' = Add(db, flusher[f].id, flusher[f].delta)
        /\ UNCHANGED <<delta, expired, views, recounted>>
    BY <1>14 DEF AddViewCount
  <2>3. IsThere(a)'
    BY <1>2, <1>3, <2>1, <2>2 DEF IsThere
  <2>4. CASE flusher[f].id = a
    <3>1. Owed(a)' = flusher[f].delta
      <4>1. Unacked(f, a)' /\ \A g \in Flusher : Unacked(g, a)' => g = f
        BY <1>3, <1>13, <2>1, <2>4 DEF Unacked, At
      <4> QED
        BY <2>1, <4>1 DEF Owed
    <3>2. db'[a] = db[a] + flusher[f].delta
      BY <1>4, <2>2, <2>4 DEF Add
    <3>3. Owed(a) = 0
      BY <1>13, <2>1, <2>4
    <3>4. db[a] + delta[a] + expired[a] = views[a] + 0 + recounted[a]
      BY <1>2, <3>3 DEF Balanced
    <3>5. db[a] + flusher[f].delta + delta[a] + expired[a]
            = views[a] + flusher[f].delta + recounted[a]
      BY <1>0, <1>4, <3>4
    <3>6. Balanced(a)'
      BY <2>2, <3>1, <3>2, <3>5 DEF Balanced
    <3> QED
      BY <2>3, <3>6
  <2>5. CASE flusher[f].id # a
    <3>1. db'[a] = db[a]
      BY <1>4, <2>2, <2>5 DEF Add
    <3>2. Owed(a)' = Owed(a)
      BY <1>0, <1>2, <1>3, <2>1, <2>5, QuietStep DEF Unacked, At
    <3> QED
      BY <1>2, <2>2, <2>3, <3>1, <3>2 DEF Balanced
  <2> QED
    BY <2>4, <2>5
<1>15. CASE AddViewCountError(f)
  <2>1. PICK n \in {0, flusher[f].delta} :
          /\ db' = Add(db, flusher[f].id, n)
          /\ recounted' = Add(recounted, flusher[f].id, n)
    BY <1>15 DEF AddViewCountError
  <2>2. n \in Nat
    BY <1>0
  <2>3. \/ db'[a] = db[a] + n /\ recounted'[a] = recounted[a] + n
        \/ db'[a] = db[a] /\ recounted'[a] = recounted[a]
    BY <1>4, <2>1, <2>2 DEF Add
  <2>4. flusher[f].pc = "add" /\ flusher'[f].pc \in {"idle", "next"}
        /\ UNCHANGED <<delta, expired, views>>
    BY <1>0, <1>15, ContinueLemma DEF AddViewCountError, At
  <2>5. Owed(a)' = Owed(a)
    BY <1>0, <1>2, <1>3, <2>4, QuietStep DEF Unacked, At
  <2>6. Balanced(a)'
    BY <1>2, <1>4, <2>2, <2>3, <2>4, <2>5 DEF Balanced
  <2> QED
    BY <1>6, <2>4, <2>6
\* The last step of an article that has been written.
<1>16. ASSUME flusher[f].pc = "ack", flusher'[f].pc \in {"idle", "next"},
              flusher[f].id = a
       PROVE  Owed(a) = flusher[f].delta /\ Owed(a)' = 0
  <2>1. \A g \in Flusher : ~Unacked(g, a)'
    BY <1>3, <1>13, <1>16 DEF Unacked, At
  <2>2. Owed(a)' = 0
    BY <2>1 DEF Owed
  <2> QED
    BY <1>13, <1>16, <2>2
<1>17. ASSUME flusher[f].pc = "ack", flusher'[f].pc \in {"idle", "next"},
              flusher[f].id # a
       PROVE  Owed(a)' = Owed(a)
  BY <1>0, <1>2, <1>3, <1>17, QuietStep DEF Unacked, At
<1>18. CASE AckDelta(f)
  <2>1. flusher[f].pc = "ack" /\ flusher'[f].pc \in {"idle", "next"}
    BY <1>0, <1>18, ContinueLemma DEF AckDelta, At
  <2>2. delta' = Acked(flusher[f].id, flusher[f].delta)
        /\ UNCHANGED <<db, expired, views, recounted>>
    BY <1>18 DEF AckDelta
  <2>3. CASE flusher[f].id = a
    <3>1. delta'[a] = delta[a] - flusher[f].delta
      BY <1>0, <1>13, <2>1, <2>2, <2>3, AckedLemma
    <3>2. Balanced(a)'
      <4>1. Owed(a) = flusher[f].delta /\ Owed(a)' = 0
        BY <1>16, <2>1, <2>3
      <4>2. db[a] + delta[a] + expired[a] = views[a] + flusher[f].delta + recounted[a]
        BY <1>2, <4>1 DEF Balanced
      <4>3. db[a] + (delta[a] - flusher[f].delta) + expired[a] = views[a] + 0 + recounted[a]
        BY <1>0, <1>4, <4>2
      <4> QED
        BY <2>2, <3>1, <4>1, <4>3 DEF Balanced
    <3>3. \A g \in Flusher : flusher[g].pc \in {"add", "ack"} /\ flusher[g].id = a => g = f
      BY <1>0, <1>2, <2>1, <2>3 DEF InBatch, Alone, Flushing
    <3>4. IsThere(a)'
      BY <1>3, <2>1, <3>3 DEF IsThere
    <3> QED
      BY <3>2, <3>4
  <2>4. CASE flusher[f].id # a
    <3>1. delta'[a] = delta[a]
      BY <1>0, <2>2, <2>4, AckedLemma
    <3> QED
      BY <1>2, <1>6, <1>17, <2>1, <2>2, <2>4, <3>1 DEF Balanced
  <2> QED
    BY <2>3, <2>4
\* The acknowledgement fails, or the process ends before it.
<1>19. ASSUME flusher[f].pc = "ack", flusher'[f].pc \in {"idle", "next"},
              recounted' = Add(recounted, flusher[f].id, flusher[f].delta),
              UNCHANGED <<db, delta, expired, views>>
       PROVE  IsThere(a)' /\ Balanced(a)'
  <2>1. CASE flusher[f].id = a
    <3>1. recounted'[a] = recounted[a] + flusher[f].delta
      BY <1>4, <1>19, <2>1 DEF Add
    <3>2. Balanced(a)'
      BY <1>0, <1>2, <1>4, <1>16, <1>19, <2>1, <3>1 DEF Balanced
    <3> QED
      BY <1>6, <1>19, <3>2
  <2>2. CASE flusher[f].id # a
    <3>1. recounted'[a] = recounted[a]
      BY <1>4, <1>19, <2>2 DEF Add
    <3> QED
      BY <1>2, <1>6, <1>17, <1>19, <2>2, <3>1 DEF Balanced
  <2> QED
    BY <2>1, <2>2
<1>20. CASE AckError(f)
  BY <1>0, <1>19, <1>20, ContinueLemma DEF AckError, At
<1>21. CASE Exit(f)
  <2>1. flusher'[f].pc \in {"idle", "next"}
    BY <1>0, <1>21 DEF Exit, TypeOK, Idle
  <2>2. CASE flusher[f].pc = "ack"
    BY <1>19, <1>21, <2>1, <2>2 DEF Exit, At
  <2>3. CASE flusher[f].pc # "ack"
    BY <1>7, <1>21, <2>1, <2>3 DEF Exit, At
  <2> QED
    BY <2>2, <2>3
<1> QED
  BY <1>8, <1>9, <1>10, <1>11, <1>12, <1>14, <1>15, <1>18, <1>20, <1>21
  DEF FlushStep, FlushFault

\* Views and the expiry of keys keep the balance too: a key expires only when
\* no flusher is at its article.
LEMMA ReaderBalance ==
  ASSUME ConservationInv, NEW b \in Article, Incr(b) \/ IncrMark(b) \/ Expire(b),
         NEW a \in Article \ shared'
  PROVE  IsThere(a)' /\ Balanced(a)'
<1> USE DEF history
<1>1. UNCHANGED <<db, flusher, recounted, shared>>
  BY DEF Incr, IncrMark, Expire
<1>2. /\ TypeOK /\ IsThere(a) /\ Balanced(a)
      /\ \A f \in Flusher : InBatch(f)
  BY <1>1 DEF ConservationInv
<1>3. Owed(a)' = Owed(a)
  BY <1>1 DEF Owed, Unacked, At
<1>4. /\ db[a] \in Nat /\ delta[a] \in Nat /\ expired[a] \in Nat
      /\ views[a] \in Nat /\ recounted[a] \in Nat /\ Owed(a) \in Nat
      /\ \A f \in Flusher : flusher[f].delta \in Nat
      /\ delta \in [Article -> Nat] /\ views \in [Article -> Nat]
      /\ expired \in [Article -> Nat]
  BY <1>2, OwedNat DEF TypeOK, FlusherState
<1>5. CASE Incr(b)
  <2>1. \/ delta'[a] = delta[a] + 1 /\ views'[a] = views[a] + 1
        \/ delta'[a] = delta[a] /\ views'[a] = views[a]
    BY <1>4, <1>5 DEF Incr, Add
  <2>2. expired' = expired
    BY <1>5 DEF Incr
  <2>3. Balanced(a)'
    BY <1>1, <1>2, <1>3, <1>4, <2>1, <2>2 DEF Balanced
  <2>4. IsThere(a)'
    BY <1>1, <1>2, <1>4, <2>1 DEF IsThere
  <2> QED
    BY <2>3, <2>4
<1>6. CASE IncrMark(b)
  BY <1>2, <1>3, <1>6 DEF IncrMark, Balanced, IsThere
<1>7. CASE Expire(b)
  <2>1. \/ delta'[a] = 0 /\ expired'[a] = expired[a] + delta[a]
        \/ b # a /\ delta'[a] = delta[a] /\ expired'[a] = expired[a]
    BY <1>4, <1>7 DEF Expire, Add
  <2>2. views' = views
    BY <1>7 DEF Expire
  <2>3. Balanced(a)'
    BY <1>1, <1>2, <1>3, <1>4, <2>1, <2>2 DEF Balanced
  <2>4. CASE b = a
    <3>1. \A f \in Flusher : ~(flusher[f].pc \in {"add", "ack"} /\ flusher[f].id = a)
      BY <1>2, <1>7, <2>4 DEF Expire, Flushing, InBatch
    <3> QED
      BY <1>1, <2>3, <3>1 DEF IsThere
  <2>5. CASE b # a
    BY <1>1, <1>2, <2>1, <2>3, <2>5, <1>4, <1>7 DEF IsThere, Expire
  <2> QED
    BY <2>4, <2>5
<1> QED
  BY <1>5, <1>6, <1>7

\* An article stays with one flusher as long as it is not shared.
LEMMA AloneStep ==
  ASSUME ConservationInv, [Next]_vars
  PROVE  /\ \A f \in Flusher : InBatch(f)'
         /\ \A a \in Article \ shared' : Alone(a)'
<1> USE DEF history
<1>0. TypeOK /\ \A f \in Flusher : InBatch(f)
  BY DEF ConservationInv
<1>1. CASE UNCHANGED <<flusher, shared>>
  BY <1>0, <1>1 DEF InBatch, Alone, Flushing, ConservationInv
<1>2. ASSUME NEW f \in Flusher, FlushStep(f) \/ FlushFault(f)
      PROVE  /\ \A g \in Flusher : InBatch(g)'
             /\ \A a \in Article \ shared' : Alone(a)'
  <2>1. /\ \A g \in Flusher \ {f} : flusher'[g] = flusher[g]
        /\ InBatch(f)'
        /\ \A a \in Article \ shared' :
              Flushing(f, a)' => Flushing(f, a) \/ \A g \in Flusher : ~Flushing(g, a)
    BY <1>0, <1>2, FlusherSteps
  <2>2. shared \subseteq shared'
    BY <1>2 DEF FlushStep, FlushFault, Pop, PopError, ReadDelta, ReadError, Clean,
                AddViewCount, AddViewCountError, AckDelta, AckError, Exit
  <2>3. ASSUME NEW a \in Article \ shared' PROVE Alone(a)'
    <3>1. Alone(a)
      BY <2>2 DEF ConservationInv
    <3>2. \A g \in Flusher \ {f} : Flushing(g, a)' <=> Flushing(g, a)
      BY <2>1 DEF Flushing
    <3> QED
      BY <2>1, <3>1, <3>2 DEF Alone
  <2> QED
    BY <1>0, <2>1, <2>3 DEF InBatch
<1>3. ASSUME NEW a \in Article, Incr(a) \/ IncrMark(a) \/ Expire(a)
      PROVE  UNCHANGED <<flusher, shared>>
  BY <1>3 DEF Incr, IncrMark, Expire
<1> QED
  BY <1>1, <1>2, <1>3 DEF Next, vars

LEMMA ConservationInvariant == Spec => []ConservationInv
<1>1. Init => ConservationInv
  <2> SUFFICES ASSUME Init PROVE ConservationInv
    OBVIOUS
  <2>1. \A f \in Flusher : flusher[f].pc = "idle"
    BY DEF Init, Idle
  <2>2. \A a \in Article : Alone(a) /\ IsThere(a)
    BY <2>1 DEF Alone, IsThere, Flushing
  <2>3. \A f \in Flusher : InBatch(f)
    BY <2>1 DEF InBatch
  <2>4. \A a \in Article : Owed(a) = 0
    BY <2>1 DEF Owed, Unacked, At
  <2>5. \A a \in Article : Balanced(a)
    BY <2>4 DEF Init, Zero, Balanced
  <2> QED
    BY <2>2, <2>3, <2>5, InitType DEF ConservationInv
<1>2. ConservationInv /\ [Next]_vars => ConservationInv'
  <2> SUFFICES ASSUME ConservationInv, [Next]_vars PROVE ConservationInv'
    OBVIOUS
  <2>1. TypeOK'
    BY TypeStep DEF ConservationInv
  <2>2. \A f \in Flusher : InBatch(f)'
    BY AloneStep
  <2>3. \A a \in Article \ shared' : Alone(a)'
    BY AloneStep
  <2>4. ASSUME NEW a \in Article \ shared' PROVE IsThere(a)' /\ Balanced(a)'
    <3>1. CASE UNCHANGED vars
      BY <3>1 DEF vars, history, ConservationInv, IsThere, Balanced, Owed, Unacked, At
    <3> QED
      BY <3>1, FlusherBalance, ReaderBalance DEF Next
  <2> QED
    BY <2>1, <2>2, <2>3, <2>4 DEF ConservationInv
<1> QED
  BY <1>1, <1>2, PTL DEF Spec

\* Whatever fails and whenever a process exits, the views in PostgreSQL and in
\* Redis add up, for every article that no two processes have been flushing at
\* once: the script ackDeltaLua (view_counter.go:160-175) takes off what was
\* written, no more and no less.
THEOREM ConservationHolds == Spec => []Conservation
<1>1. ConservationInv => Conservation
  BY DEF ConservationInv, Balanced, Conservation
<1> QED
  BY <1>1, ConservationInvariant, PTL

----------------------------------------------------------------------------
(* No view is lost, however many flushers meet at an article *)

\* The views of a that flushers have written and are about to take off the delta:
\* every flusher counts its own, so that the number of them is the sum of what
\* the flushers have read.
Share(f) == {f} \X (1..flusher[f].delta)
Owing(a) == {f \in Flusher : Unacked(f, a)}
Owes(a) == UNION {Share(f) : f \in Owing(a)}

\* NothingLost is not inductive: the views counted twice must be enough for all
\* the flushers that are going to take theirs off.
Ledger(a) ==
    /\ IsFiniteSet(Owes(a))
    /\ db[a] + delta[a] + expired[a] >= views[a] + Cardinality(Owes(a))

LossInv == \A a \in Article : Ledger(a)

\* A flusher's share is as large as the delta it has read.
LEMMA ShareLemma ==
  ASSUME TypeOK, NEW f \in Flusher
  PROVE  /\ IsFiniteSet(Share(f))
         /\ Cardinality(Share(f)) = flusher[f].delta
<1> DEFINE n == flusher[f].delta
<1>1. n \in Nat
  BY DEF TypeOK, FlusherState
<1> HIDE DEF n
<1>2. IsFiniteSet(1..n) /\ Cardinality(1..n) = n
  <2>1. IsFiniteSet(1..n) /\ Cardinality(1..n) = IF 1 > n THEN 0 ELSE n - 1 + 1
    BY <1>1, FS_Interval
  <2> QED
    BY <1>1, <2>1
<1>3. IsFiniteSet({f}) /\ Cardinality({f}) = 1
  BY FS_Singleton
<1>4. IsFiniteSet({f} \X (1..n)) /\ Cardinality({f} \X (1..n)) = 1 * n
  BY <1>2, <1>3, FS_Product
<1> QED
  BY <1>1, <1>4 DEF Share, n

\* While the flushers about to acknowledge stay the same, nothing changes, ...
LEMMA OwesSame ==
  ASSUME NEW a \in Article, Owing(a)' = Owing(a),
         \A f \in Owing(a) : flusher'[f].delta = flusher[f].delta
  PROVE  Owes(a)' = Owes(a)
<1>1. \A f \in Owing(a) : Share(f)' = Share(f)
  BY DEF Share
<1>2. Owes(a)' = UNION {Share(f)' : f \in Owing(a)'}
  BY DEF Owes
<1> QED
  BY <1>1, <1>2 DEF Owes

\* ... one that has written adds its share, which is nobody else's, ...
LEMMA OwesMore ==
  ASSUME TypeOK, NEW a \in Article, NEW f \in Flusher, IsFiniteSet(Owes(a)),
         f \notin Owing(a), Owing(a)' = Owing(a) \cup {f},
         \A g \in Owing(a)' : flusher'[g].delta = flusher[g].delta
  PROVE  /\ IsFiniteSet(Owes(a)')
         /\ Cardinality(Owes(a)') = Cardinality(Owes(a)) + flusher[f].delta
<1>1. \A g \in Owing(a)' : Share(g)' = Share(g)
  BY DEF Share
<1>2. Owes(a)' = UNION {Share(g)' : g \in Owing(a)'}
  BY DEF Owes
<1>3. Owes(a)' = Owes(a) \cup Share(f)
  BY <1>1, <1>2 DEF Owes
<1>4. Owes(a) \cap Share(f) = {}
  BY DEF Owes, Share
<1>5. IsFiniteSet(Share(f)) /\ Cardinality(Share(f)) = flusher[f].delta
  BY ShareLemma
<1>6. Cardinality(Owes(a)) \in Nat /\ flusher[f].delta \in Nat
  BY FS_CardinalityType DEF TypeOK, FlusherState
<1>7. /\ IsFiniteSet(Owes(a) \cup Share(f))
      /\ Cardinality(Owes(a) \cup Share(f)) =
            Cardinality(Owes(a)) + Cardinality(Share(f)) - Cardinality({})
  BY <1>4, <1>5, FS_Union
<1> QED
  BY <1>3, <1>5, <1>6, <1>7, FS_EmptySet

\* ... and one that is done takes its share away.
LEMMA OwesLess ==
  ASSUME TypeOK, NEW a \in Article, NEW f \in Owing(a), IsFiniteSet(Owes(a)),
         Owing(a)' = Owing(a) \ {f},
         \A g \in Owing(a)' : flusher'[g].delta = flusher[g].delta
  PROVE  /\ IsFiniteSet(Owes(a)')
         /\ Cardinality(Owes(a)') = Cardinality(Owes(a)) - flusher[f].delta
<1>0. f \in Flusher
  BY DEF Owing
<1>1. \A g \in Owing(a)' : Share(g)' = Share(g)
  BY DEF Share
<1>2. Owes(a)' = UNION {Share(g)' : g \in Owing(a)'}
  BY DEF Owes
<1>3. \A g \in Owing(a) : g # f => Share(g) \cap Share(f) = {}
  BY DEF Share
<1>4. Owes(a)' = Owes(a) \ Share(f) /\ Owes(a) \cap Share(f) = Share(f)
  BY <1>1, <1>2, <1>3 DEF Owes
<1>5. Cardinality(Share(f)) = flusher[f].delta
  BY <1>0, ShareLemma
<1>6. /\ IsFiniteSet(Owes(a) \ Share(f))
      /\ Cardinality(Owes(a) \ Share(f)) = Cardinality(Owes(a)) - Cardinality(Share(f))
  BY <1>4, FS_Difference
<1> QED
  BY <1>4, <1>5, <1>6

\* A step of a flusher keeps every ledger: what it adds to PostgreSQL it owes, and it
\* takes no more off the delta than it owes.
LEMMA FlusherLoss ==
  ASSUME ConservationInv, NEW a \in Article, Ledger(a),
         NEW f \in Flusher, FlushStep(f) \/ FlushFault(f)
  PROVE  Ledger(a)'
<1> USE DEF history
<1>0. /\ TypeOK /\ InBatch(f) /\ flusher[f].id \in Article /\ flusher[f].delta \in Nat
      /\ db \in [Article -> Nat] /\ delta \in [Article -> Nat]
  BY DEF ConservationInv, TypeOK, FlusherState
<1>1. \A g \in Flusher \ {f} : flusher'[g] = flusher[g]
  BY <1>0, FlusherSteps
<1>2. /\ db[a] \in Nat /\ delta[a] \in Nat /\ expired[a] \in Nat /\ views[a] \in Nat
      /\ IsFiniteSet(Owes(a)) /\ Cardinality(Owes(a)) \in Nat
      /\ db[a] + delta[a] + expired[a] >= views[a] + Cardinality(Owes(a))
  BY <1>0, FS_CardinalityType DEF TypeOK, Ledger
<1>3. /\ UNCHANGED <<expired, views>>
  BY DEF FlushStep, FlushFault, Pop, PopError, ReadDelta, ReadError, Clean, AddViewCount,
         AddViewCountError, AckDelta, AckError, Exit
\* A step that neither comes to nor leaves the acknowledgement of a.
<1>4. ASSUME ~Unacked(f, a), ~Unacked(f, a)', delta'[a] = delta[a],
             db'[a] >= db[a], db'[a] \in Nat
      PROVE  Ledger(a)'
  <2>1. Owing(a)' = Owing(a)
    BY <1>1, <1>4 DEF Owing, Unacked, At
  <2>2. \A g \in Owing(a) : flusher'[g].delta = flusher[g].delta
    BY <1>1, <1>4 DEF Owing
  <2>3. Owes(a)' = Owes(a)
    BY <2>1, <2>2, OwesSame
  <2> QED
    BY <1>2, <1>3, <1>4, <2>3 DEF Ledger
\* A step that ends the acknowledgement of a, with n views less in Redis.
<1>5. ASSUME Unacked(f, a), ~Unacked(f, a)', db'[a] = db[a], delta'[a] \in Nat,
             delta[a] - delta'[a] <= flusher[f].delta
      PROVE  Ledger(a)'
  <2>1. f \in Owing(a) /\ Owing(a)' = Owing(a) \ {f}
    BY <1>1, <1>5 DEF Owing, Unacked, At
  <2>2. \A g \in Owing(a)' : flusher'[g].delta = flusher[g].delta
    BY <1>1, <2>1 DEF Owing
  <2>3. /\ IsFiniteSet(Owes(a)')
        /\ Cardinality(Owes(a)') = Cardinality(Owes(a)) - flusher[f].delta
    BY <1>0, <1>2, <2>1, <2>2, OwesLess
  <2>4. Cardinality(Owes(a)') \in Int
    BY <1>0, <1>2, <2>3
  <2>5. db'[a] + delta'[a] + expired'[a] >= views'[a] + Cardinality(Owes(a)')
    BY <1>0, <1>2, <1>3, <1>5, <2>3
  <2> QED
    BY <2>3, <2>5 DEF Ledger
<1>6. CASE Pop(f) \/ PopError(f) \/ ReadDelta(f) \/ ReadError(f) \/ Clean(f)
  <2>1. flusher[f].pc # "ack" /\ UNCHANGED <<db, delta>>
    BY <1>6 DEF Pop, PopError, ReadDelta, ReadError, Clean, At
  <2>2. flusher'[f].pc # "ack"
    <3>1. CASE Pop(f)
      BY <1>0, <3>1 DEF Pop, TypeOK, Idle
    <3>2. CASE PopError(f)
      BY <2>1, <3>2 DEF PopError
    <3>3. CASE ReadDelta(f)
      BY <1>0, <3>3, ReadLemma
    <3>4. CASE ReadError(f) \/ Clean(f)
      BY <1>0, <3>4, ContinueLemma DEF ReadError, Clean, TypeOK, FlusherState
    <3> QED
      BY <1>6, <3>1, <3>2, <3>3, <3>4
  <2> QED
    BY <1>2, <1>4, <2>1, <2>2 DEF Unacked, At
<1>7. CASE AddViewCount(f)
  <2>1. /\ flusher'[f].pc = "ack" /\ flusher'[f].id = flusher[f].id
        /\ flusher'[f].delta = flusher[f].delta
        /\ flusher[f].pc = "add"
        /\ db' = Add(db, flusher[f].id, flusher[f].delta)
        /\ delta' = delta
    BY <1>0, <1>7, WriteLemma DEF AddViewCount, At
  <2>2. CASE flusher[f].id = a
    <3>1. f \notin Owing(a) /\ Owing(a)' = Owing(a) \cup {f}
      BY <1>1, <2>1, <2>2 DEF Owing, Unacked, At
    <3>2. \A g \in Owing(a)' : flusher'[g].delta = flusher[g].delta
      BY <1>1, <2>1, <3>1 DEF Owing
    <3>3. /\ IsFiniteSet(Owes(a)')
          /\ Cardinality(Owes(a)') = Cardinality(Owes(a)) + flusher[f].delta
      BY <1>0, <1>2, <3>1, <3>2, OwesMore
    <3>4. db'[a] = db[a] + flusher[f].delta
      BY <1>0, <2>1, <2>2, AddLemma
    <3>5. db'[a] + delta'[a] + expired'[a] >= views'[a] + Cardinality(Owes(a)')
      BY <1>0, <1>2, <1>3, <2>1, <3>3, <3>4
    <3> QED
      BY <3>3, <3>5 DEF Ledger
  <2>3. CASE flusher[f].id # a
    <3>1. db'[a] = db[a]
      BY <1>0, <2>1, <2>3 DEF Add
    <3> QED
      BY <1>2, <1>4, <2>1, <2>3, <3>1 DEF Unacked, At
  <2> QED
    BY <2>2, <2>3
<1>8. CASE AddViewCountError(f)
  <2>1. PICK n \in {0, flusher[f].delta} : db' = Add(db, flusher[f].id, n)
    BY <1>8 DEF AddViewCountError
  <2>2. n \in Nat
    BY <1>0
  <2>3. db'[a] >= db[a] /\ db'[a] \in Nat
    <3>1. db'[a] = db[a] \/ db'[a] = db[a] + n
      BY <1>0, <2>1 DEF Add
    <3> QED
      BY <1>2, <2>2, <3>1
  <2>4. flusher[f].pc = "add" /\ flusher'[f].pc \in {"idle", "next"} /\ delta' = delta
    BY <1>0, <1>8, ContinueLemma DEF AddViewCountError, At
  <2> QED
    BY <1>4, <2>3, <2>4 DEF Unacked, At
<1>9. CASE AckDelta(f)
  <2>1. /\ flusher[f].pc = "ack" /\ flusher'[f].pc \in {"idle", "next"} /\ db' = db
        /\ delta' = Acked(flusher[f].id, flusher[f].delta)
    BY <1>0, <1>9, ContinueLemma DEF AckDelta, At
  <2>2. CASE flusher[f].id = a
    <3>1. delta'[a] \in Nat /\ delta[a] - delta'[a] <= flusher[f].delta
      BY <1>0, <1>2, <2>1, <2>2 DEF Acked
    <3> QED
      BY <1>5, <2>1, <2>2, <3>1 DEF Unacked, At
  <2>3. CASE flusher[f].id # a
    <3>1. delta'[a] = delta[a]
      BY <1>0, <2>1, <2>3, AckedLemma
    <3> QED
      BY <1>2, <1>4, <2>1, <2>3, <3>1 DEF Unacked, At
  <2> QED
    BY <2>2, <2>3
<1>10. CASE AckError(f) \/ Exit(f)
  <2>1. flusher'[f].pc \in {"idle", "next"} /\ UNCHANGED <<db, delta>>
    <3>1. CASE AckError(f)
      BY <1>0, <3>1, ContinueLemma DEF AckError
    <3>2. CASE Exit(f)
      BY <1>0, <3>2 DEF Exit, TypeOK, Idle
    <3> QED
      BY <1>10, <3>1, <3>2
  <2>2. CASE Unacked(f, a)
    <3>1. delta[a] - delta'[a] <= flusher[f].delta
      BY <1>0, <1>2, <2>1
    <3> QED
      BY <1>2, <1>5, <2>1, <2>2, <3>1 DEF Unacked, At
  <2>3. CASE ~Unacked(f, a)
    BY <1>2, <1>4, <2>1, <2>3 DEF Unacked, At
  <2> QED
    BY <2>2, <2>3
<1> QED
  BY <1>6, <1>7, <1>8, <1>9, <1>10 DEF FlushStep, FlushFault

\* A view adds to both sides, and what expires has been in Redis.
LEMMA ReaderLoss ==
  ASSUME ConservationInv, NEW a \in Article, Ledger(a),
         NEW b \in Article, Incr(b) \/ IncrMark(b) \/ Expire(b)
  PROVE  Ledger(a)'
<1> USE DEF history
<1>1. UNCHANGED <<db, flusher>>
  BY DEF Incr, IncrMark, Expire
<1>2. Owes(a)' = Owes(a)
  BY <1>1 DEF Owes, Owing, Share, Unacked, At
<1>3. /\ db[a] \in Nat /\ delta[a] \in Nat /\ expired[a] \in Nat /\ views[a] \in Nat
      /\ delta \in [Article -> Nat] /\ views \in [Article -> Nat]
      /\ expired \in [Article -> Nat]
      /\ IsFiniteSet(Owes(a)) /\ Cardinality(Owes(a)) \in Nat
      /\ db[a] + delta[a] + expired[a] >= views[a] + Cardinality(Owes(a))
  BY FS_CardinalityType DEF ConservationInv, TypeOK, Ledger
<1>4. delta'[a] + expired'[a] - views'[a] = delta[a] + expired[a] - views[a]
      /\ delta'[a] \in Nat /\ expired'[a] \in Nat /\ views'[a] \in Nat
  <2>1. CASE Incr(b)
    BY <1>3, <2>1 DEF Incr, Add
  <2>2. CASE IncrMark(b)
    BY <1>3, <2>2 DEF IncrMark
  <2>3. CASE Expire(b)
    BY <1>3, <2>3 DEF Expire, Add
  <2> QED
    BY <2>1, <2>2, <2>3
<1> QED
  BY <1>1, <1>2, <1>3, <1>4 DEF Ledger

\* Two flushers at one article count views twice and lose none: what one takes off
\* the delta it has added to PostgreSQL itself, and the script never takes off more
\* than it is told (view_counter.go:100-183).
THEOREM NoViewIsLost == Spec => []NothingLost
<1>1. Init => LossInv
  <2> SUFFICES ASSUME Init, NEW a \in Article PROVE Ledger(a)
    BY DEF LossInv
  <2>1. Owing(a) = {}
    BY DEF Init, Idle, Owing, Unacked, At
  <2>2. Owes(a) = {}
    BY <2>1 DEF Owes
  <2> QED
    BY <2>2, FS_EmptySet DEF Init, Zero, Ledger
<1>2. ConservationInv /\ LossInv /\ [Next]_vars => LossInv'
  <2> SUFFICES ASSUME ConservationInv, LossInv, [Next]_vars, NEW a \in Article
               PROVE  Ledger(a)'
    BY DEF LossInv
  <2>1. Ledger(a)
    BY DEF LossInv
  <2>2. CASE UNCHANGED vars
    BY <2>1, <2>2 DEF vars, history, Ledger, Owes, Owing, Share, Unacked, At
  <2> QED
    BY <2>1, <2>2, FlusherLoss, ReaderLoss DEF Next
<1>3. ConservationInv /\ LossInv => NothingLost
  <2> SUFFICES ASSUME TypeOK, NEW a \in Article, Ledger(a)
               PROVE  db[a] + delta[a] + expired[a] >= views[a]
    BY DEF ConservationInv, LossInv, NothingLost
  <2>1. Cardinality(Owes(a)) \in Nat
    BY FS_CardinalityType DEF Ledger
  <2> QED
    BY <2>1 DEF TypeOK, Ledger
<1> QED
  BY <1>1, <1>2, <1>3, ConservationInvariant, PTL DEF Spec
=============================================================================
