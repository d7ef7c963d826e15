---------------------------- MODULE ViewCounter ----------------------------
(***************************************************************************)
(* The view counter of the article service                                 *)
(* (rpc/internal/cache/view_counter.go): views are counted in Redis, in a  *)
(* delta key per article and a set of dirty articles, and a flusher in     *)
(* every article rpc process moves the deltas to PostgreSQL.  One step per *)
(* Redis command, script or SQL statement.                                 *)
(***************************************************************************)
EXTENDS Integers, FiniteSets

CONSTANTS
    Article,
    Flusher,     \* the goroutines StartFlusher starts, one per process
    BatchSize,   \* flushBatch's batchSize
    FaultKinds,  \* the faults considered
    MaxViews,    \* bound: views of each article
    MaxFaults    \* bound: faults

ASSUME ViewAssumption ==
    /\ Article # {}
    /\ BatchSize \in Nat \ {0}
    /\ FaultKinds \subseteq {"spop", "read", "db", "ack", "exit", "expire"}
    /\ MaxViews \in Nat
    /\ MaxFaults \in Nat

VARIABLES
    delta,       \* Redis: the delta key of each article; 0: no such key
    dirty,       \* Redis: the set of dirty articles
    db,          \* PostgreSQL: view_count
    marking,     \* per article: pipelines between their INCR and their SADD
    flusher,     \* per process: what flushBatch is doing
    interval,    \* per process: seconds between two ticks
    views,       \* history: views of each article
    recounted,   \* history: views written to PostgreSQL and left in Redis
    expired,     \* history: views that went with an expired delta key
    overlapped,  \* history: articles viewed between a flusher's read and its ack
    shared,      \* history: articles two flushers have been flushing at once
    faults

history == <<views, recounted, expired, overlapped, shared>>
vars == <<delta, dirty, db, marking, flusher, interval, history, faults>>

FlusherPc == {"idle", "next", "clean", "add", "ack"}

\* batch: the ids popped and not finished, the current one included.
Idle == [pc |-> "idle", batch |-> {}, id |-> CHOOSE a \in Article : TRUE,
         delta |-> 0]

\* interval doubles from 5 s up to 2 min.
Intervals == {5, 10, 20, 40, 80, 120}
Twice(s) == IF 2 * s > 120 THEN 120 ELSE 2 * s

FlusherState == [pc : FlusherPc, batch : SUBSET Article, id : Article, delta : Nat]

TypeOK ==
    /\ delta \in [Article -> Nat]
    /\ dirty \subseteq Article
    /\ db \in [Article -> Nat]
    /\ marking \in [Article -> Nat]
    /\ flusher \in [Flusher -> FlusherState]
    /\ interval \in [Flusher -> Intervals]
    /\ views \in [Article -> Nat]
    /\ recounted \in [Article -> Nat]
    /\ expired \in [Article -> Nat]
    /\ overlapped \subseteq Article
    /\ shared \subseteq Article
    /\ faults \in Nat

Zero == [a \in Article |-> 0]

Init ==
    /\ delta = Zero /\ db = Zero /\ marking = Zero
    /\ dirty = {}
    /\ flusher = [f \in Flusher |-> Idle]
    /\ interval = [f \in Flusher |-> 5]
    /\ views = Zero /\ recounted = Zero /\ expired = Zero
    /\ overlapped = {} /\ shared = {}
    /\ faults = 0

----------------------------------------------------------------------------
At(f, pc) == flusher[f].pc = pc
Add(count, a, n) == [count EXCEPT ![a] = @ + n]

\* A flusher has popped a and not finished with it.
Flushing(f, a) == flusher[f].pc # "idle" /\ a \in flusher[f].batch
\* ... and has read its delta.
Overlaps(f, a) == flusher[f].pc \in {"clean", "add", "ack"} /\ flusher[f].id = a

Fault(kind) ==
    /\ kind \in FaultKinds
    /\ faults < MaxFaults
    /\ faults' = faults + 1

\* Incr: INCR and EXPIRE ...
Incr(a) ==
    /\ views[a] < MaxViews
    /\ delta' = Add(delta, a, 1)
    /\ marking' = Add(marking, a, 1)
    /\ views' = Add(views, a, 1)
    /\ overlapped' = IF \E f \in Flusher : Overlaps(f, a) THEN overlapped \cup {a}
                     ELSE overlapped
    /\ UNCHANGED <<dirty, db, flusher, interval, recounted, expired, shared, faults>>

\* ... and SADD.  A pipeline is not a transaction.
IncrMark(a) ==
    /\ marking[a] > 0
    /\ marking' = Add(marking, a, -1)
    /\ dirty' = dirty \cup {a}
    /\ UNCHANGED <<delta, db, flusher, interval, history, faults>>

----------------------------------------------------------------------------
(* flushBatch *)

\* Wrong variant: the batch ends with the first id.
WrongContinue(f, a) ==
    /\ flusher' = [flusher EXCEPT ![f] = Idle]
    /\ interval' = [interval EXCEPT ![f] = 5]

\* The loop goes on to the next id; after the last one flushBatch returns no
\* error, whatever happened to the ids, and the ticker has its normal pace.
Continue(f, a) ==
    LET rest == flusher[f].batch \ {a} IN
    /\ flusher' = [flusher EXCEPT ![f] =
            IF rest = {} THEN Idle ELSE [Idle EXCEPT !.pc = "next", !.batch = rest]]
    /\ interval' = [interval EXCEPT ![f] = IF rest = {} THEN 5 ELSE @]

\* SPopN takes the articles out of the dirty set.  A full batch is followed by
\* another one, any other by a tick.
Pop(f) ==
    /\ At(f, "idle")
    /\ \E ids \in SUBSET dirty :
        /\ Cardinality(ids) <= BatchSize
        /\ Cardinality(ids) < BatchSize => ids = dirty
        /\ dirty' = dirty \ ids
        /\ flusher' = [flusher EXCEPT ![f] =
                IF ids = {} THEN Idle ELSE [Idle EXCEPT !.pc = "next", !.batch = ids]]
        /\ interval' = [interval EXCEPT ![f] = IF ids = {} THEN 5 ELSE @]
        /\ shared' = shared \cup {a \in ids : \E g \in Flusher : Flushing(g, a)}
    /\ UNCHANGED <<delta, db, marking, views, recounted, expired, overlapped, faults>>

\* SPopN fails: the one error flushBatch returns.
PopError(f) ==
    /\ At(f, "idle")
    /\ Fault("spop")
    /\ interval' = [interval EXCEPT ![f] = Twice(@)]
    /\ UNCHANGED <<delta, dirty, db, marking, flusher, history>>

\* Wrong variant: GETDEL.
WrongReadDelta(f) ==
    /\ At(f, "next")
    /\ \E a \in flusher[f].batch :
        /\ flusher' = [flusher EXCEPT ![f].pc = IF delta[a] = 0 THEN "clean" ELSE "add",
                                      ![f].id = a, ![f].delta = delta[a]]
        /\ delta' = [delta EXCEPT ![a] = 0]
    /\ UNCHANGED <<dirty, db, marking, interval, history, faults>>

\* readDelta, for any id of the batch.
ReadDelta(f) ==
    /\ At(f, "next")
    /\ \E a \in flusher[f].batch :
        flusher' = [flusher EXCEPT ![f] =
            [pc |-> IF delta[a] = 0 THEN "clean" ELSE "add", batch |-> @.batch,
             id |-> a, delta |-> delta[a]]]
    /\ UNCHANGED <<delta, dirty, db, marking, interval, history, faults>>

\* readDelta fails: the id goes back to the dirty set, if Redis answers again.
ReadError(f) ==
    /\ At(f, "next")
    /\ Fault("read")
    /\ \E a \in flusher[f].batch, restored \in BOOLEAN :
        /\ dirty' = IF restored THEN dirty \cup {a} ELSE dirty
        /\ Continue(f, a)
    /\ UNCHANGED <<delta, db, marking, history>>

\* No delta: SREM.
Clean(f) ==
    /\ At(f, "clean")
    /\ dirty' = dirty \ {flusher[f].id}
    /\ Continue(f, flusher[f].id)
    /\ UNCHANGED <<delta, db, marking, history, faults>>

AddViewCount(f) ==
    /\ At(f, "add")
    /\ db' = Add(db, flusher[f].id, flusher[f].delta)
    /\ flusher' = [flusher EXCEPT ![f].pc = "ack"]
    /\ UNCHANGED <<delta, dirty, marking, interval, history, faults>>

\* The update fails, or is committed and its answer lost: on to the next id.
\* This one is no longer dirty.
AddViewCountError(f) ==
    /\ At(f, "add")
    /\ Fault("db")
    /\ \E n \in {0, flusher[f].delta} :
        /\ db' = Add(db, flusher[f].id, n)
        /\ recounted' = Add(recounted, flusher[f].id, n)
    /\ Continue(f, flusher[f].id)
    /\ UNCHANGED <<delta, dirty, marking, views, expired, overlapped, shared>>

\* Wrong variant: DEL in every case.
WrongAckedDel(a, n) == [delta EXCEPT ![a] = 0]

\* The script ackDeltaLua.
Acked(a, n) == [delta EXCEPT ![a] = IF @ <= n THEN 0 ELSE @ - n]

AckDelta(f) ==
    /\ At(f, "ack")
    /\ delta' = Acked(flusher[f].id, flusher[f].delta)
    /\ dirty' = dirty \ {flusher[f].id}
    /\ Continue(f, flusher[f].id)
    /\ UNCHANGED <<db, marking, history, faults>>

\* The script does not run: the delta written stays in Redis and will be
\* written again.
AckError(f) ==
    /\ At(f, "ack")
    /\ Fault("ack")
    /\ recounted' = Add(recounted, flusher[f].id, flusher[f].delta)
    /\ Continue(f, flusher[f].id)
    /\ UNCHANGED <<delta, dirty, db, marking, views, expired, overlapped, shared>>

----------------------------------------------------------------------------
\* The process exits or dies.  Nothing waits for the flusher: Stop cancels its
\* context, closes Redis and returns.
Exit(f) ==
    /\ Fault("exit")
    /\ recounted' = IF At(f, "ack") THEN Add(recounted, flusher[f].id, flusher[f].delta)
                    ELSE recounted
    /\ flusher' = [flusher EXCEPT ![f] = Idle]
    /\ interval' = [interval EXCEPT ![f] = 5]
    /\ UNCHANGED <<delta, dirty, db, marking, views, expired, overlapped, shared>>

\* A delta key expires a day after its last view.  A flusher that finds the
\* article dirty gets to it within minutes.
Expire(a) ==
    /\ "expire" \in FaultKinds
    /\ delta[a] > 0
    /\ a \notin dirty /\ marking[a] = 0
    /\ \A f \in Flusher : ~Flushing(f, a)
    /\ expired' = Add(expired, a, delta[a])
    /\ delta' = [delta EXCEPT ![a] = 0]
    /\ UNCHANGED <<dirty, db, marking, flusher, interval, views, recounted, overlapped, shared, faults>>

FlushStep(f) ==
    Pop(f) \/ ReadDelta(f) \/ Clean(f) \/ AddViewCount(f) \/ AckDelta(f)

FlushFault(f) ==
    PopError(f) \/ ReadError(f) \/ AddViewCountError(f) \/ AckError(f) \/ Exit(f)

Next ==
    \/ \E a \in Article : Incr(a) \/ IncrMark(a) \/ Expire(a)
    \/ \E f \in Flusher : FlushStep(f) \/ FlushFault(f)

Spec == Init /\ [][Next]_vars

\* Every pipeline is executed to its end, and the ticker of every flusher goes
\* on.  Readers need not come.
Fairness ==
    /\ \A a \in Article : WF_vars(IncrMark(a))
    /\ \A f \in Flusher : WF_vars(FlushStep(f))
LiveSpec == Spec /\ Fairness

----------------------------------------------------------------------------
(* Properties *)

\* f has written views of a to PostgreSQL and not taken them off the delta.
Unacked(f, a) == At(f, "ack") /\ flusher[f].id = a

Owed(a) ==
    IF \E f \in Flusher : Unacked(f, a)
    THEN flusher[CHOOSE f \in Flusher : Unacked(f, a)].delta
    ELSE 0

\* As long as no two flushers have been flushing an article at once, no view of
\* it is lost or invented: what PostgreSQL and Redis hold together are the
\* views, plus what has been written and not taken off the delta yet, plus what
\* was written twice, less what expired.
Conservation ==
    \A a \in Article \ shared :
        db[a] + delta[a] + expired[a] = views[a] + Owed(a) + recounted[a]

\* With any number of flushers PostgreSQL and Redis hold every view that has
\* not expired: two flushers can count a view twice, never lose it.
NothingLost == \A a \in Article : db[a] + delta[a] + expired[a] >= views[a]

\* A view reaches PostgreSQL, unless the article was viewed between a flusher's
\* read and its ack, or something failed.
CountedUnlessOverlap ==
    \A a \in Article, n \in 1..MaxViews :
        views[a] = n ~> (db[a] >= n \/ a \in overlapped \/ faults > 0)

\* view_counter.go:159, "a new Incr between read and ack is not lost", :126,
\* "neither delta nor dirty is deleted, the next tick tries again", and :142,
\* "even if the process dies the next tick can try again": an article with a
\* delta is dirty, or about to be marked dirty, or being flushed.
NoStrandedDelta ==
    \A a \in Article :
        delta[a] > 0 =>
            a \in dirty \/ marking[a] > 0 \/ \E f \in Flusher : Flushing(f, a)
=============================================================================
