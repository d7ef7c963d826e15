---------------------------- MODULE ArticleCache ----------------------------
(***************************************************************************)
(* One article in the caches of the article service                        *)
(* (rpc/internal/cache/article_cache.go): a local cache in every process,  *)
(* Redis behind them, singleflight in front of the database, nil markers,  *)
(* and invalidation over a Redis channel.  Readers run GetArticle, writers *)
(* the end of UpdateArticle and DeleteArticle; one step per call to Redis, *)
(* the local cache or the database.                                        *)
(*                                                                         *)
(* A cached article is the version of the row it was read from; bodies and *)
(* view counts, which GetArticle adds to every answer, are left out.       *)
(***************************************************************************)
EXTENDS Integers

CONSTANTS
    Node,        \* the article rpc processes
    Reader,      \* requests served at the same time
    Writer,
    FaultKinds,  \* the faults considered
    MaxVersion,  \* bound: versions of the article
    MaxFaults    \* bound: faults

ASSUME CacheAssumption ==
    /\ Node # {}
    /\ FaultKinds \subseteq {"redis", "db", "disconnect", "crash"}
    /\ MaxVersion \in Nat \ {0}
    /\ MaxFaults \in Nat

VARIABLES
    row,        \* PostgreSQL: the article's version, and is it there
    redis,      \* Redis: the version cached, or None
    nilMarker,  \* Redis: is the key "...:nil" set
    local,      \* per process: the version in its local cache, or None
    flight,     \* per process: is a singleflight call for the article running
    inbox,      \* per process: invalidations published and not handled
    connected,  \* per process: is it subscribed to the channel
    reader,     \* what each reader is doing
    writer,     \* what each writer is doing
    late,       \* history: a copy out of date was stored behind its invalidation
    silent,     \* history: a version was written that nothing invalidates
    created,    \* history: the article was created while it was being read
    faults

storeVars == <<row, redis, nilMarker>>
nodeVars == <<local, flight, inbox, connected>>
history == <<late, silent, created>>
vars == <<storeVars, nodeVars, reader, writer, history, faults>>

Version == 0..MaxVersion
None == 0

\* "get", "nil", "redis", "copy": GetDetail, before singleflight and, leading,
\* inside it.  "fallback": GetArticle asks the database itself.
ReaderPc == {"idle", "get", "nil", "redis", "copy", "enter", "wait", "load",
             "setNil", "setRedis", "setLocal", "leave", "fallback", "answered"}
WriterPc == {"idle", "delRedis", "delLocal", "publish"}

\* found: the version in hand; absent: was the article absent during the read.
ReaderState == [pc : ReaderPc, node : Node, leading : BOOLEAN, found : Version,
                absent : BOOLEAN]
WriterState == [pc : WriterPc, node : Node]

TypeOK ==
    /\ row \in [version : Version, live : BOOLEAN]
    /\ redis \in Version
    /\ nilMarker \in BOOLEAN
    /\ local \in [Node -> Version]
    /\ flight \in [Node -> BOOLEAN]
    /\ inbox \in [Node -> Nat]
    /\ connected \in [Node -> BOOLEAN]
    /\ reader \in [Reader -> ReaderState]
    /\ writer \in [Writer -> WriterState]
    /\ late \in BOOLEAN /\ silent \in BOOLEAN /\ created \in BOOLEAN
    /\ faults \in Nat

SomeNode == CHOOSE n \in Node : TRUE
IdleReader == [pc |-> "idle", node |-> SomeNode, leading |-> FALSE, found |-> None,
               absent |-> FALSE]
IdleWriter == [pc |-> "idle", node |-> SomeNode]

Init ==
    /\ row \in {[version |-> None, live |-> FALSE], [version |-> 1, live |-> TRUE]}
    /\ redis = None /\ nilMarker = FALSE
    /\ local = [n \in Node |-> None]
    /\ flight = [n \in Node |-> FALSE]
    /\ inbox = [n \in Node |-> 0]
    /\ connected = [n \in Node |-> TRUE]
    /\ reader = [r \in Reader |-> IdleReader]
    /\ writer = [w \in Writer |-> IdleWriter]
    /\ late = FALSE /\ silent = FALSE /\ created = FALSE
    /\ faults = 0

----------------------------------------------------------------------------
At(r, pc) == reader[r].pc = pc
Of(r) == reader[r].node
Goto(r, pc) == reader' = [reader EXCEPT ![r].pc = pc]
Holding(r, pc, v) == reader' = [reader EXCEPT ![r].pc = pc, ![r].found = v]

\* What FindOne finds.
Found == IF row.live THEN row.version ELSE None

\* Cached, and not what the database holds.
Stale(v) == v # None /\ v # Found

\* An invalidation of the copies of process n is on its way.
Invalidating(n) == inbox[n] > 0 \/ \E w \in Writer : writer[w].pc # "idle"

Fault(kind) ==
    /\ kind \in FaultKinds
    /\ faults < MaxFaults
    /\ faults' = faults + 1

\* GetDetail has its answer: the reader's own, or that of the call it leads.
GetDetailReturns(r, v) ==
    Holding(r, IF reader[r].leading THEN (IF v = None THEN "load" ELSE "leave")
               ELSE (IF v = None THEN "enter" ELSE "answered"), v)

----------------------------------------------------------------------------
(* GetArticle *)

\* A request arrives at any process.
GetArticle(r) ==
    /\ At(r, "idle")
    /\ \E n \in Node :
        reader' = [reader EXCEPT ![r] =
            [IdleReader EXCEPT !.pc = "get", !.node = n, !.absent = ~row.live]]
    /\ UNCHANGED <<storeVars, nodeVars, writer, history, faults>>

\* GetDetail: the local cache ...
GetLocal(r) ==
    /\ At(r, "get")
    /\ IF local[Of(r)] # None THEN GetDetailReturns(r, local[Of(r)]) ELSE Goto(r, "nil")
    /\ UNCHANGED <<storeVars, nodeVars, writer, history, faults>>

\* Wrong variant: the marker is the answer.
WrongIsNilDetail(r) ==
    /\ At(r, "nil")
    /\ IF nilMarker THEN Holding(r, "answered", None) ELSE Goto(r, "redis")
    /\ UNCHANGED <<storeVars, nodeVars, writer, history, faults>>

\* ... the nil marker, which answers like a miss ...
IsNilDetail(r) ==
    /\ At(r, "nil")
    /\ IF nilMarker THEN GetDetailReturns(r, None) ELSE Goto(r, "redis")
    /\ UNCHANGED <<storeVars, nodeVars, writer, history, faults>>

IsNilDetailError(r) ==
    /\ At(r, "nil")
    /\ Fault("redis")
    /\ Goto(r, "redis")
    /\ UNCHANGED <<storeVars, nodeVars, writer, history>>

\* ... and Redis, whose copy goes into the local cache.
GetRedis(r) ==
    /\ At(r, "redis")
    /\ IF redis = None THEN GetDetailReturns(r, None) ELSE Holding(r, "copy", redis)
    /\ UNCHANGED <<storeVars, nodeVars, writer, history, faults>>

GetRedisError(r) ==
    /\ At(r, "redis")
    /\ Fault("redis")
    /\ GetDetailReturns(r, None)
    /\ UNCHANGED <<storeVars, nodeVars, writer, history>>

\* The local cache stores what r holds.
SetLocal(r) ==
    /\ local' = [local EXCEPT ![Of(r)] = reader[r].found]
    /\ late' = (late \/ (Stale(reader[r].found) /\ ~Invalidating(Of(r))))

CopyToLocal(r) ==
    /\ At(r, "copy")
    /\ SetLocal(r)
    /\ GetDetailReturns(r, reader[r].found)
    /\ UNCHANGED <<storeVars, flight, inbox, connected, writer, silent, created, faults>>

\* sf.Do: the first reader of a process leads, the others wait for it.
EnterFlight(r) ==
    /\ At(r, "enter")
    /\ flight' = [flight EXCEPT ![Of(r)] = TRUE]
    /\ reader' = [reader EXCEPT ![r].pc = IF flight[Of(r)] THEN "wait" ELSE "get",
                                ![r].leading = ~flight[Of(r)]]
    /\ UNCHANGED <<storeVars, local, inbox, connected, writer, history, faults>>

\* The loader.
Load(r) ==
    /\ At(r, "load")
    /\ Holding(r, IF Found = None THEN "setNil" ELSE "setRedis", Found)
    /\ UNCHANGED <<storeVars, nodeVars, writer, history, faults>>

LoadError(r) ==
    /\ At(r, "load")
    /\ Fault("db")
    /\ Goto(r, "leave")
    /\ UNCHANGED <<storeVars, nodeVars, writer, history>>

SetNilDetail(r) ==
    /\ At(r, "setNil")
    /\ nilMarker' = TRUE
    /\ Goto(r, "leave")
    /\ UNCHANGED <<row, redis, nodeVars, writer, history, faults>>

\* SetDetail: Redis, then the local cache.
SetRedis(r) ==
    /\ At(r, "setRedis")
    /\ redis' = reader[r].found
    /\ late' = (late \/ (Stale(reader[r].found)
                         /\ ~\E w \in Writer : writer[w].pc = "delRedis"))
    /\ Goto(r, "setLocal")
    /\ UNCHANGED <<row, nilMarker, nodeVars, writer, silent, created, faults>>

\* SetNilDetail or SetDetail fails: the reader goes on with what it loaded.
SetError(r) ==
    /\ At(r, "setNil") \/ At(r, "setRedis")
    /\ Fault("redis")
    /\ Goto(r, "leave")
    /\ UNCHANGED <<storeVars, nodeVars, writer, history>>

SetDetailLocal(r) ==
    /\ At(r, "setLocal")
    /\ SetLocal(r)
    /\ Goto(r, "leave")
    /\ UNCHANGED <<storeVars, flight, inbox, connected, writer, silent, created, faults>>

\* Wrong variant: the readers that waited get nothing.
WrongGetOrLoadReturns(s, v) ==
    [s EXCEPT !.pc = IF v = None \/ s.pc = "wait" THEN "fallback" ELSE "answered",
              !.leading = FALSE, !.found = v]

\* GetOrLoadDetail returns: GetArticle has its article, or asks the database.
GetOrLoadReturns(s, v) ==
    [s EXCEPT !.pc = IF v = None THEN "fallback" ELSE "answered",
              !.leading = FALSE, !.found = v]

LeaveFlight(r) ==
    /\ At(r, "leave")
    /\ flight' = [flight EXCEPT ![Of(r)] = FALSE]
    /\ reader' = [q \in Reader |->
            IF q = r \/ (At(q, "wait") /\ Of(q) = Of(r))
            THEN GetOrLoadReturns(reader[q], reader[r].found) ELSE reader[q]]
    /\ UNCHANGED <<storeVars, local, inbox, connected, writer, history, faults>>

\* GetArticle's own query; None: not found.
Fallback(r) ==
    /\ At(r, "fallback")
    /\ Holding(r, "answered", Found)
    /\ UNCHANGED <<storeVars, nodeVars, writer, history, faults>>

\* The query fails and the request with it.
FallbackError(r) ==
    /\ At(r, "fallback")
    /\ Fault("db")
    /\ reader' = [reader EXCEPT ![r] = IdleReader]
    /\ UNCHANGED <<storeVars, nodeVars, writer, history>>

Answer(r) ==
    /\ At(r, "answered")
    /\ reader' = [reader EXCEPT ![r] = IdleReader]
    /\ UNCHANGED <<storeVars, nodeVars, writer, history, faults>>

----------------------------------------------------------------------------
(* Writers *)

\* CreateArticle: it invalidates nothing.
CreateArticle ==
    /\ row.version = None
    /\ row' = [version |-> 1, live |-> TRUE]
    /\ created' = TRUE
    /\ UNCHANGED <<redis, nilMarker, nodeVars, reader, writer, late, silent, faults>>

\* Another version, or the end of the article: those who read the row from now
\* on see it.
NewVersion ==
    /\ row.live /\ row.version < MaxVersion
    /\ row' = [row EXCEPT !.version = @ + 1]
    /\ UNCHANGED reader
Deletion ==
    /\ row.live
    /\ row' = [row EXCEPT !.live = FALSE]
    /\ reader' = [r \in Reader |-> IF At(r, "idle") THEN reader[r]
                                   ELSE [reader[r] EXCEPT !.absent = TRUE]]

\* UpdateArticle and DeleteArticle commit, and turn to the cache.
Commit(w) ==
    /\ writer[w].pc = "idle"
    /\ NewVersion \/ Deletion
    /\ \E n \in Node : writer' = [writer EXCEPT ![w] = [pc |-> "delRedis", node |-> n]]
    /\ UNCHANGED <<redis, nilMarker, nodeVars, history, faults>>

\* The review consumer publishes or rejects: no cache is told.
ReviewedVersion ==
    /\ NewVersion
    /\ silent' = TRUE
    /\ UNCHANGED <<redis, nilMarker, nodeVars, writer, late, created, faults>>

\* DelDetail: Redis ...
DelRedis(w) ==
    /\ writer[w].pc = "delRedis"
    /\ redis' = None
    /\ writer' = [writer EXCEPT ![w].pc = "delLocal"]
    /\ UNCHANGED <<row, nilMarker, nodeVars, reader, history, faults>>

DelRedisError(w) ==
    /\ writer[w].pc = "delRedis"
    /\ Fault("redis")
    /\ writer' = [writer EXCEPT ![w].pc = "delLocal"]
    /\ UNCHANGED <<storeVars, nodeVars, reader, history>>

\* ... the writer's own local cache ...
DelLocal(w) ==
    /\ writer[w].pc = "delLocal"
    /\ local' = [local EXCEPT ![writer[w].node] = None]
    /\ writer' = [writer EXCEPT ![w].pc = "publish"]
    /\ UNCHANGED <<storeVars, flight, inbox, connected, reader, history, faults>>

\* Wrong variant: the writer's process only.
WrongPublish(w) ==
    /\ writer[w].pc = "publish"
    /\ inbox' = [inbox EXCEPT ![writer[w].node] = @ + 1]
    /\ writer' = [writer EXCEPT ![w] = IdleWriter]
    /\ UNCHANGED <<storeVars, local, flight, connected, reader, history, faults>>

\* ... and the processes that are subscribed at this moment.
Publish(w) ==
    /\ writer[w].pc = "publish"
    /\ inbox' = [n \in Node |-> IF connected[n] THEN inbox[n] + 1 ELSE inbox[n]]
    /\ writer' = [writer EXCEPT ![w] = IdleWriter]
    /\ UNCHANGED <<storeVars, local, flight, connected, reader, history, faults>>

PublishError(w) ==
    /\ writer[w].pc = "publish"
    /\ Fault("redis")
    /\ writer' = [writer EXCEPT ![w] = IdleWriter]
    /\ UNCHANGED <<storeVars, nodeVars, reader, history>>

----------------------------------------------------------------------------
(* Subscribers, expiry and processes *)

\* startInvalidateSubscriber, for a message.
HandleInvalidation(n) ==
    /\ inbox[n] > 0
    /\ inbox' = [inbox EXCEPT ![n] = @ - 1]
    /\ local' = [local EXCEPT ![n] = None]
    /\ UNCHANGED <<storeVars, flight, connected, reader, writer, history, faults>>

\* The connection breaks: messages on their way are lost, and those published
\* until it is back.
Disconnect(n) ==
    /\ connected[n]
    /\ Fault("disconnect")
    /\ connected' = [connected EXCEPT ![n] = FALSE]
    /\ inbox' = [inbox EXCEPT ![n] = 0]
    /\ UNCHANGED <<storeVars, local, flight, reader, writer, history>>

Reconnect(n) ==
    /\ ~connected[n]
    /\ connected' = [connected EXCEPT ![n] = TRUE]
    /\ UNCHANGED <<storeVars, local, flight, inbox, reader, writer, history, faults>>

\* Times to live; a local cache may also evict an entry or drop a write.
RedisExpires ==
    /\ redis # None
    /\ redis' = None
    /\ UNCHANGED <<row, nilMarker, nodeVars, reader, writer, history, faults>>

NilMarkerExpires ==
    /\ nilMarker
    /\ nilMarker' = FALSE
    /\ UNCHANGED <<row, redis, nodeVars, reader, writer, history, faults>>

\* Wrong variant: stored for good, and dropped by invalidations only.
WrongLocalExpires(n) ==
    /\ local[n] # None /\ inbox[n] > 0
    /\ local' = [local EXCEPT ![n] = None]
    /\ UNCHANGED <<storeVars, flight, inbox, connected, reader, writer, history, faults>>

LocalExpires(n) ==
    /\ local[n] # None
    /\ local' = [local EXCEPT ![n] = None]
    /\ UNCHANGED <<storeVars, flight, inbox, connected, reader, writer, history, faults>>

\* A process dies with its requests and starts again.
Crash(n) ==
    /\ Fault("crash")
    /\ local' = [local EXCEPT ![n] = None]
    /\ flight' = [flight EXCEPT ![n] = FALSE]
    /\ inbox' = [inbox EXCEPT ![n] = 0]
    /\ connected' = [connected EXCEPT ![n] = TRUE]
    /\ reader' = [r \in Reader |-> IF Of(r) = n THEN IdleReader ELSE reader[r]]
    /\ writer' = [w \in Writer |-> IF writer[w].node = n THEN IdleWriter ELSE writer[w]]
    /\ UNCHANGED <<storeVars, history>>

ReadStep(r) ==
    \/ GetLocal(r) \/ IsNilDetail(r) \/ GetRedis(r) \/ CopyToLocal(r)
    \/ EnterFlight(r) \/ Load(r) \/ SetNilDetail(r) \/ SetRedis(r)
    \/ SetDetailLocal(r) \/ LeaveFlight(r) \/ Fallback(r) \/ Answer(r)
ReadFault(r) ==
    \/ IsNilDetailError(r) \/ GetRedisError(r) \/ LoadError(r) \/ SetError(r)
    \/ FallbackError(r)

WriteStep(w) == DelRedis(w) \/ DelLocal(w) \/ Publish(w)
WriteFault(w) == DelRedisError(w) \/ PublishError(w)

NodeStep(n) == HandleInvalidation(n) \/ Reconnect(n) \/ LocalExpires(n)

Next ==
    \/ \E r \in Reader : GetArticle(r) \/ ReadStep(r) \/ ReadFault(r)
    \/ CreateArticle \/ ReviewedVersion
    \/ \E w \in Writer : Commit(w) \/ WriteStep(w) \/ WriteFault(w)
    \/ \E n \in Node : NodeStep(n) \/ Disconnect(n) \/ Crash(n)
    \/ RedisExpires \/ NilMarkerExpires

Spec == Init /\ [][Next]_vars

\* Requests that have begun go on, subscribers handle what arrives, and what
\* has a time to live expires.  Nobody need come.
Fairness ==
    /\ \A r \in Reader : WF_vars(ReadStep(r))
    /\ \A w \in Writer : WF_vars(WriteStep(w))
    /\ \A n \in Node : WF_vars(HandleInvalidation(n)) /\ WF_vars(LocalExpires(n))
    /\ WF_vars(RedisExpires)
LiveSpec == Spec /\ Fairness

----------------------------------------------------------------------------
(* Properties *)

\* An update outlives its invalidation in a cache only in a copy that a slow
\* reader stored behind it: otherwise whatever is out of date is about to be
\* deleted.  (Unless a store failed, a message was lost, or nobody invalidated:
\* the review consumer does not.)
OnlyLateCopiesAreStale ==
    ~late /\ ~silent /\ faults = 0 =>
        /\ Stale(redis) => \E w \in Writer : writer[w].pc = "delRedis"
        /\ \A n \in Node : Stale(local[n]) => Invalidating(n)

\* "Not found" is said only of an article that was absent at some moment of the
\* request: neither a nil marker set before the article was created nor any
\* failure of Redis hides a live article.
NotFoundOnlyIfAbsent ==
    \A r \in Reader : At(r, "answered") /\ reader[r].found = None => reader[r].absent

\* README.md:99, concurrent requests merge into one query: a request for an
\* article that was there before falls through to a query of its own only when
\* the article goes, or something fails; who waits shares the answer.
FallThroughIsRare ==
    \A r \in Reader : At(r, "fallback") => reader[r].absent \/ created \/ faults > 0

\* Whatever was lost or late, once the article changes no more the caches hold
\* it as it is, or nothing, for ever.
EventuallyFresh == <>[](~Stale(redis) /\ \A n \in Node : ~Stale(local[n]))
=============================================================================
