----------------------------- MODULE ListCache -----------------------------
(***************************************************************************)
(* One list of articles in the caches of the article service               *)
(* (rpc/internal/cache/article_cache.go, logic/list_articles_logic.go): a  *)
(* local cache in every process and Redis behind them.  Nothing deletes a  *)
(* list when articles change (DelList has no caller): it goes when its     *)
(* time to live is over.  One step per call to a cache or the database.    *)
(*                                                                         *)
(* A copy of the list is its age, counted from the query it came from.     *)
(***************************************************************************)
EXTENDS Integers

CONSTANTS
    ListNode,  \* the article rpc processes
    Lister,    \* requests of the list served at the same time
    ListTTL,   \* defaultListTTL, in clock units
    MaxHeld    \* bound: units a copy spends in the hands of requests

ASSUME ListAssumption ==
    /\ ListNode # {}
    /\ ListTTL \in Nat \ {0}
    /\ MaxHeld \in Nat

VARIABLES
    redisList,   \* Redis: the list's key
    localList,   \* per process: its copy
    listFlight,  \* per process: is a singleflight call for the list running
    lister       \* what each request is doing

listVars == <<redisList, localList, listFlight, lister>>

\* left: units until the copy expires, where it is cached; held: units it has
\* been in the hands of requests, between a read and the write that follows.
Copy == [age : Nat, left : 0 .. ListTTL, held : Nat]
NoCopy == [age |-> 0, left |-> 0, held |-> 0]
Cached(copy) == copy.left > 0

ListerPc == {"idle", "local", "redis", "keep", "enter", "wait", "load", "setRedis",
             "setLocal", "leave", "answer"}
InHand == {"keep", "setRedis", "setLocal", "leave", "answer"}

ListTypeOK ==
    /\ redisList \in Copy
    /\ localList \in [ListNode -> Copy]
    /\ listFlight \in [ListNode -> BOOLEAN]
    /\ lister \in [Lister -> [pc : ListerPc, node : ListNode, leading : BOOLEAN, copy : Copy]]

ListerIdle == [pc |-> "idle", node |-> CHOOSE n \in ListNode : TRUE, leading |-> FALSE,
               copy |-> NoCopy]

ListInit ==
    /\ redisList = NoCopy
    /\ localList = [n \in ListNode |-> NoCopy]
    /\ listFlight = [n \in ListNode |-> FALSE]
    /\ lister = [r \in Lister |-> ListerIdle]

----------------------------------------------------------------------------
Listing(r, pc) == lister[r].pc = pc
ListNodeOf(r) == lister[r].node
ListGoto(r, pc) == lister' = [lister EXCEPT ![r].pc = pc]
Take(r, pc, copy) == lister' = [lister EXCEPT ![r].pc = pc, ![r].copy = copy]

\* GetList has an answer, or none.
Hit(r) == IF lister[r].leading THEN "leave" ELSE "answer"
Miss(r) == IF lister[r].leading THEN "load" ELSE "enter"

ListArticles(r) ==
    /\ Listing(r, "idle")
    /\ \E n \in ListNode :
        lister' = [lister EXCEPT ![r] = [ListerIdle EXCEPT !.pc = "local", !.node = n]]
    /\ UNCHANGED <<redisList, localList, listFlight>>

\* Wrong variant: a hit renews the copy.
WrongGetLocalList(r) ==
    LET copy == localList[ListNodeOf(r)] IN
    /\ Listing(r, "local")
    /\ IF Cached(copy)
       THEN /\ Take(r, Hit(r), copy)
            /\ localList' = [localList EXCEPT ![ListNodeOf(r)].left = ListTTL]
       ELSE ListGoto(r, "redis") /\ UNCHANGED localList
    /\ UNCHANGED <<redisList, listFlight>>

\* GetList: the local cache ...
GetLocalList(r) ==
    LET copy == localList[ListNodeOf(r)] IN
    /\ Listing(r, "local")
    /\ IF Cached(copy) THEN Take(r, Hit(r), copy) ELSE ListGoto(r, "redis")
    /\ UNCHANGED <<redisList, localList, listFlight>>

\* ... and Redis, where an error counts as a miss.  The nil marker in front of it is
\* never set: the loader of a list always answers one.
GetRedisList(r) ==
    /\ Listing(r, "redis")
    /\ \/ Cached(redisList) /\ Take(r, "keep", redisList)
       \/ ListGoto(r, Miss(r))
    /\ UNCHANGED <<redisList, localList, listFlight>>

\* The copy from Redis goes into the local cache, for the whole time to live.
KeepList(r) ==
    /\ Listing(r, "keep")
    /\ localList' = [localList EXCEPT ![ListNodeOf(r)] = [lister[r].copy EXCEPT !.left = ListTTL]]
    /\ ListGoto(r, Hit(r))
    /\ UNCHANGED <<redisList, listFlight>>

\* singleflight: the first one leads, and asks the caches again.
EnterListFlight(r) ==
    /\ Listing(r, "enter")
    /\ IF listFlight[ListNodeOf(r)]
       THEN ListGoto(r, "wait") /\ UNCHANGED listFlight
       ELSE /\ lister' = [lister EXCEPT ![r].pc = "local", ![r].leading = TRUE]
            /\ listFlight' = [listFlight EXCEPT ![ListNodeOf(r)] = TRUE]
    /\ UNCHANGED <<redisList, localList>>

\* loadListFromDb.
LoadList(r) ==
    /\ Listing(r, "load")
    /\ Take(r, "setRedis", NoCopy)
    /\ UNCHANGED <<redisList, localList, listFlight>>

\* SetList: with a time to live of zero jitter adds nothing to the default.
SetRedisList(r) ==
    /\ Listing(r, "setRedis")
    /\ redisList' = [lister[r].copy EXCEPT !.left = ListTTL]
    /\ ListGoto(r, "setLocal")
    /\ UNCHANGED <<localList, listFlight>>

\* Redis fails, having set the key or not: the local cache is left alone.
SetRedisListError(r) ==
    /\ Listing(r, "setRedis")
    /\ redisList' \in {redisList, [lister[r].copy EXCEPT !.left = ListTTL]}
    /\ ListGoto(r, "leave")
    /\ UNCHANGED <<localList, listFlight>>

SetLocalList(r) ==
    /\ Listing(r, "setLocal")
    /\ localList' = [localList EXCEPT ![ListNodeOf(r)] = [lister[r].copy EXCEPT !.left = ListTTL]]
    /\ ListGoto(r, "leave")
    /\ UNCHANGED <<redisList, listFlight>>

\* The call ends, for the one that leads and for those that wait.
Sharing(r) == {q \in Lister : ListNodeOf(q) = ListNodeOf(r) /\ (q = r \/ Listing(q, "wait"))}

LeaveListFlight(r) ==
    /\ Listing(r, "leave")
    /\ lister' = [q \in Lister |->
           IF q \in Sharing(r) THEN [lister[q] EXCEPT !.pc = "answer", !.copy = lister[r].copy]
           ELSE lister[q]]
    /\ listFlight' = [listFlight EXCEPT ![ListNodeOf(r)] = FALSE]
    /\ UNCHANGED <<redisList, localList>>

\* The query fails, for all of them: each asks the database itself.
LoadListError(r) ==
    /\ Listing(r, "load")
    /\ lister' = [q \in Lister |->
           IF q \in Sharing(r) THEN [lister[q] EXCEPT !.pc = "answer", !.copy = NoCopy]
           ELSE lister[q]]
    /\ listFlight' = [listFlight EXCEPT ![ListNodeOf(r)] = FALSE]
    /\ UNCHANGED <<redisList, localList>>

AnswerList(r) ==
    /\ Listing(r, "answer")
    /\ lister' = [lister EXCEPT ![r] = ListerIdle]
    /\ UNCHANGED <<redisList, localList, listFlight>>

----------------------------------------------------------------------------
\* A process dies, or drops its copy: ristretto may.
LocalListGoes(n) ==
    /\ Cached(localList[n])
    /\ localList' = [localList EXCEPT ![n] = NoCopy]
    /\ UNCHANGED <<redisList, listFlight, lister>>

ListNodeCrashes(n) ==
    /\ \E r \in Lister : ~Listing(r, "idle") /\ ListNodeOf(r) = n
    /\ localList' = [localList EXCEPT ![n] = NoCopy]
    /\ listFlight' = [listFlight EXCEPT ![n] = FALSE]
    /\ lister' = [r \in Lister |-> IF ListNodeOf(r) = n THEN ListerIdle ELSE lister[r]]
    /\ UNCHANGED redisList

Older(copy) ==
    IF copy.left <= 1 THEN NoCopy
    ELSE [copy EXCEPT !.age = @ + 1, !.left = @ - 1]

\* A unit of time: cached copies age and expire, those in hand age.
ListTimePasses ==
    /\ \A r \in Lister : lister[r].pc \in InHand => lister[r].copy.held < MaxHeld
    /\ redisList' = Older(redisList)
    /\ localList' = [n \in ListNode |-> Older(localList[n])]
    /\ lister' = [r \in Lister |->
           IF lister[r].pc \in InHand
           THEN [lister[r] EXCEPT !.copy.age = @ + 1, !.copy.held = @ + 1]
           ELSE lister[r]]
    /\ UNCHANGED listFlight

ListNext ==
    \/ \E r \in Lister :
        \/ ListArticles(r) \/ GetLocalList(r) \/ GetRedisList(r) \/ KeepList(r)
        \/ EnterListFlight(r) \/ LoadList(r) \/ LoadListError(r)
        \/ SetRedisList(r) \/ SetRedisListError(r) \/ SetLocalList(r)
        \/ LeaveListFlight(r) \/ AnswerList(r)
    \/ \E n \in ListNode : LocalListGoes(n) \/ ListNodeCrashes(n)
    \/ ListTimePasses

ListSpec == ListInit /\ [][ListNext]_listVars

----------------------------------------------------------------------------
\* What a list request answers was true less than two times to live ago, and not
\* one: a copy that is about to expire in Redis lives once more in a local cache
\* (article_cache.go:151).  The time requests take comes on top.
ListIsRecent ==
    \A r \in Lister : Listing(r, "answer") =>
        lister[r].copy.age < 2 * ListTTL + lister[r].copy.held
=============================================================================
