--------------------------- MODULE ArticleListing ---------------------------
(***************************************************************************)
(* Readers that page through the articles while articles come and go       *)
(* (rpc/internal/model/article.go): List, by offset, with no order among   *)
(* articles of the same created_at, and ListByCursor, by the last row of   *)
(* the page before.  One step per page; caches are left out (ListCache).   *)
(***************************************************************************)
EXTENDS Integers, Sequences, FiniteSets, SequencesExt

CONSTANTS
    ArticleId,     \* ids, which are compared: numbers
    Moment,        \* values of created_at
    Scan,          \* readers
    ListPageSize

ASSUME ListingAssumption ==
    /\ ArticleId \subseteq Nat /\ Moment \subseteq Nat
    /\ ListPageSize \in Nat \ {0}

VARIABLES
    listed,  \* the rows of table article that the filter of the readers lets through
    made,    \* ids given out
    scan     \* what each reader has read

scanVars == <<listed, made, scan>>

ListedRow == [id : ArticleId, created : Moment]
NoCursor == [id |-> 0, created |-> 0]

\* next: the page to ask for; cursor: where the next page starts; got: the rows
\* read; since: the rows there from the start of the scan on; added, gone: have
\* rows come or gone since the start; tied: have two rows shared a created_at.
ScanState == [pc : {"idle", "offset", "cursor", "done"}, by : {"offset", "cursor"},
              next : Nat, cursor : ListedRow \cup {NoCursor}, got : Seq(ListedRow),
              since : SUBSET ListedRow, added : BOOLEAN, gone : BOOLEAN, tied : BOOLEAN]

ListingTypeOK ==
    /\ listed \subseteq ListedRow
    /\ made \subseteq ArticleId
    /\ scan \in [Scan -> ScanState]

ScanIdle == [pc |-> "idle", by |-> "offset", next |-> 1, cursor |-> NoCursor, got |-> <<>>,
             since |-> {}, added |-> FALSE, gone |-> FALSE, tied |-> FALSE]

ScanInit ==
    /\ listed = {}
    /\ made = {}
    /\ scan = [s \in Scan |-> ScanIdle]

----------------------------------------------------------------------------
UnderWay(s) == scan[s].pc \in {"offset", "cursor"}
Tied(rows) == \E x, y \in rows : x # y /\ x.created = y.created

\* created_at is the clock of the process that inserts, so any moment may come next.
ArticleAppears(a) ==
    /\ a \notin made
    /\ made' = made \cup {a}
    /\ \E c \in Moment :
        /\ listed' = listed \cup {[id |-> a, created |-> c]}
        /\ scan' = [s \in Scan |->
               IF UnderWay(s)
               THEN [scan[s] EXCEPT !.added = TRUE, !.tied = @ \/ Tied(listed')]
               ELSE scan[s]]

ArticleGoes(row) ==
    /\ listed' = listed \ {row}
    /\ scan' = [s \in Scan |->
           IF UnderWay(s) THEN [scan[s] EXCEPT !.gone = TRUE, !.since = @ \ {row}] ELSE scan[s]]
    /\ UNCHANGED made

----------------------------------------------------------------------------
StartScan(s, by) ==
    /\ scan[s].pc = "idle"
    /\ scan' = [scan EXCEPT ![s] = [ScanIdle EXCEPT !.pc = by, !.by = by, !.since = listed,
                                                    !.tied = Tied(listed)]]
    /\ UNCHANGED <<listed, made>>

\* The rows in an order PostgreSQL can put them in: created_at DESC.
ByCreatedAt(rows) ==
    {order \in SetToSeqs(rows) :
        \A i, j \in DOMAIN order : i < j => order[i].created >= order[j].created}

\* Wrong variant: pages are counted from zero.
WrongOffset(page) == page * ListPageSize

Offset(page) == (page - 1) * ListPageSize

\* What a page adds, and whether it was the last: shorter than a page.
Reads(s, rows, last) ==
    [scan[s] EXCEPT !.got = @ \o rows, !.next = @ + 1, !.pc = IF last THEN "done" ELSE @]

\* List: the page by offset and limit, of an order of the moment.
List(s) ==
    /\ scan[s].pc = "offset"
    /\ \E order \in ByCreatedAt(listed) :
        LET first == Offset(scan[s].next)
            rows == SubSeq(order, first + 1,
                           IF first + ListPageSize < Len(order)
                           THEN first + ListPageSize ELSE Len(order))
        IN scan' = [scan EXCEPT ![s] = Reads(s, rows, Len(rows) < ListPageSize)]
    /\ UNCHANGED <<listed, made>>

\* created_at DESC, id DESC
Before(x, y) == x.created > y.created \/ (x.created = y.created /\ x.id > y.id)

\* Wrong variant: the condition leaves the ties out.
WrongAfterCursor(cursor) ==
    {row \in listed : cursor = NoCursor \/ row.created < cursor.created}

\* created_at < ? OR (created_at = ? AND id < ?)
AfterCursor(cursor) == {row \in listed : cursor = NoCursor \/ Before(cursor, row)}

\* The one order the rows have then: no two share both.
ByCursor(rows) ==
    {order \in SetToSeqs(rows) :
        \A i, j \in DOMAIN order : i < j => Before(order[i], order[j])}

\* ListByCursor reads one row more than it answers: is there one, there is a next page.
ListByCursor(s) ==
    /\ scan[s].pc = "cursor"
    /\ \E rows \in ByCursor(AfterCursor(scan[s].cursor)) :
        LET more == Len(rows) > ListPageSize
            page == IF more THEN SubSeq(rows, 1, ListPageSize) ELSE rows
        IN scan' = [scan EXCEPT ![s] =
               [Reads(s, page, ~more) EXCEPT !.cursor = IF more THEN page[ListPageSize] ELSE @]]
    /\ UNCHANGED <<listed, made>>

ForgetScan(s) ==
    /\ scan[s].pc = "done"
    /\ scan' = [scan EXCEPT ![s] = ScanIdle]
    /\ UNCHANGED <<listed, made>>

ScanNext ==
    \/ \E a \in ArticleId : ArticleAppears(a)
    \/ \E row \in listed : ArticleGoes(row)
    \/ \E s \in Scan :
        \/ StartScan(s, "offset") \/ StartScan(s, "cursor")
        \/ List(s) \/ ListByCursor(s) \/ ForgetScan(s)

ScanSpec == ScanInit /\ [][ScanNext]_scanVars

----------------------------------------------------------------------------
MeetsAll(s) == \A row \in scan[s].since : \E i \in DOMAIN scan[s].got : scan[s].got[i] = row
NoneTwice(s) ==
    \A i, j \in DOMAIN scan[s].got : scan[s].got[i] = scan[s].got[j] => i = j

\* A finished scan has met every article that was there from its start to its end.
\* By cursor that is always so, each is met once and in order (article.go:292-299).
\* By offset it takes that no article went, and that no two share their created_at,
\* whose order each query is free to choose; meeting none twice, that none came
\* (article.go:218-246).
ScanMeetsAll ==
    \A s \in Scan : scan[s].pc = "done" =>
        IF scan[s].by = "cursor"
        THEN /\ MeetsAll(s)
             /\ \A i, j \in DOMAIN scan[s].got : i < j => Before(scan[s].got[i], scan[s].got[j])
        ELSE ~scan[s].tied =>
             /\ ~scan[s].gone => MeetsAll(s)
             /\ ~scan[s].added => NoneTwice(s)
=============================================================================
