\* Articles: two readers that meet in one process, and a writer; one fault of any
\* kind.  Lists: two requests in two processes.  Pages: four articles, of three moments.
SPECIFICATION ReadSpec
CONSTANTS
    Node = {n1}
    Reader = {r1, r2}
    Writer = {w1}
    FaultKinds = {"redis", "db", "disconnect", "crash"}
    MaxVersion = 2
    MaxFaults = 1
    ListNode = {n1, n2}
    Lister = {r1, r2}
    ListTTL = 2
    MaxHeld = 1
    ArticleId = {1, 2, 3, 4}
    Moment = {1, 2, 3}
    Scan = {s1}
    ListPageSize = 2
INVARIANTS FallThroughIsRare ListIsRecent 
SYMMETRY Symmetry
