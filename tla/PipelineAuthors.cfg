\* Two handlers with copies of the same row, a consumer, and the results of
\* deletions; no faults.
SPECIFICATION Spec
CONSTANTS
    Article = {a1}
    Path = {p1, p2}
    Request = {q1, q2}
    RequestedStatuses = {"DRAFT"}
    MaxEvent = 3
    Consumer = {c1}
    AuditVerdicts = {"clean"}
    SyncConsumer = {s1}
    LockMayLapse = FALSE
    FaultKinds = {"redis", "minio", "db", "crash", "rebalance", "request"}
    MaxCopies = 1
    MaxFaults = 0
SYMMETRY Symmetry
PROPERTY DeletedIsFinal
CHECK_DEADLOCK FALSE
