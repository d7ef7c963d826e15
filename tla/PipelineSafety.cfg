\* One author, one consumer, any single fault.
\* The pipeline stops once its only article is settled: no deadlock check.
SPECIFICATION Spec
CONSTANTS
    Article = {a1}
    Path = {p1, p2}
    Request = {q1}
    RequestedStatuses = {"UNSPECIFIED", "DRAFT", "PUBLISHED", "REVIEWING"}
    MaxEvent = 2
    Consumer = {c1}
    AuditVerdicts = {"clean", "ad", "error"}
    SyncConsumer = {}
    LockMayLapse = FALSE
    FaultKinds = {"redis", "minio", "db", "crash", "rebalance", "request"}
    MaxCopies = 1
    MaxFaults = 1
SYMMETRY Symmetry
INVARIANTS TypeOK PublishedWasAudited DeletionAnnounced 
CHECK_DEADLOCK FALSE
