\* An author withdraws an article while it is under review.
SPECIFICATION Spec
CONSTANTS
    Article = {a1}
    Path = {p1, p2}
    Request = {q1}
    RequestedStatuses = {"UNSPECIFIED", "DRAFT", "PUBLISHED", "REVIEWING"}
    MaxEvent = 2
    Consumer = {c1}
    AuditVerdicts = {"clean"}
    SyncConsumer = {}
    LockMayLapse = FALSE
    FaultKinds = {"redis", "minio", "db", "crash", "rebalance", "request"}
    MaxCopies = 1
    MaxFaults = 0
PROPERTY OnlyReviewingIsPublished
CHECK_DEADLOCK FALSE
