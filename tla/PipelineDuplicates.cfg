\* Messages written, and delivered, several times; crashes, rebalances and
\* failed updates; no author at work.
SPECIFICATION LiveSpec
CONSTANTS
    Article = {a1}
    Path = {p1, p2}
    Request = {}
    RequestedStatuses = {"UNSPECIFIED", "DRAFT", "PUBLISHED", "REVIEWING"}
    MaxEvent = 2
    Consumer = {c1, c2, c3}
    AuditVerdicts = {"clean", "ad"}
    SyncConsumer = {}
    LockMayLapse = FALSE
    FaultKinds = {"db", "crash", "rebalance"}
    MaxCopies = 3
    MaxFaults = 2
INVARIANT LockExclusive
PROPERTIES DuplicatesHarmless ReviewConcludes
CHECK_DEADLOCK FALSE
