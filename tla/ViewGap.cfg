\* A view between read and ack; nothing fails.
SPECIFICATION Spec
CONSTANTS
    Article = {a1}
    Flusher = {f1}
    BatchSize = 2
    FaultKinds = {}
    MaxViews = 2
    MaxFaults = 1
INVARIANT NoStrandedDelta
