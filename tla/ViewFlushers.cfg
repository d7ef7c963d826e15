\* Two article rpc processes, two articles in a batch; every fault, two of them.
SPECIFICATION LiveSpec
CONSTANTS
    Article = {a1, a2}
    Flusher = {f1, f2}
    BatchSize = 2
    FaultKinds = {"spop", "read", "db", "ack", "exit", "expire"}
    MaxViews = 2
    MaxFaults = 2
  
PROPERTY CountedUnlessOverlap
