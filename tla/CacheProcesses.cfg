\* Two processes; a reader and a writer; one fault of any kind.
SPECIFICATION LiveSpec
CONSTANTS
    Node = {n1, n2}
    Reader = {r1}
    Writer = {w1}
    FaultKinds = {"redis", "db", "disconnect", "crash"}
    MaxVersion = 2
    MaxFaults = 1
INVARIANTS OnlyLateCopiesAreStale NotFoundOnlyIfAbsent
PROPERTY EventuallyFresh
