SPECIFICATION Spec
CONSTANTS
    c1 = c1
    c2 = c2
    p1 = p1
    p2 = p2
    Cluster = {c1, c2}
    Profile = {p1, p2, p3}
    Ksu = {k1}
    Oka = {a1}
    Default <- DefaultOf
    MaxRequest = 2
    NoItem = NoItem
    Kinds = {"add", "delete"}
    MaxOpen = 1
    MaxBatch = 1
    FaultKinds = {"sendFail"}
    MaxFaults = 1
CHECK_DEADLOCK FALSE
INVARIANT RemovedIsDetached
