SPECIFICATION FairSpec
CONSTANTS
    c1 = c1
    c2 = c2
    p1 = p1
    p2 = p2
    Cluster = {c1}
    Profile = {p1, p2}
    Ksu = {k1, k2}
    Oka = {a1}
    Default <- DefaultOfOne
    MaxRequest = 2
    NoItem = NoItem
    Kinds = {"create", "register", "deregister", "delete", "add", "remove", "update", "edit", "get_creds", "clone", "move"}
    MaxOpen = 2
    MaxBatch = 2
    FaultKinds = {"sendFail", "timeout", "crash"}
    MaxFaults = 1
CHECK_DEADLOCK FALSE
INVARIANTS TypeOK CompletedIsApplied ListsAreAccurate NothingLeftBehind BusyIsShown UsedOkaIsMarked EndedIsAnswered
PROPERTY WorkEnds
