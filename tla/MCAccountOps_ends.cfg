SPECIFICATION FairSpec
CONSTANTS
    Kinds = {"vim"}
    Create = c1
    Edit = {}
    Delete = {d1, f1}
    Forced = {f1}
    Worker = {w1, w2}
    NoWorker = NoWorker
    RoId = {i1}
    NoRo = NoRo
    MaxSendFail = 0
    MaxCrash = 1
    MaxRedeliver = 1
CHECK_DEADLOCK FALSE
INVARIANT OneAtATime
PROPERTY AccountOpEnds
