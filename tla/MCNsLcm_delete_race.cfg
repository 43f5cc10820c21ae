SPECIFICATION Spec
CONSTANTS
    Op = {o1, o2}
    Worker = {w1, w2}
    NoOp = NoOp
    NoWorker = NoWorker
    Kinds = {"instantiate"}
    ForceFlags = {FALSE}
    MaxSendFail = 0
    MaxCancel = 0
    MayDelete = TRUE
    MaxCrash = 0
    MaxRedeliver = 0
    MaxPause = 0
SYMMETRY Symmetry
CHECK_DEADLOCK FALSE
INVARIANT RemovedIsClean
