SPECIFICATION Spec
CONSTANTS
    Op = {o1, o2}
    Worker = {w1, w2}
    NoOp = NoOp
    NoWorker = NoWorker
    Kinds = {"instantiate", "terminate", "action", "update", "heal", "scale", "migrate"}
    ForceFlags = {FALSE}
    MaxSendFail = 1
    MaxCancel = 0
    MayDelete = TRUE
    MaxCrash = 0
    MaxRedeliver = 0
    MaxPause = 0
SYMMETRY Symmetry
CHECK_DEADLOCK FALSE
INVARIANTS BusyHasOwner RunningIsShown DeletableIsClean NoOrphan NsStatesAgree
