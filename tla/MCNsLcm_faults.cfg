SPECIFICATION Spec
CONSTANTS
    Op = {o1, o2}
    Worker = {w1, w2}
    NoOp = NoOp
    NoWorker = NoWorker
    Kinds = {"instantiate", "terminate"}
    ForceFlags = {FALSE, TRUE}
    MaxSendFail = 0
    MaxCancel = 0
    MayDelete = FALSE
    MaxCrash = 1
    MaxRedeliver = 1
    MaxPause = 1
SYMMETRY Symmetry
CHECK_DEADLOCK FALSE
INVARIANTS TypeOK OneRunner StartsInOrder LcmInv
PROPERTY ImplementsOnce
