SPECIFICATION FairSpec
CONSTANTS
    Op = {o1, o2}
    Worker = {w1}
    NoOp = NoOp
    NoWorker = NoWorker
    Kinds = {"instantiate", "heal", "action"}
    ForceFlags = {FALSE}
    MaxSendFail = 0
    MaxCancel = 1
    MayDelete = FALSE
    MaxCrash = 1
    MaxRedeliver = 0
    MaxPause = 0
CHECK_DEADLOCK FALSE
PROPERTIES SentOpEnds CancelAnswered
