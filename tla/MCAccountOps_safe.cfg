SPECIFICATION Spec
CONSTANTS
    Kinds = {"vim", "wim", "sdn"}
    Create = c1
    Edit = {e1}
    Delete = {d1}
    Forced = {}
    Worker = {w1, w2}
    NoWorker = NoWorker
    RoId = {i1, i2}
    NoRo = NoRo
    MaxSendFail = 1
    MaxCrash = 0
    MaxRedeliver = 0
SYMMETRY Symmetry
CHECK_DEADLOCK FALSE
INVARIANTS TypeOK NoRoOrphan CompletedIsApplied FailureIsShown
