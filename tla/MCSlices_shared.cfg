SPECIFICATION Spec
CONSTANTS
    Slice = {A, B}
    SharedNs = {s1, s2}
    NoSlice = NoSlice
    MaxRequest = 4
    Kinds = {"instantiate", "terminate"}
    FaultKinds = {"nsFails", "late", "silent"}
    MaxFaults = 1
    MaxEvents = 4
SYMMETRY Symmetry
CHECK_DEADLOCK FALSE
INVARIANTS TypeOK RunningHasItsNss ListedExist NothingRunsForNobody NoOrphan EverythingEnds
