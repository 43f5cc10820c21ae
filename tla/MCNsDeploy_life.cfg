SPECIFICATION FairSpec
CONSTANTS
    Vcas = 3
    Kdu = {k1}
    Descriptors <- Uniform
    MaxOps = 3
    MaxTroubled = 2
    MaxFaults = 1
    MaxLeft = 1
    MaxCancel = 1
CHECK_DEADLOCK FALSE
INVARIANTS TypeOK CompletedIsRunning TerminatedIsClean FailureIsLocated FailureHasCause NsPrimitivesLast
PROPERTIES NeededRuns OperationEnds
