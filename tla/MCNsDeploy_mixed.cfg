SPECIFICATION Spec
CONSTANTS
    Vcas = 2
    Kdu = {}
    Descriptors <- Mixed
    MaxOps = 2
    MaxTroubled = 2
    MaxFaults = 0
    MaxLeft = 0
    MaxCancel = 0
CHECK_DEADLOCK FALSE
INVARIANT TerminatedIsClean
