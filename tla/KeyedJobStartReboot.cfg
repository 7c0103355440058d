\* The host restarts after a launch and before its completion is recorded.
SPECIFICATION Spec
CONSTANTS
    Jobs = {j1, j2}
    NoJob = NoJob
    LateAcceptance = FALSE
    MaxCalls = 2
    MaxCrashes = 0
    MaxReboots = 1
    MaxFaults = 0
    MaxForgets = 0
    MaxSignals = 0
CHECK_DEADLOCK FALSE
INVARIANTS RunsAtMostOnce
