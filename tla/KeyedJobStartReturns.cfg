\* Every call returns, also when the host restarts and when systemd is late.
SPECIFICATION FairSpec
CONSTANTS
    Jobs = {j1, j2}
    NoJob = NoJob
    LateAcceptance = TRUE
    MaxCalls = 2
    MaxCrashes = 0
    MaxReboots = 1
    MaxFaults = 0
    MaxForgets = 1
    MaxSignals = 0
CHECK_DEADLOCK FALSE
PROPERTIES  EveryCallReturns
