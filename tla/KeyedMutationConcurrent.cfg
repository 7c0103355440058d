\* Concurrent callers of one Dispatcher; nothing is old enough to be pruned.
SPECIFICATION FairSpec
CONSTANTS
    Calls = {c1, c2}
    Keys = {k1, k2}
    Requests = {r1, r2}
    ForgetReqs = {r2}
    Results = {v1}
    NoRequest = NoRequest
    NoResult = NoResult
    Free = Free
    Cli = Cli
    Gated = FALSE
    MaxRecords = 2
    Retention = 1
    MaxCalls = 3
    MaxCrashes = 1
    MaxFaults = 1
    MaxClock = 0
CHECK_DEADLOCK FALSE
PROPERTIES ImplementsIdempotentKeys EveryCallReturns
