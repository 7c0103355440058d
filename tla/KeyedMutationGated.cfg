\* Calls behind the call gate, with pruning, crashes and I/O errors.
SPECIFICATION Spec
CONSTANTS
    Calls = {c1}
    Keys = {k1, k2, k3}
    Requests = {r1, r2}
    ForgetReqs = {r2}
    Results = {v1, v2}
    NoRequest = NoRequest
    NoResult = NoResult
    Free = Free
    Cli = Cli
    Gated = TRUE
    MaxRecords = 1
    Retention = 0
    MaxCalls = 3
    MaxCrashes = 1
    MaxFaults = 1
    MaxClock = 1
SYMMETRY KeySymmetry
CHECK_DEADLOCK FALSE
INVARIANTS TypeOK AtMostOnce EffectIsRecorded AnswersAgree UncertainIsFinal
PROPERTIES ImplementsIdempotentKeys PruneRestoresBound
