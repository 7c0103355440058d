\* Lost and delayed responses, service deaths, I/O errors and a job.forget.
SPECIFICATION Spec
CONSTANTS
    Jobs = {j1, j2, j3}
    NoJob = NoJob
    LateAcceptance = FALSE
    MaxCalls = 3
    MaxCrashes = 1
    MaxReboots = 0
    MaxFaults = 1
    MaxForgets = 1
    MaxSignals = 1
SYMMETRY JobSymmetry
CHECK_DEADLOCK FALSE
INVARIANTS TypeOK RunsAtMostOnce OneUnitPerKey AnswersAgree RecordIsTrue
 
