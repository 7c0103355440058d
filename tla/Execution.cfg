SPECIFICATION Spec
CONSTANTS
    Callers = {serve, cli}
    Service = serve
    MaxCalls = 3
    MaxFailures = 1
    Terminals = {t1, t2, t3}
    NoTerminal = NoTerminal
    Jobs = {j1}
    NoJob = NoJob
    Artifacts = {a1, a2}
    NoArtifact = NoArtifact
    Foreign = Foreign
    MaxOutputBytes = 2
    MaxSent = 2
SYMMETRY TerminalSymmetry
CHECK_DEADLOCK FALSE
INVARIANTS TypeOK TerminalsSurvive FailedOpenRunsNothing OpenedIsReleased StatusIsFinal ForgetIsFinal UnknownIsExplained ListingIsComplete CreatedOnce OutputIsFaithful OutcomeIsHonest
PROPERTIES ImplementsAtomicArtifacts
