\* Two processes, four calls, one death or I/O error.
SPECIFICATION Spec
CONSTANTS
    Calls = {c1, c2}
    Ops = {"chunk", "finish", "replace", "artifact", "abort", "delete"}
    Artifacts = {1, 2, 3}
    Wanted <- TwoBlocks
    Values = {1, 2}
    MaxCalls = 4
    MaxFailures = 1
SYMMETRY CallSymmetry
CHECK_DEADLOCK FALSE
INVARIANTS TypeOK CompletedStaysVerified OneArtifact AbortExcludesCompletion AckedIsPublished
