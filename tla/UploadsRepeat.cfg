\* One client repeats a completion that succeeded, and nothing fails.
SPECIFICATION Spec
CONSTANTS
    Calls = {c1}
    Ops = {"chunk", "finish"}
    Artifacts = {1}
    Wanted <- TwoBlocks
    Values = {1, 2}
    MaxCalls = 4
    MaxFailures = 0
CHECK_DEADLOCK FALSE
PROPERTIES RepeatedFinishIsSafe
