\* Failures of sessions reach the manager, and its cleanup ends when the calls do.
SPECIFICATION FairSpec
CONSTANTS
    Sessions = {s1, s2}
    Calls = {c1}
    NoSession = NoSession
    NoCall = NoCall
    MaxGenerations = 1
CHECK_DEADLOCK FALSE
PROPERTIES BrokenSessionEndsGeneration CleanupEnds
