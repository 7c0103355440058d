\* A call that is slow to return holds up the cleanup beyond its deadline.
SPECIFICATION SpecSlowCalls
CONSTANTS
    Sessions = {s1}
    Calls = {c1}
    NoSession = NoSession
    NoCall = NoCall
    MaxGenerations = 1
CHECK_DEADLOCK FALSE
PROPERTIES CleanupEnds
