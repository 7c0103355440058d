\* Two sessions and two calls over three generations.
SPECIFICATION Spec
CONSTANTS
    Sessions = {s1, s2}
    Calls = {c1, c2}
    NoSession = NoSession
    NoCall = NoCall
    MaxGenerations = 3
CHECK_DEADLOCK FALSE
INVARIANTS TypeOK OneDispatch OldGenerationsAreQuiet NoFalseAlarm
