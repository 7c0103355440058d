SPECIFICATION TerminalsSpec
CONSTANTS
    Callers = {serve, cli}
    Service = serve
    MaxCalls = 3
    MaxFailures = 0
    Terminals = {t1, t2}
    NoTerminal = NoTerminal
CHECK_DEADLOCK FALSE
INVARIANT TerminalsStayReachable
