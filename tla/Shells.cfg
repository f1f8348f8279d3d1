SPECIFICATION ShellsSpec
CONSTANTS
    Terms = {t1, t2}
    MaxSessions = 1
    OutBuffer = 1
    WireCap = 1
    MaxPrints = 2
    Names = {u1, u2}
    MaxCreates = 2
    MaxFails = 1
    MaxDies = 1
PROPERTIES TerminalsEnd  LoginsEnd
CHECK_DEADLOCK FALSE
