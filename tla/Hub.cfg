SPECIFICATION MCSpec
CONSTANTS
    VPS = {v1}
    Reqs = {r1, r2}
    Modes = {active, eco}
    DefaultMode = active
    NoSess = NoSess
    SendCap = 3
    MaxSess = 2
    MaxFaults = 2
    MaxRestarts = 1
    MaxCalls = 2
    MaxEvents = 2
INVARIANTS TypeOK RoutingSound
PROPERTIES RequestsSound Reconnects NothingHangs
