SPECIFICATION FairSpec
CONSTANTS
    VPS = {v1}
    Reqs = {}
    Modes = {active, eco}
    DefaultMode = active
    NoSess = NoSess
    SendCap = 3
    MaxSess = 1
    MaxFaults = 0
    MaxRestarts = 0
    MaxCalls = 1
PROPERTY ModeConverges
