SPECIFICATION LoopsSpec
CONSTANTS
    Callers = {c1, c2, c3}
    Fresh = 1
    MaxTime = 3
    Tasks = {k1}
    Handlers = {h1}
    MaxFailures = 2
    MaxCalls = 2
    Pushers = {p1, p2}
    Loop = loop
    SnapFresh = 1
    InvFor = 2
    MaxChanges = 1
    MaxFaults = 1
INVARIANTS OneCollection ResultFresh CloseOnce LoopsSound
PROPERTIES NobodyStuck RefreshLands
CHECK_DEADLOCK FALSE
