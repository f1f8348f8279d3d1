SPECIFICATION MembersSpec
CONSTANTS
    a1 = a1
    a2 = a2
    Agents <- MCAgents
    Local <- MCLocal
    MaxId = 2
    MaxToken = 3
    MaxOps = 3
    MaxFaults = 2
    MaxKeys = 2
INVARIANTS MembersSound
PROPERTIES AgentsKept  ComesBack
CHECK_DEADLOCK FALSE
