SPECIFICATION FairSpec
CONSTANTS
    N = 3
    Starts <- MCStarts
    QueueCap = 1
    MaxMsgs = 2
    MaxEdits = 1
    MaxOps = 2
    MaxFaults = 2
INVARIANTS DeliverySound
PROPERTIES  Converges
