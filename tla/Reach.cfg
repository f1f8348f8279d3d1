SPECIFICATION ReachFairSpec
CONSTANTS
    alpha = alpha
    beta = beta
    Servers = {alpha, beta}
    Order <- List
    Grace = 1
    Silent = 1
    Hold = 1
    StartHold = 1
    Recheck = 1
    ProbeEvery = 1
    Expect = 2
    LiveClear = 1
    MaxFaults = 2
PROPERTIES  SweepSettles
CHECK_DEADLOCK FALSE
