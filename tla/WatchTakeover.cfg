SPECIFICATION FairSpec
CONSTANTS
    alpha = alpha
    beta = beta
    gamma = gamma
    NoServer = NoServer
    Servers = {alpha, beta, gamma}
    Watchers = {alpha, beta}
    PeerList <- Fleet
    DownAfter = 1
    Quiet = 0
    MaxFaults = 2
PROPERTY SecondaryTakesOver
CHECK_DEADLOCK FALSE
