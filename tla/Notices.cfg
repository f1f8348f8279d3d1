SPECIFICATION NoticesSpec
CONSTANTS
    NumItems = 2
    Watched <- MCWatched
    Window = 2
    MaxAlerts = 2
    MaxUser = 1
    MaxRestarts = 1
    alpha = alpha
    beta = beta
    gamma = gamma
    NoServer = NoServer
    DownAfter = 2
    Quiet = 1
    MaxFaults = 3
INVARIANTS AlertsSound
PROPERTIES AlertsSettle NoticesSound DownReported
CHECK_DEADLOCK FALSE
