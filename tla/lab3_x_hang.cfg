SPECIFICATION FairSpec
CONSTANTS
    t1 = t1  t2 = t2  t3 = t3
    N1 = 2
    N2 = 2
    Threads = {t1}
    NumPackets <- Sizes
    LastIsShort <- Short
    WinSize = 2
    MaxRetries = 2
    MaxLosses = 1
    MaxClients = 1
    FopenResults = {TRUE}
PROPERTIES Terminates
CHECK_DEADLOCK FALSE
