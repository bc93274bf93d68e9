SPECIFICATION FairSpec
CONSTANTS
    t1 = t1  t2 = t2  t3 = t3
    N1 = 3
    N2 = 1
    Threads = {t1, t2, t3}
    NumPackets <- Sizes
    LastIsShort <- Short
    WinSize = 2
    MaxRetries = 2
    MaxLosses = 1
    MaxClients = 2
    FopenResults = {TRUE, FALSE}
INVARIANTS TypeOK InOrder DoneMeansWhole
PROPERTIES EndsWithoutLoss ImplementsPromise
CHECK_DEADLOCK FALSE
