SPECIFICATION FairSpec
CONSTANTS
    t1 = t1  t2 = t2  p1 = p1  p2 = p2  s1 = s1
    Threads = {t1}
    Processes = {p1}
    Servers = {s1}
    ProcOf <- OneProcess
    ServerOf <- OneServer
    NumPackets = 4
    WinSize = 3
    MaxRetries = 2
    MaxRuns = 1
    MaxLosses = 3
    MaxClients = 1
    MaxSeqNum = 6
    FopenResults = {TRUE}
    MaxRestarts = 0
INVARIANTS InOrder Delivered ServerResponsive
PROPERTIES NeverTruncated ImplementsPromise EndsOrStarves FileClosed
CHECK_DEADLOCK FALSE
