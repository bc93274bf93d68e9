SPECIFICATION FaultSpec
CONSTANTS
    t1 = t1  t2 = t2  p1 = p1  p2 = p2  s1 = s1
    Threads = {t1}
    Processes = {p1}
    Servers = {s1}
    ProcOf <- OneProcess
    ServerOf <- OneServer
    NumPackets = 3
    WinSize = 2
    MaxRetries = 1
    MaxRuns = 1
    MaxLosses = 1
    MaxClients = 1
    MaxSeqNum = 5
    FopenResults = {TRUE, FALSE}
    MaxRestarts = 1
INVARIANTS InOrder AckedIsKept DeliveredUndisturbed
CHECK_DEADLOCK FALSE
