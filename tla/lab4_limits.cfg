SPECIFICATION FairSpec
CONSTANTS
    t1 = t1  t2 = t2  p1 = p1  p2 = p2  s1 = s1
    Threads = {t1, t2}
    Processes = {p1, p2}
    Servers = {s1}
    ProcOf <- TwoProcesses
    ServerOf <- OneServer
    NumPackets = 3
    WinSize = 2
    MaxRetries = 2
    MaxRuns = 1
    MaxLosses = 1
    MaxClients = 1
    MaxSeqNum = 3
    FopenResults = {TRUE, FALSE}
    MaxRestarts = 0
INVARIANTS TypeOK WindowSound AckedIsStored
PROPERTIES EndsOrStarves
CHECK_DEADLOCK FALSE
