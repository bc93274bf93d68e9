SPECIFICATION SpecReuse
CONSTANTS
    t1 = t1  t2 = t2  p1 = p1  p2 = p2  s1 = s1
    Threads = {t1}
    Processes = {p1}
    Servers = {s1}
    ProcOf <- OneProcess
    ServerOf <- OneServer
    NumPackets = 2
    WinSize = 2
    MaxRetries = 2
    MaxRuns = 2
    MaxLosses = 0
    MaxClients = 1
    MaxSeqNum = 5
    FopenResults = {TRUE}
    MaxRestarts = 0
INVARIANTS InOrder
CHECK_DEADLOCK FALSE
