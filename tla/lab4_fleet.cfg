SPECIFICATION FilesSpec
CONSTANTS
    t1 = t1  t2 = t2  t3 = t3  p1 = p1  p2 = p2  s1 = s1  s2 = s2
    Threads = {t1, t2, t3}
    Processes = {p1, p2}
    Servers = {s1, s2}
    ProcOf <- FleetProcOf
    ServerOf <- FleetServerOf
    PathOf <- FleetPathOf
    NumPackets = 1
    WinSize = 1
    MaxRetries = 1
    MaxRuns = 1
    MaxLosses = 1
    MaxClients = 2
    MaxSeqNum = 3
    FopenResults = {TRUE, FALSE}
    MaxRestarts = 0
INVARIANTS ExitZeroMeansOneReplica LastWriterWhole
CHECK_DEADLOCK FALSE
