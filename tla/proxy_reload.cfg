SPECIFICATION FairSpec
CONSTANTS
    r1 = r1  r2 = r2  l1 = l1
    Requests = {r1, r2}
    Hosts = {2, 3, 4}
    MaxFds = 3
    Loaders = {l1}
    MaxSites = 4
    MaxSignals = 1
    StartFile <- File1
    ReloadFile <- File2
INVARIANTS TypeOK ListIsFile CheckIsRight RefusedWasListed ContactsOnlyAdmitted ClientSettled ServerSettled
PROPERTIES AcceptedEnds
CHECK_DEADLOCK FALSE
