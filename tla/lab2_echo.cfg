SPECIFICATION FairSpec
CONSTANTS
    c1 = c1  c2 = c2
    S1 = 5
    S2 = 4
    Threads = {c1, c2}
    Size <- Sizes
    Mtu = 6
    MaxLosses = 2
    MaxDisorder = 1
INVARIANTS TypeOK PrefixOnSuccess AlarmNeedsFault EofMeansWhole
PROPERTIES EchoEnds
CHECK_DEADLOCK FALSE
