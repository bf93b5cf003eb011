SPECIFICATION RadioFairSpec
CONSTANTS
    n1 = n1
    n2 = n2
    Keys = {n1, n2}
    Nodes = {n1, n2}
    NotHex = NotHex
    Empty = Empty
    Zeros = Zeros
    Fail = Fail
    MaxAnnounceBytes = 1
    MaxHops = 3
    MaxEntries = 1
    InboxCapacity = 1
    OutboxCapacity = 2
    Mtu = 2
    Latency = 1
    MaxTime = 1
    Beginners = {n1}
    Parties <- Destinations
    Originals <- Beginnings
    MaxOriginals = 1
    MaxFaults = 1
INVARIANTS HeardAsSaid InboxIsNewest
PROPERTIES SentIsHeard
CHECK_DEADLOCK FALSE
