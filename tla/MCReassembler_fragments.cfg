SPECIFICATION FairSpec
CONSTANTS
    h = h
    g = g
    m1 = m1
    m2 = m2
    m3 = m3
    x = x
    y = y
    Peers = {h, g}
    Ids = {m1, m2, m3}
    Payloads = {x, y}
    Fragments <- PlainAndContrary
    MaxInflight = 2
    MaxU64 = 1
    Vacant = Vacant
    NoMessage = NoMessage
INVARIANTS WholeMessages
PROPERTIES MeetsReassembly EveryMessageArrives
