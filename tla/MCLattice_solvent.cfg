SPECIFICATION Spec
CONSTANTS
    a1 = a1
    a2 = a2
    l1 = l1
    l2 = l2
    Accounts = {a1, a2}
    Forkers = {a1}
    Ledgers = {l1, l2}
    MaxPerAccount = 1
    TotalSupply = 2
    MaxU64 = 9
    MaxBlocks = 3
    Ticks <- EvenTicks
    Grants <- EvenGrants
    Payments = {1}
    NoAccount = NoAccount
    NoHash = NoHash
    HashRank <- Shuffled
INVARIANTS HonestSolvent
