SPECIFICATION FairSpec
CONSTANTS
    a1 = a1
    a2 = a2
    l1 = l1
    l2 = l2
    Accounts = {a1, a2}
    Forkers = {a1}
    Ledgers = {l1, l2}
    MaxPerAccount = 2
    TotalSupply = 2
    MaxU64 = 9
    MaxBlocks = 4
    Ticks <- UnevenTicks
    Grants <- UnevenGrants
    Payments = {1}
    NoAccount = NoAccount
    NoHash = NoHash
    HashRank <- Shuffled
INVARIANTS LedgerIntegrity HonestPrefix SingleCredit Conservation Convergence UnopenedStaysOut MergedBalances MergedConservation
PROPERTIES LedgersAreTokenLedgers LedgersCatchUp
