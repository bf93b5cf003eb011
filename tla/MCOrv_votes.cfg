SPECIFICATION OrvSpec
CONSTANTS
    n1 = n1
    n2 = n2
    r1 = r1
    r2 = r2
    Nodes = {n1, n2}
    Blocks <- Rivals
    FirstKnown <- OwnBranch
    Representatives = {r1, r2}
    StakesOf <- Delegated
    Forged <- ForgedVote
    MaxNonce <- HowOften
    TotalSupply = 2000
    MinStakeDenom = 1000
    MaxU64 = 50
INVARIANTS OrderIrrelevant
PROPERTIES TurnedByVotesOnly ResolutionsAgree
CHECK_DEADLOCK FALSE
