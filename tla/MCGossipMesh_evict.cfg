SPECIFICATION Spec
CONSTANTS
    n1 = n1
    n2 = n2
    v1 = v1
    v2 = v2
    v3 = v3
    stranger = stranger
    Strangers = {stranger}
    Voters = {}
    Confirmations <- OneConfirmation
    Stray = {}
    Nodes = {n1}
    Signed <- ForkAmongThree
    LowValue <- DoubleSpend
    Validators = {v1}
    Faulty = {}
    Stake <- NoStake
    BlocksCapacity = 1
    RegistryCapacity = 2
    MaxU64 = 1
INVARIANTS OrderTracksRegistry OneBlockPerNonce NoConflictLost
