SPECIFICATION FairSpec
CONSTANTS
    n1 = n1
    n2 = n2
    v1 = v1
    v2 = v2
    v3 = v3
    stranger = stranger
    Strangers = {stranger}
    Voters = {v1, v2, v3}
    Confirmations = {}
    Stray <- Forgeries
    Nodes = {n1, n2}
    Signed <- DoubleSpend
    LowValue <- DoubleSpend
    Validators = {v1, v2, v3}
    Faulty = {v3}
    Stake <- ThirdStake
    BlocksCapacity = 2
    RegistryCapacity = 2
    MaxU64 = 20000
INVARIANTS L2Agreement L2HasQuorum
PROPERTIES MeshSynchronises
