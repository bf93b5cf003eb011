SPECIFICATION Spec
CONSTANTS
    m1 = m1
    m2 = m2
    a = a
    b = b
    relay = relay
    other = other
    Relay = relay
    Receipts <- SomeReceipts
    Proofs <- SomeProofs
    MaxHops = 1
    Targets = {a, b}
    Penalties <- AllPenalties
    Window = 1
    Baseline = 4
    MinI64 <- LowestScore
    MaxI64 = 7
    MaxU64 = 2
    MinSample = 1
    Threshold <- Half
    MaxTime = 3
    MaxFailures = 3
SYMMETRY Interchangeable
INVARIANTS NothingCountsTwice RollingIsExact
PROPERTIES TrustIsEarned FlaggedUntilServed
