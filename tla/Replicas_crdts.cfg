SPECIFICATION FairSpec
CONSTANTS
    Replicas = {1, 2}
    Elements = {e1}
    Amounts = {2}
    MaxU64 = 3
    Cap = 1
    Expiry = 1
    MaxUpdates = 3
    MaxTime = 1
INVARIANTS CausalityIsExact CounterIsExact AddsSurvive
PROPERTIES ReplicasConverge
