SPECIFICATION FairSpec
CONSTANTS
    a = a
    b = b
    nobody = nobody
    Parties = {a, b}
    Malformed = {nobody}
    Escrows <- SomeEscrows
    Locks <- SomeLocks
    Schedules <- SomeSchedules
    MaxTime = 3
    MaxU64 = 7
INVARIANTS SettledByConsent ClaimsAddUp
PROPERTIES NothingStaysLocked
