SPECIFICATION Spec
CONSTANTS
    t1 = t1
    t2 = t2
    k1 = k1
    k2 = k2
    x = x
    y = y
    Keys = {k1, k2}
    Values = {x, y}
    Slots = {k1, k2}
    Payloads = {x, y}
    Threads = {t1, t2}
    Nothing = Nothing
    Unstaged = Unstaged
    NoCopy = NoCopy
    Absent = Absent
    Short = Short
    Error = Error
    NoCall = NoCall
SYMMETRY Interchangeable
INVARIANTS AnswersAreSequential
PROPERTIES MeetsKeyValueStore
