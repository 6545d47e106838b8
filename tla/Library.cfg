SPECIFICATION LibrarySpec
CONSTANTS
    w1 = w1
    w2 = w2
    w3 = w3
    Contents = {w1, w2, w3}
    Texts <- MCTexts
    MaxCount = 5
    MaxFaults = 2
    Limits = {0, 2, 3}
    MaxRetries = 2
    k1 = k1
    k2 = k2
    Keys = {k1, k2, k3}
    Values = {v1, v2}
    None = None
    Capacity = 2
    DefTTL = 0
    TTLs = {0, 1}
    MaxTime = 3
    Patterns <- MCPatterns
    h1 = h1
    h2 = h2
    NoHeading = NoHeading
    MaxRunes = 6
    Sources <- MCSources
    Params <- MCParams
    MaxChanges = 1
INVARIANT ReadsBack
INVARIANT ReconcileHonest
INVARIANT TextIsCovered
PROPERTY ChunksKept
PROPERTY ExhaustedIsFinal
PROPERTY ImplementsCache
CHECK_DEADLOCK FALSE
