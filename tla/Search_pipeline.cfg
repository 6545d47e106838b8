\* Three chunks of two documents, hits for two of them, batches of two and of one.
SPECIFICATION SearchSpec
CONSTANTS
    c1 = c1
    c2 = c2
    c3 = c3
    d1 = d1
    d2 = d2
    s1 = s1
    s2 = s2
    None = None
    Chunks = {c1, c2, c3}
    Doc <- MCDoc
    Section <- MCSection
    Requests <- MCRequests
    Corpora <- MCCorpora
    Scores = {0, 1, 8}
    Cosines = {0, 1}
    RerankScores = {0, 1}
    Limit = 2
    Beam = 2
    CandLimit = 3
    BatchSize = 2
    TopSections = 1
    Denominator = 2382660
    MaxFaults = 1
INVARIANT HitsAdmitted
INVARIANT MatchingIsFound
INVARIANT BestFirst
INVARIANT OwnScores
\* A search ends with its answer.
CHECK_DEADLOCK FALSE
