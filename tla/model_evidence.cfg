SPECIFICATION Spec
CONSTANTS
    w1 = w1
    w2 = w2
    c1 = c1
    c2 = c2
    s1 = s1
    s2 = s2
    None = None
    Workers = {w1, w2}
    Inputs <- MCInputs
    Responses <- MCResponses
    InvalidationIds = {"i1"}
    LeaseTtl = 2
    TotalTimeout = 2
    Delays <- MCDelays
    HardLimit = 2
    MaxClusters = 2
    MaxSettings = 2
    MaxClaims = 1
SYMMETRY Symmetry
INVARIANTS
    AnswersItsBinding
    StoredStaysReadable
