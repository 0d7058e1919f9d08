SPECIFICATION MemorySpec
CONSTANTS
    MemoryWorkers = {w1, w2}
    ClaimTokens = {c1, c2, c3}
    MaxMemoryAttempts = 2
    MaxClaims = 2
    MaxLength = 3
    MaxRequests = 2
    MaxSourceRevision = 0
    Threshold = 2
    Batch = 2
    Recent = 1
    MemoryBudget = 1
    Weight <- Uneven
    NoMemoryClaim = NoMemoryClaim
\* Requests and claims are bounded: a queue at rest has nothing to do.
CHECK_DEADLOCK FALSE
PROPERTIES NewRequestKeepsItsClaim
