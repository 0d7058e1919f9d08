SPECIFICATION ConversationSpec
CONSTANTS
    \* The parts share the names of interchangeable things: only one part runs.
    Executions = {a1, a2}
    MemoryWorkers = {a1, a2}
    Reads = {a1, a2}
    Keys = {k1, k2}
    Recoverers = {}
    Operators = {}
    Versions = {1}
    MaxAttempts = 1
    MaxManual = 3
    MaxHistory = 3
    None = None
    ClaimTokens = {c1, c2, c3}
    MaxMemoryAttempts = 2
    MaxClaims = 2
    MaxLength = 3
    MaxRequests = 2
    MaxSourceRevision = 1
    Threshold = 2
    Batch = 2
    Recent = 1
    MemoryBudget = 1
    Weight <- Even
    NoMemoryClaim = NoMemoryClaim
    PageSize = 1
    MaxId = 3
    MaxRevision = 2
    MaxSubmitted = 1
    NoRow = NoRow
    Books <- MCBooks
    LoreWords = {"a", "b"}
    Opening = {"a"}
    RecentLimit = 2
    MaxSaid = 3
    NoLore = NoLore
    Retrievals = {r1}
    MemoryIds = {1, 2, 3}
    Texts <- MCTexts
    KeyOf <- MCKeyOf
    SizeOf <- MCSizeOf
    Providers = {a1, a2}
    Scores = {1, 2}
    TopK = 2
    ResultLimit = 2
    TokenBudget = 2
    MaxRewinds = 1
    NoMemory = NoMemory
SYMMETRY ConversationSymmetry
INVARIANTS AnswersAreComplete PendingInputIsCurrent SummariesAreSound IdleOwesNothing
           LoreIsWellChosen PromptSaysAllOnce MemoriesAreUsable
PROPERTIES DisplayIsWhole UsedMemoriesStand
\* Clients and the owner's edits are bounded: once all are used up, nothing
\* is left to happen.
CHECK_DEADLOCK FALSE
