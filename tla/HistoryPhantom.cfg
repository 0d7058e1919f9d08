SPECIFICATION HistorySpec
CONSTANTS
    Reads = {r1, r2}
    PageSize = 1
    MaxId = 3
    MaxRevision = 2
    MaxSubmitted = 1
    NoRow = NoRow
SYMMETRY Symmetry
PROPERTIES NextSyncShowsTheHistory
CHECK_DEADLOCK FALSE
