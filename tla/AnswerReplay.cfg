SPECIFICATION Spec
CONSTANTS
    Executions = {e1, e2}
    Recoverers = {r1}
    Operators = {}
    Keys = {k1}
    Versions = {1}
    MaxAttempts = 2
    MaxManual = 3
    MaxHistory = 3
    None = None
SYMMETRY Symmetry
INVARIANTS CalledAtMostOnce UncalledMeansUncalled
PROPERTY ImplementsPromise
\* Clients and the owner's edits are bounded: once all are used up, nothing
\* is left to happen.
CHECK_DEADLOCK FALSE
