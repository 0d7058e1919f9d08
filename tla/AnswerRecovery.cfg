SPECIFICATION FairSpec
CONSTANTS
    Executions = {e1}
    Recoverers = {r1}
    Operators = {o1}
    Keys = {k1}
    Versions = {1, 2}
    MaxAttempts = 2
    MaxManual = 3
    MaxHistory = 1
    None = None
INVARIANT SettledWithOutcome
PROPERTIES QuarantineIsKept HeldCreditIsResolved
\* Clients, operators and the owner's edits are bounded: once all are used up,
\* nothing is left to happen.
CHECK_DEADLOCK FALSE
