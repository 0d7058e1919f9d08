SPECIFICATION IdentitySpec
CONSTANTS
    \* The two parts share the names of interchangeable things: one part rests.
    Proofs = {a1, a2}
    Sessions = {b1, b2}
    Clients = {c1, c2}
    Secrets = {d1, d2}
    MaxUsers = 2
    MaxHashes = 3
    MaxRotations = 1
    None = None
    Tabs = {a1, a2}
    Families = {b1, b2}
    MaxRotation = 1
    Nothing = Nothing
SYMMETRY IdentitySymmetry
INVARIANTS NewestProofWorksOnce SessionsAreSound TokensAreSpentOnce
PROPERTIES EndedSessionsStay 
