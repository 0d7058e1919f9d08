SPECIFICATION TabSpec
CONSTANTS
    Tabs = {t1, t2}
    Families = {f1, f2}
    MaxRotation = 1
    Nothing = Nothing
SYMMETRY MCTabSymmetry
INVARIANT FamiliesAreNotRevoked
