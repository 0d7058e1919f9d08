SPECIFICATION LoreSpec
CONSTANTS
    Books <- MCBooks
    LoreWords = {"a", "b"}
    Opening = {}
    RecentLimit = 2
    MaxSaid = 3
    NoLore = NoLore
INVARIANT DiagnosisIsActual
