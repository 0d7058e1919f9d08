SPECIFICATION MediaSpec
CONSTANTS
    Media = {m1}
    Clients = {c1, c2}
    Cleaners = {k1}
    NoActor = NoActor
PROPERTIES RetiredStays
\* A deleted character takes its media along: nothing is left to happen.
CHECK_DEADLOCK FALSE
