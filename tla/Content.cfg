SPECIFICATION ContentSpec
CONSTANTS
    \* The parts share the names of interchangeable things: only one part runs.
    Devices = {d1, d2}
    Media = {d1, d2}
    Sessions = {d1, d2}
    Admins = {d1, d2}
    Clients = {c1, c2}
    Texts = {1, 2}
    a = a
    b = b
    lore = lore
    Locals = {a, b}
    Works <- MCWorks
    LoreKeys = {lore}
    Models = {m1, m2}
    CharacterIds = {1, 2, 3, 4}
    EntryIds = {1, 2, 3, 4}
    SceneKey = scene
    Unused = Unused
    Gone = Gone
    None = None
    MaxRevision = 3
    MaxSnapshots = 2
    MaxEdits = 1
    Cleaners = {k1}
    NoActor = NoActor
    Rows <- MCRows
    Tags = {1, 2}
    Names = {1, 2}
    Requests <- MCRequests
    NoTag = NoTag
    novel = novel
    author = author
    e1 = e1
    e2 = e2
    e3 = e3
    x1 = x1
    x2 = x2
    x3 = x3
    Reports = {1, 2, 3, 4}
    Assessments = {e1, e2, e3}
    Actions = {x1, x2, x3}
    ReviewWorks = {novel}
    Users = {author}
    TargetOf <- MCTargetOf
    OwnerOf <- MCOwnerOf
    Filed = {2, 3, 4}
    Legacy = {4}
    Commands <- MCCommands
    NoCase = NoCase
SYMMETRY ContentSymmetry
INVARIANTS ReleasesAreTrue NoTagDeadlock DecisionsStand NoCircularWait
PROPERTIES EditsBuildOnSeen IdentitiesStay MediaStayWhole LinksAreSound
           ActionsAreGrounded
\* Edits and releases are bounded, and a deleted character takes its media along.
CHECK_DEADLOCK FALSE
