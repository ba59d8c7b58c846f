\* Four groups and a field of Meta: every tree the groups form and every move and
\* removal.  And two groups with an entry and its history while the clock runs:
\* trackers, moves, removals with and without tombstones, objects that come back.
SPECIFICATION MCSpec
CONSTANTS
    r = r a = a e1 = e1 e2 = e2 n1 = n1 n2 = n2 b1 = b1 c1 = c1 clock = clock
    Root = r None = None NoContent = NoContent
    GroupIds = {r, a, b, c}
    EntryIds = {e1}
    IconIds = {}
    BuiltIns = {}
    Names = {}
    Binaries = {}
    Contents = {NoContent}
    MetaFields = {recyclebin}
    MaxAttachments = 0
    OpenedDatabases <- NoDatabases
    Liberties = {}
    Scopes = {{r, a, b, c, recyclebin}, {r, a, e1, clock}}
    MaxVersions = 3
    MaxTrackers = 1
    MaxTime = 1
INVARIANTS TypeOK TreeShape EntryPlacement HistoryNewestFirst
PROPERTIES ContainmentSpec RemovalClearsMeta TombstonesComplete HistoryKept
