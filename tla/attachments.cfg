\* Two entries with two names each, live and in history, from an empty database
\* and from one in which all of them share a binary.  And icons shared by groups,
\* an entry and its history, and the hints at the entry.  The database is saved
\* and opened again at any time.
SPECIFICATION MCStoredSpec
CONSTANTS
    r = r a = a e1 = e1 e2 = e2 n1 = n1 n2 = n2 b1 = b1 c1 = c1 clock = clock
    Root = r None = None NoContent = NoContent
    GroupIds = {r, a}
    EntryIds = {e1, e2}
    IconIds = {c1, c2}
    BuiltIns = {}
    Names = {n1, n2}
    Binaries = {b1, b2}
    Contents = {NoContent}
    MetaFields = {}
    MaxAttachments = 2
    OpenedDatabases <- SharedObjects
    Liberties = {}
    Scopes = {{r, e1, e2, b1, b2}, {r, a, e1, c1, c2}}
    MaxVersions = 2
    MaxTrackers = 1
    MaxTime = 0
INVARIANTS RefsResolve IconsResolve HintsResolve
PROPERTIES FreshIdUnreferenced RemovalReclaims CompactionExact ReopenExact
