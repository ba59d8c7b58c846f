\* A group removed through GroupTrack::remove while an icon lists it.
SPECIFICATION MCSpec
CONSTANTS
    r = r a = a e1 = e1 e2 = e2 n1 = n1 n2 = n2 b1 = b1 c1 = c1 clock = clock
    Root = r None = None NoContent = NoContent
    GroupIds = {r, a}
    EntryIds = {}
    IconIds = {c1}
    BuiltIns = {}
    Names = {}
    Binaries = {}
    Contents = {NoContent}
    MetaFields = {}
    MaxAttachments = 0
    OpenedDatabases <- NoDatabases
    Liberties = {}
    Scopes = {{r, a, c1}}
    MaxVersions = 2
    MaxTrackers = 0
    MaxTime = 0
INVARIANTS ListedGroupsExist
