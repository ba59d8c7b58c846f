\* A binary removed while a tracker of an entry that uses it is open.
SPECIFICATION MCSpec
CONSTANTS
    r = r a = a e1 = e1 e2 = e2 n1 = n1 n2 = n2 b1 = b1 c1 = c1 clock = clock
    Root = r None = None NoContent = NoContent
    GroupIds = {r}
    EntryIds = {e1}
    IconIds = {}
    BuiltIns = {}
    Names = {n1}
    Binaries = {b1}
    Contents = {NoContent}
    MetaFields = {}
    MaxAttachments = 2
    OpenedDatabases <- NoDatabases
    Liberties = {"reach around"}
    Scopes = {{r, e1, b1}}
    MaxVersions = 2
    MaxTrackers = 1
    MaxTime = 0
PROPERTIES FreedIdsNotReused
