\* The binaries of a KDBX3 document
SPECIFICATION Spec
CONSTANTS
    r = r
    a = a
    e1 = e1
    e2 = e2
    n1 = n1
    n2 = n2
    c1 = c1
    c2 = c2
    key = key
    GroupIds = {r, a}
    EntryIds = {e1, e2}
    IconIds = {c1, c2}
    Root = r
    Names = {n1, n2}
    Binaries <- MCBinaries
    Contents <- FieldMaps
    MetaFields = {}
    BuiltIns = {key}
    None = None
    NoContent <- NoFields
    MaxAttachments = 3
    Sources <- MCSources
    FoundDocuments <- MCFound
CHECK_DEADLOCK FALSE
INVARIANTS BinariesConverted
