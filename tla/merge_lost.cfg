\* A new entry two groups below one that the source deleted.
SPECIFICATION Spec
CONSTANTS
    r = r a = a b = b e1 = e1 c1 = c1 x = x y = y
    Root = r None = None NoContent = NoContent
    GroupIds = {r, a, b}
    EntryIds = {e1, e2}
    IconIds = {c1}
    BuiltIns = {}
    Names = {}
    Binaries = {}
    Contents = {NoContent, x, y}
    MetaFields = {}
    MaxAttachments = 0
    Ancestors <- JustNested
    MaxEdits = 3
    MaxTime = 2
SYMMETRY Alike
CHECK_DEADLOCK FALSE
INVARIANTS LaterChangesSurvive
