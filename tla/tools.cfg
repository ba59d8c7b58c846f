\* Tools one after the other on two paths, killed or not.
SPECIFICATION Spec
CONSTANTS
    a = a
    b = b
    Paths = {a, b}
    InitialSaves <- SavesAtFirst
    KeysGiven <- Given
    Secrets <- Typed
    SaveKeys <- KeysSaved
    Devices = {1}
    KeysTried <- Tried
    MaxRuns = 2
    Gids = {g0, g1}
    RootGid = g0
    Levels = {0}
    FieldNames = {title}
    Texts = {x}
    Binaries = {p}
    None = None
    Files = {}
    Unsound = {}
CHECK_DEADLOCK FALSE
PROPERTIES StoreKept OpenedFirst
