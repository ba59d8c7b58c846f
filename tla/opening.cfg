\* One call on each of a small set of files, whole with any key, or damaged.
SPECIFICATION Spec
CONSTANTS
    Saves <- AllSaves
    KeysGiven <- OtherKeys
    Plugged <- DeviceOrNot
    Gids = {g0, g1}
    RootGid = g0
    Levels = {0, 1, 2, 3}
    FieldNames = {title}
    Texts = {x}
    Binaries = {p, q}
    None = None
    Files <- AllFiles
    undated = undated
    Unsound = {undated}
CHECK_DEADLOCK FALSE
INVARIANTS OpenedIsWritten IntactFilesOpen WrongKeyReported PrefixOfWritten Unforged
    ParentsByLevel EntriesOwn NoLatePanic
PROPERTIES CallReturns
