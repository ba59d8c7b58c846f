\* Damage to an ordinary file: some calls end in a panic.
SPECIFICATION Spec
CONSTANTS
    Saves <- OrdinarySave
    KeysGiven <- OtherKeys
    Plugged <- DeviceOrNot
    Gids = {g0, g1}
    RootGid = g0
    Levels = {0, 1, 2, 3}
    FieldNames = {title}
    Texts = {x}
    Binaries = {p, q}
    None = None
    Files = {}
    undated = undated
    Unsound = {}
CHECK_DEADLOCK FALSE
INVARIANTS NoPanic
