SPECIFICATION MCSpec
CONSTANTS
    Doc = {d1}
    Edit = {e1, e2, e3}
    Null = Null
    Client = {c1}
    Slot = {1, 2}
    NoSlot = NoSlot
    Session <- MCSession
    Api = Api
    Readers <- MCSession
    Creators <- MCSession
    Editors <- MCSession
    Faults = {"sync", "change"}
    SubscribeFirst = TRUE
    MaxTrouble = 1
    ApiDocs = {d1}
    Lockable = {d1}
SYMMETRY Sym
PROPERTIES EditsKept Follows
CHECK_DEADLOCK FALSE
