SPECIFICATION MCSpec
CONSTANTS
    Doc = {d1}
    Edit = {e1, e2, e3}
    Null = Null
    Client = {c1, c2}
    Slot = {1}
    NoSlot = NoSlot
    Session <- MCSession
    Api = Api
    Readers <- MCSession
    Creators <- MCSession
    Editors <- MCSession
    Faults = {}
    SubscribeFirst = TRUE
    MaxTrouble = 0
    ApiDocs = {}
    Lockable = {d1}
SYMMETRY Sym
INVARIANTS SyncTypeOK CausallyClosed SettledIfCalm DeletedStaysDeletedIfCalm
CHECK_DEADLOCK FALSE
