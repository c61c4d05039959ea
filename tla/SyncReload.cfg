SPECIFICATION MCSpec
CONSTANTS
    Doc = {d1}
    Edit = {e1, e2, e3}
    Null = Null
    Client = {c1}
    Slot = {1, 2}
    NoSlot = NoSlot
    Session <- MCSession
    Api = Api
    Readers <- MCSession
    Creators <- MCSession
    Editors <- MCSession
    Faults = {}
    SubscribeFirst = TRUE
    MaxTrouble = 0
    ApiDocs = {}
    Lockable = {}
INVARIANT Understood
CHECK_DEADLOCK FALSE
