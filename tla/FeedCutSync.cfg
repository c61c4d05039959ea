SPECIFICATION MCSpec
CONSTANTS
    Doc = {d1, d2}
    Edit = {e1, e2}
    Null = Null
    Client = {c1}
    Slot = {1}
    NoSlot = NoSlot
    Session <- MCSession
    Api = Api
    Readers <- MCSession
    Creators <- MCSession
    Editors <- MCSession
    Faults = {}
    SubscribeFirst = TRUE
    MaxRev = 4
    MaxTrouble = 1
INVARIANT DeletionsSafe
CHECK_DEADLOCK FALSE
