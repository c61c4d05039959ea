SPECIFICATION MCFairSpec
CONSTANTS
    Doc = {d1, d2}
    Edit = {e1, e2}
    Null = Null
    Client = {c1}
    Slot = {1}
    NoSlot = NoSlot
    Session <- MCSession
    Api = Api
    Readers <- MCSession
    Creators <- MCSession
    Editors <- MCSession
    Faults = {"sync"}
    SubscribeFirst = TRUE
    MaxRev = 4
    MaxTrouble = 2
INVARIANTS ResumeSafe ViewKnown DeletionsSafeIfWhole
PROPERTY Converges
CHECK_DEADLOCK FALSE
