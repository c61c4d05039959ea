SPECIFICATION MCSpec
CONSTANTS
    Doc = {d1, d2}
    Edit = {e1, e2}
    Null = Null
    NoRev = NoRev
    UserDocs = {d1}
    MaxClock = 3
    MaxTrouble = 1
    Brief = TRUE
INVARIANTS StoreTypeOK ResumeSafeIfWhole NoRevenantsIfSaved SettledUnlessLost
PROPERTIES SavedStaysSaved
CHECK_DEADLOCK FALSE
