SPECIFICATION MCSpec
CONSTANTS
    Doc = {d1, d2}
    Edit = {e1, e2}
    Null = Null
    Session = {s1, s2}
    Api = Api
    Readers = {s1}
    Creators = {s1}
    Editors = {s1}
    Faults = {"sync", "get", "change"}
    SubscribeFirst = FALSE
    MaxRev = 4
    MaxBacklog = 2
INVARIANTS TypeOK RowsOrdered FeedInOrder FeedTruthful FeedUnbroken
PROPERTY Ledger
SYMMETRY Sym
