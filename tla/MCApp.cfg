SPECIFICATION MCSpec
CONSTANTS
    User = {o, a, b}
    Owner = o
    a = a
    b = b
    Request = {q1, q2}
    Invite = {i1, i2}
    i1 = i1
    Doc = {d1, d2}
    d1 = d1
    File = {f1, f2}
    Target = {i1, i2, d1, d2, f1, f2}
    Nothing = Nothing
    StorageLimit = 1
    Page = {a}
    MaxFetches = 2
    Browser = {1, 2}
    Category = {c1, c2}
    Paper = {p1}
    Top = Top
    None = None
    Field = {"email", "name"}
    Value = {"bad", "refused", "good", ""}
    Empty = ""
    NoRun = "-"
    Required = {"email"}
    Checked = {"email", "name"}
    Async = {"email"}
    Bad <- MCBad
    AsyncBad <- MCAsyncBad
    Mode <- MCMode
    Otp = {"o1", "o2"}
    Device = {"d1", "d2"}
    MaxJobs = 2
    MaxAttempts = 2
    MaxTokens = 1
    MaxEvents = 3
    MaxEdits = 4
INVARIANTS AppTypeOK AccessFollowsRole  ContentAgrees ProfileFreshIfTold
    TreeWholeIfOrderly PageAtHome LinksAnswered VerdictsCurrent EditsLand AccountsInOrder
    ViewsTrue
CHECK_DEADLOCK FALSE
