SPECIFICATION MCFairSpec
CONSTANTS
    u1 = u1
    g1 = g1
    c1 = c1
    Col = {c1}
    Session = {s1, s2}
    Request = {q1}
    Actor = {a1, a2, a3}
    Nobody = Nobody
    Perm <- MCPerm
    ColOf <- MCColOf
    UserOf <- MCUserOf
    Any = Any
    User = {u1}
    Group = {g1}
    Reader = {a1, a2, a3}
    Writer = {w1}
    Unknown = Unknown
    MaxEvents = 1
INVARIANTS ServerTypeOK OneActor RegistryHonest CacheFresh AttendedIfUncrossed
PROPERTIES VerdictRight AllAnswered
CHECK_DEADLOCK FALSE
