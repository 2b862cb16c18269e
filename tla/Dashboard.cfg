SPECIFICATION Spec
CONSTANTS
    c1 = c1
    c2 = c2
    c3 = c3
    s1 = s1
    s2 = s2
    u1 = u1
    u2 = u2
    v1 = v1
    v2 = v2
    r1 = r1
    r2 = r2
    NoId = NoId
    Conn = {c1, c2, c3}
    Source = {s1, s2}
    Sub = {u1, u2}
    Value = {v1, v2}
    Slot = {r1, r2}
    StoredConn = {c1}
    DeletedConn = {c2}
    StoredSource = {s1}
    StoredSub = {u1}
    FirstValue = v1
    MaxEvents = 3
INVARIANTS
    TypeOK
    NoOrphans
    ConnectionsShown
    SubscriptionsShown
PROPERTIES
    ButtonsReturn
