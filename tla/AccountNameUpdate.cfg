SPECIFICATION Spec
CONSTANTS
    u1 = u1
    u2 = u2
    e1 = e1
    e2 = e2
    p1 = p1
    p2 = p2
    User = {u1, u2}
    Email = {e1, e2}
    Password = {p1, p2}
    NoRow = NoRow
    NoUser = NoUser
    NoEmail = NoEmail
    NoPassword = NoPassword
    Existing <- OneAccount
    MaxTx = 2
    Ops = {"update_name", "change_password"}
CHECK_DEADLOCK FALSE
PROPERTIES
    NameUpdateOnlyName
