SPECIFICATION Spec
CONSTANTS
    u1 = u1
    u2 = u2
    e1 = e1
    e2 = e2
    p1 = p1
    p2 = p2
    User = {u1, u2}
    Email = {e1, e2}
    Password = {p1, p2}
    NoRow = NoRow
    NoUser = NoUser
    NoEmail = NoEmail
    NoPassword = NoPassword
    Existing <- OneAccount
    MaxTx = 3
    Ops = {"request_password_reset", "confirm_password_reset"}
CHECK_DEADLOCK FALSE
INVARIANTS
    CodeUsedOnce
