SPECIFICATION FairSpec
CONSTANTS
    u1 = u1
    u2 = u2
    e1 = e1
    e2 = e2
    p1 = p1
    p2 = p2
    User = {u1, u2}
    Email = {e1, e2}
    Password = {p1, p2}
    NoRow = NoRow
    NoUser = NoUser
    NoEmail = NoEmail
    NoPassword = NoPassword
    Existing <- OneAccount
    MaxTx = 3
    Ops = {"register", "confirm_registration", "change_password", "update_name", "request_email_change", "confirm_email_change", "request_password_reset", "confirm_password_reset", "request_deletion", "confirm_deletion"}
CHECK_DEADLOCK FALSE
INVARIANTS
    TypeOK
    OneChangeCode
    UnverifiedHasCode
    FlagsConfirmed
PROPERTIES
    FlagsOnlySet
    Settles
