SPECIFICATION Spec
CONSTANTS
    u1 = u1
    u2 = u2
    boot1 = boot1
    form1 = form1
    form2 = form2
    form3 = form3
    call1 = call1
    call2 = call2
    User = {u1, u2}
    Accounts = {u1}
    MaxEvents = 3
    NoUser = NoUser
    NoToken = NoToken
    Opened = {"dashboard", "confirm"}
    Boot = {boot1}
    Form = {form1, form2, form3}
    Call = {call1, call2}
    Slot = {boot1, form1, form2, form3, call1, call2}
    AccessTime = 1
    RefreshTime = 2
    MaxTime = 2
CHECK_DEADLOCK FALSE
INVARIANTS
    TypeOK
    RotationConserves
    LinkedIsVerified
    CookieOfSession
    CookieLive
    ConfirmHasEmail
PROPERTIES
    CallsSettle
