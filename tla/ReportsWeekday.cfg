SPECIFICATION Spec
CONSTANTS
    c1 = c1
    k1 = k1
    k2 = k2
    m1 = m1
    r1 = r1
    r2 = r2
    Conn = {c1}
    Config = {k1}
    Stored = {k1}
    OpenHours = {1}
    Manual = {}
    Slot = {}
    NoConfig = NoConfig
    Rows <- MCRows
    DayHours = 2
    WeekDays = 2
    MonthDays = 3
    Cap = 9
    MaxEvents = 0
INVARIANTS
    SentOnItsDay
