SPECIFICATION Spec
CONSTANTS
    s1 = s1
    s2 = s2
    c1 = c1
    f1 = f1
    f2 = f2
    Sub = {s1, s2}
    Conn = {c1}
    ConnOf <- SharedConnection
    Event = {1, 2, 3}
    Seen <- SeenValues
    EmptySeen <- EmptyCursor
    MaxFaults = 1
    Undecryptable = {}
    Feed = {f1}
    FeedOf <- SharedFeed
    PageSize <- PageOfThree
    IssueFeed = {}
    PullRequest = {}
    Removable = {}
    InOrder = TRUE
SYMMETRY
    Symmetry
INVARIANTS
    TypeOK
    SnapshotFresh
    ReportsOnlyNew
    AtMostOncePerSave
    BaselineSilent
    CheckpointAccounts
PROPERTIES
    IneligibleSilent
    DeliveryPromise
