SPECIFICATION FairSpec
CONSTANTS
    s1 = s1
    s2 = s2
    c1 = c1
    f1 = f1
    f2 = f2
    Sub = {s1}
    Conn = {c1}
    ConnOf <- OneConnection
    Event = {1, 2, 3}
    Seen <- SeenValues
    EmptySeen <- EmptyCursor
    MaxFaults = 2
    Undecryptable = {}
    Feed = {f1}
    FeedOf <- OneFeed
    PageSize <- PageOfTwo
    IssueFeed = {f1}
    PullRequest = {2}
    Removable = {1}
    InOrder = TRUE
INVARIANTS
    CheckpointAccounts
PROPERTIES
    CheckpointMonotone
    NewItemSettles
