SPECIFICATION FairSpec
CONSTANTS
    s1 = s1
    s2 = s2
    c1 = c1
    f1 = f1
    f2 = f2
    Sub = {s1, s2}
    Conn = {c1}
    ConnOf <- SharedConnection
    Event = {1, 2}
    Seen <- SeenValues
    EmptySeen <- EmptyCursor
    MaxFaults = 0
    Undecryptable = {s2}
    Feed = {f1, f2}
    FeedOf <- OwnFeed
    PageSize <- PageOfTwo
    IssueFeed = {}
    PullRequest = {}
    Removable = {}
    InOrder = TRUE
PROPERTIES
    OthersNotBlocked
