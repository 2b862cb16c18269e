SPECIFICATION Spec
CONSTANTS
    s1 = s1
    c1 = c1
    Sub = {s1}
    Conn = {c1}
    ConnOf <- OneConnection
    Event = {1, 2, 3}
    Seen <- SeenValues
    EmptySeen <- EmptyListing
    MaxFaults = 1
    Undecryptable = {}
    PageSize = 1
    Other = {3}
    Goal = 1
    Reached = 1
    MaxCount = 2
    MaxTime = 3
    MaxMoves = 3
INVARIANTS
    TypeOK
    ListingAccounts
    RepeatsForgotten
    ListingBaselineSilent
PROPERTIES
    OfferSettles
