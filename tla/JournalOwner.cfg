SPECIFICATION Spec
CONSTANTS
    c1 = c1
    c2 = c2
    a1 = a1
    a2 = a2
    Conns = {c1, c2}
    Subscribers = {c1, c2}
    Announcers = {}
    Owner = Owner
    None = None
    Entries = {1, 2}
    Elsewhere = {}
    Filter <- MCFilter
    Capacity = 2
    MaxRevision = 4
    MaxLanded = 4
    MaxRequests = 3
INVARIANTS
    NothingSkipped
    NeverTwice
PROPERTIES
    FeedSpec
