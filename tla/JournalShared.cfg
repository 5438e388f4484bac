SPECIFICATION Spec
CONSTANTS
    c1 = c1
    c2 = c2
    a1 = a1
    a2 = a2
    Conns = {c1}
    Subscribers = {}
    Announcers = {a1}
    Owner = Owner
    None = None
    Entries = {1}
    Elsewhere = {}
    Filter <- MCFilter
    Capacity = 4
    MaxRevision = 3
    MaxLanded = 4
    MaxRequests = 1
INVARIANTS
    NothingSkipped
