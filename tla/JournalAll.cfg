SPECIFICATION Spec
CONSTANTS
    c1 = c1
    c2 = c2
    a1 = a1
    a2 = a2
    Conns = {c1}
    Subscribers = {c1}
    Announcers = {a1}
    Owner = Owner
    None = None
    Entries = {1, 2}
    Elsewhere = {2}
    Filter <- MCFilter
    Capacity = 2
    MaxRevision = 4
    MaxLanded = 3
    MaxRequests = 2
INVARIANTS
    NeverBackwards
    LostIsExact
    NobodyIsOwed
    NotifiedAfterOpening
