SPECIFICATION Spec
CONSTANTS
    s1 = s1
    s2 = s2
    n1 = n1
    n2 = n2
    n3 = n3
    c1 = c1
    w1 = w1
    None = None
    Sessions = {s1, s2}
    Names = {n1, n2, n3}
    Clients = {c1}
    Workers = {w1}
    MaxChannels = 4
    MaxMoves = 1
    MaxParks = 1
    MaxRenames = 1
    MaxSpoken = 1
SYMMETRY Symmetry
INVARIANTS
    PanesWakeTheirSession
    WaitsAreReachable
    WaitsOfTheLiving
    StillNoWaitStranded
