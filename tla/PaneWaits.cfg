SPECIFICATION Spec
CONSTANTS
    c1 = c1
    p1 = p1
    sweep = sweep
    Clients = {c1}
    Panes = {p1}
    Sweep = sweep
    Silent = {}
    MaxMoves = 1
    MaxParks = 3
INVARIANTS
    NoLostWakeup
PROPERTIES
    MatchIsAnswered
