SPECIFICATION Spec
CONSTANTS
    None = None
    Rails <- MCRails
    Costs = {1, 2}
    Windows = {1, 2}
    JournalLimit = 2
    Horizon = 3
    Cap = 3
CHECK_DEADLOCK FALSE
INVARIANTS
    WithinCeilings
    CeilingIsTrue
    CutShortIsStopped
    RecallIsHonest
PROPERTIES
    Decided
    RunEnds
