SPECIFICATION Spec
CONSTANTS
    None = None
    Drivers = {d1, d2, d3}
    MaxTally = 1
    MaxDeaths = 2
    MaxGen = 2
CHECK_DEADLOCK FALSE
INVARIANTS
    OneOfOurs
    EndedIsOver
    InterruptedIsExplained
    RevivalsAreEarned
PROPERTIES
    FateIsTold
    CancelStops
