SPECIFICATION Spec
CONSTANTS
    None = None
    Drivers = {d1, d2, d3}
    MaxTally = 2
    MaxDeaths = 1
    MaxGen = 2
CHECK_DEADLOCK FALSE
PROPERTIES
    TallyKept
