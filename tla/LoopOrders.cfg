SPECIFICATION Spec
CONSTANTS
    None = None
    Never = Never
    MaxTurns = 1
    ReflectEvery = 1
    ReflectAfter = 1
    ReaimMax = 1
    ReaskMax = 1
    EmptyMax = 1
    RetryMax = 0
    ResumesMax = 0
    HoldWithin = 1
    Told = {"hold", "stand_down", "stop_short"}
    MaxCrashes = 0
    Cap = 1
CHECK_DEADLOCK FALSE
INVARIANTS
    HeldIsParked
    ConvergedForAReason
PROPERTIES
    StopShortStops
    HoldEnds
