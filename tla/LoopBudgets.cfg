SPECIFICATION Spec
CONSTANTS
    None = None
    Never = Never
    MaxTurns = Never
    ReflectEvery = 2
    ReflectAfter = 2
    ReaimMax = 0
    ReaskMax = 0
    EmptyMax = 1
    RetryMax = 1
    ResumesMax = 1
    HoldWithin = 1
    Told = {}
    MaxCrashes = 2
    Cap = 1
CHECK_DEADLOCK FALSE
INVARIANTS
    GreetedFirst
PROPERTIES
    NoRecoveryTwice
    OutagesAsk
    ClaimsAreReflected
