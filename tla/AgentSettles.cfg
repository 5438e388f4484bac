SPECIFICATION Spec
CONSTANTS
    None = None
    Screens = {"busy", "rest", "dialog"}
    claude = claude
    Agents = {claude}
    Rules = {1, 2}
    Claimed <- MCClaimed
    Kept <- MCKept
    Asking = {"dialog"}
    ReportStates = {"idle"}
    Seqs = {1}
    Windows = {1, 2}
    MaxWindow = 2
    Interval = 2
    MaxLag = 1
    MaxActs = 2
CHECK_DEADLOCK FALSE
INVARIANTS
    SkipIsExact
    StillHeard
PROPERTIES
    CandidateResolves
    OwedLookServed
