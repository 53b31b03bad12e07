SPECIFICATION FairSpec
CONSTANTS
    Contents = {a, b}
    None = None
    Ops = {o1, o2}
    MaxCalls = 3
    Faults = {"stop", "unheard"}
    MaxFaults = 2
CHECK_DEADLOCK FALSE
INVARIANTS
    LatestKept
    MarkedIsReadable
    AppliedOnce
PROPERTIES
    InterruptedIsFinished
