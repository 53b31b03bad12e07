SPECIFICATION FairSpec
CONSTANTS
    s1 = s1
    s2 = s2
    t1 = t1
    t2 = t2
    t3 = t3
    Sessions = {s1, s2}
    Tasks = {t1, t2, t3}
    SessionOf <- TwoSessions
    Controllers = {c1}
    MaxConcurrency = 1
    Waits = {"live", "suspended"}

CHECK_DEADLOCK FALSE
INVARIANTS
    TypeOK
    OverlapsAreEarly
    SlotsExact
    WorkConserving
    LaneKeptForRun
PROPERTIES
    QueuedTurnLeaves
