SPECIFICATION FairSpec
CONSTANTS
    Reviews = {r1}
    Evaluations = {e1}
    Curators = {c1}
    Ticks = {t1, t2}
    Workers = {w1, w2}
    SomePortless = TRUE
    None = None
    MaxAttempts = 2
    MaxEnqueued = 1
    MaxChanges = 1
    MaxSlow = 1
    MaxDeaths = 1
CHECK_DEADLOCK FALSE
INVARIANTS
    CompletedByOne
PROPERTIES
    StoppedByItsHolder
    AppliedIsFresh
    JobSettles
