SPECIFICATION FairSpec
CONSTANTS
    Runs = {r1, r2}
    Sessions = {s1}
    Keys = {k1}
    SessionOf <- OneSession
    KeyOf <- SameKey
    Callers = {c1, c2}
    Controls = {"cancel", "resume", "sync", "recover"}
    NoRun = NoRun
    CanResume = TRUE
    CanStream = TRUE
    Continues = FALSE
CHECK_DEADLOCK FALSE
INVARIANTS
    OneLaunchPerKey
    RecordsAgree
    CompletionIsReal
PROPERTIES
    RefinesOutcome
    UnstartedRunFreesSession
