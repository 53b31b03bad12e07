SPECIFICATION Spec
CONSTANTS
    Runs = {r1, r2}
    Sessions = {s1}
    Keys = {r1, r2}
    SessionOf <- OneSession
    KeyOf <- OwnKey
    Callers = {c1, c2}
    Controls = {"retry", "cancel", "resume"}
    NoRun = NoRun
    CanResume = TRUE
    CanStream = FALSE
    Continues = TRUE
VIEW SessionView
SYMMETRY Symmetry
CHECK_DEADLOCK FALSE
INVARIANTS
    HolderIsActive
    SessionExclusive
    RetriedRunIsSettled
