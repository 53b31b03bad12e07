SPECIFICATION Spec
CONSTANTS
    s1 = s1
    s2 = s2
    t1 = t1
    t2 = t2
    t3 = t3
    Sessions = {s1}
    Tasks = {t1, t2, t3}
    SessionOf <- OneSession
    Controllers = {c1}
    MaxConcurrency = 2
    Waits = {"live", "suspended"}

CHECK_DEADLOCK FALSE
INVARIANTS
    SessionSerial
