SPECIFICATION FairSpec
CONSTANTS
    Ops = {1, 2}
    Kinds = {"write", "redact"}
    Actors = {a1}
    None = None
    MaxRequests = 2
    MaxFaults = 0
CHECK_DEADLOCK FALSE
PROPERTIES
    RedactionTakesEffect
