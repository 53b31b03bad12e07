SPECIFICATION FairSpec
CONSTANTS
    Kinds = {"surface"}
    Clients = {c1}
    Ticks = {t1}
    Responses = {"r1"}
    MaxCalls = 1
    MaxFaults = 0
    MaxLookups = 2
CHECK_DEADLOCK FALSE
PROPERTIES
    ExpiryIsPersisted
