SPECIFICATION FairSpec
CONSTANTS
    Kinds = {"surface", "input"}
    Clients = {c1}
    Ticks = {t1}
    Responses = {"r1"}
    MaxCalls = 2
    MaxFaults = 1
    MaxLookups = 2
CHECK_DEADLOCK FALSE
INVARIANTS
    StartedOnce
    UnapprovedIsUntouched
    CompletedTookEffect
    ToldIsTrue
    OneOutageIsRetried
PROPERTIES
    OutcomeStands
    RequestSettles
