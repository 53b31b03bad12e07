SPECIFICATION FairSpec
CONSTANTS
    Launchers = {w1}
    Stoppers = {w2}
    Endings = {"completed", "cancelled", "unknown"}
    MaxAssignments = 1
    MaxGeneration = 2
    MaxCrashes = 1
CHECK_DEADLOCK FALSE
INVARIANTS
    ConfirmedIsQuiet
PROPERTIES
    StopSettles
    OrphanRecovered
