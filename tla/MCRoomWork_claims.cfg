SPECIFICATION Spec
CONSTANTS
    Launchers = {w1, w2}
    Stoppers = {w3}
    Endings = {"completed", "cancelled", "unknown"}
    MaxAssignments = 2
    MaxGeneration = 1
    MaxCrashes = 1
SYMMETRY Symmetry
CHECK_DEADLOCK FALSE
INVARIANTS
    OneRunPerAssignment
    ClaimedIsRunning
    CompletedIsReal
    ContinuationWakes
