SPECIFICATION FairSpec
CONSTANTS
    Ops = {1, 2, 3}
    Kinds = {"write", "candidate", "promote", "redact"}
    Actors = {a1, a2}
    None = None
    MaxRequests = 3
    MaxFaults = 1
CHECK_DEADLOCK FALSE
INVARIANTS
    PointedIsReadable
    QuietIsReadable
    AcknowledgedIsKept
PROPERTIES
    InterruptedIsFinished
