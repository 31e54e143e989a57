SPECIFICATION AcceptSpec
CONSTANTS
    Procs = {p1, p2}
    MaxSessions = 2
    MaxAcceptFaults = 2
    MaxAcceptEvents = 17
CHECK_DEADLOCK FALSE
SYMMETRY Symmetry
INVARIANTS SealedIsComplete CaptureSpansMarkers
PROPERTIES ArchivedIsRestored
