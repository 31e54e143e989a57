CONSTANTS
    Procs = {p1, p2}
    Orig = Orig
    Retry = Retry
    NoId = NoId
    Tools = {t1, t2}
    NoTool = NoTool
    Nobody = Nobody
    MAX_EVENT_DOCUMENTS = 26
    MAX_FINALIZATION_RUNS = 2
    MaxFaults = 2
    MaxLegacyFaults = 3
SYMMETRY ToolSymmetry
SPECIFICATION AttemptSpec
CHECK_DEADLOCK FALSE
INVARIANTS SubmitOnce PublishedIsSealed RoomReserved LegacyStaysUsable
