SPECIFICATION ReleaseSpec
CONSTANTS
    Freezers = {f1, f2}
    Parts = {a, b}
    MaxVersion = 2
    Procs = {p}
    Nobody = Nobody
    Executors = {e1, e2}
    NoExecutor = NoExecutor
    MAX_VERIFICATIONS = 3
    Mine = Mine
    Other = Other
    NoId = NoId
    MAX_DMG_EVENTS = 16
    MaxFaults = 2
    Items = {item}
    Facts <- MCFacts
    NoFacts = NoFacts
    Shipped <- MCShipped
    GA_INSTANCES = {dns, transport}
CHECK_DEADLOCK FALSE
INVARIANTS OneFrozenCandidate SignedAtMostOnce VerifiedOutputHasOneHome SubmittedOnce StagesInOrder InstallRecordsAreTrue ApprovedDecisionsAreOwned
