SPECIFICATION MaintenanceSpec
CONSTANTS
    Procs = {p1, p2}
    Nobody = Nobody
    Previous = Previous
    Candidate = Candidate
    Base = Base
    DnsMoved = DnsMoved
    OtherMoved = OtherMoved
    NoGuard = NoGuard
    MaxInstallFaults = 3
    MAX_GUARD_SEGMENTS = 3
SYMMETRY Symmetry
INVARIANTS JobsRunTheTarget NoBundleLost ExportIsOneMigration
PROPERTIES ExchangedWhileDormant
