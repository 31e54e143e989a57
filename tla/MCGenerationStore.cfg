CONSTANTS
    Hosts = {h1, h2}
    Installations = {i1, i2}
    NoLineage = NoLineage
    MaxGeneration = 2
    MaxLockFiles = 2
SYMMETRY HostSymmetry
SPECIFICATION Spec
INVARIANTS UniqueReservation GrantedIsDurable
PROPERTIES ImplementsJournal
