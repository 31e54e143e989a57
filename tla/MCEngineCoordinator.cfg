CONSTANTS
    Modes = {"SystemProxy", "Tunnel"}
    Sources = {a, b}
    NoSource = NoSource
    MaxGeneration = 3
    OBSERVATION_GRACE_MISSES = 2
    MissCap = 3
    AuthorizationAwaitsConsent = TRUE
SYMMETRY SourceSymmetry
SPECIFICATION Spec
INVARIANTS OwnedOrQuarantined PublishedOffIsOff
PROPERTIES FreshGeneration
