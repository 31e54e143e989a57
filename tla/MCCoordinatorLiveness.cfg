CONSTANTS
    Modes = {"SystemProxy"}
    Sources = {a, b}
    NoSource = NoSource
    MaxGeneration = 2
    OBSERVATION_GRACE_MISSES = 2
    MissCap = 2
    AuthorizationAwaitsConsent = FALSE
SPECIFICATION FairSpec
PROPERTIES CommandEnds RecheckSettles
