CONSTANTS
    MaxAttempts = 2
    PlainProducers = 1
    MaxEvents = 14
    MaxCaptureFaults = 3
    MaxRecoveries = 2
SPECIFICATION Spec
CHECK_DEADLOCK FALSE
INVARIANTS SentAtMostOnce HandlersRunOnce ShapingIsOwed
