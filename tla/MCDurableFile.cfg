SPECIFICATION Spec
CONSTANTS
  Entries = {a, b}
  MaxAttempts = 2
  MaxIOFaults = 3
CHECK_DEADLOCK FALSE
INVARIANTS AcknowledgedSurvives FailureIsDefinite
PROPERTIES ImplementsPublication
