SPECIFICATION SetsSpec
CONSTANTS
  Candidates = 2
  MaxSetsFaults = 1
CHECK_DEADLOCK FALSE
INVARIANTS OneApplication SuccessIsDurable
