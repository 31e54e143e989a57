SPECIFICATION CommandSpec
CONSTANTS Kids = {k1, k2}
CHECK_DEADLOCK FALSE
INVARIANTS NoStrangerKilled
PROPERTIES AlwaysReturns
