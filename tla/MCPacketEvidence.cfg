SPECIFICATION Spec
CONSTANTS
    MaxTransactions = 2
    MaxPids = 3
    MaxPacketFaults = 3
CHECK_DEADLOCK FALSE
INVARIANTS PhoneLeftAsFound RestoredOrQuarantined AcceptedAsPlanned
PROPERTIES OnlyOwnAppChanged
