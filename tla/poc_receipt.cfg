SPECIFICATION Spec
CONSTANTS
    MaxOverlaps = 0
    MaxFaults = 0
    MaxCleanerDeaths = 0
INVARIANTS ReceiptHonest
CHECK_DEADLOCK FALSE
