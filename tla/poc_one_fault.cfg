SPECIFICATION FairSpec
CONSTANTS
    MaxOverlaps = 1
    MaxFaults = 1
    MaxCleanerDeaths = 1
INVARIANTS TypeOK NothingForgotten ReceiptExplained
PROPERTY CleanupRestores
CHECK_DEADLOCK FALSE
