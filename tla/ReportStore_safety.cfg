CONSTANTS
    Limit = 1
    MaxReports = 3
    FlashFaults = TRUE
SPECIFICATION FairSpec
INVARIANTS TypeOK CountBounded NoHoles
PROPERTIES StoredSlotsStable StoreDrains DeliveryKept
