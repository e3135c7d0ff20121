SPECIFICATION Spec
CONSTANTS
    Commands <- MCCommands
    FlashContents = {0, 2, 255}
    MaxCommands = 3
    MaxSeconds = 1
    MaxSamples = 2
    MaxCrashes = 1
INVARIANTS
    TypeOK
    ModesAgree
    PhaseSet
    PowerAsSet
    StoredTariff
    Billable
PROPERTIES
    TariffSurvives
    SetOrIgnored
CHECK_DEADLOCK FALSE
