SPECIFICATION Spec
CONSTANTS
    Commands <- MCLate
    FlashContents = {1}
    MaxCommands = 2
    MaxSeconds = 1
    MaxSamples = 0
    MaxCrashes = 0
PROPERTIES
    Set1KeepsHours
CHECK_DEADLOCK FALSE
