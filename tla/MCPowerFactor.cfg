SPECIFICATION Spec
CONSTANTS
    ARRAY_SIZE = 2
    NB_ITERATIONS = 14
    HalfCycle = 7
    InitialDiff = 25
    Readings <- MCHalfLoad
    Rates = {1}
    InitialRate = 1
    JOULE_PER_KWH = 3
    MaxTicks = 2
    MaxChanges = 0
INVARIANTS
    PowerFactorAtMostOne
CHECK_DEADLOCK FALSE
