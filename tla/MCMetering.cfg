SPECIFICATION Spec
CONSTANTS
    ARRAY_SIZE = 2
    NB_ITERATIONS = 14
    HalfCycle = 7
    InitialDiff = 25
    Readings <- MCReadings
    Rates = {1, 2}
    InitialRate = 1
    JOULE_PER_KWH = 3
    MaxTicks = 4
    MaxChanges = 1
INVARIANTS
    TypeOK
    EveryTickCounted
    EnergyExact
PROPERTIES
    NeverDecreases
    CaughtUp
CHECK_DEADLOCK FALSE
