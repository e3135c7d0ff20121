SPECIFICATION Spec
CONSTANTS
    ARRAY_SIZE = 4
    NB_ITERATIONS = 25
    HalfCycle = 7
    InitialDiff = 2
    Base = 38
    HalfPeriods <- MCHalfPeriods
    Phases <- MCPhases
    Amplitudes = {0, 40, 7500}
    Ratio = 100
    MaxChanges = 1
    MaxZeros = 1
INVARIANTS
    TypeOK
    WindowSum
    RmsSettles
    DiffTracks
PROPERTIES
    Locks
CHECK_DEADLOCK FALSE
