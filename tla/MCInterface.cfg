SPECIFICATION Spec
CONSTANTS
    Period = 2
    MaxPresses = 4
    Cycles <- SmallAndLarge
    MaxCycles = 2
    Half = 4
    Word = 16
    JoulePerWh = 2
    WhPerKWh = 3
    CentPerDollar = 3
    MostKWh = 1
    MostDollars = 2
INVARIANTS
    TypeOK
    OnMeansTimed
    PressShows
    ReadoutsTrue
PROPERTIES
    WakesWithTime
    EventuallyDormant
CHECK_DEADLOCK FALSE
