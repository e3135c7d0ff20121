SPECIFICATION Spec
CONSTANTS
    Byte = {0, 1, 2}
    MaxStream = 10
INVARIANTS
    TypeOK
    AcceptsWhatArrived
    AlignedHeard
CHECK_DEADLOCK FALSE
