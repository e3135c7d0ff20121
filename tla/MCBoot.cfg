SPECIFICATION Spec
CONSTANTS
    FIFO_SIZE = 256
    MaxBytes = 3
    MaxTicks = 2
    MaxPresses = 2
INVARIANTS
    TypeOK
    HandsOver
    BytesServed
CHECK_DEADLOCK FALSE
