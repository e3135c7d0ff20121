SPECIFICATION Spec
CONSTANTS
    Byte = {0, 1}
    MaxStream = 6
INVARIANTS
    Resynchronises
CHECK_DEADLOCK FALSE
