SPECIFICATION Spec
CONSTANTS
    RxSize = 1
    TxSize = 2
    PacketBytes = 2
    TextBytes = 2
    MaxIn = 2
    MaxTexts = 1
INVARIANTS
    PacketContiguous
CHECK_DEADLOCK FALSE
