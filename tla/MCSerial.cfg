SPECIFICATION Spec
CONSTANTS
    RxSize = 1
    TxSize = 2
    PacketBytes = 2
    TextBytes = 2
    MaxIn = 4
    MaxTexts = 1
INVARIANTS
    TypeOK
    InOrder
    LosslessUnlessFull
    NothingStuck
PROPERTIES
    NoTransmitOverrun
    AllSent
CHECK_DEADLOCK FALSE
