SPECIFICATION Spec
CONSTANTS
    t1 = t1
    t2 = t2
    t3 = t3
    Space = Space
    Access = Access
    Items = Items
    Threads <- MCThreads
    Semaphores <- MCSemaphores
    Priority <- MCPriority
    FIFO_SIZE = 2
    Bytes = {0, 1}
    Zero = 0
    SpaceAvailbale = Space
    BufferAccess = Access
    ItemsAvailable = Items
INVARIANTS
    TypeOK
    MutualExclusion
    NoLostWakeup
PROPERTIES
    LinearizableQueue
CHECK_DEADLOCK FALSE
