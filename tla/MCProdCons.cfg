\* Three processes, one of them killed and another started, a buffer of two.
CONSTANTS
    Procs = {1, 2, 3}
    Names = {"itemMutex", "fullCount", "emptyCount"}
    Starts = {0, 1}
    MAX_SEMAPHORES = 3
    MAX_BLOCKED_QUEUE_SIZE = 3
    MaxValue = 3
    NoPid = 0
    NullName = NullName
    bufferSize = 2
    CharRange = 2
    MAX_PRODUCER = 2
    MAX_CONSUMER = 2
SPECIFICATION ProdSpec
CHECK_DEADLOCK FALSE
INVARIANTS
    ProdTypeOK
    OneInside
PROPERTIES
    IsABoundedBuffer
    KeepsMoving
