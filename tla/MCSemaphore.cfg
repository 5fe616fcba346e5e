\* Four processes, a queue for two of them, one semaphore under two names.
CONSTANTS
    Procs = {p1, p2, p3, p4}
    Names = {"a", "b"}
    Starts = {0, 1}
    MAX_SEMAPHORES = 1
    MAX_BLOCKED_QUEUE_SIZE = 2
    MaxValue = 2
    NoPid = NoPid
    NullName = NullName
SYMMETRY Symmetry
SPECIFICATION Spec
CHECK_DEADLOCK FALSE
INVARIANTS
    TypeOK
    QueueMatchesValue
    PermitsAccounted
