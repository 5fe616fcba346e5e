\* Five processes, a queue that holds three of them, one index for two names.
CONSTANTS
    Procs = {p1, p2, p3, p4, p5}
    Names = {"a", "b"}
    MAX_MUTEXES = 3
    MAX_BLOCKED_QUEUE_SIZE = 3
    NoPid = NoPid
    NullName = NullName
SYMMETRY Symmetry
SPECIFICATION Spec
CHECK_DEADLOCK FALSE
INVARIANTS
    TypeOK
    MutualExclusion
    WaitersAreQueued
    QueueCounts
