\* Programs that compete for one mutex.
CONSTANTS
    Procs = {p1, p2, p3}
    Names = {"a"}
    MAX_MUTEXES = 3
    MAX_BLOCKED_QUEUE_SIZE = 3
    NoPid = NoPid
    NullName = NullName
SPECIFICATION FairSpec
CHECK_DEADLOCK FALSE
PROPERTY HandedOn
