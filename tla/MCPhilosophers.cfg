\* The five philosophers of the demo; state[] starts with THINKING everywhere.
CONSTANTS
    Procs = {0, 1, 2, 3, 4}
    Names = {}
    MAX_MUTEXES = 3
    MAX_BLOCKED_QUEUE_SIZE = 4
    NoPid = NoPid
    NullName = NullName
    DEFAULTP = 5
    Garbage = {"THINKING"}
    MAX_SEMAPHORES = 5
    MaxValue = 3
SPECIFICATION PhilSpec
INVARIANTS
    PhilTypeOK
    NeighboursDontEat
    NotBothStuck
