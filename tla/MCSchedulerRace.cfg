\* One thread per process; interrupts may hit a process that is ending.
CONSTANTS
    MaxPid = 3
    MAX_THREADS = 1
    ThreadDim = 1
    MAX_LISTENERS = 3
    SleepTimes = {1}
    InterruptExit = TRUE
SPECIFICATION Spec
INVARIANT ListHasAllProcesses
