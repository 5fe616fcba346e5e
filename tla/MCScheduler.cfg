\* init, the shell and two more processes; two threads each; a sleep table
\* with a place for every process that can sleep.  Progress is under the
\* fairness of the CPU and of the timer.
CONSTANTS
    MaxPid = 3
    MAX_THREADS = 2
    ThreadDim = 2
    MAX_LISTENERS = 3
    SleepTimes = {2}
    InterruptExit = FALSE
SPECIFICATION FairSpec
INVARIANTS
    TypeOK
    NoZombie
    RingListsLive
    InitSchedulable
    SleeperHasAlarm
    RunningIsCurrent
    CountedOncePerTick
PROPERTIES
    ReadyRuns
    SleeperWakes
    KernelReturns
