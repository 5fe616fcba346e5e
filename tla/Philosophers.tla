---------------------------- MODULE Philosophers ----------------------------
(***************************************************************************)
(* The dining philosophers demo (Userland/dummy/dummy.c) on the kernel's   *)
(* mutexes and semaphores.  All philosophers share the array state[] and   *)
(* the mutex "mutexp"; they are preempted between any two accesses to the  *)
(* array, and how long their sleep() takes is left open.  The model begins *)
(* where dPhilosphers calls createThreads: the mutex and the semaphores    *)
(* "0" to "4", all with value 0, exist.  The main program is none of Procs.*)
(*                                                                         *)
(* createThreads casts the array of pointers to semaphore numbers to an    *)
(* array of numbers: a philosopher reads half a pointer as the number of   *)
(* its semaphore, which is 0 for 1 and 3 and no semaphore at all for 0, 2  *)
(* and 4, whose waits and signals return at once and are left out.         *)
(***************************************************************************)
EXTENDS Mutex

CONSTANTS
    DEFAULTP,        \* the number of philosophers
    Garbage,         \* what an element of state[] may hold before it is written
    MAX_SEMAPHORES,
    MaxValue         \* bound: more than semaphore "0" ever reaches

Meals == {"THINKING", "HUNGRY", "EATING"}

\* testP takes number + 4 for the left neighbour, which is right for five only.
ASSUME PhilosophersAssumption ==
    /\ DEFAULTP = 5
    /\ Procs = 0..(DEFAULTP - 1)
    /\ Garbage # {} /\ Garbage \subseteq Meals
    /\ MAX_SEMAPHORES \in Nat /\ MAX_SEMAPHORES >= DEFAULTP
    /\ MAX_MUTEXES >= 3
    /\ MAX_BLOCKED_QUEUE_SIZE >= DEFAULTP - 1

VARIABLES
    semUsed, semName, semQueue, semaphore, semBlocked, semCreator, semMutex,
    semKnown, permits, broken,   \* of module Semaphore
    philState,                   \* the array state[]
    at,                          \* where a philosopher is
    number                       \* the argument of its call of testP

Sem == INSTANCE Semaphore
    WITH Names <- {}, Starts <- {0},
         used <- semUsed, name <- semName, queue <- semQueue,
         cardinalBlocked <- semBlocked, pidCreator <- semCreator,
         semaphoreMutex <- semMutex, known <- semKnown

semVars == <<semUsed, semName, semQueue, semaphore, semBlocked, semCreator,
             semMutex, semKnown, permits, broken>>
allVars == <<vars, semVars, philState, at, number>>

\* The mutexes 0 and 1 are adminMutex and semaphoreMutex.
mutexp == 2

Left(k) == (k + 4) % DEFAULTP
Right(k) == (k + 1) % DEFAULTP

\* The semaphores that *(sems + k) names.
SemOf(k) == IF k % 2 = 1 THEN {0} ELSE {}

PhilInit ==
    /\ used = [m \in MutexIndex |-> TRUE]
    /\ name = [m \in MutexIndex |-> NullName]
    /\ queue = CleanTable.queue
    /\ mutex = CleanTable.zero
    /\ cardinalBlocked = CleanTable.zero
    /\ pidCreator = [m \in MutexIndex |-> NoPid]
    /\ life = [p \in Procs |-> "unborn"]
    /\ state = [p \in Procs |-> "READY"]
    /\ pc = [p \in Procs |-> "user"]
    /\ want = [p \in Procs |-> mutexp]
    /\ known = [p \in Procs |-> {mutexp}]
    /\ held = [p \in Procs |-> {}]
    /\ overflowed = "no"
    /\ semUsed = [s \in Sem!SemIndex |-> s < DEFAULTP]
    /\ semName = [s \in Sem!SemIndex |-> NullName]
    /\ semQueue = Sem!CleanQueues
    /\ semaphore = [s \in Sem!SemIndex |-> 0]
    /\ semBlocked = [s \in Sem!SemIndex |-> 0]
    /\ semCreator = [s \in Sem!SemIndex |-> NoPid]
    /\ semMutex = "free"
    /\ semKnown = [p \in Procs |-> {0}]
    /\ permits = [s \in Sem!SemIndex |-> 0]
    /\ broken = {}
    /\ philState \in [Procs -> Garbage]
    /\ at = [p \in Procs |-> "new"]
    /\ number = [p \in Procs |-> p]

-----------------------------------------------------------------------------
(***************************************************************************)
(* The steps of a program: to the next line, in the mutex library, in the  *)
(* semaphore library, or on state[].                                       *)
(***************************************************************************)

Goto(p, from, to) ==
    /\ at[p] = from
    /\ at' = [at EXCEPT ![p] = to]

CallMutex(A) == A /\ UNCHANGED <<semVars, philState>>

CallSem(A) ==
    /\ A
    /\ UNCHANGED <<used, name, queue, mutex, cardinalBlocked, pidCreator, known,
                   held, overflowed, philState>>

LocalStep(p) == InProgram(p) /\ UNCHANGED <<vars, semVars, philState>>

Write(p, k, s) ==
    /\ InProgram(p)
    /\ philState' = [philState EXCEPT ![k] = s]
    /\ UNCHANGED <<vars, semVars>>

\* lockMutex, freeMutex, wait and signal as the program calls them.
Lock(p) == CallMutex(LockAcquire(p, mutexp) \/ LockBlock(p, mutexp))

Unlock(p) == CallMutex(Free(p, mutexp))

\* Mutant: a wait that takes nothing.
WaitSkipped(p) == LocalStep(p)

WaitOwn(p) ==
    \E s \in SemOf(p) : CallSem(Sem!WaitPass(p, s) \/ Sem!WaitBlock(p, s))

SignalOf(p, k) == \E s \in SemOf(k) : CallSem(Sem!Signal(p, s))

-----------------------------------------------------------------------------
(***************************************************************************)
(* testP(number): a hungry philosopher whose neighbours do not eat, eats.  *)
(* take_fork calls it with the caller's number, put_fork with the numbers  *)
(* of the left and then of the right neighbour.                            *)
(***************************************************************************)

\* Mutant: the right neighbour is not looked at.
CanEatLeftOnly(k) == philState[k] = "HUNGRY" /\ philState[Left(k)] # "EATING"

CanEat(k) ==
    /\ philState[k] = "HUNGRY"
    /\ philState[Left(k)] # "EATING"
    /\ philState[Right(k)] # "EATING"

\* Where the caller goes on, and with which number.
AfterTest(p) == IF number[p] = p THEN "freeTake"
                ELSE IF number[p] = Left(p) THEN "test" ELSE "freePut"

NextNumber(p) == IF number[p] = Left(p) THEN Right(p) ELSE p

LeaveTest(p, from) ==
    /\ Goto(p, from, AfterTest(p))
    /\ number' = [number EXCEPT ![p] = NextNumber(p)]

\* The check of testP; Eat is the write of EATING, and sleep(10) comes after it.
TestYes(p) ==
    /\ Goto(p, "test", "eat")
    /\ CanEat(number[p])
    /\ LocalStep(p)
    /\ UNCHANGED number

TestNo(p) ==
    /\ ~CanEat(number[p])
    /\ LeaveTest(p, "test")
    /\ LocalStep(p)

Eat(p) ==
    /\ IF SemOf(number[p]) = {}
       THEN LeaveTest(p, "eat")
       ELSE Goto(p, "eat", "signal") /\ UNCHANGED number
    /\ Write(p, number[p], "EATING")

\* Mutant: whoever was made to eat by a neighbour is not told.
SignalOwnOnly(p) ==
    /\ LeaveTest(p, "signal")
    /\ IF number[p] = p THEN SignalOf(p, p) ELSE LocalStep(p)

SignalTested(p) ==
    /\ LeaveTest(p, "signal")
    /\ SignalOf(p, number[p])

testP(p) == TestYes(p) \/ TestNo(p) \/ Eat(p) \/ SignalTested(p)

-----------------------------------------------------------------------------
(***************************************************************************)
(* take_fork and put_fork.                                                 *)
(***************************************************************************)

TakeLock(p) == Goto(p, "take", "hungry") /\ Lock(p) /\ UNCHANGED number

Hungry(p) ==
    /\ Goto(p, "hungry", "test")
    /\ Write(p, p, "HUNGRY")
    /\ UNCHANGED number

TakeFree(p) ==
    /\ Goto(p, "freeTake", IF SemOf(p) = {} THEN "put" ELSE "wait")
    /\ Unlock(p)
    /\ UNCHANGED number

Wait(p) == Goto(p, "wait", "put") /\ WaitOwn(p) /\ UNCHANGED number

take_fork(p) == TakeLock(p) \/ Hungry(p) \/ TakeFree(p) \/ Wait(p)

PutLock(p) == Goto(p, "put", "think") /\ Lock(p) /\ UNCHANGED number

Think(p) ==
    /\ Goto(p, "think", "test")
    /\ Write(p, p, "THINKING")
    /\ number' = [number EXCEPT ![p] = Left(p)]

PutFree(p) == Goto(p, "freePut", "take") /\ Unlock(p) /\ UNCHANGED number

put_fork(p) == PutLock(p) \/ Think(p) \/ PutFree(p)

\* lockMutex and wait return from their _yield().
Return(p) ==
    /\ \/ CallMutex(LockReturn(p))
       \/ CallSem(Sem!WaitReturn(p))
    /\ UNCHANGED <<at, number>>

philospher(p) == take_fork(p) \/ testP(p) \/ put_fork(p) \/ Return(p)

\* createThreads creates them in order, while the first ones already run.
createThreads(p) ==
    /\ life[p] = "unborn"
    /\ \A q \in Procs : q < p => life[q] = "alive"
    /\ life' = [life EXCEPT ![p] = "alive"]
    /\ Goto(p, "new", "take")
    /\ UNCHANGED <<used, name, queue, mutex, cardinalBlocked, pidCreator, state,
                   pc, want, known, held, overflowed, semVars, philState, number>>

PhilNext == \E p \in Procs : philospher(p) \/ createThreads(p)

PhilSpec == PhilInit /\ [][PhilNext]_allVars

-----------------------------------------------------------------------------
(***************************************************************************)
(* Properties.                                                             *)
(***************************************************************************)

Labels == {"new", "take", "hungry", "test", "eat", "signal", "freeTake", "wait",
           "put", "think", "freePut"}

\* The type invariant; the bound of the semaphore is never reached.
PhilTypeOK ==
    /\ philState \in [Procs -> Meals]
    /\ at \in [Procs -> Labels]
    /\ number \in [Procs -> Procs]
    /\ \A s \in Sem!SemIndex : semaphore[s] \in (-DEFAULTP)..(MaxValue - 1)

\* A philosopher between its first write to state[] in a round and its last.
Begun(p) == at[p] \notin {"new", "take", "hungry"}

\* Two neighbours never eat at the same time, although testP writes the state of
\* philosophers other than its caller, who may be preempted between the check and
\* the write.  Only the garbage that an element of state[] holds before its
\* philosopher first writes it is excepted.
NeighboursDontEat ==
    \A p \in Procs : philState[p] = "EATING" /\ philState[Right(p)] = "EATING"
        => ~Begun(p) \/ ~Begun(Right(p))

Stuck(p) == pc[p] = "wait" /\ state[p] = "BLOCKED" /\ philState[p] = "EATING"

\* Philosophers 1 and 3 wait at the same semaphore, so that either may be woken
\* by the signal meant for the other.  Still they never both wait for a signal
\* while both are taken to eat, when no testP would ever signal it again (between
\* the write of EATING and the signal of testP they may).
NotBothStuck ==
    (\A r \in Procs : at[r] # "signal")
        => \A p, q \in Procs : Stuck(p) /\ Stuck(q) => p = q
=============================================================================
