-------------------------------- MODULE Mutex --------------------------------
(***************************************************************************)
(* The kernel's mutexes (Kernel/mutex.c, the table that the system calls   *)
(* use, and _testAndSet of Kernel/asm/lock.asm).  A system call runs with  *)
(* interrupts disabled, so it is one step up to its _yield() and one step  *)
(* from there to its end.  Which ready process comes next is left open: it *)
(* is the scheduler's business (module Scheduler).                         *)
(*                                                                         *)
(* A program uses mutexes by the book: it locks an index that getMutex     *)
(* gave it and that it does not hold, and frees what it holds.  A lock of  *)
(* an index that is not in use returns at once and acquires nothing.       *)
(***************************************************************************)
EXTENDS Integers, FiniteSets

CONSTANTS
    Procs,                    \* every process that is ever created
    Names,                    \* the names programs pass to getMutex
    MAX_MUTEXES,
    MAX_BLOCKED_QUEUE_SIZE,
    NoPid,                    \* NO_BLOCKED_QUEUE_VALUE: no process
    NullName                  \* the name NULL of a cleaned mutex

ASSUME ProcsAssumption == IsFiniteSet(Procs) /\ Procs # {}

ASSUME MutexSizesAssumption ==
    /\ MAX_MUTEXES \in Nat /\ MAX_MUTEXES >= 2
    /\ MAX_BLOCKED_QUEUE_SIZE \in Nat

ASSUME NoPidAssumption == NoPid \notin Procs

ASSUME NullNameAssumption == NullName \notin Names

MutexIndex == 0..(MAX_MUTEXES - 1)
QueueSpot == 0..(MAX_BLOCKED_QUEUE_SIZE - 1)
adminMutex == 0
semaphoreMutex == 1

VARIABLES
    used, name, queue, mutex, cardinalBlocked, pidCreator,  \* by mutex index
    life,      \* "unborn", "alive" or "dead"
    state,     \* processState, as far as mutexes change it
    pc,        \* "lock", "lockFull": at the _yield of lockMutex, the
               \* process having been queued or not
    want,      \* the mutex of that call
    known,     \* the indices a program got from getMutex
    held,      \* the mutexes a program is entitled to believe it holds
    overflowed \* history, "no" or "yes": a process has met a full queue since the
               \* last restart

tableVars == <<used, name, pidCreator>>
procVars == <<life, known, overflowed>>
vars == <<used, name, queue, mutex, cardinalBlocked, pidCreator,
          life, state, pc, want, known, held, overflowed>>

-----------------------------------------------------------------------------
\* Mutant: the loop takes index 0 without looking at it.
FirstUnchecked(i, S) == i = 0

\* A loop over an array stops at the first index of S.
First(i, S) == i \in S /\ \A j \in S : i <= j

isValidMutex(m) == used[m]
isQueueFull(m) == cardinalBlocked[m] >= MAX_BLOCKED_QUEUE_SIZE
EmptySpots(m) == { i \in QueueSpot : queue[m][i] = NoPid }
Waiting(m) == QueueSpot \ EmptySpots(m)

\* Mutant: only the count is compared.
AcquirableByCount(m) == cardinalBlocked[m] = 0

\* CMPXCHG8B compares 8 bytes: the mutex and the count that follows it.
Acquirable(m) == mutex[m] = 0 /\ cardinalBlocked[m] = 0

\* changeProcessState finds a process only while it is in the ring.
StateChanged(p, st) ==
    IF p \in Procs /\ life[p] = "alive" THEN [state EXCEPT ![p] = st] ELSE state

\* A process that is in a program, and may be dispatched.
InProgram(p) == life[p] = "alive" /\ state[p] = "READY" /\ pc[p] = "user"

\* initializeMutexes, and the getMutex that initializeSemaphores begins with.
CleanTable ==
    [used |-> [m \in MutexIndex |-> m \in {adminMutex, semaphoreMutex}],
     name |-> [m \in MutexIndex |-> IF m = semaphoreMutex
                                    THEN "semaphoreMutex" ELSE NullName],
     queue |-> [m \in MutexIndex |-> [i \in QueueSpot |-> NoPid]],
     zero |-> [m \in MutexIndex |-> 0]]

Init ==
    /\ used = CleanTable.used
    /\ name = CleanTable.name
    /\ queue = CleanTable.queue
    /\ mutex = CleanTable.zero
    /\ cardinalBlocked = CleanTable.zero
    /\ pidCreator = [m \in MutexIndex |-> NoPid]
    /\ \E p \in Procs : life = [q \in Procs |-> IF q = p THEN "alive" ELSE "unborn"]
    /\ state = [p \in Procs |-> "READY"]
    /\ pc = [p \in Procs |-> "user"]
    /\ want = [p \in Procs |-> adminMutex]
    /\ known = [p \in Procs |-> {}]
    /\ held = [p \in Procs |-> {}]
    /\ overflowed = "no"

-----------------------------------------------------------------------------
(***************************************************************************)
(* lockMutex: acquire, or queue up, block and yield.                       *)
(***************************************************************************)

LockAcquire(p, m) ==
    /\ InProgram(p)
    /\ m \in known[p] \ held[p]
    /\ isValidMutex(m)
    /\ Acquirable(m)
    /\ mutex' = [mutex EXCEPT ![m] = 1]
    /\ cardinalBlocked' = [cardinalBlocked EXCEPT ![m] = 0]
    /\ held' = [held EXCEPT ![p] = @ \cup {m}]
    /\ UNCHANGED <<tableVars, procVars, queue, state, pc, want>>

LockBlock(p, m) ==
    /\ InProgram(p)
    /\ m \in known[p] \ held[p]
    /\ isValidMutex(m)
    /\ ~Acquirable(m)
    /\ ~isQueueFull(m)
    /\ IF EmptySpots(m) = {}
       THEN UNCHANGED <<queue, cardinalBlocked>>
       ELSE /\ \E i \in QueueSpot : /\ First(i, EmptySpots(m))
                                    /\ queue' = [queue EXCEPT ![m][i] = p]
            /\ cardinalBlocked' = [cardinalBlocked EXCEPT ![m] = @ + 1]
    /\ state' = StateChanged(p, "BLOCKED")
    /\ pc' = [pc EXCEPT ![p] = "lock"]
    /\ want' = [want EXCEPT ![p] = m]
    /\ UNCHANGED <<tableVars, procVars, mutex, held>>

\* The queue is full: the local pid is used without having been given a value,
\* so any process, or none, is blocked, and the caller yields.
LockQueueFull(p, m) ==
    /\ InProgram(p)
    /\ m \in known[p] \ held[p]
    /\ isValidMutex(m)
    /\ ~Acquirable(m)
    /\ isQueueFull(m)
    /\ \E pid \in Procs \cup {NoPid} : state' = StateChanged(pid, "BLOCKED")
    /\ pc' = [pc EXCEPT ![p] = "lockFull"]
    /\ want' = [want EXCEPT ![p] = m]
    /\ overflowed' = "yes"
    /\ UNCHANGED <<tableVars, life, known, queue, mutex, cardinalBlocked, held>>

\* The yield returns: so does lockMutex, as if the mutex had been acquired.
LockReturn(p) ==
    /\ life[p] = "alive"
    /\ state[p] = "READY"
    /\ pc[p] \in {"lock", "lockFull"}
    /\ pc' = [pc EXCEPT ![p] = "user"]
    /\ held' = [held EXCEPT ![p] = @ \cup {want[p]}]
    /\ UNCHANGED <<tableVars, procVars, queue, mutex, cardinalBlocked, state,
                   want>>

-----------------------------------------------------------------------------
(***************************************************************************)
(* freeMutex: the mutex goes, locked, to the first process in the queue's  *)
(* array, or becomes free.                                                 *)
(***************************************************************************)

\* Mutant: the count goes down although nobody is waiting.
FreeMiscounts(p, m) ==
    /\ InProgram(p)
    /\ m \in held[p]
    /\ held' = [held EXCEPT ![p] = @ \ {m}]
    /\ cardinalBlocked' = [cardinalBlocked EXCEPT ![m] = @ - 1]
    /\ UNCHANGED <<tableVars, procVars, queue, mutex, state, pc, want>>

\* Mutant: the mutex handed to a waiting process is unlocked as well.
FreeUnlocks(p, m) ==
    /\ InProgram(p)
    /\ m \in held[p]
    /\ held' = [held EXCEPT ![p] = @ \ {m}]
    /\ mutex' = [mutex EXCEPT ![m] = 0]
    /\ \E i \in QueueSpot : /\ First(i, Waiting(m))
                            /\ state' = StateChanged(queue[m][i], "READY")
                            /\ queue' = [queue EXCEPT ![m][i] = NoPid]
    /\ cardinalBlocked' = [cardinalBlocked EXCEPT ![m] = @ - 1]
    /\ UNCHANGED <<tableVars, procVars, pc, want>>

\* Mutant: the mutex is unlocked and nobody is woken.
FreeWakesNobody(p, m) ==
    /\ InProgram(p)
    /\ m \in held[p]
    /\ held' = [held EXCEPT ![p] = @ \ {m}]
    /\ mutex' = [mutex EXCEPT ![m] = 0]
    /\ UNCHANGED <<tableVars, procVars, queue, cardinalBlocked, state, pc, want>>

Free(p, m) ==
    /\ InProgram(p)
    /\ m \in held[p]
    /\ held' = [held EXCEPT ![p] = @ \ {m}]
    /\ IF ~isValidMutex(m)
       THEN UNCHANGED <<queue, mutex, cardinalBlocked, state>>
       ELSE IF cardinalBlocked[m] > 0
       THEN /\ IF Waiting(m) = {}
               THEN UNCHANGED <<queue, state>>
               ELSE \E i \in QueueSpot :
                        /\ First(i, Waiting(m))
                        /\ state' = StateChanged(queue[m][i], "READY")
                        /\ queue' = [queue EXCEPT ![m][i] = NoPid]
            /\ cardinalBlocked' = [cardinalBlocked EXCEPT ![m] = @ - 1]
            /\ mutex' = mutex
       ELSE /\ mutex' = [mutex EXCEPT ![m] = 0]
            /\ UNCHANGED <<queue, cardinalBlocked, state>>
    /\ UNCHANGED <<tableVars, procVars, pc, want>>

-----------------------------------------------------------------------------
(***************************************************************************)
(* getMutex and closeMutex.  getMutex holds adminMutex from its first line *)
(* to its last and does not yield in between, so the lock and its release  *)
(* cancel out.  A spot that is used again keeps the lock and the queue it  *)
(* had when it was closed.                                                 *)
(***************************************************************************)

Named(n) == { m \in MutexIndex : used[m] /\ name[m] = n }
FreeSpots == { m \in MutexIndex : ~used[m] }

GetMutex(p, n) ==
    /\ InProgram(p)
    /\ IF Named(n) # {}
       THEN /\ \E m \in MutexIndex :
                  First(m, Named(n)) /\ known' = [known EXCEPT ![p] = @ \cup {m}]
            /\ UNCHANGED tableVars
       ELSE IF FreeSpots # {}
       THEN \E m \in MutexIndex :
               /\ First(m, FreeSpots)
               /\ known' = [known EXCEPT ![p] = @ \cup {m}]
               /\ used' = [used EXCEPT ![m] = TRUE]
               /\ name' = [name EXCEPT ![m] = n]
               /\ pidCreator' = [pidCreator EXCEPT ![m] = p]
       ELSE UNCHANGED <<tableVars, known>>
    /\ UNCHANGED <<queue, mutex, cardinalBlocked, life, state, pc, want, held,
                   overflowed>>

Close(p, m) ==
    /\ InProgram(p)
    /\ m \in known[p]
    /\ isValidMutex(m)
    /\ pidCreator[m] = p
    /\ used' = [used EXCEPT ![m] = FALSE]
    /\ UNCHANGED <<name, pidCreator, procVars, queue, mutex, cardinalBlocked,
                   state, pc, want, held>>

-----------------------------------------------------------------------------
(***************************************************************************)
(* The life of processes.  removeProcess takes the process out of the ring *)
(* and does nothing about the mutexes it holds or waits for.               *)
(***************************************************************************)

Create(p) ==
    /\ life[p] = "unborn"
    /\ \E q \in Procs : InProgram(q)
    /\ life' = [life EXCEPT ![p] = "alive"]
    /\ UNCHANGED <<tableVars, queue, mutex, cardinalBlocked, state, pc, want,
                   known, held, overflowed>>

Remove(p) ==
    /\ life[p] = "alive"
    /\ \E q \in Procs : InProgram(q)
    /\ life' = [life EXCEPT ![p] = "dead"]
    /\ UNCHANGED <<tableVars, queue, mutex, cardinalBlocked, state, pc, want,
                   known, held, overflowed>>

\* restartSHELL: every process goes, the mutexes are cleaned, a shell starts.
\* The process interrupted (init is none of Procs) counts as the creator of
\* semaphoreMutex; the other creators are left as they are.
RestartShell(p) ==
    /\ life[p] = "unborn"
    /\ life' = [q \in Procs |-> IF q = p THEN "alive"
                                ELSE IF life[q] = "alive" THEN "dead"
                                ELSE life[q]]
    /\ used' = CleanTable.used
    /\ name' = CleanTable.name
    /\ queue' = CleanTable.queue
    /\ mutex' = CleanTable.zero
    /\ cardinalBlocked' = CleanTable.zero
    /\ \E q \in { x \in Procs : InProgram(x) } \cup {NoPid} :
          pidCreator' = [pidCreator EXCEPT ![semaphoreMutex] = q]
    /\ held' = [q \in Procs |-> {}]
    /\ pc' = [q \in Procs |-> "user"]
    /\ overflowed' = "no"
    /\ UNCHANGED <<state, want, known>>

-----------------------------------------------------------------------------
Use(p) ==
    \/ LockReturn(p)
    \/ \E m \in MutexIndex :
          LockAcquire(p, m) \/ LockBlock(p, m) \/ LockQueueFull(p, m)
             \/ Free(p, m) \/ Close(p, m)
    \/ \E n \in Names : GetMutex(p, n)

Next ==
    \E p \in Procs : Use(p) \/ Create(p) \/ Remove(p) \/ RestartShell(p)

Spec == Init /\ [][Next]_vars

\* Programs that close no mutex while it is locked.
NextCloseIdle ==
    Next /\ \A p \in Procs, m \in MutexIndex : Close(p, m) => mutex[m] = 0

\* Such programs, which keep no mutex for ever, and a scheduler that dispatches
\* every ready process.
FairSpec ==
    /\ Init
    /\ [][NextCloseIdle]_vars
    /\ \A p \in Procs :
          /\ WF_vars(LockReturn(p))
          /\ \A m \in MutexIndex : WF_vars(Free(p, m))

-----------------------------------------------------------------------------
(***************************************************************************)
(* Properties.                                                             *)
(***************************************************************************)

\* The type invariant.
TypeOK ==
    /\ used \in [MutexIndex -> BOOLEAN]
    /\ name \in [MutexIndex -> Names \cup {"semaphoreMutex", NullName}]
    /\ queue \in [MutexIndex -> [QueueSpot -> Procs \cup {NoPid}]]
    /\ mutex \in [MutexIndex -> {0, 1}]
    /\ cardinalBlocked \in [MutexIndex -> Nat]
    /\ pidCreator \in [MutexIndex -> Procs \cup {NoPid}]
    /\ life \in [Procs -> {"unborn", "alive", "dead"}]
    /\ state \in [Procs -> {"READY", "BLOCKED"}]
    /\ pc \in [Procs -> {"user", "lock", "lockFull"}]
    /\ want \in [Procs -> MutexIndex]
    /\ known \in [Procs -> SUBSET MutexIndex]
    /\ held \in [Procs -> SUBSET MutexIndex]
    /\ overflowed \in {"no", "yes"}

\* No two processes hold the same mutex, whoever is killed, closes the mutex,
\* reuses its index or restarts the shell in between, unless some process has
\* met a full queue.
MutualExclusion ==
    overflowed = "no" =>
        \A m \in MutexIndex : \A p, q \in Procs :
            m \in held[p] /\ m \in held[q] => p = q

\* The process that the mutex was handed to and that has not run since, or
\* that holds it.
Owns(p, m) ==
    m \in held[p] \/ (pc[p] = "lock" /\ want[p] = m /\ state[p] = "READY")

\* What freeMutex needs to find the process it wakes, as long as nobody has met
\* a full queue: a mutex is handed to one process at a time and is free only
\* when nobody owns it, and the living processes blocked in lockMutex are the
\* living ones of the queue.
WaitersAreQueued == overflowed = "no" =>
    \A m \in MutexIndex :
        /\ \A p, q \in Procs : Owns(p, m) /\ Owns(q, m) => p = q
        /\ \A p \in Procs : Owns(p, m) => mutex[m] = 1
        /\ \A p \in Procs : life[p] = "alive" =>
              ((\E i \in Waiting(m) : queue[m][i] = p) <=>
                  (pc[p] = "lock" /\ want[p] = m /\ state[p] = "BLOCKED"))

\* The bookkeeping of lockMutex, freeMutex and _testAndSet agrees, also at a
\* full queue and after kills, closing and reuse: the count is the number of
\* entries, no process is entered twice, and a free mutex has no waiters.
QueueCounts ==
    \A m \in MutexIndex :
        /\ cardinalBlocked[m] = Cardinality(Waiting(m))
        /\ \A i, j \in Waiting(m) : queue[m][i] = queue[m][j] => i = j
        /\ mutex[m] = 0 => Waiting(m) = {}

\* Where programs compete for one mutex, a process that waits for it is never
\* forgotten: it goes on, or the mutex is handed to some other waiting process,
\* or a process was removed that held the mutex or stood in its queue.  (Who
\* waits longest need not be next: the array is not a queue.)
HandedOn ==
    \A p \in Procs : \A m \in MutexIndex :
        (pc[p] = "lock" /\ want[p] = m)
            ~> \/ pc[p] # "lock"
               \/ \E q \in Procs :
                     pc[q] = "lock" /\ want[q] = m /\ state[q] = "READY"
               \/ \E q \in Procs :
                     /\ life[q] = "dead"
                     /\ \/ m \in held[q]
                        \/ pc[q] = "lock" /\ want[q] = m
=============================================================================
