------------------------------ MODULE Semaphore ------------------------------
(***************************************************************************)
(* The kernel's semaphores (Kernel/semaphores.c).  As in module Mutex, a   *)
(* system call is one step up to its _yield() and one from there on, and   *)
(* which ready process comes next is left open.                            *)
(*                                                                         *)
(* wait locks and frees the mutex of its semaphore, and semCreate          *)
(* semaphoreMutex, without yielding in between: nobody ever finds them     *)
(* locked, except semaphoreMutex after the early return of semCreate.  That*)
(* is all of them that is kept here.  It supposes what the demos do: names *)
(* of semaphores are not used for mutexes, and the table of mutexes, twice *)
(* as large, has a place for the one of each semaphore.  A call with an    *)
(* index that is not in use returns at once.                               *)
(***************************************************************************)
EXTENDS Integers, FiniteSets

CONSTANTS
    Procs,                    \* every process that is ever created
    Names,                    \* the names programs pass to semCreate, semOpen
    Starts,                   \* the first values they pass to semCreate
    MAX_SEMAPHORES,
    MAX_BLOCKED_QUEUE_SIZE,
    MaxValue,                 \* bound: signals stop at this value
    NoPid,                    \* NO_BLOCKED_QUEUE_VALUE: no process
    NullName                  \* the name of a semaphore never created

ASSUME ProcsAssumption == IsFiniteSet(Procs) /\ Procs # {}

ASSUME SemaphoreSizesAssumption ==
    /\ MAX_SEMAPHORES \in Nat \ {0}
    /\ MAX_BLOCKED_QUEUE_SIZE \in Nat
    /\ MaxValue \in Nat
    /\ Starts \subseteq 0..MaxValue

ASSUME NoPidAssumption == NoPid \notin Procs

ASSUME NullNameAssumption == NullName \notin Names

SemIndex == 0..(MAX_SEMAPHORES - 1)
QueueSpot == 0..(MAX_BLOCKED_QUEUE_SIZE - 1)

VARIABLES
    used, name, queue, semaphore, cardinalBlocked, pidCreator,  \* by index
    semaphoreMutex,  \* "kept" after a semCreate that returned without freeing it
    life,            \* "unborn", "alive" or "dead"
    state,           \* processState, as far as semaphores change it
    pc,              \* "wait", "create": at the yield of wait, of semCreate
    want,            \* the semaphore of that wait, 0 after it
    known,           \* the indices a program got from semCreate and semOpen
    permits,         \* history: start + signals - waits that have returned
    broken           \* history: the indices whose queue has overflowed or that
                     \* were created again while a process was in their wait

tableVars == <<used, name, pidCreator, semaphoreMutex>>
countVars == <<queue, semaphore, cardinalBlocked, permits, broken>>
procVars == <<life, known>>
vars == <<tableVars, countVars, procVars, state, pc, want>>

-----------------------------------------------------------------------------
\* A loop over an array stops at the first index of S.
First(i, S) == i \in S /\ \A j \in S : i <= j

isValidSemaphore(s) == used[s]
EmptySpots(s) == { i \in QueueSpot : queue[s][i] = NoPid }
Waiting(s) == QueueSpot \ EmptySpots(s)
InQueue(p, s) == \E i \in QueueSpot : queue[s][i] = p

\* Processes, removed ones included, that have not returned from wait.
InWait(s) == { p \in Procs : pc[p] = "wait" /\ want[p] = s }

\* changeProcessState finds a process only while it is in the ring.
StateChanged(p, st) ==
    IF p \in Procs /\ life[p] = "alive" THEN [state EXCEPT ![p] = st] ELSE state

\* A process that is in a program, and may be dispatched.
InProgram(p) == life[p] = "alive" /\ state[p] = "READY" /\ pc[p] = "user"

\* A program that calls wait or signal with an index that is in use.
Calls(p, s) == InProgram(p) /\ s \in known[p] /\ isValidSemaphore(s)

CleanQueues == [s \in SemIndex |-> [i \in QueueSpot |-> NoPid]]

Init ==
    /\ used = [s \in SemIndex |-> FALSE]
    /\ name = [s \in SemIndex |-> NullName]
    /\ queue = CleanQueues
    /\ semaphore = [s \in SemIndex |-> 0]
    /\ cardinalBlocked = [s \in SemIndex |-> 0]
    /\ pidCreator = [s \in SemIndex |-> NoPid]
    /\ semaphoreMutex = "free"
    /\ \E p \in Procs : life = [q \in Procs |-> IF q = p THEN "alive" ELSE "unborn"]
    /\ state = [p \in Procs |-> "READY"]
    /\ pc = [p \in Procs |-> "user"]
    /\ want = [p \in Procs |-> 0]
    /\ known = [p \in Procs |-> {}]
    /\ permits = [s \in SemIndex |-> 0]
    /\ broken = {}

-----------------------------------------------------------------------------
(***************************************************************************)
(* wait: go on, or queue up, block and yield.                              *)
(***************************************************************************)

\* Mutant: the value is compared before it is decremented.
PassableBefore(s) == semaphore[s] >= 0

Passable(s) == semaphore[s] - 1 >= 0

WaitPass(p, s) ==
    /\ Calls(p, s)
    /\ Passable(s)
    /\ semaphore' = [semaphore EXCEPT ![s] = @ - 1]
    /\ permits' = [permits EXCEPT ![s] = @ - 1]
    /\ UNCHANGED <<tableVars, procVars, queue, cardinalBlocked, broken, state,
                   pc, want>>

\* With a full queue the caller is blocked and stands in no queue.
WaitBlock(p, s) ==
    /\ Calls(p, s)
    /\ ~Passable(s)
    /\ semaphore' = [semaphore EXCEPT ![s] = @ - 1]
    /\ IF EmptySpots(s) = {}
       THEN /\ broken' = broken \cup {s}
            /\ UNCHANGED <<queue, cardinalBlocked>>
       ELSE /\ \E i \in QueueSpot : /\ First(i, EmptySpots(s))
                                    /\ queue' = [queue EXCEPT ![s][i] = p]
            /\ cardinalBlocked' = [cardinalBlocked EXCEPT ![s] = @ + 1]
            /\ broken' = broken
    /\ state' = StateChanged(p, "BLOCKED")
    /\ pc' = [pc EXCEPT ![p] = "wait"]
    /\ want' = [want EXCEPT ![p] = s]
    /\ UNCHANGED <<tableVars, procVars, permits>>

WaitReturn(p) ==
    /\ life[p] = "alive"
    /\ state[p] = "READY"
    /\ pc[p] = "wait"
    /\ pc' = [pc EXCEPT ![p] = "user"]
    /\ want' = [want EXCEPT ![p] = 0]
    /\ permits' = [permits EXCEPT ![want[p]] = @ - 1]
    /\ UNCHANGED <<tableVars, procVars, queue, semaphore, cardinalBlocked,
                   broken, state>>

-----------------------------------------------------------------------------
(***************************************************************************)
(* signal: wake the first process in the queue's array, if the count says  *)
(* that there is one, and increment the value in any case.                 *)
(***************************************************************************)

\* Mutant: the count goes down although nobody is waiting.
SignalMiscounts(p, s) ==
    /\ Calls(p, s)
    /\ semaphore[s] < MaxValue
    /\ cardinalBlocked' = [cardinalBlocked EXCEPT ![s] = @ - 1]
    /\ semaphore' = [semaphore EXCEPT ![s] = @ + 1]
    /\ permits' = [permits EXCEPT ![s] = @ + 1]
    /\ UNCHANGED <<tableVars, procVars, queue, broken, state, pc, want>>

\* Mutant: a process is woken and stays in the queue.
SignalKeepsEntry(p, s) ==
    /\ Calls(p, s)
    /\ semaphore[s] < MaxValue
    /\ \E i \in Waiting(s) : /\ First(i, Waiting(s))
                             /\ state' = StateChanged(queue[s][i], "READY")
    /\ cardinalBlocked' = [cardinalBlocked EXCEPT ![s] = @ - 1]
    /\ semaphore' = [semaphore EXCEPT ![s] = @ + 1]
    /\ permits' = [permits EXCEPT ![s] = @ + 1]
    /\ UNCHANGED <<tableVars, procVars, queue, broken, pc, want>>

Signal(p, s) ==
    /\ Calls(p, s)
    /\ semaphore[s] < MaxValue
    /\ IF cardinalBlocked[s] > 0
       THEN /\ IF Waiting(s) = {}
               THEN UNCHANGED <<queue, state>>
               ELSE \E i \in QueueSpot :
                        /\ First(i, Waiting(s))
                        /\ state' = StateChanged(queue[s][i], "READY")
                        /\ queue' = [queue EXCEPT ![s][i] = NoPid]
            /\ cardinalBlocked' = [cardinalBlocked EXCEPT ![s] = @ - 1]
       ELSE UNCHANGED <<queue, cardinalBlocked, state>>
    /\ semaphore' = [semaphore EXCEPT ![s] = @ + 1]
    /\ permits' = [permits EXCEPT ![s] = @ + 1]
    /\ UNCHANGED <<tableVars, procVars, broken, pc, want>>

-----------------------------------------------------------------------------
(***************************************************************************)
(* semCreate, semOpen and semClose.  A spot that is used again keeps the   *)
(* queue and the count it had when it was closed.                          *)
(***************************************************************************)

Named(n) == { s \in SemIndex : used[s] /\ name[s] = n }
FreeSpots == { s \in SemIndex : ~used[s] }

\* With a table that is full nothing changes.
SemCreate(p, n, start) ==
    /\ InProgram(p)
    /\ semaphoreMutex = "free"
    /\ Named(n) = {}
    /\ \E s \in SemIndex :
          /\ First(s, FreeSpots)
          /\ used' = [used EXCEPT ![s] = TRUE]
          /\ name' = [name EXCEPT ![s] = n]
          /\ semaphore' = [semaphore EXCEPT ![s] = start]
          /\ pidCreator' = [pidCreator EXCEPT ![s] = p]
          /\ known' = [known EXCEPT ![p] = @ \cup {s}]
          /\ permits' = [permits EXCEPT ![s] = start]
          /\ broken' = IF InWait(s) = {} THEN broken \ {s} ELSE broken \cup {s}
    /\ UNCHANGED <<semaphoreMutex, queue, cardinalBlocked, life, state, pc, want>>

\* The name exists: semCreate returns ERROR and keeps semaphoreMutex.
SemCreateFails(p, n) ==
    /\ InProgram(p)
    /\ semaphoreMutex = "free"
    /\ Named(n) # {}
    /\ semaphoreMutex' = "kept"
    /\ UNCHANGED <<used, name, pidCreator, countVars, procVars, state, pc, want>>

\* From then on semCreate blocks in lockMutex(semaphoreMutex).  Bound: no more
\* callers than its queue holds (what follows is module Mutex's LockQueueFull).
SemCreateBlocks(p) ==
    /\ InProgram(p)
    /\ semaphoreMutex = "kept"
    /\ Cardinality({ q \in Procs : pc[q] = "create" }) < MAX_BLOCKED_QUEUE_SIZE
    /\ state' = StateChanged(p, "BLOCKED")
    /\ pc' = [pc EXCEPT ![p] = "create"]
    /\ UNCHANGED <<tableVars, countVars, procVars, want>>

SemOpen(p, n) ==
    /\ InProgram(p)
    /\ \E s \in SemIndex :
          First(s, Named(n)) /\ known' = [known EXCEPT ![p] = @ \cup {s}]
    /\ UNCHANGED <<tableVars, countVars, life, state, pc, want>>

SemClose(p, s) ==
    /\ Calls(p, s)
    /\ pidCreator[s] = p
    /\ used' = [used EXCEPT ![s] = FALSE]
    /\ UNCHANGED <<name, pidCreator, semaphoreMutex, countVars, procVars, state,
                   pc, want>>

-----------------------------------------------------------------------------
(***************************************************************************)
(* The life of processes.  removeProcess does nothing about the semaphores *)
(* that the process waits for.                                             *)
(***************************************************************************)

Create(p) ==
    /\ life[p] = "unborn"
    /\ life' = [life EXCEPT ![p] = "alive"]
    /\ UNCHANGED <<tableVars, countVars, known, state, pc, want>>

Remove(p) ==
    /\ life[p] = "alive"
    /\ life' = [life EXCEPT ![p] = "dead"]
    /\ UNCHANGED <<tableVars, countVars, known, state, pc, want>>

\* restartSHELL: every process goes, initializeMutexes and
\* initializeSemaphores clean the tables, a shell starts.
RestartShell(p) ==
    /\ life[p] = "unborn"
    /\ life' = [q \in Procs |-> IF q = p THEN "alive"
                                ELSE IF life[q] = "alive" THEN "dead"
                                ELSE life[q]]
    /\ used' = [s \in SemIndex |-> FALSE]
    /\ queue' = CleanQueues
    /\ semaphore' = [s \in SemIndex |-> 0]
    /\ cardinalBlocked' = [s \in SemIndex |-> 0]
    /\ semaphoreMutex' = "free"
    /\ pc' = [q \in Procs |-> "user"]
    /\ want' = [q \in Procs |-> 0]
    /\ broken' = {}
    /\ UNCHANGED <<name, pidCreator, known, permits, state>>

Use(p) ==
    \/ WaitReturn(p)
    \/ \E s \in SemIndex :
          WaitPass(p, s) \/ WaitBlock(p, s) \/ Signal(p, s) \/ SemClose(p, s)
    \/ \E n \in Names : SemCreateFails(p, n) \/ SemOpen(p, n)
    \/ \E n \in Names, start \in Starts : SemCreate(p, n, start)
    \/ SemCreateBlocks(p)

Next ==
    \E p \in Procs :
        \/ Use(p)
        \/ (Create(p) \/ Remove(p)) /\ \E q \in Procs : InProgram(q)
        \/ RestartShell(p)

Spec == Init /\ [][Next]_vars

-----------------------------------------------------------------------------
(***************************************************************************)
(* Properties.                                                             *)
(***************************************************************************)

\* The type invariant.
TypeOK ==
    /\ used \in [SemIndex -> BOOLEAN]
    /\ name \in [SemIndex -> Names \cup {NullName}]
    /\ queue \in [SemIndex -> [QueueSpot -> Procs \cup {NoPid}]]
    /\ semaphore \in [SemIndex -> Int]
    /\ cardinalBlocked \in [SemIndex -> Nat]
    /\ pidCreator \in [SemIndex -> Procs \cup {NoPid}]
    /\ semaphoreMutex \in {"free", "kept"}
    /\ life \in [Procs -> {"unborn", "alive", "dead"}]
    /\ state \in [Procs -> {"READY", "BLOCKED"}]
    /\ pc \in [Procs -> {"user", "wait", "create"}]
    /\ want \in [Procs -> SemIndex]
    /\ known \in [Procs -> SUBSET SemIndex]
    /\ permits \in [SemIndex -> Int]
    /\ broken \in SUBSET SemIndex

\* What signal relies on to find the process it wakes: the value, the count and
\* the queue agree, and the living processes blocked in wait are the living
\* ones of the queue, whoever was killed while waiting.
QueueMatchesValue ==
    \A s \in SemIndex : used[s] /\ s \notin broken =>
        /\ cardinalBlocked[s] = Cardinality(Waiting(s))
        /\ cardinalBlocked[s] = IF semaphore[s] < 0 THEN -semaphore[s] ELSE 0
        /\ \A p \in Procs : life[p] = "alive" =>
              (InQueue(p, s) <=> (p \in InWait(s) /\ state[p] = "BLOCKED"))

\* No permit is invented: what was granted and not used is what the value shows
\* or what was handed to a process that has not run since.  In particular never
\* more waits return than start and signals allow (permits is not negative),
\* also when a waiting process is killed, whose permit is lost.
PermitsAccounted ==
    \A s \in SemIndex : used[s] /\ s \notin broken =>
        permits[s] = (IF semaphore[s] > 0 THEN semaphore[s] ELSE 0)
                     + Cardinality({ p \in InWait(s) : ~InQueue(p, s) })
=============================================================================
