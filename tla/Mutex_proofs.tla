---------------------------- MODULE Mutex_proofs ----------------------------
(***************************************************************************)
(* Mutual exclusion of the kernel's mutexes, for any number of processes,  *)
(* names and mutexes, until some process meets a full queue.               *)
(***************************************************************************)
EXTENDS Mutex, FiniteSetTheorems, TLAPS

-----------------------------------------------------------------------------
(***************************************************************************)
(* Type correctness.                                                       *)
(***************************************************************************)

\* The constants name distinct mutexes of the table.
LEMMA Indices == adminMutex \in MutexIndex /\ semaphoreMutex \in MutexIndex
BY MutexSizesAssumption DEF MutexIndex, adminMutex, semaphoreMutex

\* changeProcessState leaves a function from processes to states.
LEMMA StateChangedType ==
    ASSUME state \in [Procs -> {"READY", "BLOCKED"}],
           NEW p, NEW st \in {"READY", "BLOCKED"}
    PROVE  StateChanged(p, st) \in [Procs -> {"READY", "BLOCKED"}]
BY DEF StateChanged

\* So does writing one entry of a queue.
LEMMA EntryWrittenType ==
    ASSUME queue \in [MutexIndex -> [QueueSpot -> Procs \cup {NoPid}]],
           NEW m \in MutexIndex, NEW i \in QueueSpot,
           NEW x \in Procs \cup {NoPid}
    PROVE  [queue EXCEPT ![m][i] = x]
               \in [MutexIndex -> [QueueSpot -> Procs \cup {NoPid}]]
<1>1. [queue[m] EXCEPT ![i] = x] \in [QueueSpot -> Procs \cup {NoPid}]
  OBVIOUS
<1> QED BY <1>1

(***************************************************************************)
(* The cases of lockMutex's queueing and of freeMutex, each with what it   *)
(* writes.                                                                 *)
(***************************************************************************)

Queued(p, m, i) ==
    /\ i \in QueueSpot
    /\ queue[m][i] = NoPid
    /\ queue' = [queue EXCEPT ![m][i] = p]
    /\ cardinalBlocked' = [cardinalBlocked EXCEPT ![m] = @ + 1]

HandedTo(m, i) ==
    /\ i \in QueueSpot
    /\ queue[m][i] # NoPid
    /\ state' = StateChanged(queue[m][i], "READY")
    /\ queue' = [queue EXCEPT ![m][i] = NoPid]
    /\ cardinalBlocked' = [cardinalBlocked EXCEPT ![m] = @ - 1]
    /\ mutex' = mutex

LEMMA BlockCases ==
    ASSUME NEW p, NEW m, LockBlock(p, m)
    PROVE  \/ EmptySpots(m) = {} /\ queue' = queue
                /\ cardinalBlocked' = cardinalBlocked
           \/ \E i \in QueueSpot : Queued(p, m, i)
<1>1. CASE EmptySpots(m) = {}
  BY <1>1 DEF LockBlock
<1>2. CASE EmptySpots(m) # {}
  <2>1. PICK i \in QueueSpot : /\ First(i, EmptySpots(m))
                               /\ queue' = [queue EXCEPT ![m][i] = p]
    BY <1>2 DEF LockBlock
  <2>2. cardinalBlocked' = [cardinalBlocked EXCEPT ![m] = @ + 1]
    BY <1>2 DEF LockBlock
  <2>3. queue[m][i] = NoPid
    BY <2>1 DEF First, EmptySpots
  <2> QED BY <2>1, <2>2, <2>3 DEF Queued
<1> QED BY <1>1, <1>2

LEMMA FreeCases ==
    ASSUME NEW p, NEW m, Free(p, m)
    PROVE  \/ ~used[m] /\ UNCHANGED <<queue, mutex, cardinalBlocked, state>>
           \/ /\ cardinalBlocked[m] > 0
              /\ \/ /\ Waiting(m) = {}
                    /\ UNCHANGED <<queue, state, mutex>>
                    /\ cardinalBlocked' = [cardinalBlocked EXCEPT ![m] = @ - 1]
                 \/ \E i \in QueueSpot : HandedTo(m, i)
           \/ /\ ~(cardinalBlocked[m] > 0)
              /\ mutex' = [mutex EXCEPT ![m] = 0]
              /\ UNCHANGED <<queue, cardinalBlocked, state>>
<1>1. CASE ~used[m]
  BY <1>1 DEF Free, isValidMutex
<1>2. CASE used[m] /\ ~(cardinalBlocked[m] > 0)
  BY <1>2 DEF Free, isValidMutex
<1>3. CASE used[m] /\ cardinalBlocked[m] > 0 /\ Waiting(m) = {}
  BY <1>3 DEF Free, isValidMutex
<1>4. CASE used[m] /\ cardinalBlocked[m] > 0 /\ Waiting(m) # {}
  <2>1. PICK i \in QueueSpot : /\ First(i, Waiting(m))
                               /\ state' = StateChanged(queue[m][i], "READY")
                               /\ queue' = [queue EXCEPT ![m][i] = NoPid]
    BY <1>4 DEF Free, isValidMutex
  <2>2. /\ cardinalBlocked' = [cardinalBlocked EXCEPT ![m] = @ - 1]
        /\ mutex' = mutex
    BY <1>4 DEF Free, isValidMutex
  <2>3. queue[m][i] # NoPid
    BY <2>1 DEF First, Waiting, EmptySpots
  <2> QED BY <1>4, <2>1, <2>2, <2>3 DEF HandedTo
<1> QED BY <1>1, <1>2, <1>3, <1>4

\* Whatever a program does with mutexes, the variables keep their types.
LEMMA UseType ==
    ASSUME TypeOK, NEW p \in Procs, Use(p)
    PROVE  TypeOK'
<1> USE DEF TypeOK, tableVars, procVars
<1>1. CASE LockReturn(p)
  BY <1>1 DEF LockReturn
<1>2. ASSUME NEW m \in MutexIndex, LockAcquire(p, m) PROVE TypeOK'
  BY <1>2 DEF LockAcquire
<1>3. ASSUME NEW m \in MutexIndex, LockBlock(p, m) PROVE TypeOK'
  <2>1. state' \in [Procs -> {"READY", "BLOCKED"}]
    BY <1>3, StateChangedType DEF LockBlock
  <2>2. /\ queue' \in [MutexIndex -> [QueueSpot -> Procs \cup {NoPid}]]
        /\ cardinalBlocked' \in [MutexIndex -> Nat]
    <3>1. CASE queue' = queue /\ cardinalBlocked' = cardinalBlocked
      BY <3>1
    <3>2. ASSUME NEW i \in QueueSpot, Queued(p, m, i)
          PROVE  /\ queue' \in [MutexIndex -> [QueueSpot -> Procs \cup {NoPid}]]
                 /\ cardinalBlocked' \in [MutexIndex -> Nat]
      BY <3>2, EntryWrittenType DEF Queued
    <3> QED BY <1>3, <3>1, <3>2, BlockCases
  <2> QED BY <1>3, <2>1, <2>2 DEF LockBlock
<1>4. ASSUME NEW m \in MutexIndex, LockQueueFull(p, m) PROVE TypeOK'
  <2>1. state' \in [Procs -> {"READY", "BLOCKED"}]
    BY <1>4, StateChangedType DEF LockQueueFull
  <2> QED BY <1>4, <2>1 DEF LockQueueFull
<1>5. ASSUME NEW m \in MutexIndex, Free(p, m) PROVE TypeOK'
  <2> DEFINE Types == /\ state \in [Procs -> {"READY", "BLOCKED"}]
                      /\ queue \in [MutexIndex -> [QueueSpot -> Procs \cup {NoPid}]]
                      /\ cardinalBlocked \in [MutexIndex -> Nat]
                      /\ mutex \in [MutexIndex -> {0, 1}]
  <2>1. ASSUME UNCHANGED <<queue, mutex, cardinalBlocked, state>>
        PROVE  Types'
    BY <2>1
  <2>2. ASSUME cardinalBlocked[m] > 0,
               UNCHANGED <<queue, state, mutex>>,
               cardinalBlocked' = [cardinalBlocked EXCEPT ![m] = @ - 1]
        PROVE  Types'
    <3>1. cardinalBlocked[m] - 1 \in Nat
      BY <2>2
    <3> QED BY <2>2, <3>1
  <2>3. ASSUME NEW i \in QueueSpot, cardinalBlocked[m] > 0, HandedTo(m, i)
        PROVE  Types'
    <3>1. cardinalBlocked[m] - 1 \in Nat
      BY <2>3
    <3>2. cardinalBlocked' \in [MutexIndex -> Nat]
      BY <2>3, <3>1 DEF HandedTo
    <3> QED BY <2>3, <3>2, EntryWrittenType, StateChangedType DEF HandedTo
  <2>4. ASSUME mutex' = [mutex EXCEPT ![m] = 0],
               UNCHANGED <<queue, cardinalBlocked, state>>
        PROVE  Types'
    BY <2>4
  <2>5. Types'
    BY <1>5, <2>1, <2>2, <2>3, <2>4, FreeCases
  <2> QED BY <1>5, <2>5 DEF Free
<1>6. ASSUME NEW m \in MutexIndex, Close(p, m) PROVE TypeOK'
  BY <1>6 DEF Close
<1>7. ASSUME NEW n \in Names, GetMutex(p, n) PROVE TypeOK'
  <2>1. /\ used' \in [MutexIndex -> BOOLEAN]
        /\ name' \in [MutexIndex -> Names \cup {"semaphoreMutex", NullName}]
        /\ pidCreator' \in [MutexIndex -> Procs \cup {NoPid}]
        /\ known' \in [Procs -> SUBSET MutexIndex]
    <3>1. CASE Named(n) # {}
      BY <1>7, <3>1 DEF GetMutex
    <3>2. CASE Named(n) = {} /\ FreeSpots # {}
      <4>1. PICK m \in MutexIndex :
               /\ known' = [known EXCEPT ![p] = @ \cup {m}]
               /\ used' = [used EXCEPT ![m] = TRUE]
               /\ name' = [name EXCEPT ![m] = n]
               /\ pidCreator' = [pidCreator EXCEPT ![m] = p]
        BY <1>7, <3>2 DEF GetMutex
      <4>2. known' \in [Procs -> SUBSET MutexIndex]
        BY <4>1
      <4>3. used' \in [MutexIndex -> BOOLEAN]
        BY <4>1
      <4>4. name' \in [MutexIndex -> Names \cup {"semaphoreMutex", NullName}]
        BY <4>1
      <4> QED BY <4>1, <4>2, <4>3, <4>4
    <3>3. CASE Named(n) = {} /\ FreeSpots = {}
      BY <1>7, <3>3 DEF GetMutex
    <3> QED BY <3>1, <3>2, <3>3
  <2> QED BY <1>7, <2>1 DEF GetMutex
<1> QED BY <1>1, <1>2, <1>3, <1>4, <1>5, <1>6, <1>7 DEF Use

LEMMA NextType ==
    ASSUME TypeOK, [Next]_vars
    PROVE  TypeOK'
<1>1. ASSUME NEW p \in Procs, Use(p) PROVE TypeOK'
  BY <1>1, UseType
<1>2. ASSUME NEW p \in Procs, Create(p) \/ Remove(p) PROVE TypeOK'
  BY <1>2 DEF TypeOK, Create, Remove, tableVars
<1>3. ASSUME NEW p \in Procs, RestartShell(p) PROVE TypeOK'
  BY <1>3, Indices DEF TypeOK, RestartShell, CleanTable
<1>4. CASE UNCHANGED vars
  BY <1>4 DEF TypeOK, vars
<1> QED BY <1>1, <1>2, <1>3, <1>4 DEF Next

\* The variables of mutex.c and of its callers always have their types.
THEOREM TypeCorrect == Spec => []TypeOK
<1>1. Init => TypeOK
  BY Indices DEF Init, TypeOK, CleanTable
<1> QED BY <1>1, NextType, PTL DEF Spec

-----------------------------------------------------------------------------
(***************************************************************************)
(* The bookkeeping of the queue.  QueueCounts is not inductive: that no    *)
(* process is entered twice needs to know that a process in the queue is   *)
(* still at the yield of its lockMutex.                                    *)
(***************************************************************************)

Entries ==
    \A m \in MutexIndex : \A i \in Waiting(m) :
        /\ pc[queue[m][i]] = "lock"
        /\ want[queue[m][i]] = m
        /\ state[queue[m][i]] = "BLOCKED"

QueueInv == TypeOK /\ Entries /\ QueueCounts

\* A queue is finite and what stands in it are processes.
LEMMA WaitingFacts ==
    ASSUME TypeOK, NEW m \in MutexIndex
    PROVE  /\ IsFiniteSet(Waiting(m))
           /\ Cardinality(Waiting(m)) \in Nat
           /\ \A i \in Waiting(m) : i \in QueueSpot /\ queue[m][i] \in Procs
<1>1. IsFiniteSet(QueueSpot)
  BY FS_Interval, MutexSizesAssumption DEF QueueSpot
<1>2. IsFiniteSet(Waiting(m))
  BY <1>1, FS_Subset DEF Waiting
<1> QED BY <1>2, FS_CardinalityType DEF Waiting, EmptySpots, TypeOK

\* addToBlocked makes the queue one entry longer.
LEMMA WaitingQueued ==
    ASSUME TypeOK, NEW p \in Procs, NEW m \in MutexIndex,
           NEW i \in QueueSpot, Queued(p, m, i)
    PROVE  /\ i \notin Waiting(m)
           /\ Waiting(m)' = Waiting(m) \cup {i}
           /\ Cardinality(Waiting(m)') = Cardinality(Waiting(m)) + 1
           /\ \A n \in MutexIndex \ {m} : Waiting(n)' = Waiting(n)
           /\ \A n \in MutexIndex : \A j \in QueueSpot :
                  queue'[n][j] = IF n = m /\ j = i THEN p ELSE queue[n][j]
<1>1. \A n \in MutexIndex : \A j \in QueueSpot :
          queue'[n][j] = IF n = m /\ j = i THEN p ELSE queue[n][j]
  BY DEF Queued, TypeOK
<1>2. i \notin Waiting(m)
  BY DEF Queued, Waiting, EmptySpots
<1>3. Waiting(m)' = Waiting(m) \cup {i}
  BY <1>1, NoPidAssumption DEF Waiting, EmptySpots
<1>4. \A n \in MutexIndex \ {m} : Waiting(n)' = Waiting(n)
  BY <1>1 DEF Waiting, EmptySpots
<1>5. Cardinality(Waiting(m)') = Cardinality(Waiting(m)) + 1
  BY <1>2, <1>3, WaitingFacts, FS_AddElement
<1> QED BY <1>1, <1>2, <1>3, <1>4, <1>5

\* unblockProcess makes it one entry shorter.
LEMMA WaitingHanded ==
    ASSUME TypeOK, NEW m \in MutexIndex, NEW i \in QueueSpot, HandedTo(m, i)
    PROVE  /\ i \in Waiting(m)
           /\ Waiting(m)' = Waiting(m) \ {i}
           /\ Cardinality(Waiting(m)') = Cardinality(Waiting(m)) - 1
           /\ \A n \in MutexIndex \ {m} : Waiting(n)' = Waiting(n)
           /\ \A n \in MutexIndex : \A j \in QueueSpot :
                  queue'[n][j] = IF n = m /\ j = i THEN NoPid ELSE queue[n][j]
<1>1. \A n \in MutexIndex : \A j \in QueueSpot :
          queue'[n][j] = IF n = m /\ j = i THEN NoPid ELSE queue[n][j]
  BY DEF HandedTo, TypeOK
<1>2. i \in Waiting(m)
  BY DEF HandedTo, Waiting, EmptySpots
<1>3. Waiting(m)' = Waiting(m) \ {i}
  BY <1>1 DEF Waiting, EmptySpots
<1>4. \A n \in MutexIndex \ {m} : Waiting(n)' = Waiting(n)
  BY <1>1 DEF Waiting, EmptySpots
<1>5. Cardinality(Waiting(m)') = Cardinality(Waiting(m)) - 1
  BY <1>2, <1>3, WaitingFacts, FS_RemoveElement
<1> QED BY <1>1, <1>2, <1>3, <1>4, <1>5

\* An empty count is an empty queue, and what cannot be acquired is locked.
LEMMA CountFacts ==
    ASSUME TypeOK, QueueCounts, NEW m \in MutexIndex
    PROVE  /\ cardinalBlocked[m] = 0 <=> Waiting(m) = {}
           /\ cardinalBlocked[m] > 0 <=> Waiting(m) # {}
           /\ ~Acquirable(m) => mutex[m] = 1
<1>1. Cardinality(Waiting(m)) = 0 <=> Waiting(m) = {}
  BY WaitingFacts, FS_EmptySet
<1>2. /\ cardinalBlocked[m] = Cardinality(Waiting(m))
      /\ mutex[m] = 0 => Waiting(m) = {}
      /\ mutex[m] \in {0, 1}
      /\ cardinalBlocked[m] \in Nat
  BY DEF QueueCounts, TypeOK
<1>3. cardinalBlocked[m] > 0 <=> Waiting(m) # {}
  BY <1>1, <1>2
<1> QED BY <1>1, <1>2, <1>3 DEF Acquirable

\* Steps that leave the queues and their counts alone.
LEMMA QueueFrame ==
    ASSUME QueueInv,
           UNCHANGED <<queue, cardinalBlocked>>,
           \A m \in MutexIndex : mutex'[m] = 0 => Waiting(m) = {}
    PROVE  QueueCounts'
BY DEF QueueInv, QueueCounts, Waiting, EmptySpots

\* lockMutex that queues the caller.
LEMMA BlockQueue ==
    ASSUME QueueInv, NEW p \in Procs, NEW m \in MutexIndex, LockBlock(p, m)
    PROVE  Entries' /\ QueueCounts'
<1> USE DEF QueueInv
<1>1. /\ life[p] = "alive" /\ pc[p] = "user"
      /\ pc' = [pc EXCEPT ![p] = "lock"]
      /\ want' = [want EXCEPT ![p] = m]
      /\ state' = [state EXCEPT ![p] = "BLOCKED"]
      /\ mutex' = mutex /\ mutex[m] = 1
  BY CountFacts DEF LockBlock, InProgram, StateChanged
<1>2. \A n \in MutexIndex : \A j \in Waiting(n) :
          queue[n][j] \in Procs /\ queue[n][j] # p
  BY <1>1, WaitingFacts DEF Entries
<1>3. CASE queue' = queue /\ cardinalBlocked' = cardinalBlocked
  <2>1. QueueCounts'
    BY <1>1, <1>3, QueueFrame DEF QueueCounts
  <2>2. \A n \in MutexIndex : Waiting(n)' = Waiting(n)
    BY <1>3 DEF Waiting, EmptySpots
  <2>3. Entries'
    BY <1>1, <1>2, <1>3, <2>2 DEF Entries, TypeOK
  <2> QED BY <2>1, <2>3
<1>4. ASSUME NEW i \in QueueSpot, Queued(p, m, i)
      PROVE  Entries' /\ QueueCounts'
  <2>1. /\ i \notin Waiting(m)
        /\ Waiting(m)' = Waiting(m) \cup {i}
        /\ Cardinality(Waiting(m)') = Cardinality(Waiting(m)) + 1
        /\ \A n \in MutexIndex \ {m} : Waiting(n)' = Waiting(n)
        /\ \A n \in MutexIndex : \A j \in QueueSpot :
               queue'[n][j] = IF n = m /\ j = i THEN p ELSE queue[n][j]
    BY <1>4, WaitingQueued
  <2>2. \A n \in MutexIndex : \A j \in Waiting(n)' :
            \/ n = m /\ j = i /\ queue'[n][j] = p
            \/ j \in Waiting(n) /\ queue'[n][j] = queue[n][j]
    BY <2>1 DEF Waiting
  <2>3. Entries'
    <3>1. /\ pc'[p] = "lock" /\ want'[p] = m /\ state'[p] = "BLOCKED"
          /\ \A q \in Procs \ {p} :
                pc'[q] = pc[q] /\ want'[q] = want[q] /\ state'[q] = state[q]
      BY <1>1 DEF TypeOK
    <3> QED BY <1>2, <2>2, <3>1 DEF Entries
  <2>4. \A n \in MutexIndex : cardinalBlocked'[n] = Cardinality(Waiting(n)')
    BY <1>4, <2>1 DEF Queued, QueueCounts, TypeOK
  <2>5. \A n \in MutexIndex : \A j, k \in Waiting(n)' :
            queue'[n][j] = queue'[n][k] => j = k
    BY <1>2, <2>2 DEF QueueCounts
  <2>6. \A n \in MutexIndex : mutex'[n] = 0 => Waiting(n)' = {}
    BY <1>1, <2>1 DEF QueueCounts
  <2> QED BY <2>3, <2>4, <2>5, <2>6 DEF QueueCounts
<1> QED BY <1>3, <1>4, BlockCases

\* freeMutex that hands the mutex on.
LEMMA HandedQueue ==
    ASSUME QueueInv, NEW m \in MutexIndex, NEW i \in QueueSpot, HandedTo(m, i),
           UNCHANGED <<pc, want>>
    PROVE  Entries' /\ QueueCounts'
<1> USE DEF QueueInv
<1>1. /\ i \in Waiting(m)
      /\ Waiting(m)' = Waiting(m) \ {i}
      /\ Cardinality(Waiting(m)') = Cardinality(Waiting(m)) - 1
      /\ \A n \in MutexIndex \ {m} : Waiting(n)' = Waiting(n)
      /\ \A n \in MutexIndex : \A j \in QueueSpot :
             queue'[n][j] = IF n = m /\ j = i THEN NoPid ELSE queue[n][j]
  BY WaitingHanded
<1>2. \A n \in MutexIndex : \A j \in Waiting(n)' :
          /\ j \in Waiting(n) /\ queue'[n][j] = queue[n][j]
          /\ queue[n][j] \in Procs
          /\ ~(n = m /\ j = i)
  BY <1>1, WaitingFacts
<1>3. \A n \in MutexIndex : \A j \in Waiting(n)' : queue[n][j] # queue[m][i]
  BY <1>1, <1>2 DEF Entries, QueueCounts
<1>4. \A q \in Procs \ {queue[m][i]} : state'[q] = state[q]
  BY DEF HandedTo, StateChanged, TypeOK
<1>5. Entries'
  BY <1>2, <1>3, <1>4 DEF Entries
<1>6. \A n \in MutexIndex : cardinalBlocked'[n] = Cardinality(Waiting(n)')
  BY <1>1 DEF HandedTo, QueueCounts, TypeOK
<1>7. \A n \in MutexIndex : \A j, k \in Waiting(n)' :
          queue'[n][j] = queue'[n][k] => j = k
  BY <1>2 DEF QueueCounts
<1>8. \A n \in MutexIndex : mutex'[n] = 0 => Waiting(n)' = {}
  BY <1>1, <1>2 DEF QueueCounts, HandedTo
<1> QED BY <1>5, <1>6, <1>7, <1>8 DEF QueueCounts

\* The cases of freeMutex that the invariant leaves.
LEMMA FreeCasesInv ==
    ASSUME QueueInv, NEW p \in Procs, NEW m \in MutexIndex, Free(p, m)
    PROVE  \/ UNCHANGED <<queue, mutex, cardinalBlocked, state>>
           \/ \E i \in QueueSpot : HandedTo(m, i)
           \/ /\ Waiting(m) = {}
              /\ mutex' = [mutex EXCEPT ![m] = 0]
              /\ UNCHANGED <<queue, cardinalBlocked, state>>
BY FreeCases, CountFacts DEF QueueInv

LEMMA FreeQueue ==
    ASSUME QueueInv, NEW p \in Procs, NEW m \in MutexIndex, Free(p, m)
    PROVE  Entries' /\ QueueCounts'
<1>1. UNCHANGED <<pc, want>>
  BY DEF Free
<1>2. ASSUME UNCHANGED <<queue, cardinalBlocked, state>>,
             \A n \in MutexIndex : mutex'[n] = 0 => Waiting(n) = {}
      PROVE  Entries' /\ QueueCounts'
  BY <1>1, <1>2, QueueFrame DEF QueueInv, Entries, Waiting, EmptySpots
<1>3. ASSUME NEW i \in QueueSpot, HandedTo(m, i)
      PROVE  Entries' /\ QueueCounts'
  BY <1>1, <1>3, HandedQueue
<1>4. CASE UNCHANGED <<queue, mutex, cardinalBlocked, state>>
  BY <1>2, <1>4 DEF QueueInv, QueueCounts
<1>5. CASE /\ Waiting(m) = {}
           /\ mutex' = [mutex EXCEPT ![m] = 0]
           /\ UNCHANGED <<queue, cardinalBlocked, state>>
  <2>1. \A n \in MutexIndex : mutex'[n] = 0 => Waiting(n) = {}
    BY <1>5 DEF QueueInv, QueueCounts, TypeOK
  <2> QED BY <1>2, <1>5, <2>1
<1> QED BY <1>3, <1>4, <1>5, FreeCasesInv

\* The other steps do not touch a queue.
LEMMA NextQueue ==
    ASSUME QueueInv, [Next]_vars
    PROVE  QueueInv'
<1> SUFFICES Entries' /\ QueueCounts'
  BY NextType DEF QueueInv
<1> DEFINE Frame == /\ UNCHANGED <<queue, cardinalBlocked>>
                    /\ \A n \in MutexIndex : mutex'[n] = 0 => mutex[n] = 0
<1>1. ASSUME Frame PROVE QueueCounts'
  BY <1>1, QueueFrame DEF QueueInv, QueueCounts
<1>2. ASSUME UNCHANGED queue, UNCHANGED <<pc, want, state>>
      PROVE  Entries'
  BY <1>2 DEF QueueInv, Entries, Waiting, EmptySpots
<1>3. ASSUME NEW p \in Procs, LockReturn(p) PROVE Entries' /\ QueueCounts'
  <2>1. QueueCounts'
    BY <1>1, <1>3 DEF LockReturn
  <2>2. /\ queue' = queue /\ want' = want /\ state' = state
        /\ state[p] = "READY" /\ pc' = [pc EXCEPT ![p] = "user"]
    BY <1>3 DEF LockReturn
  <2>3. \A n \in MutexIndex : \A j \in Waiting(n) :
            queue[n][j] \in Procs /\ queue[n][j] # p
    BY <2>2, WaitingFacts DEF QueueInv, Entries
  <2>4. \A n \in MutexIndex : Waiting(n)' = Waiting(n)
    BY <2>2 DEF Waiting, EmptySpots
  <2>5. Entries'
    BY <2>2, <2>3, <2>4 DEF QueueInv, Entries, TypeOK
  <2> QED BY <2>1, <2>5
<1>4. ASSUME NEW p \in Procs, NEW m \in MutexIndex, LockAcquire(p, m)
      PROVE  Entries' /\ QueueCounts'
  <2>1. /\ UNCHANGED <<queue, pc, want, state>>
        /\ mutex' = [mutex EXCEPT ![m] = 1]
        /\ cardinalBlocked' = [cardinalBlocked EXCEPT ![m] = 0]
        /\ cardinalBlocked[m] = 0
    BY <1>4 DEF LockAcquire, Acquirable
  <2>2. cardinalBlocked' = cardinalBlocked
    BY <2>1 DEF QueueInv, TypeOK
  <2>3. \A n \in MutexIndex : mutex'[n] = 0 => mutex[n] = 0
    BY <2>1 DEF QueueInv, TypeOK
  <2> QED BY <1>1, <1>2, <2>1, <2>2, <2>3
<1>5. ASSUME NEW p \in Procs, NEW m \in MutexIndex, LockBlock(p, m)
      PROVE  Entries' /\ QueueCounts'
  BY <1>5, BlockQueue
<1>6. ASSUME NEW p \in Procs, NEW m \in MutexIndex, LockQueueFull(p, m)
      PROVE  Entries' /\ QueueCounts'
  <2>1. QueueCounts'
    BY <1>1, <1>6 DEF LockQueueFull
  <2>2. /\ queue' = queue
        /\ pc[p] = "user"
        /\ pc' = [pc EXCEPT ![p] = "lockFull"]
        /\ want' = [want EXCEPT ![p] = m]
        /\ \E pid : state' = StateChanged(pid, "BLOCKED")
    BY <1>6 DEF LockQueueFull, InProgram
  <2>3. \A n \in MutexIndex : \A j \in Waiting(n) :
            queue[n][j] \in Procs /\ queue[n][j] # p
    BY <2>2, WaitingFacts DEF QueueInv, Entries
  <2>4. \A n \in MutexIndex : Waiting(n)' = Waiting(n)
    BY <2>2 DEF Waiting, EmptySpots
  <2>5. \A q \in Procs : state[q] = "BLOCKED" => state'[q] = "BLOCKED"
    BY <2>2 DEF StateChanged, QueueInv, TypeOK
  <2>6. Entries'
    BY <2>2, <2>3, <2>4, <2>5 DEF QueueInv, Entries, TypeOK
  <2> QED BY <2>1, <2>6
<1>7. ASSUME NEW p \in Procs, NEW m \in MutexIndex, Free(p, m)
      PROVE  Entries' /\ QueueCounts'
  BY <1>7, FreeQueue
<1>8. ASSUME NEW p \in Procs, NEW m \in MutexIndex, Close(p, m)
      PROVE  Entries' /\ QueueCounts'
  BY <1>1, <1>2, <1>8 DEF Close
<1>9. ASSUME NEW p \in Procs, NEW n \in Names, GetMutex(p, n)
      PROVE  Entries' /\ QueueCounts'
  BY <1>1, <1>2, <1>9 DEF GetMutex
<1>10. ASSUME NEW p \in Procs, Create(p) \/ Remove(p)
       PROVE  Entries' /\ QueueCounts'
  BY <1>1, <1>2, <1>10 DEF Create, Remove
<1>11. ASSUME NEW p \in Procs, RestartShell(p) PROVE Entries' /\ QueueCounts'
  <2>1. \A n \in MutexIndex : Waiting(n)' = {} /\ cardinalBlocked'[n] = 0
    BY <1>11 DEF RestartShell, CleanTable, Waiting, EmptySpots
  <2> QED BY <2>1, FS_EmptySet DEF Entries, QueueCounts
<1>12. CASE UNCHANGED vars
  BY <1>1, <1>2, <1>12 DEF vars
<1> QED BY <1>3, <1>4, <1>5, <1>6, <1>7, <1>8, <1>9, <1>10, <1>11, <1>12
        DEF Next, Use

\* The cleaned table satisfies the invariant.
LEMMA InitQueue == Init => QueueInv
<1> SUFFICES ASSUME Init PROVE QueueInv
  OBVIOUS
<1>1. TypeOK
  BY Indices DEF Init, TypeOK, CleanTable
<1>2. \A n \in MutexIndex : Waiting(n) = {} /\ cardinalBlocked[n] = 0
  BY DEF Init, CleanTable, Waiting, EmptySpots
<1> QED BY <1>1, <1>2, FS_EmptySet DEF QueueInv, Entries, QueueCounts

\* The mutex's count of waiting processes is always the length of its queue,
\* nobody is queued twice and a free mutex has an empty queue: for any number
\* of processes, also where the queue is too short for them.
THEOREM QueueBookkeeping == Spec => []QueueCounts
<1>1. QueueInv => QueueCounts
  BY DEF QueueInv
<1> QED BY <1>1, InitQueue, NextQueue, PTL DEF Spec
-----------------------------------------------------------------------------
(***************************************************************************)
(* Mutual exclusion, until a process meets a full queue.  The proof        *)
(* follows the owner of a mutex, who holds it or has been handed it: there *)
(* is at most one and while there is the mutex is locked.  A process that  *)
(* meets a full queue returns from lockMutex without being an owner.       *)
(***************************************************************************)

OneOwner ==
    \A m \in MutexIndex :
        /\ \A p, q \in Procs : Owns(p, m) /\ Owns(q, m) => p = q
        /\ \A p \in Procs : Owns(p, m) => mutex[m] = 1

Waits ==
    \A p \in Procs :
        /\ \A m \in MutexIndex :
              life[p] = "alive" /\ pc[p] = "lock" /\ want[p] = m
                 /\ state[p] = "BLOCKED" => \E i \in Waiting(m) : queue[m][i] = p
        /\ life[p] = "unborn" => pc[p] = "user"
        /\ pc[p] # "lockFull"

OwnerInv == QueueInv /\ OneOwner /\ Waits

\* The invariant: all of this as long as nobody has met a full queue.
Owned == QueueInv /\ (overflowed = "no" => OneOwner /\ Waits)

\* A queue that is not full has an empty spot.
LEMMA SpotLeft ==
    ASSUME QueueInv, NEW m \in MutexIndex, ~isQueueFull(m)
    PROVE  EmptySpots(m) # {}
<1>1. cardinalBlocked[m] = Cardinality(Waiting(m))
  BY DEF QueueInv, QueueCounts
<1>2. Cardinality(QueueSpot) = MAX_BLOCKED_QUEUE_SIZE
  BY FS_Interval, MutexSizesAssumption DEF QueueSpot
<1> SUFFICES ASSUME EmptySpots(m) = {} PROVE FALSE
  OBVIOUS
<1>3. Waiting(m) = QueueSpot
  BY DEF Waiting
<1> QED BY <1>1, <1>2, <1>3, MutexSizesAssumption DEF isQueueFull

\* Steps that make no owner and no waiting process.
LEMMA OwnerFrame ==
    ASSUME OwnerInv,
           UNCHANGED <<queue, mutex, state, pc, want>>,
           \A q \in Procs : held'[q] \subseteq held[q],
           \A q \in Procs : /\ life'[q] = "unborn" => life[q] = "unborn"
                            /\ life'[q] = "alive" => life[q] # "dead"
    PROVE  OneOwner' /\ Waits'
<1>1. \A q \in Procs, m \in MutexIndex : Owns(q, m)' => Owns(q, m)
  BY DEF Owns
<1>2. OneOwner'
  BY <1>1 DEF OwnerInv, OneOwner
<1>3. \A m : Waiting(m)' = Waiting(m)
  BY DEF Waiting, EmptySpots
<1>4. \A q \in Procs : life'[q] = "alive" /\ pc[q] = "lock" => life[q] = "alive"
  BY DEF OwnerInv, Waits, QueueInv, TypeOK
<1>5. Waits'
  BY <1>3, <1>4 DEF OwnerInv, Waits
<1> QED BY <1>2, <1>5

\* lockMutex that acquires: nobody owned the mutex.
LEMMA AcquireOwner ==
    ASSUME OwnerInv, NEW p \in Procs, NEW m \in MutexIndex, LockAcquire(p, m)
    PROVE  OneOwner' /\ Waits'
<1> USE DEF OwnerInv, QueueInv
<1>1. /\ UNCHANGED <<queue, state, pc, want, life>>
      /\ mutex[m] = 0
      /\ mutex' = [mutex EXCEPT ![m] = 1]
      /\ held' = [held EXCEPT ![p] = @ \cup {m}]
  BY DEF LockAcquire, Acquirable, procVars
<1>2. \A q \in Procs : ~Owns(q, m)
  BY <1>1 DEF OneOwner
<1>3. \A q \in Procs, n \in MutexIndex :
          Owns(q, n)' => Owns(q, n) \/ (q = p /\ n = m)
  BY <1>1 DEF Owns, TypeOK
<1>4. \A n \in MutexIndex : mutex'[n] = 1 \/ mutex'[n] = mutex[n]
  BY <1>1 DEF TypeOK
<1>5. OneOwner'
  <2>1. ASSUME NEW n \in MutexIndex, NEW q \in Procs, NEW r \in Procs,
               Owns(q, n)', Owns(r, n)'
        PROVE  q = r
    BY <1>2, <1>3, <2>1 DEF OneOwner
  <2>2. ASSUME NEW n \in MutexIndex, NEW q \in Procs, Owns(q, n)'
        PROVE  mutex'[n] = 1
    BY <1>1, <1>3, <1>4, <2>2 DEF OneOwner, TypeOK
  <2> QED BY <2>1, <2>2 DEF OneOwner
<1>6. Waits'
  BY <1>1 DEF Waits, Waiting, EmptySpots
<1> QED BY <1>5, <1>6

\* lockMutex that waits: the caller stands in the queue.
LEMMA BlockOwner ==
    ASSUME OwnerInv, NEW p \in Procs, NEW m \in MutexIndex, LockBlock(p, m)
    PROVE  OneOwner' /\ Waits'
<1> USE DEF OwnerInv
<1>1. /\ life[p] = "alive" /\ pc[p] = "user"
      /\ pc' = [pc EXCEPT ![p] = "lock"]
      /\ want' = [want EXCEPT ![p] = m]
      /\ state' = [state EXCEPT ![p] = "BLOCKED"]
      /\ UNCHANGED <<mutex, held, life>>
  BY DEF LockBlock, InProgram, StateChanged, procVars
<1>2. \A q \in Procs, n \in MutexIndex : Owns(q, n)' => Owns(q, n)
  BY <1>1 DEF Owns, QueueInv, TypeOK
<1>3. OneOwner'
  BY <1>1, <1>2 DEF OneOwner
<1>4. PICK i \in QueueSpot : Queued(p, m, i)
  BY SpotLeft, BlockCases DEF LockBlock
<1>5. /\ Waiting(m)' = Waiting(m) \cup {i}
      /\ i \notin Waiting(m)
      /\ \A n \in MutexIndex \ {m} : Waiting(n)' = Waiting(n)
      /\ \A n \in MutexIndex : \A j \in QueueSpot :
             queue'[n][j] = IF n = m /\ j = i THEN p ELSE queue[n][j]
  BY <1>4, WaitingQueued DEF QueueInv
<1>6. \A n \in MutexIndex : \A j \in Waiting(n) :
          j \in Waiting(n)' /\ queue'[n][j] = queue[n][j]
  BY <1>5, WaitingFacts DEF QueueInv
<1>7. i \in Waiting(m)' /\ queue'[m][i] = p
  BY <1>5
<1>8. Waits'
  <2> SUFFICES ASSUME NEW q \in Procs
               PROVE  /\ \A n \in MutexIndex :
                            life'[q] = "alive" /\ pc'[q] = "lock" /\ want'[q] = n
                               /\ state'[q] = "BLOCKED"
                            => \E j \in Waiting(n)' : queue'[n][j] = q
                      /\ life'[q] = "unborn" => pc'[q] = "user"
                      /\ pc'[q] # "lockFull"
    BY DEF Waits
  <2>1. CASE q = p
    BY <1>1, <1>7, <2>1 DEF QueueInv, TypeOK
  <2>2. CASE q # p
    <3>1. /\ pc'[q] = pc[q] /\ state'[q] = state[q] /\ want'[q] = want[q]
          /\ life'[q] = life[q] /\ want[q] \in MutexIndex
      BY <1>1, <2>2 DEF QueueInv, TypeOK
    <3> QED BY <1>6, <3>1 DEF Waits
  <2> QED BY <2>1, <2>2
<1> QED BY <1>3, <1>8

\* freeMutex: the owner goes; the new one, if any, is the first in the queue.
LEMMA FreeOwner ==
    ASSUME OwnerInv, NEW p \in Procs, NEW m \in MutexIndex, Free(p, m)
    PROVE  OneOwner' /\ Waits'
<1> USE DEF OwnerInv
<1>1. /\ UNCHANGED <<pc, want, life>>
      /\ m \in held[p] /\ pc[p] = "user" /\ life[p] = "alive"
      /\ held' = [held EXCEPT ![p] = @ \ {m}]
  BY DEF Free, InProgram, procVars
<1>2. Owns(p, m) /\ ~Owns(p, m)'
  BY <1>1 DEF Owns, QueueInv, TypeOK
<1>3. \A q \in Procs : held'[q] \subseteq held[q]
  BY <1>1 DEF QueueInv, TypeOK
<1>4. CASE UNCHANGED <<queue, mutex, cardinalBlocked, state>>
  BY <1>1, <1>3, <1>4, OwnerFrame
<1>5. CASE /\ mutex' = [mutex EXCEPT ![m] = 0]
           /\ UNCHANGED <<queue, cardinalBlocked, state>>
  <2>1. \A q \in Procs, n \in MutexIndex : Owns(q, n)' => Owns(q, n) /\ n # m
    BY <1>1, <1>2, <1>3, <1>5 DEF Owns, OneOwner
  <2>2. OneOwner'
    BY <1>5, <2>1 DEF OneOwner, QueueInv, TypeOK
  <2>3. Waits'
    BY <1>1, <1>5 DEF Waits, Waiting, EmptySpots
  <2> QED BY <2>2, <2>3
<1>6. ASSUME NEW i \in QueueSpot, HandedTo(m, i)
      PROVE  OneOwner' /\ Waits'
  <2> DEFINE r == queue[m][i]
  <2>1. /\ i \in Waiting(m)
        /\ Waiting(m)' = Waiting(m) \ {i}
        /\ \A n \in MutexIndex \ {m} : Waiting(n)' = Waiting(n)
        /\ \A n \in MutexIndex : \A j \in QueueSpot :
               queue'[n][j] = IF n = m /\ j = i THEN NoPid ELSE queue[n][j]
    BY <1>6, WaitingHanded DEF QueueInv
  <2>2. r \in Procs /\ pc[r] = "lock" /\ want[r] = m /\ state[r] = "BLOCKED"
    BY <2>1, WaitingFacts DEF QueueInv, Entries
  <2>3. /\ \A q \in Procs \ {r} : state'[q] = state[q]
        /\ life[r] = "alive" => state'[r] = "READY"
        /\ mutex' = mutex
    BY <1>6, <2>2 DEF HandedTo, StateChanged, QueueInv, TypeOK
  <2>4. \A q \in Procs, n \in MutexIndex :
            Owns(q, n)' => (Owns(q, n) /\ q # p) \/ (Owns(q, n) /\ n # m)
                              \/ (q = r /\ n = m)
    BY <1>1, <1>2, <1>3, <2>2, <2>3 DEF Owns
  <2>5. \A q \in Procs : Owns(q, m) => q = p
    BY <1>2 DEF OneOwner
  <2>6. mutex'[m] = 1
    BY <1>2, <2>3 DEF OneOwner
  <2>7. OneOwner'
    <3>1. ASSUME NEW n \in MutexIndex, NEW q \in Procs, NEW s \in Procs,
                 Owns(q, n)', Owns(s, n)'
          PROVE  q = s
      BY <2>4, <2>5, <3>1 DEF OneOwner
    <3>2. ASSUME NEW n \in MutexIndex, NEW q \in Procs, Owns(q, n)'
          PROVE  mutex'[n] = 1
      BY <2>3, <2>4, <2>6, <3>2 DEF OneOwner
    <3> QED BY <3>1, <3>2 DEF OneOwner
  <2>8. Waits'
    <3> SUFFICES ASSUME NEW q \in Procs
                 PROVE  /\ \A n \in MutexIndex :
                              life'[q] = "alive" /\ pc'[q] = "lock"
                                 /\ want'[q] = n /\ state'[q] = "BLOCKED"
                              => \E j \in Waiting(n)' : queue'[n][j] = q
                        /\ life'[q] = "unborn" => pc'[q] = "user"
                        /\ pc'[q] # "lockFull"
      BY DEF Waits
    <3>1. CASE q = r
      BY <1>1, <2>2, <2>3, <3>1 DEF Waits
    <3>2. CASE q # r
      <4>1. \A n \in MutexIndex : \A j \in Waiting(n) :
                queue[n][j] = q => j \in Waiting(n)' /\ queue'[n][j] = q
        BY <2>1, <3>2, WaitingFacts DEF QueueInv
      <4>2. state'[q] = state[q] /\ want[q] \in MutexIndex
        BY <2>3, <3>2 DEF QueueInv, TypeOK
      <4> QED BY <1>1, <4>1, <4>2 DEF Waits
    <3> QED BY <3>1, <3>2
  <2> QED BY <2>7, <2>8
<1> QED BY <1>4, <1>5, <1>6, FreeCasesInv
\* Every step keeps the owners and the waiting processes in order.
LEMMA NextOwner ==
    ASSUME Owned, [Next]_vars
    PROVE  Owned'
<1>1. ASSUME NEW p \in Procs, RestartShell(p) PROVE OneOwner' /\ Waits'
  BY <1>1 DEF RestartShell, OneOwner, Owns, Waits
<1>2. ASSUME NEW p \in Procs, NEW m \in MutexIndex, LockQueueFull(p, m)
      PROVE  overflowed' = "yes"
  BY <1>2 DEF LockQueueFull
<1>3. ASSUME ~(\E p \in Procs : RestartShell(p)),
             ~(\E p \in Procs, m \in MutexIndex : LockQueueFull(p, m))
      PROVE  overflowed' = overflowed
  BY <1>3 DEF Next, Use, LockReturn, LockAcquire, LockBlock, Free, Close,
              GetMutex, Create, Remove, procVars, vars
<1> SUFFICES ASSUME overflowed = "no", OwnerInv,
                    ~(\E p \in Procs : RestartShell(p)),
                    ~(\E p \in Procs, m \in MutexIndex : LockQueueFull(p, m))
             PROVE  OneOwner' /\ Waits'
  BY <1>1, <1>2, <1>3, NextQueue DEF Owned, OwnerInv
<1> USE DEF OwnerInv
<1>4. ASSUME NEW p \in Procs, LockReturn(p) PROVE OneOwner' /\ Waits'
  <2>1. /\ UNCHANGED <<queue, mutex, state, want, life>>
        /\ state[p] = "READY" /\ life[p] = "alive" /\ pc[p] = "lock"
        /\ pc' = [pc EXCEPT ![p] = "user"]
        /\ held' = [held EXCEPT ![p] = @ \cup {want[p]}]
    BY <1>4 DEF LockReturn, Waits, procVars
  <2>2. \A q \in Procs, n \in MutexIndex : Owns(q, n)' => Owns(q, n)
    BY <2>1 DEF Owns, QueueInv, TypeOK
  <2>3. OneOwner'
    BY <2>1, <2>2 DEF OneOwner
  <2>4. \A n : Waiting(n)' = Waiting(n)
    BY <2>1 DEF Waiting, EmptySpots
  <2>5. Waits'
    BY <2>1, <2>4 DEF Waits, QueueInv, TypeOK
  <2> QED BY <2>3, <2>5
<1>5. ASSUME NEW p \in Procs, NEW m \in MutexIndex,
             LockAcquire(p, m) \/ LockBlock(p, m) \/ Free(p, m)
      PROVE  OneOwner' /\ Waits'
  BY <1>5, AcquireOwner, BlockOwner, FreeOwner
<1>6. ASSUME NEW p \in Procs, NEW m \in MutexIndex, Close(p, m)
      PROVE  OneOwner' /\ Waits'
  BY <1>6, OwnerFrame DEF Close, procVars
<1>7. ASSUME NEW p \in Procs, NEW n \in Names, GetMutex(p, n)
      PROVE  OneOwner' /\ Waits'
  BY <1>7, OwnerFrame DEF GetMutex
<1>8. ASSUME NEW p \in Procs, Create(p) \/ Remove(p)
      PROVE  OneOwner' /\ Waits'
  <2>1. /\ UNCHANGED <<queue, mutex, state, pc, want, held>>
        /\ \/ life[p] = "unborn" /\ life' = [life EXCEPT ![p] = "alive"]
           \/ life' = [life EXCEPT ![p] = "dead"]
    BY <1>8 DEF Create, Remove
  <2>2. \A q \in Procs : /\ life'[q] = "unborn" => life[q] = "unborn"
                         /\ life'[q] = "alive" => life[q] # "dead"
    BY <2>1 DEF QueueInv, TypeOK
  <2> QED BY <2>1, <2>2, OwnerFrame
<1>9. CASE UNCHANGED vars
  BY <1>9, OwnerFrame DEF vars
<1> QED BY <1>4, <1>5, <1>6, <1>7, <1>8, <1>9 DEF Next, Use

LEMMA InitOwner == Init => Owned
<1>1. Init => OneOwner /\ Waits
  BY DEF Init, OneOwner, Owns, Waits
<1> QED BY <1>1, InitQueue DEF Owned

\* Until some process meets a full queue, no two processes hold the same mutex,
\* whatever is killed, closed, reused or restarted.
THEOREM Exclusion == Spec => []MutualExclusion
<1>1. Owned => MutualExclusion
  BY DEF Owned, OneOwner, Owns, MutualExclusion
<1> QED BY <1>1, InitOwner, NextOwner, PTL DEF Spec

\* Until then the living processes that wait in lockMutex are those that
\* freeMutex finds in the queue: no waiting process is forgotten.
THEOREM NoneForgotten == Spec => []WaitersAreQueued
<1>1. Owned => WaitersAreQueued
  BY DEF Owned, OneOwner, Waits, QueueInv, Entries, WaitersAreQueued
<1> QED BY <1>1, InitOwner, NextOwner, PTL DEF Spec

-----------------------------------------------------------------------------
(***************************************************************************)
(* A queue with a place for every process never overflows.                 *)
(***************************************************************************)

QueueFits == Cardinality(Procs) <= MAX_BLOCKED_QUEUE_SIZE

\* A process that is about to lock finds a place in the queue.
LEMMA NotFull ==
    ASSUME QueueInv, QueueFits, NEW p \in Procs, pc[p] = "user",
           NEW m \in MutexIndex
    PROVE  ~isQueueFull(m)
<1> DEFINE f == [i \in Waiting(m) |-> queue[m][i]]
           others == Procs \ {p}
<1>1. f \in [Waiting(m) -> others]
  BY WaitingFacts DEF QueueInv, Entries
<1>2. IsFiniteSet(others) /\ Cardinality(others) = Cardinality(Procs) - 1
  BY ProcsAssumption, FS_RemoveElement
<1>3. Cardinality(Waiting(m)) <= Cardinality(others)
  <2> SUFFICES ASSUME Cardinality(others) < Cardinality(Waiting(m))
               PROVE  FALSE
    BY <1>2, WaitingFacts, FS_CardinalityType DEF QueueInv
  <2>1. IsFiniteSet(Waiting(m))
    BY WaitingFacts DEF QueueInv
  <2>2. \E x, y \in Waiting(m) : x # y /\ f[x] = f[y]
    <3> HIDE DEF f, others
    <3> QED BY <1>1, <1>2, <2>1, FS_PigeonHole
  <2> QED BY <2>2 DEF QueueInv, QueueCounts
<1>4. cardinalBlocked[m] = Cardinality(Waiting(m))
  BY DEF QueueInv, QueueCounts
<1>5. cardinalBlocked[m] < MAX_BLOCKED_QUEUE_SIZE
  BY <1>2, <1>3, <1>4, ProcsAssumption, FS_CardinalityType, WaitingFacts,
     MutexSizesAssumption DEF QueueFits, QueueInv
<1> QED BY <1>4, <1>5, MutexSizesAssumption, WaitingFacts
        DEF isQueueFull, QueueInv

\* With a place for every process (20 in the code), lockMutex never meets a
\* full queue, so that Exclusion and NoneForgotten hold without exception.
THEOREM NeverOverflows == QueueFits => (Spec => [](overflowed = "no"))
<1> SUFFICES ASSUME QueueFits PROVE Spec => [](overflowed = "no")
  OBVIOUS
<1> DEFINE Fits == overflowed = "no"
<1>1. Init => Fits
  BY DEF Init
<1>2. QueueInv /\ Fits /\ [Next]_vars => Fits'
  <2> SUFFICES ASSUME QueueInv, overflowed = "no", [Next]_vars
               PROVE  overflowed' = "no"
    OBVIOUS
  <2>1. ASSUME NEW p \in Procs, NEW m \in MutexIndex, LockQueueFull(p, m)
        PROVE  FALSE
    BY <2>1, NotFull DEF LockQueueFull, InProgram
  <2>2. ASSUME NEW p \in Procs, RestartShell(p) PROVE overflowed' = "no"
    BY <2>2 DEF RestartShell
  <2> QED BY <2>1, <2>2 DEF Next, Use, LockReturn, LockAcquire, LockBlock, Free,
                            Close, GetMutex, Create, Remove, procVars, vars
<1> HIDE DEF Fits
<1>3. Spec => []Fits
  BY <1>1, <1>2, InitQueue, NextQueue, PTL DEF Spec
<1> QED BY <1>3 DEF Fits
=============================================================================
