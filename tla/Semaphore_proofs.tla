-------------------------- MODULE Semaphore_proofs --------------------------
(***************************************************************************)
(* The bookkeeping of the kernel's semaphores: the value, the count and the*)
(* queue agree and no permit is invented, for any number of processes,     *)
(* names and semaphores and any size of the queues; and, from that, that   *)
(* the producer/consumer demo implements a bounded buffer.                 *)
(***************************************************************************)
EXTENDS ProdCons, FiniteSetTheorems, SequenceTheorems, TLAPS

-----------------------------------------------------------------------------
(***************************************************************************)
(* Type correctness.                                                       *)
(***************************************************************************)

\* changeProcessState leaves a function from processes to states.
LEMMA StateChangedType ==
    ASSUME state \in [Procs -> {"READY", "BLOCKED"}],
           NEW p, NEW st \in {"READY", "BLOCKED"}
    PROVE  StateChanged(p, st) \in [Procs -> {"READY", "BLOCKED"}]
BY DEF StateChanged

\* So does writing one entry of a queue.
LEMMA EntryWrittenType ==
    ASSUME queue \in [SemIndex -> [QueueSpot -> Procs \cup {NoPid}]],
           NEW s \in SemIndex, NEW e \in QueueSpot,
           NEW x \in Procs \cup {NoPid}
    PROVE  [queue EXCEPT ![s][e] = x]
               \in [SemIndex -> [QueueSpot -> Procs \cup {NoPid}]]
<1>1. [queue[s] EXCEPT ![e] = x] \in [QueueSpot -> Procs \cup {NoPid}]
  OBVIOUS
<1> QED BY <1>1

(***************************************************************************)
(* The cases of wait's queueing and of signal, each with what it writes.   *)
(***************************************************************************)

Queued(p, s, e) ==
    /\ e \in QueueSpot
    /\ queue[s][e] = NoPid
    /\ queue' = [queue EXCEPT ![s][e] = p]
    /\ cardinalBlocked' = [cardinalBlocked EXCEPT ![s] = @ + 1]
    /\ broken' = broken

Overflows(s) ==
    /\ broken' = broken \cup {s}
    /\ UNCHANGED <<queue, cardinalBlocked>>

Woken(s, e) ==
    /\ cardinalBlocked[s] > 0
    /\ e \in QueueSpot
    /\ queue[s][e] # NoPid
    /\ state' = StateChanged(queue[s][e], "READY")
    /\ queue' = [queue EXCEPT ![s][e] = NoPid]
    /\ cardinalBlocked' = [cardinalBlocked EXCEPT ![s] = @ - 1]

\* The count is positive and the queue is empty, which the invariant excludes.
Miscounted(s) ==
    /\ cardinalBlocked[s] > 0
    /\ Waiting(s) = {}
    /\ UNCHANGED <<queue, state>>
    /\ cardinalBlocked' = [cardinalBlocked EXCEPT ![s] = @ - 1]

NobodyWaits(s) ==
    /\ ~(cardinalBlocked[s] > 0)
    /\ UNCHANGED <<queue, cardinalBlocked, state>>

LEMMA BlockCases ==
    ASSUME NEW p, NEW s, WaitBlock(p, s)
    PROVE  Overflows(s) \/ \E e \in QueueSpot : Queued(p, s, e)
<1>1. CASE EmptySpots(s) = {}
  BY <1>1 DEF WaitBlock, Overflows
<1>2. CASE EmptySpots(s) # {}
  <2>1. PICK e \in QueueSpot : /\ First(e, EmptySpots(s))
                               /\ queue' = [queue EXCEPT ![s][e] = p]
    BY <1>2 DEF WaitBlock
  <2>2. /\ cardinalBlocked' = [cardinalBlocked EXCEPT ![s] = @ + 1]
        /\ broken' = broken
    BY <1>2 DEF WaitBlock
  <2>3. queue[s][e] = NoPid
    BY <2>1 DEF First, EmptySpots
  <2> QED BY <2>1, <2>2, <2>3 DEF Queued
<1> QED BY <1>1, <1>2

LEMMA SignalCases ==
    ASSUME NEW p, NEW s, Signal(p, s)
    PROVE  \/ Miscounted(s)
           \/ \E e \in QueueSpot : Woken(s, e)
           \/ NobodyWaits(s)
<1>1. CASE ~(cardinalBlocked[s] > 0)
  BY <1>1 DEF Signal, NobodyWaits
<1>2. CASE cardinalBlocked[s] > 0 /\ Waiting(s) = {}
  BY <1>2 DEF Signal, Miscounted
<1>3. CASE cardinalBlocked[s] > 0 /\ Waiting(s) # {}
  <2>1. PICK e \in QueueSpot : /\ First(e, Waiting(s))
                               /\ state' = StateChanged(queue[s][e], "READY")
                               /\ queue' = [queue EXCEPT ![s][e] = NoPid]
    BY <1>3 DEF Signal
  <2>2. cardinalBlocked' = [cardinalBlocked EXCEPT ![s] = @ - 1]
    BY <1>3 DEF Signal
  <2>3. queue[s][e] # NoPid
    BY <2>1 DEF First, Waiting, EmptySpots
  <2> QED BY <1>3, <2>1, <2>2, <2>3 DEF Woken
<1> QED BY <1>1, <1>2, <1>3

\* wait and signal, whose lemmas serve every program built on them.
LEMMA WaitSignalType ==
    ASSUME TypeOK, NEW p \in Procs, NEW s \in SemIndex,
           WaitPass(p, s) \/ WaitBlock(p, s) \/ Signal(p, s)
    PROVE  TypeOK'
<1> USE DEF TypeOK, tableVars, procVars
<1>1. CASE WaitPass(p, s)
  BY <1>1 DEF WaitPass
<1>2. CASE WaitBlock(p, s)
  <2>1. state' \in [Procs -> {"READY", "BLOCKED"}]
    BY <1>2, StateChangedType DEF WaitBlock
  <2>2. /\ queue' \in [SemIndex -> [QueueSpot -> Procs \cup {NoPid}]]
        /\ cardinalBlocked' \in [SemIndex -> Nat]
        /\ broken' \in SUBSET SemIndex
    <3>1. CASE Overflows(s)
      BY <3>1 DEF Overflows
    <3>2. ASSUME NEW e \in QueueSpot, Queued(p, s, e)
          PROVE  /\ queue' \in [SemIndex -> [QueueSpot -> Procs \cup {NoPid}]]
                 /\ cardinalBlocked' \in [SemIndex -> Nat]
                 /\ broken' \in SUBSET SemIndex
      BY <3>2, EntryWrittenType DEF Queued
    <3> QED BY <1>2, <3>1, <3>2, BlockCases
  <2>3. /\ semaphore' \in [SemIndex -> Int]
        /\ pc' \in [Procs -> {"user", "wait", "create"}]
        /\ want' \in [Procs -> SemIndex]
    BY <1>2 DEF WaitBlock
  <2> QED BY <1>2, <2>1, <2>2, <2>3 DEF WaitBlock
<1>3. CASE Signal(p, s)
  <2> DEFINE Types == /\ state \in [Procs -> {"READY", "BLOCKED"}]
                      /\ queue \in [SemIndex -> [QueueSpot -> Procs \cup {NoPid}]]
                      /\ cardinalBlocked \in [SemIndex -> Nat]
  <2>1. ASSUME Miscounted(s) PROVE Types'
    <3>1. cardinalBlocked[s] - 1 \in Nat
      BY <2>1 DEF Miscounted
    <3> QED BY <2>1, <3>1 DEF Miscounted
  <2>2. ASSUME NEW e \in QueueSpot, Woken(s, e) PROVE Types'
    <3>1. cardinalBlocked[s] - 1 \in Nat
      BY <2>2 DEF Woken
    <3>2. cardinalBlocked' \in [SemIndex -> Nat]
      BY <2>2, <3>1 DEF Woken
    <3> QED BY <2>2, <3>2, EntryWrittenType, StateChangedType DEF Woken
  <2>3. ASSUME NobodyWaits(s) PROVE Types'
    BY <2>3 DEF NobodyWaits
  <2>4. Types'
    BY <1>3, <2>1, <2>2, <2>3, SignalCases
  <2>5. semaphore' \in [SemIndex -> Int] /\ permits' \in [SemIndex -> Int]
    BY <1>3 DEF Signal
  <2> QED BY <1>3, <2>4, <2>5 DEF Signal
<1> QED BY <1>1, <1>2, <1>3

LEMMA WaitReturnType ==
    ASSUME TypeOK, NEW p \in Procs, WaitReturn(p)
    PROVE  TypeOK'
<1>1. 0 \in SemIndex
  BY SemaphoreSizesAssumption DEF SemIndex
<1> QED BY <1>1 DEF TypeOK, WaitReturn, tableVars, procVars

LEMMA LifeType ==
    ASSUME TypeOK, NEW p \in Procs, Create(p) \/ Remove(p)
    PROVE  TypeOK'
BY DEF TypeOK, Create, Remove, tableVars, countVars

\* semCreate, semOpen, semClose and restartSHELL.
LEMMA TableType ==
    ASSUME TypeOK, NEW p \in Procs,
           \/ \E s \in SemIndex : SemClose(p, s)
           \/ \E n \in Names : SemCreateFails(p, n) \/ SemOpen(p, n)
           \/ \E n \in Names, start \in Starts : SemCreate(p, n, start)
           \/ SemCreateBlocks(p)
           \/ RestartShell(p)
    PROVE  TypeOK'
<1> USE DEF TypeOK, tableVars, countVars, procVars
<1>1. ASSUME NEW s \in SemIndex, SemClose(p, s) PROVE TypeOK'
  BY <1>1 DEF SemClose
<1>2. ASSUME NEW n \in Names, SemCreateFails(p, n) \/ SemOpen(p, n) PROVE TypeOK'
  BY <1>2 DEF SemCreateFails, SemOpen
<1>3. ASSUME NEW n \in Names, NEW start \in Starts, SemCreate(p, n, start)
      PROVE  TypeOK'
  <2>1. start \in Int
    BY SemaphoreSizesAssumption
  <2>2. PICK s \in SemIndex :
          /\ used' = [used EXCEPT ![s] = TRUE]
          /\ name' = [name EXCEPT ![s] = n]
          /\ semaphore' = [semaphore EXCEPT ![s] = start]
          /\ pidCreator' = [pidCreator EXCEPT ![s] = p]
          /\ known' = [known EXCEPT ![p] = @ \cup {s}]
          /\ permits' = [permits EXCEPT ![s] = start]
          /\ broken' = IF InWait(s) = {} THEN broken \ {s} ELSE broken \cup {s}
    BY <1>3 DEF SemCreate
  <2>3. used' \in [SemIndex -> BOOLEAN]
    BY <2>2
  <2>4. name' \in [SemIndex -> Names \cup {NullName}]
    BY <2>2
  <2>5. semaphore' \in [SemIndex -> Int] /\ permits' \in [SemIndex -> Int]
    BY <2>1, <2>2
  <2>6. pidCreator' \in [SemIndex -> Procs \cup {NoPid}]
    BY <2>2
  <2>7. known' \in [Procs -> SUBSET SemIndex]
    BY <2>2
  <2>8. broken' \in SUBSET SemIndex
    BY <2>2
  <2> QED BY <1>3, <2>3, <2>4, <2>5, <2>6, <2>7, <2>8 DEF SemCreate
<1>4. CASE SemCreateBlocks(p)
  <2>1. state' \in [Procs -> {"READY", "BLOCKED"}]
    BY <1>4, StateChangedType DEF SemCreateBlocks
  <2> QED BY <1>4, <2>1 DEF SemCreateBlocks
<1>5. CASE RestartShell(p)
  <2>1. 0 \in SemIndex
    BY SemaphoreSizesAssumption DEF SemIndex
  <2> QED BY <1>5, <2>1 DEF RestartShell, CleanQueues
<1> QED BY <1>1, <1>2, <1>3, <1>4, <1>5

LEMMA InitType == Init => TypeOK
<1>1. 0 \in SemIndex
  BY SemaphoreSizesAssumption DEF SemIndex
<1> QED BY <1>1 DEF Init, TypeOK, CleanQueues

LEMMA NextType ==
    ASSUME TypeOK, [Next]_vars
    PROVE  TypeOK'
<1>1. ASSUME NEW p \in Procs, Use(p) \/ RestartShell(p) PROVE TypeOK'
  BY <1>1, WaitSignalType, WaitReturnType, TableType DEF Use
<1>2. ASSUME NEW p \in Procs, Create(p) \/ Remove(p) PROVE TypeOK'
  BY <1>2, LifeType
<1>3. CASE UNCHANGED vars
  BY <1>3 DEF TypeOK, vars, tableVars, countVars, procVars
<1> QED BY <1>1, <1>2, <1>3 DEF Next

\* The variables of semaphores.c and of its callers always have their types.
THEOREM TypeCorrect == Spec => []TypeOK
BY InitType, NextType, PTL DEF Spec

-----------------------------------------------------------------------------
(***************************************************************************)
(* The queues.  Neither property is inductive: that a process is in one    *)
(* queue and in it once needs to know that whoever is in a queue is still  *)
(* BLOCKED at the yield of its wait.  This much is true of the semaphores  *)
(* that are broken as well.                                                *)
(***************************************************************************)

Entries ==
    \A s \in SemIndex : \A e \in Waiting(s) :
        /\ pc[queue[s][e]] = "wait"
        /\ want[queue[s][e]] = s
        /\ state[queue[s][e]] = "BLOCKED"

Counts ==
    \A s \in SemIndex :
        /\ cardinalBlocked[s] = Cardinality(Waiting(s))
        /\ \A e, j \in Waiting(s) : queue[s][e] = queue[s][j] => e = j

\* A process that does not exist yet is in no system call.
UnbornIdle == \A p \in Procs : life[p] = "unborn" => pc[p] = "user"

QueueInv == TypeOK /\ Entries /\ Counts /\ UnbornIdle

\* A queue is finite and what stands in it are processes.
LEMMA WaitingFacts ==
    ASSUME TypeOK, NEW s \in SemIndex
    PROVE  /\ IsFiniteSet(Waiting(s))
           /\ Cardinality(Waiting(s)) \in Nat
           /\ Cardinality(Waiting(s)) = 0 <=> Waiting(s) = {}
           /\ \A e \in Waiting(s) : e \in QueueSpot /\ queue[s][e] \in Procs
<1>1. IsFiniteSet(QueueSpot)
  BY FS_Interval, SemaphoreSizesAssumption DEF QueueSpot
<1>2. IsFiniteSet(Waiting(s))
  BY <1>1, FS_Subset DEF Waiting
<1>3. Cardinality(Waiting(s)) = 0 <=> Waiting(s) = {}
  BY <1>2, FS_EmptySet
<1> QED BY <1>2, <1>3, FS_CardinalityType DEF Waiting, EmptySpots, TypeOK

\* A process is in a queue where some entry names it.
LEMMA InQueueFacts ==
    ASSUME TypeOK, NEW p \in Procs, NEW s \in SemIndex
    PROVE  InQueue(p, s) <=> \E e \in Waiting(s) : queue[s][e] = p
BY NoPidAssumption DEF InQueue, Waiting, EmptySpots

\* Whoever is in a queue is blocked in the wait for that semaphore.
LEMMA EntryFacts ==
    ASSUME TypeOK, Entries, NEW p \in Procs, NEW s \in SemIndex, InQueue(p, s)
    PROVE  pc[p] = "wait" /\ want[p] = s /\ state[p] = "BLOCKED"
BY InQueueFacts DEF Entries

\* addToBlocked makes the queue one entry longer.
LEMMA WaitingQueued ==
    ASSUME TypeOK, NEW p \in Procs, NEW s \in SemIndex,
           NEW e \in QueueSpot, Queued(p, s, e)
    PROVE  /\ e \notin Waiting(s)
           /\ Waiting(s)' = Waiting(s) \cup {e}
           /\ Cardinality(Waiting(s)') = Cardinality(Waiting(s)) + 1
           /\ \A t \in SemIndex \ {s} : Waiting(t)' = Waiting(t)
           /\ \A t \in SemIndex : \A j \in QueueSpot :
                  queue'[t][j] = IF t = s /\ j = e THEN p ELSE queue[t][j]
<1>1. \A t \in SemIndex : \A j \in QueueSpot :
          queue'[t][j] = IF t = s /\ j = e THEN p ELSE queue[t][j]
  BY DEF Queued, TypeOK
<1>2. e \notin Waiting(s)
  BY DEF Queued, Waiting, EmptySpots
<1>3. Waiting(s)' = Waiting(s) \cup {e}
  BY <1>1, NoPidAssumption DEF Waiting, EmptySpots
<1>4. \A t \in SemIndex \ {s} : Waiting(t)' = Waiting(t)
  BY <1>1 DEF Waiting, EmptySpots
<1>5. Cardinality(Waiting(s)') = Cardinality(Waiting(s)) + 1
  BY <1>2, <1>3, WaitingFacts, FS_AddElement
<1> QED BY <1>1, <1>2, <1>3, <1>4, <1>5

\* unblockProcess makes it one entry shorter.
LEMMA WaitingWoken ==
    ASSUME TypeOK, NEW s \in SemIndex, NEW e \in QueueSpot, Woken(s, e)
    PROVE  /\ e \in Waiting(s)
           /\ Waiting(s)' = Waiting(s) \ {e}
           /\ Cardinality(Waiting(s)') = Cardinality(Waiting(s)) - 1
           /\ \A t \in SemIndex \ {s} : Waiting(t)' = Waiting(t)
           /\ \A t \in SemIndex : \A j \in QueueSpot :
                  queue'[t][j] = IF t = s /\ j = e THEN NoPid ELSE queue[t][j]
<1>1. \A t \in SemIndex : \A j \in QueueSpot :
          queue'[t][j] = IF t = s /\ j = e THEN NoPid ELSE queue[t][j]
  BY DEF Woken, TypeOK
<1>2. e \in Waiting(s)
  BY DEF Woken, Waiting, EmptySpots
<1>3. Waiting(s)' = Waiting(s) \ {e}
  BY <1>1 DEF Waiting, EmptySpots
<1>4. \A t \in SemIndex \ {s} : Waiting(t)' = Waiting(t)
  BY <1>1 DEF Waiting, EmptySpots
<1>5. Cardinality(Waiting(s)') = Cardinality(Waiting(s)) - 1
  BY <1>2, <1>3, WaitingFacts, FS_RemoveElement
<1> QED BY <1>1, <1>2, <1>3, <1>4, <1>5

\* With a count that is right signal wakes somebody or nobody waits.
LEMMA SignalCasesInv ==
    ASSUME QueueInv, NEW p \in Procs, NEW s \in SemIndex, Signal(p, s)
    PROVE  (\E e \in QueueSpot : Woken(s, e)) \/ NobodyWaits(s)
<1>1. ~Miscounted(s)
  BY WaitingFacts DEF QueueInv, Counts, Miscounted
<1> QED BY <1>1, SignalCases

\* Steps that leave the queues alone and change nothing about those in them.
LEMMA QueueFrame ==
    ASSUME TypeOK, Entries, Counts,
           UNCHANGED <<queue, cardinalBlocked>>,
           \A q \in Procs : pc[q] = "wait" /\ state[q] = "BLOCKED" =>
               pc'[q] = "wait" /\ want'[q] = want[q] /\ state'[q] = "BLOCKED"
    PROVE  Entries' /\ Counts'
<1>1. \A s \in SemIndex : Waiting(s)' = Waiting(s)
  BY DEF Waiting, EmptySpots
<1>2. Entries'
  BY <1>1, WaitingFacts DEF Entries
<1> QED BY <1>1, <1>2 DEF Counts

\* wait that queues the caller.
LEMMA BlockQueue ==
    ASSUME QueueInv, NEW p \in Procs, NEW s \in SemIndex, WaitBlock(p, s)
    PROVE  Entries' /\ Counts'
<1> USE DEF QueueInv
<1>1. /\ life[p] = "alive" /\ pc[p] = "user"
      /\ pc' = [pc EXCEPT ![p] = "wait"]
      /\ want' = [want EXCEPT ![p] = s]
      /\ state' = [state EXCEPT ![p] = "BLOCKED"]
  BY DEF WaitBlock, Calls, InProgram, StateChanged
<1>2. \A t \in SemIndex : \A j \in Waiting(t) :
          queue[t][j] \in Procs /\ queue[t][j] # p
  BY <1>1, WaitingFacts DEF Entries
<1>3. CASE Overflows(s)
  BY <1>1, <1>3, QueueFrame DEF Overflows, TypeOK
<1>4. ASSUME NEW e \in QueueSpot, Queued(p, s, e)
      PROVE  Entries' /\ Counts'
  <2>1. /\ e \notin Waiting(s)
        /\ Waiting(s)' = Waiting(s) \cup {e}
        /\ Cardinality(Waiting(s)') = Cardinality(Waiting(s)) + 1
        /\ \A t \in SemIndex \ {s} : Waiting(t)' = Waiting(t)
        /\ \A t \in SemIndex : \A j \in QueueSpot :
               queue'[t][j] = IF t = s /\ j = e THEN p ELSE queue[t][j]
    BY <1>4, WaitingQueued
  <2>2. \A t \in SemIndex : \A j \in Waiting(t)' :
            \/ t = s /\ j = e /\ queue'[t][j] = p
            \/ j \in Waiting(t) /\ queue'[t][j] = queue[t][j]
    BY <2>1 DEF Waiting
  <2>3. Entries'
    <3>1. /\ pc'[p] = "wait" /\ want'[p] = s /\ state'[p] = "BLOCKED"
          /\ \A q \in Procs \ {p} :
                pc'[q] = pc[q] /\ want'[q] = want[q] /\ state'[q] = state[q]
      BY <1>1 DEF TypeOK
    <3> QED BY <1>2, <2>2, <3>1 DEF Entries
  <2>4. \A t \in SemIndex : cardinalBlocked'[t] = Cardinality(Waiting(t)')
    BY <1>4, <2>1 DEF Queued, Counts, TypeOK
  <2>5. \A t \in SemIndex : \A j, k \in Waiting(t)' :
            queue'[t][j] = queue'[t][k] => j = k
    BY <1>2, <2>2 DEF Counts
  <2> QED BY <2>3, <2>4, <2>5 DEF Counts
<1> QED BY <1>3, <1>4, BlockCases

\* signal that wakes a process.
LEMMA WokenQueue ==
    ASSUME QueueInv, NEW s \in SemIndex, NEW e \in QueueSpot, Woken(s, e),
           UNCHANGED <<pc, want>>
    PROVE  Entries' /\ Counts'
<1> USE DEF QueueInv
<1>1. /\ e \in Waiting(s)
      /\ Waiting(s)' = Waiting(s) \ {e}
      /\ Cardinality(Waiting(s)') = Cardinality(Waiting(s)) - 1
      /\ \A t \in SemIndex \ {s} : Waiting(t)' = Waiting(t)
      /\ \A t \in SemIndex : \A j \in QueueSpot :
             queue'[t][j] = IF t = s /\ j = e THEN NoPid ELSE queue[t][j]
  BY WaitingWoken
<1>2. \A t \in SemIndex : \A j \in Waiting(t)' :
          /\ j \in Waiting(t) /\ queue'[t][j] = queue[t][j]
          /\ queue[t][j] \in Procs
          /\ ~(t = s /\ j = e)
  BY <1>1, WaitingFacts
<1>3. \A t \in SemIndex : \A j \in Waiting(t)' : queue[t][j] # queue[s][e]
  BY <1>1, <1>2 DEF Entries, Counts
<1>4. \A q \in Procs \ {queue[s][e]} : state'[q] = state[q]
  BY DEF Woken, StateChanged, TypeOK
<1>5. Entries'
  BY <1>2, <1>3, <1>4 DEF Entries
<1>6. \A t \in SemIndex : cardinalBlocked'[t] = Cardinality(Waiting(t)')
  BY <1>1 DEF Woken, Counts, TypeOK
<1>7. \A t \in SemIndex : \A j, k \in Waiting(t)' :
          queue'[t][j] = queue'[t][k] => j = k
  BY <1>2 DEF Counts
<1> QED BY <1>5, <1>6, <1>7 DEF Counts

\* wait, signal and the life of processes, for every program built on them.
LEMMA WaitSignalQueue ==
    ASSUME QueueInv, NEW p \in Procs, NEW s \in SemIndex,
           WaitPass(p, s) \/ WaitBlock(p, s) \/ Signal(p, s)
    PROVE  QueueInv'
<1> USE DEF QueueInv
<1>1. TypeOK'
  BY WaitSignalType
<1>2. UnbornIdle'
  BY DEF UnbornIdle, WaitPass, WaitBlock, Signal, Calls, InProgram, TypeOK,
         procVars
<1>3. CASE WaitPass(p, s)
  BY <1>1, <1>2, <1>3, QueueFrame DEF WaitPass
<1>4. CASE WaitBlock(p, s)
  BY <1>1, <1>2, <1>4, BlockQueue
<1>5. CASE Signal(p, s)
  <2>1. UNCHANGED <<pc, want>>
    BY <1>5 DEF Signal
  <2>2. ASSUME NobodyWaits(s) PROVE Entries' /\ Counts'
    BY <2>1, <2>2, QueueFrame DEF NobodyWaits
  <2> QED BY <1>1, <1>2, <1>5, <2>1, <2>2, WokenQueue, SignalCasesInv
<1> QED BY <1>3, <1>4, <1>5

LEMMA WaitReturnQueue ==
    ASSUME QueueInv, NEW p \in Procs, WaitReturn(p)
    PROVE  QueueInv'
<1> USE DEF QueueInv
<1>1. TypeOK'
  BY WaitReturnType
<1>2. UnbornIdle'
  BY DEF UnbornIdle, WaitReturn, TypeOK, procVars
<1>3. Entries' /\ Counts'
  BY QueueFrame DEF WaitReturn, TypeOK
<1> QED BY <1>1, <1>2, <1>3

LEMMA LifeQueue ==
    ASSUME QueueInv, NEW p \in Procs, Create(p) \/ Remove(p)
    PROVE  QueueInv'
<1> USE DEF QueueInv
<1>1. TypeOK'
  BY LifeType
<1>2. UnbornIdle'
  BY DEF UnbornIdle, Create, Remove, TypeOK
<1>3. Entries' /\ Counts'
  BY QueueFrame DEF Create, Remove, countVars
<1> QED BY <1>1, <1>2, <1>3

\* The operations on the table of semaphores, and restartSHELL, which cleans it.
LEMMA TableQueue ==
    ASSUME QueueInv, NEW p \in Procs,
           \/ \E s \in SemIndex : SemClose(p, s)
           \/ \E n \in Names : SemCreateFails(p, n) \/ SemOpen(p, n)
           \/ \E n \in Names, start \in Starts : SemCreate(p, n, start)
           \/ SemCreateBlocks(p)
           \/ RestartShell(p)
    PROVE  QueueInv'
<1> USE DEF QueueInv
<1>1. TypeOK'
  BY TableType
<1>2. ASSUME UNCHANGED <<queue, cardinalBlocked, state, pc, want, life>>
      PROVE  QueueInv'
  BY <1>1, <1>2, QueueFrame DEF UnbornIdle
<1>3. ASSUME NEW s \in SemIndex, SemClose(p, s) PROVE QueueInv'
  BY <1>2, <1>3 DEF SemClose, countVars, procVars
<1>4. ASSUME NEW n \in Names, SemCreateFails(p, n) \/ SemOpen(p, n)
      PROVE  QueueInv'
  BY <1>2, <1>4 DEF SemCreateFails, SemOpen, countVars, procVars
<1>5. ASSUME NEW n \in Names, NEW start \in Starts, SemCreate(p, n, start)
      PROVE  QueueInv'
  BY <1>2, <1>5 DEF SemCreate
<1>6. CASE SemCreateBlocks(p)
  <2>1. UnbornIdle'
    BY <1>6 DEF UnbornIdle, SemCreateBlocks, InProgram, TypeOK, procVars
  <2>2. Entries' /\ Counts'
    BY <1>6, QueueFrame
       DEF SemCreateBlocks, InProgram, StateChanged, TypeOK, countVars
  <2> QED BY <1>1, <2>1, <2>2
<1>7. CASE RestartShell(p)
  <2>1. UnbornIdle'
    BY <1>7 DEF UnbornIdle, RestartShell
  <2>2. \A s \in SemIndex : Waiting(s)' = {} /\ cardinalBlocked'[s] = 0
    BY <1>7 DEF RestartShell, CleanQueues, Waiting, EmptySpots
  <2>3. Entries' /\ Counts'
    BY <2>2, FS_EmptySet DEF Entries, Counts
  <2> QED BY <1>1, <2>1, <2>3
<1> QED BY <1>3, <1>4, <1>5, <1>6, <1>7

-----------------------------------------------------------------------------
(***************************************************************************)
(* The two properties, semaphore by semaphore.                             *)
(***************************************************************************)

Positive(n) == IF n > 0 THEN n ELSE 0

\* Processes that were handed a permit and have not returned from wait.
Granted(s) == { p \in InWait(s) : ~InQueue(p, s) }

Value(s) == cardinalBlocked[s] = IF semaphore[s] < 0 THEN -semaphore[s] ELSE 0

Waiters(s) ==
    \A p \in Procs : life[p] = "alive" =>
        (InQueue(p, s) <=> (p \in InWait(s) /\ state[p] = "BLOCKED"))

Account(s) == permits[s] = Positive(semaphore[s]) + Cardinality(Granted(s))

Sound(s) == Value(s) /\ Waiters(s) /\ Account(s)

\* What the properties are about: the semaphores that were not broken.
Intact == { s \in SemIndex : used[s] /\ s \notin broken }

IInv == QueueInv /\ \A s \in Intact : Sound(s)

LEMMA GrantedFacts ==
    ASSUME NEW s
    PROVE  IsFiniteSet(Granted(s)) /\ Cardinality(Granted(s)) \in Nat
<1>1. IsFiniteSet(Granted(s))
  BY ProcsAssumption, FS_Subset DEF Granted, InWait
<1> QED BY <1>1, FS_CardinalityType

\* Semaphore s and the processes in its wait, as the step leaves them.
Untouched(s) ==
    /\ queue'[s] = queue[s] /\ cardinalBlocked'[s] = cardinalBlocked[s]
    /\ semaphore'[s] = semaphore[s] /\ permits'[s] = permits[s]
    /\ InWait(s)' = InWait(s)
    /\ \A q \in InWait(s) :
           life'[q] = "alive" => life[q] = "alive" /\ state'[q] = state[q]

\* Other semaphores are none of a step's business.
LEMMA SoundFrame ==
    ASSUME QueueInv, NEW s \in SemIndex, Sound(s), Untouched(s)
    PROVE  Sound(s)'
<1>1. \A q \in Procs : InQueue(q, s)' <=> InQueue(q, s)
  BY DEF InQueue, Untouched
<1>2. Granted(s)' = Granted(s)
  BY <1>1 DEF Granted, InWait, Untouched
<1>3. Value(s)' /\ Account(s)'
  BY <1>2 DEF Value, Account, Positive, Untouched, Sound
<1>4. Waiters(s)'
  <2> SUFFICES ASSUME NEW q \in Procs, life'[q] = "alive"
               PROVE  InQueue(q, s)' <=> (q \in InWait(s)' /\ state'[q] = "BLOCKED")
    BY DEF Waiters
  <2>1. CASE q \in InWait(s)
    BY <1>1, <2>1 DEF Untouched, Sound, Waiters
  <2>2. CASE q \notin InWait(s)
    BY <1>1, <2>2, EntryFacts DEF Untouched, QueueInv, InWait
  <2> QED BY <2>1, <2>2
<1> QED BY <1>3, <1>4 DEF Sound

\* wait on a positive value.
LEMMA PassSound ==
    ASSUME QueueInv, NEW p \in Procs, NEW s \in SemIndex, Sound(s), WaitPass(p, s)
    PROVE  Sound(s)'
<1>1. /\ semaphore[s] >= 1 /\ semaphore'[s] = semaphore[s] - 1
      /\ permits'[s] = permits[s] - 1
      /\ UNCHANGED <<queue, cardinalBlocked, state, pc, want, life>>
      /\ semaphore[s] \in Int /\ permits[s] \in Int
  BY DEF WaitPass, Passable, QueueInv, TypeOK, procVars
<1>2. \A q \in Procs : InQueue(q, s)' <=> InQueue(q, s)
  BY <1>1 DEF InQueue
<1>3. InWait(s)' = InWait(s)
  BY <1>1 DEF InWait
<1>4. Granted(s)' = Granted(s)
  BY <1>2, <1>3 DEF Granted, InWait
<1>5. Value(s)' /\ Account(s)'
  BY <1>1, <1>4, GrantedFacts DEF Value, Account, Positive, Sound
<1>6. Waiters(s)'
  BY <1>1, <1>2, <1>3 DEF Waiters, Sound
<1> QED BY <1>5, <1>6 DEF Sound

\* wait that queues the caller: one more stands in the queue, nobody is granted.
LEMMA BlockSound ==
    ASSUME QueueInv, NEW p \in Procs, NEW s \in SemIndex, Sound(s),
           WaitBlock(p, s), NEW e \in QueueSpot, Queued(p, s, e)
    PROVE  Sound(s)'
<1>1. /\ semaphore[s] <= 0 /\ semaphore'[s] = semaphore[s] - 1
      /\ permits'[s] = permits[s] /\ life' = life
      /\ life[p] = "alive" /\ pc[p] = "user"
      /\ semaphore[s] \in Int /\ permits[s] \in Int
  BY DEF WaitBlock, Calls, InProgram, Passable, QueueInv, TypeOK, procVars
<1>2. /\ \A q \in Procs \ {p} :
            pc'[q] = pc[q] /\ want'[q] = want[q] /\ state'[q] = state[q]
      /\ pc'[p] = "wait" /\ want'[p] = s /\ state'[p] = "BLOCKED"
  BY <1>1 DEF WaitBlock, StateChanged, QueueInv, TypeOK
<1>3. cardinalBlocked[s] \in Nat /\ cardinalBlocked'[s] = cardinalBlocked[s] + 1
  BY DEF Queued, QueueInv, TypeOK
<1>4. /\ queue[s][e] = NoPid
      /\ \A j \in QueueSpot : queue'[s][j] = IF j = e THEN p ELSE queue[s][j]
  BY DEF QueueInv, TypeOK, Queued
<1>5. \A q \in Procs : InQueue(q, s)' <=> (InQueue(q, s) \/ q = p)
  BY <1>4, NoPidAssumption DEF InQueue
<1>6. InWait(s)' = InWait(s) \cup {p} /\ p \notin InWait(s)
  BY <1>1, <1>2 DEF InWait
<1>7. Granted(s)' = Granted(s)
  BY <1>5, <1>6 DEF Granted, InWait
<1>8. Value(s)' /\ Account(s)'
  BY <1>1, <1>3, <1>7 DEF Value, Account, Positive, Sound
<1>9. Waiters(s)'
  BY <1>1, <1>2, <1>5, <1>6 DEF Waiters, Sound
<1> QED BY <1>8, <1>9 DEF Sound

\* The second half of wait uses up the permit the process was handed.
LEMMA ReturnSound ==
    ASSUME QueueInv, NEW p \in Procs, NEW s \in SemIndex, Sound(s),
           WaitReturn(p), want[p] = s
    PROVE  Sound(s)'
<1>1. /\ pc[p] = "wait" /\ state[p] = "READY" /\ life[p] = "alive"
      /\ permits'[s] = permits[s] - 1
      /\ UNCHANGED <<queue, cardinalBlocked, semaphore, state, life>>
      /\ semaphore[s] \in Int /\ permits[s] \in Int
  BY DEF WaitReturn, QueueInv, TypeOK, procVars
<1>2. /\ \A q \in Procs \ {p} : pc'[q] = pc[q] /\ want'[q] = want[q]
      /\ pc'[p] = "user"
  BY DEF WaitReturn, QueueInv, TypeOK
<1>3. \A q \in Procs : InQueue(q, s)' <=> InQueue(q, s)
  BY <1>1 DEF InQueue
<1>4. ~InQueue(p, s)
  BY <1>1, EntryFacts DEF QueueInv
<1>5. InWait(s)' = InWait(s) \ {p} /\ p \in InWait(s)
  BY <1>1, <1>2 DEF InWait
<1>6. Granted(s)' = Granted(s) \ {p} /\ p \in Granted(s)
  BY <1>3, <1>4, <1>5 DEF Granted, InWait
<1>7. Cardinality(Granted(s)') = Cardinality(Granted(s)) - 1
  BY <1>6, GrantedFacts, FS_RemoveElement
<1>8. Value(s)' /\ Account(s)'
  BY <1>1, <1>7, GrantedFacts DEF Value, Account, Positive, Sound
<1>9. Waiters(s)'
  BY <1>1, <1>3, <1>4, <1>5 DEF Waiters, Sound
<1> QED BY <1>8, <1>9 DEF Sound

\* signal hands its permit to the process it wakes, who is granted from then on.
LEMMA WokenSound ==
    ASSUME QueueInv, NEW p \in Procs, NEW s \in SemIndex, Sound(s),
           Signal(p, s), NEW e \in QueueSpot, Woken(s, e)
    PROVE  Sound(s)'
<1> DEFINE h == queue[s][e]
<1>1. /\ semaphore'[s] = semaphore[s] + 1 /\ permits'[s] = permits[s] + 1
      /\ UNCHANGED <<life, pc, want>>
      /\ semaphore[s] \in Int /\ permits[s] \in Int
  BY DEF Signal, QueueInv, TypeOK, procVars
<1>2. /\ cardinalBlocked[s] \in Nat /\ cardinalBlocked[s] > 0
      /\ cardinalBlocked'[s] = cardinalBlocked[s] - 1
  BY DEF Woken, QueueInv, TypeOK
<1>3. semaphore[s] < 0
  BY <1>1, <1>2 DEF Sound, Value
<1>4. h \in Procs /\ e \in Waiting(s)
  BY DEF Woken, QueueInv, TypeOK, Waiting, EmptySpots
<1>5. h \in InWait(s)
  BY <1>4 DEF QueueInv, Entries, InWait
<1>6. \A j \in QueueSpot : queue'[s][j] = IF j = e THEN NoPid ELSE queue[s][j]
  BY DEF Woken, QueueInv, TypeOK
<1>7. \A j \in QueueSpot : queue[s][j] = h => j = e
  BY <1>4, NoPidAssumption DEF QueueInv, Counts, Waiting, EmptySpots
<1>8. \A q \in Procs : InQueue(q, s)' <=> (InQueue(q, s) /\ q # h)
  BY <1>6, <1>7, NoPidAssumption DEF InQueue
<1>9. InWait(s)' = InWait(s)
  BY <1>1 DEF InWait
<1>10. Granted(s)' = Granted(s) \cup {h} /\ h \notin Granted(s)
  BY <1>4, <1>5, <1>8, <1>9 DEF Granted, InWait, InQueue
<1>11. Cardinality(Granted(s)') = Cardinality(Granted(s)) + 1
  BY <1>10, GrantedFacts, FS_AddElement
<1>12. Value(s)' /\ Account(s)'
  BY <1>1, <1>2, <1>3, <1>11, GrantedFacts DEF Value, Account, Positive, Sound
<1>13. Waiters(s)'
  <2>1. \A q \in Procs : life[q] = "alive" =>
            state'[q] = IF q = h THEN "READY" ELSE state[q]
    BY <1>4 DEF Woken, StateChanged, QueueInv, TypeOK
  <2> QED BY <1>1, <1>8, <1>9, <2>1 DEF Waiters, Sound
<1> QED BY <1>12, <1>13 DEF Sound

\* signal with nobody waiting keeps the permit in the value.
LEMMA NobodySound ==
    ASSUME QueueInv, NEW p \in Procs, NEW s \in SemIndex, Sound(s),
           Signal(p, s), NobodyWaits(s)
    PROVE  Sound(s)'
<1>1. /\ semaphore'[s] = semaphore[s] + 1 /\ permits'[s] = permits[s] + 1
      /\ UNCHANGED <<queue, cardinalBlocked, state, pc, want, life>>
      /\ semaphore[s] \in Int /\ permits[s] \in Int
      /\ cardinalBlocked[s] \in Nat /\ ~(cardinalBlocked[s] > 0)
  BY DEF Signal, NobodyWaits, QueueInv, TypeOK, procVars
<1>2. semaphore[s] >= 0
  BY <1>1 DEF Sound, Value
<1>3. \A q \in Procs : InQueue(q, s)' <=> InQueue(q, s)
  BY <1>1 DEF InQueue
<1>4. InWait(s)' = InWait(s)
  BY <1>1 DEF InWait
<1>5. Granted(s)' = Granted(s)
  BY <1>3, <1>4 DEF Granted, InWait
<1>6. Value(s)' /\ Account(s)'
  BY <1>1, <1>2, <1>5, GrantedFacts DEF Value, Account, Positive, Sound
<1>7. Waiters(s)'
  BY <1>1, <1>3, <1>4 DEF Waiters, Sound
<1> QED BY <1>6, <1>7 DEF Sound

\* A spot that is taken again with nobody in its wait starts afresh.
LEMMA FreshSound ==
    ASSUME QueueInv, NEW s \in SemIndex, NEW start \in Starts,
           InWait(s) = {}, semaphore'[s] = start, permits'[s] = start,
           UNCHANGED <<queue, cardinalBlocked, pc, want>>
    PROVE  Sound(s)'
<1>1. start \in Nat
  BY SemaphoreSizesAssumption
<1>2. Waiting(s) = {}
  <2>1. \A e \in Waiting(s) : queue[s][e] \in InWait(s)
    BY WaitingFacts DEF QueueInv, Entries, InWait
  <2> QED BY <2>1
<1>3. cardinalBlocked'[s] = 0
  BY <1>2, WaitingFacts DEF QueueInv, Counts
<1>4. InWait(s)' = {} /\ \A q \in Procs : ~InQueue(q, s)'
  BY <1>2, NoPidAssumption DEF InWait, InQueue, Waiting, EmptySpots
<1>5. Granted(s)' = {}
  BY <1>4 DEF Granted
<1>6. Cardinality(Granted(s)') = 0
  BY <1>5, FS_EmptySet
<1>7. Value(s)' /\ Account(s)'
  BY <1>1, <1>3, <1>6 DEF Value, Account, Positive
<1>8. Waiters(s)'
  BY <1>4 DEF Waiters
<1> QED BY <1>7, <1>8 DEF Sound

\* wait and signal keep the semaphore they are called with sound, if it does not
\* overflow, and leave the others untouched.
LEMMA WaitSignalSound ==
    ASSUME IInv, NEW p \in Procs, NEW s \in SemIndex,
           WaitPass(p, s) \/ WaitBlock(p, s) \/ Signal(p, s)
    PROVE  \A t \in Intact' : Sound(t)'
<1> SUFFICES ASSUME NEW t \in Intact' PROVE Sound(t)'
  OBVIOUS
<1> USE DEF IInv
<1>1. t \in SemIndex /\ t \notin broken'
  BY DEF Intact
<1>2. t \in Intact
  <2>1. used' = used
    BY DEF WaitPass, WaitBlock, Signal, tableVars
  <2>2. t \notin broken
    BY <1>1, BlockCases DEF WaitPass, Signal, Overflows, Queued
  <2> QED BY <1>1, <2>1, <2>2 DEF Intact
<1>3. CASE WaitPass(p, s)
  <2>1. t # s => Untouched(t)
    BY <1>1, <1>3 DEF WaitPass, Untouched, InWait, QueueInv, TypeOK, procVars
  <2> QED BY <1>1, <1>2, <1>3, <2>1, SoundFrame, PassSound
<1>4. CASE WaitBlock(p, s)
  <2>1. t # s => Untouched(t)
    <3>1. /\ pc[p] = "user" /\ life[p] = "alive" /\ life' = life
          /\ pc' = [pc EXCEPT ![p] = "wait"]
          /\ want' = [want EXCEPT ![p] = s]
          /\ state' = [state EXCEPT ![p] = "BLOCKED"]
          /\ semaphore' = [semaphore EXCEPT ![s] = @ - 1] /\ permits' = permits
      BY <1>4 DEF WaitBlock, Calls, InProgram, StateChanged, procVars
    <3>2. t # s => /\ queue'[t] = queue[t]
                   /\ cardinalBlocked'[t] = cardinalBlocked[t]
      <4>1. CASE Overflows(s)
        BY <4>1 DEF Overflows
      <4>2. ASSUME NEW e \in QueueSpot, Queued(p, s, e)
            PROVE  t # s => /\ queue'[t] = queue[t]
                            /\ cardinalBlocked'[t] = cardinalBlocked[t]
        BY <1>1, <4>2 DEF Queued, QueueInv, TypeOK
      <4> QED BY <1>4, <4>1, <4>2, BlockCases
    <3>3. t # s => /\ InWait(t)' = InWait(t)
                   /\ \A q \in InWait(t) : state'[q] = state[q]
      BY <3>1 DEF InWait, QueueInv, TypeOK
    <3> QED BY <1>1, <3>1, <3>2, <3>3 DEF Untouched, QueueInv, TypeOK
  <2>2. t = s => \E e \in QueueSpot : Queued(p, s, e)
    BY <1>1, <1>4, BlockCases DEF Overflows
  <2> QED BY <1>1, <1>2, <1>4, <2>1, <2>2, SoundFrame, BlockSound
<1>5. CASE Signal(p, s)
  <2>1. t # s => Untouched(t)
    <3>1. /\ UNCHANGED <<pc, want, life>>
          /\ semaphore' = [semaphore EXCEPT ![s] = @ + 1]
          /\ permits' = [permits EXCEPT ![s] = @ + 1]
      BY <1>5 DEF Signal, procVars
    <3>2. InWait(t)' = InWait(t)
      BY <3>1 DEF InWait
    <3>3. CASE NobodyWaits(s)
      BY <1>1, <3>1, <3>2, <3>3 DEF NobodyWaits, Untouched, QueueInv, TypeOK
    <3>4. ASSUME NEW e \in QueueSpot, Woken(s, e), t # s PROVE Untouched(t)
      <4>1. queue[s][e] \in InWait(s)
        BY <3>4 DEF Woken, QueueInv, TypeOK, Entries, Waiting, EmptySpots, InWait
      <4>2. \A q \in InWait(t) : state'[q] = state[q]
        BY <3>4, <4>1 DEF Woken, StateChanged, InWait, QueueInv, TypeOK
      <4>3. queue'[t] = queue[t] /\ cardinalBlocked'[t] = cardinalBlocked[t]
        BY <1>1, <3>4 DEF Woken, QueueInv, TypeOK
      <4> QED BY <1>1, <3>1, <3>2, <3>4, <4>2, <4>3
             DEF Untouched, QueueInv, TypeOK
    <3> QED BY <1>5, <3>3, <3>4, SignalCasesInv
  <2> QED BY <1>1, <1>2, <1>5, <2>1, SoundFrame, WokenSound, NobodySound,
             SignalCasesInv
<1> QED BY <1>3, <1>4, <1>5

LEMMA ReturnLifeSound ==
    ASSUME IInv, NEW p \in Procs, WaitReturn(p) \/ Create(p) \/ Remove(p)
    PROVE  \A t \in Intact' : Sound(t)'
<1> SUFFICES ASSUME NEW t \in Intact' PROVE Sound(t)'
  OBVIOUS
<1> USE DEF IInv
<1>1. t \in SemIndex /\ t \in Intact
  BY DEF Intact, WaitReturn, Create, Remove, tableVars, countVars
<1>2. CASE WaitReturn(p)
  <2>1. want[p] # t => Untouched(t)
    <3>1. want[p] # t => InWait(t)' = InWait(t)
      BY <1>2 DEF WaitReturn, InWait, QueueInv, TypeOK
    <3> QED BY <1>1, <1>2, <3>1
           DEF WaitReturn, Untouched, QueueInv, TypeOK, procVars
  <2> QED BY <1>1, <1>2, <2>1, SoundFrame, ReturnSound
<1>3. CASE Create(p)
  <2>1. p \notin InWait(t)
    BY <1>3 DEF Create, InWait, QueueInv, UnbornIdle
  <2>2. Untouched(t)
    BY <1>3, <2>1 DEF Create, Untouched, InWait, countVars, QueueInv, TypeOK
  <2> QED BY <1>1, <2>2, SoundFrame
<1>4. CASE Remove(p)
  <2>1. Untouched(t)
    BY <1>4 DEF Remove, Untouched, InWait, countVars, QueueInv, TypeOK
  <2> QED BY <1>1, <2>1, SoundFrame
<1> QED BY <1>2, <1>3, <1>4

\* semCreate, semOpen, semClose, and restartSHELL, after which none is in use.
LEMMA TableSound ==
    ASSUME IInv, NEW p \in Procs,
           \/ \E s \in SemIndex : SemClose(p, s)
           \/ \E n \in Names : SemCreateFails(p, n) \/ SemOpen(p, n)
           \/ \E n \in Names, start \in Starts : SemCreate(p, n, start)
           \/ SemCreateBlocks(p)
           \/ RestartShell(p)
    PROVE  \A t \in Intact' : Sound(t)'
<1> SUFFICES ASSUME NEW t \in Intact' PROVE Sound(t)'
  OBVIOUS
<1> USE DEF IInv
<1>1. t \in SemIndex /\ used'[t] /\ t \notin broken'
  BY DEF Intact
<1>2. ASSUME UNCHANGED <<countVars, state, pc, want, life>>, used[t]
      PROVE  Sound(t)'
  <2>1. t \in Intact
    BY <1>1, <1>2 DEF Intact, countVars
  <2>2. Untouched(t)
    BY <1>2 DEF Untouched, InWait, countVars
  <2> QED BY <1>1, <2>1, <2>2, SoundFrame
<1>3. ASSUME NEW s \in SemIndex, SemClose(p, s) PROVE Sound(t)'
  <2>1. used[t]
    BY <1>1, <1>3 DEF SemClose, QueueInv, TypeOK
  <2> QED BY <1>2, <1>3, <2>1 DEF SemClose, procVars
<1>4. ASSUME NEW n \in Names, SemCreateFails(p, n) \/ SemOpen(p, n)
      PROVE  Sound(t)'
  BY <1>1, <1>2, <1>4 DEF SemCreateFails, SemOpen, procVars, tableVars
<1>5. ASSUME NEW n \in Names, NEW start \in Starts, SemCreate(p, n, start)
      PROVE  Sound(t)'
  <2>1. PICK s \in SemIndex :
          /\ used' = [used EXCEPT ![s] = TRUE]
          /\ semaphore' = [semaphore EXCEPT ![s] = start]
          /\ permits' = [permits EXCEPT ![s] = start]
          /\ broken' = IF InWait(s) = {} THEN broken \ {s} ELSE broken \cup {s}
    BY <1>5 DEF SemCreate
  <2>2. UNCHANGED <<queue, cardinalBlocked, life, state, pc, want>>
    BY <1>5 DEF SemCreate
  <2>3. CASE t = s
    <3>1. InWait(s) = {}
      BY <1>1, <2>1, <2>3
    <3> QED BY <2>1, <2>2, <2>3, <3>1, FreshSound DEF QueueInv, TypeOK
  <2>4. CASE t # s
    <3>1. t \in Intact
      BY <1>1, <2>1, <2>4 DEF Intact, QueueInv, TypeOK
    <3>2. Untouched(t)
      BY <1>1, <2>1, <2>2, <2>4 DEF Untouched, InWait, QueueInv, TypeOK
    <3> QED BY <1>1, <3>1, <3>2, SoundFrame
  <2> QED BY <2>3, <2>4
<1>6. CASE SemCreateBlocks(p)
  <2>1. /\ UNCHANGED <<tableVars, countVars, life, want>>
        /\ pc[p] = "user" /\ pc' = [pc EXCEPT ![p] = "create"]
        /\ state' = [state EXCEPT ![p] = "BLOCKED"]
    BY <1>6 DEF SemCreateBlocks, InProgram, StateChanged, procVars
  <2>2. Untouched(t)
    BY <2>1 DEF Untouched, InWait, countVars, QueueInv, TypeOK
  <2>3. t \in Intact
    BY <1>1, <2>1 DEF Intact, tableVars, countVars
  <2> QED BY <1>1, <2>2, <2>3, SoundFrame
<1>7. CASE RestartShell(p)
  BY <1>1, <1>7 DEF RestartShell
<1> QED BY <1>3, <1>4, <1>5, <1>6, <1>7

LEMMA InitIInv == Init => IInv
<1> SUFFICES ASSUME Init PROVE IInv
  OBVIOUS
<1>1. TypeOK
  BY InitType
<1>2. \A s \in SemIndex : Waiting(s) = {} /\ cardinalBlocked[s] = 0 /\ ~used[s]
  BY DEF Init, CleanQueues, Waiting, EmptySpots
<1>3. Entries /\ Counts
  BY <1>2, FS_EmptySet DEF Entries, Counts
<1>4. UnbornIdle
  BY DEF Init, UnbornIdle
<1> QED BY <1>1, <1>2, <1>3, <1>4 DEF IInv, QueueInv, Intact

LEMMA NextIInv ==
    ASSUME IInv, [Next]_vars
    PROVE  IInv'
<1>1. ASSUME NEW p \in Procs, Use(p) \/ RestartShell(p) PROVE IInv'
  <2>1. QueueInv'
    BY <1>1, WaitSignalQueue, WaitReturnQueue, TableQueue DEF Use, IInv
  <2>2. \A t \in Intact' : Sound(t)'
    BY <1>1, WaitSignalSound, ReturnLifeSound, TableSound DEF Use
  <2> QED BY <2>1, <2>2 DEF IInv
<1>2. ASSUME NEW p \in Procs, Create(p) \/ Remove(p) PROVE IInv'
  BY <1>2, LifeQueue, ReturnLifeSound DEF IInv
<1>3. CASE UNCHANGED vars
  <2> USE <1>3 DEF vars, tableVars, countVars, procVars
  <2>1. QueueInv'
    <3>1. Entries' /\ Counts'
      BY QueueFrame DEF IInv, QueueInv
    <3> QED BY <3>1 DEF IInv, QueueInv, TypeOK, UnbornIdle
  <2>2. \A s \in SemIndex : Untouched(s)
    BY DEF Untouched, InWait
  <2>3. Intact' = Intact
    BY DEF Intact
  <2> QED BY <2>1, <2>2, <2>3, SoundFrame DEF IInv, Intact
<1> QED BY <1>1, <1>2, <1>3 DEF Next

LEMMA Invariance == Spec => []IInv
BY InitIInv, NextIInv, PTL DEF Spec

\* The value, cardinalBlocked and the queue of a semaphore agree, and the living
\* processes blocked in wait are those of the queue: signal always finds whom it
\* should wake, however many processes there are and whoever was killed.
THEOREM QueueBookkeeping == Spec => []QueueMatchesValue
<1>1. IInv => QueueMatchesValue
  BY DEF IInv, QueueInv, Counts, Intact, Sound, Value, Waiters,
         QueueMatchesValue
<1> QED BY <1>1, Invariance, PTL

\* wait and signal neither invent nor lose a permit: it is in the value or with
\* a process that has not returned from wait.
THEOREM PermitsKept == Spec => []PermitsAccounted
<1>1. IInv => PermitsAccounted
  BY DEF IInv, Intact, Sound, Account, Positive, Granted, PermitsAccounted
<1> QED BY <1>1, Invariance, PTL

-----------------------------------------------------------------------------
(***************************************************************************)
(* What programs built on wait and signal need, and what remains true when *)
(* a queue overflows: a process that overflowed waits for ever, but nobody *)
(* passes for whom there is no permit.                                     *)
(***************************************************************************)

Ready(s) == { p \in InWait(s) : state[p] = "READY" }

Covered(s) ==
    /\ cardinalBlocked[s] > 0 => semaphore[s] <= -cardinalBlocked[s]
    /\ Positive(semaphore[s]) + Cardinality(Ready(s)) <= permits[s]

LEMMA ReadyFacts ==
    ASSUME NEW s
    PROVE  IsFiniteSet(Ready(s)) /\ Cardinality(Ready(s)) \in Nat
<1>1. IsFiniteSet(Ready(s))
  BY ProcsAssumption, FS_Subset DEF Ready, InWait
<1> QED BY <1>1, FS_CardinalityType

\* Permits are never negative: no more waits return than start and signals allow.
LEMMA CoveredPermits ==
    ASSUME TypeOK, NEW s \in SemIndex, Covered(s)
    PROVE  permits[s] \in Nat
BY ReadyFacts DEF Covered, Positive, TypeOK

LEMMA PassCovered ==
    ASSUME QueueInv, NEW p \in Procs, NEW s \in SemIndex, WaitPass(p, s),
           NEW t \in SemIndex, Covered(t)
    PROVE  Covered(t)'
<1>1. Ready(t)' = Ready(t)
  BY DEF WaitPass, Ready, InWait
<1>2. /\ semaphore[s] >= 1 /\ cardinalBlocked' = cardinalBlocked
      /\ semaphore'[t] = IF t = s THEN semaphore[s] - 1 ELSE semaphore[t]
      /\ permits'[t] = IF t = s THEN permits[s] - 1 ELSE permits[t]
  BY DEF WaitPass, Passable, QueueInv, TypeOK
<1>3. semaphore[t] \in Int /\ permits[t] \in Int /\ cardinalBlocked[t] \in Nat
  BY DEF QueueInv, TypeOK
<1> QED BY <1>1, <1>2, <1>3, ReadyFacts DEF Covered, Positive

LEMMA BlockCovered ==
    ASSUME QueueInv, NEW p \in Procs, NEW s \in SemIndex, WaitBlock(p, s),
           NEW t \in SemIndex, Covered(t)
    PROVE  Covered(t)'
<1>1. /\ pc[p] = "user" /\ life[p] = "alive"
      /\ pc' = [pc EXCEPT ![p] = "wait"]
      /\ want' = [want EXCEPT ![p] = s]
      /\ state' = [state EXCEPT ![p] = "BLOCKED"]
  BY DEF WaitBlock, Calls, InProgram, StateChanged
<1>2. Ready(t)' = Ready(t)
  BY <1>1 DEF Ready, InWait, QueueInv, TypeOK
<1>3. /\ semaphore[s] <= 0 /\ permits' = permits
      /\ semaphore'[t] = IF t = s THEN semaphore[s] - 1 ELSE semaphore[t]
  BY DEF WaitBlock, Passable, QueueInv, TypeOK
<1>4. semaphore[t] \in Int /\ permits[t] \in Int /\ cardinalBlocked[t] \in Nat
  BY DEF QueueInv, TypeOK
<1>5. \/ cardinalBlocked'[t] = cardinalBlocked[t]
      \/ t = s /\ cardinalBlocked'[t] = cardinalBlocked[t] + 1
  BY BlockCases DEF Overflows, Queued, QueueInv, TypeOK
<1> QED BY <1>2, <1>3, <1>4, <1>5 DEF Covered, Positive

LEMMA SignalCovered ==
    ASSUME QueueInv, NEW p \in Procs, NEW s \in SemIndex, Signal(p, s),
           NEW t \in SemIndex, Covered(t)
    PROVE  Covered(t)'
<1>1. /\ semaphore'[t] = IF t = s THEN semaphore[s] + 1 ELSE semaphore[t]
      /\ permits'[t] = IF t = s THEN permits[s] + 1 ELSE permits[t]
      /\ UNCHANGED <<pc, want>>
  BY DEF Signal, QueueInv, TypeOK
<1>2. semaphore[t] \in Int /\ permits[t] \in Int /\ cardinalBlocked[t] \in Nat
  BY DEF QueueInv, TypeOK
<1>3. CASE NobodyWaits(s)
  <2>1. Ready(t)' = Ready(t) /\ cardinalBlocked' = cardinalBlocked
    BY <1>1, <1>3 DEF NobodyWaits, Ready, InWait
  <2>2. t = s => ~(cardinalBlocked[t] > 0)
    BY <1>3 DEF NobodyWaits
  <2> QED BY <1>1, <1>2, <2>1, <2>2, ReadyFacts DEF Covered, Positive
<1>4. ASSUME NEW k \in QueueSpot, Woken(s, k) PROVE Covered(t)'
  <2> DEFINE h == queue[s][k]
  <2>1. h \in Procs /\ h \in InWait(s)
    BY <1>4 DEF Woken, QueueInv, TypeOK, Entries, Waiting, EmptySpots, InWait
  <2>2. \A q \in Procs \ {h} : state'[q] = state[q]
    BY <1>4 DEF Woken, StateChanged, QueueInv, TypeOK
  <2>3. t # s => Ready(t)' = Ready(t)
    BY <1>1, <2>1, <2>2 DEF Ready, InWait
  <2>4. Ready(t)' = Ready(t) \/ Ready(t)' = Ready(t) \cup {h}
    <3>1. h \notin Ready(t)
      BY <1>4 DEF Woken, QueueInv, TypeOK, Entries, Waiting, EmptySpots, Ready
    <3> HIDE DEF h
    <3>2. \A q \in Procs : q # h => (q \in Ready(t)' <=> q \in Ready(t))
      BY <1>1, <2>2 DEF Ready, InWait
    <3> QED BY <3>1, <3>2 DEF Ready, InWait
  <2>5. Cardinality(Ready(t)') \in {Cardinality(Ready(t)), Cardinality(Ready(t)) + 1}
    BY <2>4, ReadyFacts, FS_AddElement
  <2>6. /\ cardinalBlocked'[t] = IF t = s THEN cardinalBlocked[t] - 1
                                          ELSE cardinalBlocked[t]
        /\ t = s => cardinalBlocked[t] > 0
    BY <1>4 DEF Woken, QueueInv, TypeOK
  <2>7. CASE t = s
    BY <1>1, <1>2, <2>5, <2>6, <2>7, ReadyFacts DEF Covered, Positive
  <2>8. CASE t # s
    BY <1>1, <1>2, <2>3, <2>6, <2>8 DEF Covered, Positive
  <2> QED BY <2>7, <2>8
<1> QED BY <1>3, <1>4, SignalCasesInv

LEMMA ReturnCovered ==
    ASSUME QueueInv, NEW p \in Procs, WaitReturn(p), NEW t \in SemIndex, Covered(t)
    PROVE  Covered(t)'
<1>1. /\ pc[p] = "wait" /\ state[p] = "READY"
      /\ pc' = [pc EXCEPT ![p] = "user"]
      /\ \A q \in Procs \ {p} : want'[q] = want[q]
      /\ permits'[t] = IF want[p] = t THEN permits[t] - 1 ELSE permits[t]
      /\ UNCHANGED <<semaphore, cardinalBlocked, state>>
  BY DEF WaitReturn, QueueInv, TypeOK
<1>2. semaphore[t] \in Int /\ permits[t] \in Int /\ cardinalBlocked[t] \in Nat
  BY DEF QueueInv, TypeOK
<1>3. CASE want[p] = t
  <2>1. p \in Ready(t) /\ Ready(t)' = Ready(t) \ {p}
    BY <1>1, <1>3 DEF Ready, InWait, QueueInv, TypeOK
  <2>2. Cardinality(Ready(t)') = Cardinality(Ready(t)) - 1
    BY <2>1, ReadyFacts, FS_RemoveElement
  <2> QED BY <1>1, <1>2, <1>3, <2>2, ReadyFacts DEF Covered, Positive
<1>4. CASE want[p] # t
  <2>1. Ready(t)' = Ready(t)
    BY <1>1, <1>4 DEF Ready, InWait, QueueInv, TypeOK
  <2> QED BY <1>1, <1>2, <1>4, <2>1 DEF Covered, Positive
<1> QED BY <1>3, <1>4

\* Steps that concern no semaphore, the creation and the end of processes among
\* them.
LEMMA IdleCovered ==
    ASSUME UNCHANGED <<countVars, state, pc, want>>, NEW t, Covered(t)
    PROVE  Covered(t)'
<1>1. Ready(t)' = Ready(t)
  BY DEF Ready, InWait
<1> QED BY <1>1 DEF Covered, Positive, countVars

-----------------------------------------------------------------------------
(***************************************************************************)
(* The producer/consumer demo is a bounded queue, for any number of        *)
(* producers and consumers, any buffer, any size of the kernel's queues    *)
(* (overflowing ones included), and whoever is killed and whenever.        *)
(*                                                                         *)
(* The argument is the one the three semaphores were meant for.  Every     *)
(* permit of a semaphore is either free or with a process that is at a     *)
(* certain place of its loop, a killed one too:                            *)
(*   itemMutex: the processes between its wait and its signal;             *)
(*   emptyCount: the free places are those that producers have reserved    *)
(*     and those that consumers have vacated and not yet signalled;        *)
(*   fullCount: likewise, the other way round.                             *)
(* Since permits are never negative (Covered) the counts bound one another.*)
(***************************************************************************)

\* Where a process with label a and pc c counts: inside the critical section,
InsideAt(a, c) == a \in InCriticalSection /\ c = "user"

\* a producer that has taken a place and not filled it yet,
ReservedAt(a, c) == (a = "lockP" /\ c = "user") \/ a \in {"store", "advanceW"}

\* a producer that has stored an item and not signalled it yet,
AnnouncingAt(a, c) == a \in {"releaseP", "signalFull"}

\* a consumer that has claimed an item and not taken it out yet,
ClaimedAt(a, c) == (a = "lockC" /\ c = "user") \/ a \in {"fetch", "advanceR"}

\* a consumer that has taken out an item and not signalled the place yet.
VacatingAt(a, c) == a \in {"releaseC", "signalEmpty"}

Inside == { p \in Procs : InsideAt(at[p], pc[p]) }
Reserved == { p \in Procs : ReservedAt(at[p], pc[p]) }
Announcing == { p \in Procs : AnnouncingAt(at[p], pc[p]) }
Claimed == { p \in Procs : ClaimedAt(at[p], pc[p]) }
Vacating == { p \in Procs : VacatingAt(at[p], pc[p]) }

MutexAccount == permits[itemMutex] + Cardinality(Inside) = 1

EmptyAccount ==
    permits[emptyCount] + Cardinality(Reserved) + stored + Cardinality(Vacating)
        = bufferSize

FullAccount ==
    permits[fullCount] + Cardinality(Claimed) + Cardinality(Announcing) = stored

Accounts == MutexAccount /\ EmptyAccount /\ FullAccount

\* A process that is in a wait is in the one before its label.
WaitsAt ==
    \A p \in Procs : pc[p] # "user" =>
        /\ pc[p] = "wait"
        /\ \/ at[p] \in {"store", "fetch"} /\ want[p] = itemMutex
           \/ at[p] = "lockP" /\ want[p] = emptyCount
           \/ at[p] = "lockC" /\ want[p] = fullCount

\* A process that does not exist yet is at no place of a loop.
UnbornNew == \A p \in Procs : life[p] = "unborn" => at[p] = "new"

\* The items lie between r and w.
Positions == w = (r + stored) % bufferSize

\* What a consumer has read is still there when it moves r on.
Fetched == \A p \in Procs : at[p] = "advanceR" => item[p] = buffer[r]

PidsOK == producerPid \in Seq(Procs) /\ consumerPid \in Seq(Procs)

KernelInv == QueueInv /\ \A s \in SemIndex : Covered(s)

PInv ==
    /\ KernelInv /\ ProdTypeOK /\ PidsOK
    /\ Accounts /\ WaitsAt /\ UnbornNew /\ Positions /\ Fetched

-----------------------------------------------------------------------------
(***************************************************************************)
(* What a step does to the kernel, and to the counts.                      *)
(***************************************************************************)

LEMMA Indices == SemIndex = {itemMutex, fullCount, emptyCount}
BY ProdConsAssumption DEF SemIndex, itemMutex, fullCount, emptyCount

LEMMA ProdSteps ==
    ASSUME PidsOK, [ProdNext]_allVars
    PROVE  \/ \E p \in Procs, s \in SemIndex : WaitFor(p, s) \/ Signal(p, s)
           \/ \E p \in Procs : WaitReturn(p) \/ Create(p) \/ Remove(p)
           \/ UNCHANGED vars
<1>1. ASSUME NEW p \in Procs, Producer(p)
      PROVE  \/ \E s \in SemIndex : WaitFor(p, s) \/ Signal(p, s)
             \/ UNCHANGED vars
  BY <1>1, Indices DEF Producer, Produce, Count, WaitEmpty, LockProducer, Store,
       AdvanceW, ReleaseProducer, SignalFull, Call, EndRound
<1>2. ASSUME NEW p \in Procs, Consumer(p)
      PROVE  \/ \E s \in SemIndex : WaitFor(p, s) \/ Signal(p, s)
             \/ UNCHANGED vars
  BY <1>2, Indices DEF Consumer, WaitFull, LockConsumer, Fetch,
       AdvanceR, ReleaseConsumer, SignalEmpty, Call, EndRound
<1>3. ASSUME NEW p \in Procs, KeyP(p) \/ KeyC(p) PROVE Create(p)
  BY <1>3 DEF KeyP, KeyC, Start
<1>4. CASE KeyZ \/ KeyX \/ KillNext
  <2>1. CASE KeyZ
    <3>1. Last(producerPid) \in Procs
      BY <2>1 DEF KeyZ, PidsOK, Last
    <3> QED BY <2>1, <3>1 DEF KeyZ
  <2>2. CASE KeyX
    <3>1. Last(consumerPid) \in Procs
      BY <2>2 DEF KeyX, PidsOK, Last
    <3> QED BY <2>2, <3>1 DEF KeyX
  <2>3. CASE KillNext
    <3>1. ToKill \in Seq(Procs) /\ ToKill # <<>>
      BY <2>3 DEF KillNext, PidsOK, ToKill
    <3>2. Head(ToKill) \in Procs
      BY <3>1
    <3> QED BY <2>3, <3>2 DEF KillNext
  <2> QED BY <1>4, <2>1, <2>2, <2>3
<1>5. CASE KeyQ \/ Quit
  BY <1>5 DEF KeyQ, Quit
<1>6. ASSUME NEW p \in Procs, Return(p) PROVE WaitReturn(p)
  BY <1>6 DEF Return
<1>7. CASE UNCHANGED allVars
  BY <1>7 DEF allVars
<1> QED BY <1>1, <1>2, <1>3, <1>4, <1>5, <1>6, <1>7 DEF ProdNext, Control, Step

\* The demo uses the kernel within what Semaphore_proofs covers.
LEMMA KernelStep ==
    ASSUME KernelInv, PidsOK, [ProdNext]_allVars
    PROVE  KernelInv'
<1> USE DEF KernelInv
<1>1. ASSUME NEW p \in Procs, NEW s \in SemIndex, WaitFor(p, s) \/ Signal(p, s)
      PROVE  KernelInv'
  BY <1>1, WaitSignalQueue, PassCovered, BlockCovered, SignalCovered DEF WaitFor
<1>2. ASSUME NEW p \in Procs, WaitReturn(p) PROVE KernelInv'
  BY <1>2, WaitReturnQueue, ReturnCovered
<1>3. ASSUME NEW p \in Procs, Create(p) \/ Remove(p) PROVE KernelInv'
  <2>1. UNCHANGED <<countVars, state, pc, want>>
    BY <1>3 DEF Create, Remove
  <2> QED BY <1>3, <2>1, LifeQueue, IdleCovered
<1>4. CASE UNCHANGED vars
  <2>1. UNCHANGED <<countVars, state, pc, want>>
    BY <1>4 DEF vars
  <2>2. Entries' /\ Counts'
    BY <2>1, QueueFrame DEF QueueInv, countVars
  <2>3. QueueInv'
    BY <1>4, <2>2
       DEF QueueInv, TypeOK, UnbornIdle, vars, tableVars, countVars, procVars
  <2> QED BY <2>1, <2>3, IdleCovered
<1> QED BY <1>1, <1>2, <1>3, <1>4, ProdSteps

One(b) == IF b THEN 1 ELSE 0

\* A set of processes that differs in p only.
LEMMA MovedCard ==
    ASSUME NEW X \in SUBSET Procs, NEW Y \in SUBSET Procs, NEW p \in Procs,
           X \ {p} = Y \ {p}
    PROVE  /\ Cardinality(X) \in Nat
           /\ Cardinality(Y) = Cardinality(X) + One(p \in Y) - One(p \in X)
<1>1. IsFiniteSet(X)
  BY ProcsAssumption, FS_Subset
<1>2. Cardinality(X) \in Nat
  BY <1>1, FS_CardinalityType
<1>3. CASE p \in X <=> p \in Y
  <2>1. X = Y
    BY <1>3
  <2> QED BY <1>2, <2>1 DEF One
<1>4. CASE p \in X /\ p \notin Y
  <2>1. Y = X \ {p}
    BY <1>4
  <2> QED BY <1>1, <1>2, <1>4, <2>1, FS_RemoveElement DEF One
<1>5. CASE p \notin X /\ p \in Y
  <2>1. Y = X \cup {p}
    BY <1>5
  <2>2. Cardinality(X \cup {p}) = Cardinality(X) + 1
    BY <1>1, <1>5, FS_AddElement
  <2> QED BY <1>2, <1>5, <2>1, <2>2 DEF One
<1> QED BY <1>3, <1>4, <1>5

\* A process leaves label a with its pc at c, and comes to b and d.
Moves(p, a, c, b, d) ==
    /\ at \in [Procs -> Labels] /\ at[p] = a /\ at' = [at EXCEPT ![p] = b]
    /\ pc \in [Procs -> {"user", "wait", "create"}] /\ pc[p] = c
    /\ pc' = [pc EXCEPT ![p] = d]

\* It changes what p counts for and nothing else.
LEMMA MovesCount ==
    ASSUME NEW p \in Procs, NEW a, NEW c, NEW b, NEW d, Moves(p, a, c, b, d)
    PROVE  /\ Cardinality(Inside) \in Nat
           /\ Cardinality(Reserved) \in Nat
           /\ Cardinality(Announcing) \in Nat
           /\ Cardinality(Claimed) \in Nat
           /\ Cardinality(Vacating) \in Nat
           /\ Cardinality(Inside') = Cardinality(Inside)
                  + One(InsideAt(b, d)) - One(InsideAt(a, c))
           /\ Cardinality(Reserved') = Cardinality(Reserved)
                  + One(ReservedAt(b, d)) - One(ReservedAt(a, c))
           /\ Cardinality(Announcing') = Cardinality(Announcing)
                  + One(AnnouncingAt(b, d)) - One(AnnouncingAt(a, c))
           /\ Cardinality(Claimed') = Cardinality(Claimed)
                  + One(ClaimedAt(b, d)) - One(ClaimedAt(a, c))
           /\ Cardinality(Vacating') = Cardinality(Vacating)
                  + One(VacatingAt(b, d)) - One(VacatingAt(a, c))
<1>1. at[p] = a /\ at'[p] = b /\ pc[p] = c /\ pc'[p] = d
  BY DEF Moves
<1>2. \A q \in Procs \ {p} : at'[q] = at[q] /\ pc'[q] = pc[q]
  BY DEF Moves
<1>3. /\ Inside \in SUBSET Procs /\ Inside' \in SUBSET Procs
      /\ Inside \ {p} = Inside' \ {p}
      /\ p \in Inside <=> InsideAt(a, c)
      /\ p \in Inside' <=> InsideAt(b, d)
  BY <1>1, <1>2 DEF Inside
<1>4. /\ Reserved \in SUBSET Procs /\ Reserved' \in SUBSET Procs
      /\ Reserved \ {p} = Reserved' \ {p}
      /\ p \in Reserved <=> ReservedAt(a, c)
      /\ p \in Reserved' <=> ReservedAt(b, d)
  BY <1>1, <1>2 DEF Reserved
<1>5. /\ Announcing \in SUBSET Procs /\ Announcing' \in SUBSET Procs
      /\ Announcing \ {p} = Announcing' \ {p}
      /\ p \in Announcing <=> AnnouncingAt(a, c)
      /\ p \in Announcing' <=> AnnouncingAt(b, d)
  BY <1>1, <1>2 DEF Announcing
<1>6. /\ Claimed \in SUBSET Procs /\ Claimed' \in SUBSET Procs
      /\ Claimed \ {p} = Claimed' \ {p}
      /\ p \in Claimed <=> ClaimedAt(a, c)
      /\ p \in Claimed' <=> ClaimedAt(b, d)
  BY <1>1, <1>2 DEF Claimed
<1>7. /\ Vacating \in SUBSET Procs /\ Vacating' \in SUBSET Procs
      /\ Vacating \ {p} = Vacating' \ {p}
      /\ p \in Vacating <=> VacatingAt(a, c)
      /\ p \in Vacating' <=> VacatingAt(b, d)
  BY <1>1, <1>2 DEF Vacating
<1>8. /\ Cardinality(Inside) \in Nat
      /\ Cardinality(Inside') = Cardinality(Inside)
             + One(InsideAt(b, d)) - One(InsideAt(a, c))
  BY <1>3, MovedCard DEF One
<1>9. /\ Cardinality(Reserved) \in Nat
      /\ Cardinality(Reserved') = Cardinality(Reserved)
             + One(ReservedAt(b, d)) - One(ReservedAt(a, c))
  BY <1>4, MovedCard DEF One
<1>10. /\ Cardinality(Announcing) \in Nat
      /\ Cardinality(Announcing') = Cardinality(Announcing)
             + One(AnnouncingAt(b, d)) - One(AnnouncingAt(a, c))
  BY <1>5, MovedCard DEF One
<1>11. /\ Cardinality(Claimed) \in Nat
      /\ Cardinality(Claimed') = Cardinality(Claimed)
             + One(ClaimedAt(b, d)) - One(ClaimedAt(a, c))
  BY <1>6, MovedCard DEF One
<1>12. /\ Cardinality(Vacating) \in Nat
      /\ Cardinality(Vacating') = Cardinality(Vacating)
             + One(VacatingAt(b, d)) - One(VacatingAt(a, c))
  BY <1>7, MovedCard DEF One
<1> QED BY <1>8, <1>9, <1>10, <1>11, <1>12

\* So the accounts stay balanced where p gives up what the permits gain.
Balanced(a, c, b, d) ==
    /\ permits'[itemMutex] + One(InsideAt(b, d))
          = permits[itemMutex] + One(InsideAt(a, c))
    /\ permits'[emptyCount] + One(ReservedAt(b, d)) + One(VacatingAt(b, d)) + stored'
          = permits[emptyCount] + One(ReservedAt(a, c)) + One(VacatingAt(a, c)) + stored
    /\ permits'[fullCount] + One(ClaimedAt(b, d)) + One(AnnouncingAt(b, d)) - stored'
          = permits[fullCount] + One(ClaimedAt(a, c)) + One(AnnouncingAt(a, c)) - stored

LEMMA AccountsMove ==
    ASSUME TypeOK, TypeOK', Accounts, stored \in Int, stored' \in Int,
           NEW p \in Procs, NEW a, NEW c, NEW b, NEW d,
           Moves(p, a, c, b, d), Balanced(a, c, b, d)
    PROVE  Accounts'
<1>1. \A s \in SemIndex : permits[s] \in Int /\ permits'[s] \in Int
  BY DEF TypeOK
<1>2. \A x : One(x) \in Int
  BY DEF One
<1>3. bufferSize \in Int /\ itemMutex \in SemIndex /\ fullCount \in SemIndex
      /\ emptyCount \in SemIndex
  BY ProdConsAssumption, Indices
<1>4. MutexAccount'
  BY <1>1, <1>2, <1>3, MovesCount DEF Accounts, MutexAccount, Balanced
<1>5. EmptyAccount'
  BY <1>1, <1>2, <1>3, MovesCount DEF Accounts, EmptyAccount, Balanced
<1>6. FullAccount'
  <2>1. /\ Cardinality(Claimed) \in Int /\ Cardinality(Announcing) \in Int
        /\ Cardinality(Claimed') = Cardinality(Claimed)
              + One(ClaimedAt(b, d)) - One(ClaimedAt(a, c))
        /\ Cardinality(Announcing') = Cardinality(Announcing)
              + One(AnnouncingAt(b, d)) - One(AnnouncingAt(a, c))
    BY MovesCount
  <2>2. permits'[fullCount] + One(ClaimedAt(b, d)) + One(AnnouncingAt(b, d)) - stored'
          = permits[fullCount] + One(ClaimedAt(a, c)) + One(AnnouncingAt(a, c)) - stored
    BY DEF Balanced
  <2>3. permits[fullCount] + Cardinality(Claimed) + Cardinality(Announcing) = stored
    BY DEF Accounts, FullAccount
  <2> QED BY <1>1, <1>2, <1>3, <2>1, <2>2, <2>3 DEF FullAccount
<1> QED BY <1>4, <1>5, <1>6 DEF Accounts

\* What the kernel's calls change of the accounts.
LEMMA CallEffects ==
    ASSUME TypeOK, NEW p \in Procs, NEW s \in SemIndex
    PROVE  /\ WaitPass(p, s) => /\ pc[p] = "user" /\ pc' = [pc EXCEPT ![p] = "user"]
                                /\ UNCHANGED <<want, life>>
                                /\ permits' = [permits EXCEPT ![s] = @ - 1]
           /\ WaitBlock(p, s) => /\ pc[p] = "user" /\ pc' = [pc EXCEPT ![p] = "wait"]
                                 /\ UNCHANGED <<permits, life>>
                                 /\ want' = [want EXCEPT ![p] = s]
           /\ Signal(p, s) => /\ pc[p] = "user" /\ pc' = [pc EXCEPT ![p] = "user"]
                              /\ UNCHANGED <<want, life>>
                              /\ permits' = [permits EXCEPT ![s] = @ + 1]
BY DEF WaitPass, WaitBlock, Signal, Calls, InProgram, TypeOK, procVars

-----------------------------------------------------------------------------
(***************************************************************************)
(* The accounts, step by step.                                             *)
(***************************************************************************)

LEMMA ProducerAccounts ==
    ASSUME PInv, KernelInv', NEW p \in Procs, Producer(p)
    PROVE  Accounts' /\ stored' \in Int
<1> USE DEF PInv, KernelInv, QueueInv
<1>1. /\ at \in [Procs -> Labels] /\ stored \in Int
      /\ pc \in [Procs -> {"user", "wait", "create"}]
      /\ TypeOK /\ TypeOK'
      /\ permits \in [SemIndex -> Int]
      /\ SemIndex = {itemMutex, fullCount, emptyCount}
  BY Indices DEF ProdTypeOK, TypeOK
<1> DEFINE M(a, b, d) == Moves(p, a, "user", b, d) /\ Balanced(a, "user", b, d)
<1>2. ASSUME NEW a, NEW b, NEW d, M(a, b, d), stored' \in Int
      PROVE  Accounts' /\ stored' \in Int
  BY <1>1, <1>2, AccountsMove
<1> HIDE DEF PInv, KernelInv, QueueInv, M
<1> USE DEF Moves, Balanced, One, InsideAt, ReservedAt, AnnouncingAt, ClaimedAt,
            VacatingAt, InCriticalSection, Goto, itemMutex, fullCount, emptyCount
<1>3. CASE Produce(p)
  <2>1. M("produce", "count", "user") /\ stored' = stored
    BY <1>1, <1>3 DEF M, Produce, InProgram, vars, countVars, bufferVars
  <2> QED BY <1>1, <1>2, <2>1
<1>4. CASE Count(p)
  <2>1. M("count", "waitEmpty", "user") /\ stored' = stored
    BY <1>1, <1>4 DEF M, Count, InProgram, vars, countVars, bufferVars
  <2> QED BY <1>1, <1>2, <2>1
<1>5. CASE WaitEmpty(p)
  <2>1. /\ M("waitEmpty", "lockP", "user") \/ M("waitEmpty", "lockP", "wait")
        /\ stored' = stored
    BY <1>1, <1>5, CallEffects DEF M, WaitEmpty, WaitFor, Call, bufferVars
  <2> QED BY <1>1, <1>2, <2>1
<1>6. CASE LockProducer(p)
  <2>1. /\ M("lockP", "store", "user") \/ M("lockP", "store", "wait")
        /\ stored' = stored
    BY <1>1, <1>6, CallEffects DEF M, LockProducer, WaitFor, Call, bufferVars
  <2> QED BY <1>1, <1>2, <2>1
<1>7. CASE Store(p)
  <2>1. M("store", "advanceW", "user") /\ stored' = stored
    BY <1>1, <1>7 DEF M, Store, InProgram, vars, countVars
  <2> QED BY <1>1, <1>2, <2>1
<1>8. CASE AdvanceW(p)
  <2>1. M("advanceW", "releaseP", "user") /\ stored' = stored + 1
    BY <1>1, <1>8 DEF M, AdvanceW, InProgram, vars, countVars
  <2> QED BY <1>1, <1>2, <2>1
<1>9. CASE ReleaseProducer(p)
  <2>1. M("releaseP", "signalFull", "user") /\ stored' = stored
    BY <1>1, <1>9, CallEffects DEF M, ReleaseProducer, Call, bufferVars
  <2> QED BY <1>1, <1>2, <2>1
<1>10. CASE SignalFull(p)
  <2>1. M("signalFull", "produce", "user") /\ stored' = stored
    BY <1>1, <1>10, CallEffects DEF M, SignalFull, EndRound, bufferVars
  <2> QED BY <1>1, <1>2, <2>1
<1> QED BY <1>3, <1>4, <1>5, <1>6, <1>7, <1>8, <1>9, <1>10 DEF Producer

LEMMA ConsumerAccounts ==
    ASSUME PInv, KernelInv', NEW p \in Procs, Consumer(p)
    PROVE  Accounts' /\ stored' \in Int
<1> USE DEF PInv, KernelInv, QueueInv
<1>1. /\ at \in [Procs -> Labels] /\ stored \in Int
      /\ pc \in [Procs -> {"user", "wait", "create"}]
      /\ TypeOK /\ TypeOK'
      /\ permits \in [SemIndex -> Int]
      /\ SemIndex = {itemMutex, fullCount, emptyCount}
  BY Indices DEF ProdTypeOK, TypeOK
<1> DEFINE M(a, b, d) == Moves(p, a, "user", b, d) /\ Balanced(a, "user", b, d)
<1>2. ASSUME NEW a, NEW b, NEW d, M(a, b, d), stored' \in Int
      PROVE  Accounts' /\ stored' \in Int
  BY <1>1, <1>2, AccountsMove
<1> HIDE DEF PInv, KernelInv, QueueInv, M
<1> USE DEF Moves, Balanced, One, InsideAt, ReservedAt, AnnouncingAt, ClaimedAt,
            VacatingAt, InCriticalSection, Goto, itemMutex, fullCount, emptyCount
<1>3. CASE WaitFull(p)
  <2>1. /\ M("waitFull", "lockC", "user") \/ M("waitFull", "lockC", "wait")
        /\ stored' = stored
    BY <1>1, <1>3, CallEffects DEF M, WaitFull, WaitFor, Call, bufferVars
  <2> QED BY <1>1, <1>2, <2>1
<1>4. CASE LockConsumer(p)
  <2>1. /\ M("lockC", "fetch", "user") \/ M("lockC", "fetch", "wait")
        /\ stored' = stored
    BY <1>1, <1>4, CallEffects DEF M, LockConsumer, WaitFor, Call, bufferVars
  <2> QED BY <1>1, <1>2, <2>1
<1>5. CASE Fetch(p)
  <2>1. M("fetch", "advanceR", "user") /\ stored' = stored
    BY <1>1, <1>5 DEF M, Fetch, InProgram, vars, countVars, bufferVars
  <2> QED BY <1>1, <1>2, <2>1
<1>6. CASE AdvanceR(p)
  <2>1. M("advanceR", "releaseC", "user") /\ stored' = stored - 1
    BY <1>1, <1>6 DEF M, AdvanceR, InProgram, vars, countVars
  <2> QED BY <1>1, <1>2, <2>1
<1>7. CASE ReleaseConsumer(p)
  <2>1. M("releaseC", "signalEmpty", "user") /\ stored' = stored
    BY <1>1, <1>7, CallEffects DEF M, ReleaseConsumer, Call, bufferVars
  <2> QED BY <1>1, <1>2, <2>1
<1>8. CASE SignalEmpty(p)
  <2>1. M("signalEmpty", "waitFull", "user") /\ stored' = stored
    BY <1>1, <1>8, CallEffects DEF M, SignalEmpty, EndRound, bufferVars
  <2> QED BY <1>1, <1>2, <2>1
<1> QED BY <1>3, <1>4, <1>5, <1>6, <1>7, <1>8 DEF Consumer

\* A process that returns from wait takes the permit for the place it comes to.
LEMMA ReturnAccounts ==
    ASSUME PInv, KernelInv', NEW p \in Procs, Return(p)
    PROVE  Accounts' /\ stored' \in Int
<1> USE DEF PInv, KernelInv, QueueInv
<1>1. /\ at \in [Procs -> Labels] /\ stored \in Int /\ stored' = stored
      /\ pc \in [Procs -> {"user", "wait", "create"}]
      /\ TypeOK /\ TypeOK'
      /\ permits \in [SemIndex -> Int]
      /\ SemIndex = {itemMutex, fullCount, emptyCount}
  BY Indices DEF ProdTypeOK, TypeOK, Return, bufferVars
<1>2. /\ pc[p] = "wait" /\ pc' = [pc EXCEPT ![p] = "user"] /\ at' = at
      /\ permits' = [permits EXCEPT ![want[p]] = @ - 1]
  BY DEF Return, WaitReturn
<1>3. Moves(p, at[p], "wait", at[p], "user")
  BY <1>1, <1>2 DEF Moves
<1>4. \/ at[p] \in {"store", "fetch"} /\ want[p] = itemMutex
      \/ at[p] = "lockP" /\ want[p] = emptyCount
      \/ at[p] = "lockC" /\ want[p] = fullCount
  BY <1>2 DEF WaitsAt
<1>5. Balanced(at[p], "wait", at[p], "user")
  BY <1>1, <1>2, <1>4
     DEF Balanced, One, InsideAt, ReservedAt, AnnouncingAt, ClaimedAt, VacatingAt,
         InCriticalSection, itemMutex, fullCount, emptyCount
<1> QED BY <1>1, <1>3, <1>5, AccountsMove

\* control() starts and kills processes without touching an account: a process
\* that is killed keeps what it holds.
LEMMA ControlAccounts ==
    ASSUME PInv, KernelInv', Control \/ UNCHANGED allVars
    PROVE  Accounts' /\ stored' \in Int
<1> USE DEF PInv, KernelInv, QueueInv
<1>1. /\ at \in [Procs -> Labels] /\ stored \in Int
      /\ pc \in [Procs -> {"user", "wait", "create"}]
      /\ TypeOK /\ TypeOK' /\ Accounts
  BY DEF ProdTypeOK, TypeOK
<1>2. ASSUME NEW p \in Procs, KeyP(p) \/ KeyC(p)
      PROVE  Accounts' /\ stored' \in Int
  <2>1. at[p] = "new" /\ pc[p] = "user"
    BY <1>2 DEF KeyP, KeyC, Start, Create, UnbornNew, UnbornIdle
  <2>2. UNCHANGED <<permits, stored, pc>>
    BY <1>2 DEF KeyP, KeyC, Start, Create, countVars, bufferVars
  <2>3. \E b \in {"produce", "waitFull"} : Moves(p, "new", "user", b, "user")
    BY <1>1, <1>2, <2>1, <2>2 DEF KeyP, KeyC, Start, Moves
  <2>4. \A b \in {"produce", "waitFull"} : Balanced("new", "user", b, "user")
    BY <2>2 DEF Balanced, One, InsideAt, ReservedAt, AnnouncingAt, ClaimedAt,
                VacatingAt, InCriticalSection
  <2> QED BY <1>1, <2>2, <2>3, <2>4, AccountsMove
<1>3. ASSUME UNCHANGED <<at, pc, permits, stored>>
      PROVE  Accounts' /\ stored' \in Int
  BY <1>1, <1>3 DEF Accounts, MutexAccount, EmptyAccount, FullAccount, Inside,
       Reserved, Announcing, Claimed, Vacating
<1>4. CASE KeyZ \/ KeyX \/ KillNext
  BY <1>3, <1>4 DEF KeyZ, KeyX, KillNext, Remove, countVars, bufferVars
<1>5. CASE KeyQ \/ Quit \/ UNCHANGED allVars
  BY <1>3, <1>5 DEF KeyQ, Quit, allVars, vars, countVars, bufferVars
<1> QED BY <1>2, <1>4, <1>5 DEF Control

LEMMA AccountsStep ==
    ASSUME PInv, [ProdNext]_allVars
    PROVE  Accounts' /\ stored' \in Int /\ KernelInv'
<1>1. KernelInv'
  BY KernelStep DEF PInv
<1> QED BY <1>1, ProducerAccounts, ConsumerAccounts, ReturnAccounts,
           ControlAccounts DEF ProdNext, Step

-----------------------------------------------------------------------------
(***************************************************************************)
(* What the accounts imply: as no permits are negative, the critical       *)
(* section holds at most one process, and the buffer no more than fits.    *)
(***************************************************************************)

LEMMA SetFacts ==
    ASSUME NEW X \in SUBSET Procs
    PROVE  /\ Cardinality(X) \in Nat
           /\ \A p \in X : Cardinality(X) >= 1
           /\ Cardinality(X) <= 1 => \A p, q \in X : p = q
<1>1. IsFiniteSet(X)
  BY ProcsAssumption, FS_Subset
<1>2. Cardinality(X) \in Nat /\ (Cardinality(X) = 0 <=> X = {})
  BY <1>1, FS_CardinalityType, FS_EmptySet
<1>3. ASSUME Cardinality(X) <= 1, NEW p \in X, NEW q \in X PROVE p = q
  <2>1. Cardinality(X \ {p}) = Cardinality(X) - 1 /\ IsFiniteSet(X \ {p})
    BY <1>1, FS_RemoveElement
  <2>2. Cardinality(X \ {p}) = 0
    BY <1>2, <1>3, <2>1, FS_CardinalityType
  <2>3. X \ {p} = {}
    BY <2>1, <2>2, FS_EmptySet
  <2> QED BY <2>3
<1> QED BY <1>2, <1>3

Bounded ==
    /\ stored \in 0..bufferSize
    /\ \A p \in Reserved : stored < bufferSize
    /\ \A p \in Claimed : stored > 0
    /\ \A p, q \in Inside : p = q

LEMMA Consequences == KernelInv /\ Accounts /\ stored \in Int => Bounded
<1> SUFFICES ASSUME KernelInv, Accounts, stored \in Int PROVE Bounded
  OBVIOUS
<1>1. \A s \in {itemMutex, fullCount, emptyCount} : permits[s] \in Nat
  BY CoveredPermits, Indices DEF KernelInv, QueueInv
<1>2. /\ Inside \in SUBSET Procs /\ Reserved \in SUBSET Procs
      /\ Announcing \in SUBSET Procs /\ Claimed \in SUBSET Procs
      /\ Vacating \in SUBSET Procs
  BY DEF Inside, Reserved, Announcing, Claimed, Vacating
<1>3. bufferSize \in Nat
  BY ProdConsAssumption
<1>4. \A p, q \in Inside : p = q
  BY <1>1, <1>2, SetFacts DEF Accounts, MutexAccount
<1>5. stored >= 0 /\ \A p \in Claimed : stored > 0
  BY <1>1, <1>2, SetFacts DEF Accounts, FullAccount
<1>6. stored <= bufferSize /\ \A p \in Reserved : stored < bufferSize
  BY <1>1, <1>2, <1>3, SetFacts DEF Accounts, EmptyAccount
<1> QED BY <1>3, <1>4, <1>5, <1>6 DEF Bounded

LEMMA ConsequencesNext == (KernelInv /\ Accounts /\ stored \in Int => Bounded)'
BY Consequences, PTL

-----------------------------------------------------------------------------
(***************************************************************************)
(* The rest of the invariant.                                              *)
(***************************************************************************)

\* A step in the loop of a producer or a consumer.
LEMMA LoopStep ==
    ASSUME PInv, NEW p \in Procs, Producer(p) \/ Consumer(p)
    PROVE  /\ life[p] = "alive" /\ pc[p] = "user"
           /\ UNCHANGED <<life, mainVars>>
           /\ \E b \in Labels : at' = [at EXCEPT ![p] = b]
           /\ \A q \in Procs \ {p} : pc'[q] = pc[q] /\ want'[q] = want[q]
           /\ \/ pc'[p] = "user"
              \/ /\ pc'[p] = "wait"
                 /\ \/ at'[p] \in {"store", "fetch"} /\ want'[p] = itemMutex
                    \/ at'[p] = "lockP" /\ want'[p] = emptyCount
                    \/ at'[p] = "lockC" /\ want'[p] = fullCount
<1>1. TypeOK /\ at \in [Procs -> Labels]
  BY DEF PInv, KernelInv, QueueInv, ProdTypeOK
<1>2. \A s \in SemIndex : WaitFor(p, s) =>
          /\ life[p] = "alive" /\ pc[p] = "user" /\ life' = life
          /\ \A q \in Procs \ {p} : pc'[q] = pc[q] /\ want'[q] = want[q]
          /\ pc'[p] = "user" \/ (pc'[p] = "wait" /\ want'[p] = s)
  <2> SUFFICES ASSUME NEW s \in SemIndex, WaitFor(p, s)
               PROVE  /\ life[p] = "alive" /\ pc[p] = "user" /\ life' = life
                      /\ \A q \in Procs \ {p} : pc'[q] = pc[q] /\ want'[q] = want[q]
                      /\ pc'[p] = "user" \/ (pc'[p] = "wait" /\ want'[p] = s)
    OBVIOUS
  <2>1. CASE WaitPass(p, s)
    <3>1. life[p] = "alive" /\ pc[p] = "user"
      BY <2>1 DEF WaitPass, Calls, InProgram
    <3>2. UNCHANGED <<life, pc, want>>
      BY <2>1 DEF WaitPass, procVars
    <3> QED BY <3>1, <3>2
  <2>2. CASE WaitBlock(p, s)
    BY <1>1, <2>2 DEF WaitBlock, Calls, InProgram, TypeOK, procVars
  <2> QED BY <2>1, <2>2 DEF WaitFor
<1>3. \A s \in SemIndex : Signal(p, s) \/ (InProgram(p) /\ UNCHANGED vars) =>
          /\ life[p] = "alive" /\ pc[p] = "user" /\ UNCHANGED <<life, pc, want>>
  BY DEF Signal, Calls, InProgram, procVars, vars
<1>4. SemIndex = {itemMutex, fullCount, emptyCount}
  BY Indices
<1> USE DEF Goto, Labels, InCriticalSection
<1>5. CASE Produce(p) \/ Count(p) \/ Store(p) \/ AdvanceW(p)
  BY <1>1, <1>3, <1>4, <1>5 DEF Produce, Count, Store, AdvanceW
<1>6. CASE Fetch(p) \/ AdvanceR(p)
  BY <1>1, <1>3, <1>4, <1>6 DEF Fetch, AdvanceR
<1>7. CASE ReleaseProducer(p) \/ ReleaseConsumer(p)
  BY <1>1, <1>3, <1>4, <1>7 DEF ReleaseProducer, ReleaseConsumer, Call
<1>8. CASE SignalFull(p) \/ SignalEmpty(p)
  BY <1>1, <1>3, <1>4, <1>8 DEF SignalFull, SignalEmpty, EndRound
<1>9. CASE WaitEmpty(p)
  BY <1>1, <1>2, <1>4, <1>9 DEF WaitEmpty, Call
<1>10. CASE WaitFull(p)
  BY <1>1, <1>2, <1>4, <1>10 DEF WaitFull, Call
<1>11. CASE LockProducer(p)
  BY <1>1, <1>2, <1>4, <1>11 DEF LockProducer, Call
<1>12. CASE LockConsumer(p)
  BY <1>1, <1>2, <1>4, <1>12 DEF LockConsumer, Call
<1> QED BY <1>5, <1>6, <1>7, <1>8, <1>9, <1>10, <1>11, <1>12
       DEF Producer, Consumer

LEMMA PlacesStep ==
    ASSUME PInv, [ProdNext]_allVars
    PROVE  WaitsAt' /\ UnbornNew' /\ PidsOK' /\ at' \in [Procs -> Labels]
<1> USE DEF PInv, KernelInv, QueueInv
<1>1. TypeOK /\ at \in [Procs -> Labels]
  BY DEF ProdTypeOK
<1>2. ASSUME NEW p \in Procs, Producer(p) \/ Consumer(p)
      PROVE  WaitsAt' /\ UnbornNew' /\ PidsOK' /\ at' \in [Procs -> Labels]
  <2>1. PICK b \in Labels : at' = [at EXCEPT ![p] = b]
    BY <1>2, LoopStep
  <2>2. \A q \in Procs \ {p} : at'[q] = at[q]
    BY <2>1, <1>1
  <2>3. WaitsAt'
    BY <1>2, <2>2, LoopStep DEF WaitsAt
  <2>4. UnbornNew'
    BY <1>2, <2>2, LoopStep DEF UnbornNew
  <2>5. PidsOK'
    BY <1>2, LoopStep DEF PidsOK, mainVars
  <2> QED BY <1>1, <2>1, <2>3, <2>4, <2>5
<1>3. ASSUME NEW p \in Procs, Return(p)
      PROVE  WaitsAt' /\ UnbornNew' /\ PidsOK' /\ at' \in [Procs -> Labels]
  BY <1>1, <1>3 DEF Return, WaitReturn, WaitsAt, UnbornNew, PidsOK, TypeOK,
       procVars, mainVars
<1>4. ASSUME NEW p \in Procs, KeyP(p) \/ KeyC(p)
      PROVE  WaitsAt' /\ UnbornNew' /\ PidsOK' /\ at' \in [Procs -> Labels]
  <2>1. pc[p] = "user"
    BY <1>4 DEF KeyP, KeyC, Start, Create, UnbornIdle
  <2>2. PICK b \in {"produce", "waitFull"} : at' = [at EXCEPT ![p] = b]
    BY <1>4 DEF KeyP, KeyC, Start
  <2>3. life' = [life EXCEPT ![p] = "alive"] /\ UNCHANGED <<pc, want>>
    BY <1>4 DEF KeyP, KeyC, Start, Create
  <2>4. WaitsAt' /\ UnbornNew' /\ at' \in [Procs -> Labels]
    BY <1>1, <2>1, <2>2, <2>3 DEF WaitsAt, UnbornNew, TypeOK, Labels
  <2>5. PidsOK'
    <3>1. CASE KeyP(p)
      BY <3>1 DEF KeyP, PidsOK
    <3>2. CASE KeyC(p)
      BY <3>2 DEF KeyC, PidsOK
    <3> QED BY <1>4, <3>1, <3>2
  <2> QED BY <2>4, <2>5
<1>5. CASE KeyZ \/ KeyX \/ KillNext
  <2>1. UNCHANGED <<at, pc, want>>
    BY <1>5 DEF KeyZ, KeyX, KillNext, Remove
  <2>2. PICK p : life[p] = "alive" /\ life' = [life EXCEPT ![p] = "dead"]
    BY <1>5 DEF KeyZ, KeyX, KillNext, Remove
  <2>3. WaitsAt' /\ UnbornNew' /\ at' \in [Procs -> Labels]
    BY <1>1, <2>1, <2>2 DEF WaitsAt, UnbornNew, TypeOK
  <2>4. PidsOK'
    <3>1. CASE KeyZ
      BY <3>1 DEF KeyZ, PidsOK, Front
    <3>2. CASE KeyX
      BY <3>2 DEF KeyX, PidsOK, Front
    <3>3. CASE KillNext
      <4>1. CASE producerPid # <<>>
        BY <3>3, <4>1 DEF KillNext, PidsOK
      <4>2. CASE producerPid = <<>>
        <5>1. consumerPid \in Seq(Procs) /\ consumerPid # <<>>
          BY <3>3, <4>2 DEF KillNext, PidsOK, ToKill
        <5> QED BY <3>3, <4>2, <5>1 DEF KillNext, PidsOK
      <4> QED BY <4>1, <4>2
    <3> QED BY <1>5, <3>1, <3>2, <3>3
  <2> QED BY <2>3, <2>4
<1>6. CASE KeyQ \/ Quit \/ UNCHANGED allVars
  BY <1>1, <1>6 DEF KeyQ, Quit, allVars, vars, procVars, mainVars, WaitsAt,
       UnbornNew, PidsOK
<1> QED BY <1>2, <1>3, <1>4, <1>5, <1>6 DEF ProdNext, Step, Control

\* Reading and writing in a circle.
LEMMA Circle ==
    ASSUME NEW x \in 0..(2 * bufferSize - 1)
    PROVE  x % bufferSize = IF x < bufferSize THEN x ELSE x - bufferSize
BY ProdConsAssumption

LEMMA CircleNext ==
    ASSUME NEW a \in Position, NEW n \in 0..bufferSize
    PROVE  /\ n < bufferSize =>
                 (((a + n) % bufferSize) + 1) % bufferSize = (a + (n + 1)) % bufferSize
           /\ n > 0 =>
                 (((a + 1) % bufferSize) + (n - 1)) % bufferSize = (a + n) % bufferSize
<1> DEFINE N == bufferSize
<1>1. N \in Nat /\ N >= 1 /\ a \in Int /\ n \in Int /\ 0 <= a /\ a < N
      /\ 0 <= n /\ n <= N
  BY ProdConsAssumption DEF Position
<1>2. \A x \in Int : 0 <= x /\ x < 2 * N => x % N = IF x < N THEN x ELSE x - N
  BY <1>1, Circle
<1>3. (a + n) % N = IF a + n < N THEN a + n ELSE a + n - N
  BY <1>1, <1>2
<1>4. (a + 1) % N = IF a + 1 < N THEN a + 1 ELSE a + 1 - N
  BY <1>1, <1>2
<1> HIDE DEF N
<1>5. ASSUME n < N PROVE (((a + n) % N) + 1) % N = (a + (n + 1)) % N
  <2>1. (a + (n + 1)) % N = IF a + n + 1 < N THEN a + n + 1 ELSE a + n + 1 - N
    BY <1>1, <1>2, <1>5
  <2>2. CASE a + n < N
    BY <1>1, <1>3, <2>2
  <2>3. CASE ~(a + n < N)
    <3>1. (a + n - N + 1) % N = a + n - N + 1
      BY <1>1, <1>2, <1>5, <2>3
    <3> QED BY <1>1, <1>3, <2>1, <2>3, <3>1
  <2> QED BY <2>2, <2>3
<1>6. ASSUME n > 0 PROVE (((a + 1) % N) + (n - 1)) % N = (a + n) % N
  <2>1. CASE a + 1 < N
    BY <1>1, <1>4, <2>1
  <2>2. CASE ~(a + 1 < N)
    <3>1. a + 1 = N /\ (a + 1) % N = 0
      BY <1>1, <1>4, <2>2
    <3>2. (0 + (n - 1)) % N = n - 1
      BY <1>1, <1>2, <1>6
    <3>3. (a + n) % N = n - 1
      BY <1>1, <1>3, <1>6, <3>1
    <3> QED BY <3>1, <3>2, <3>3
  <2> QED BY <2>1, <2>2
<1> QED BY <1>5, <1>6 DEF N

LEMMA BufferTypes ==
    ASSUME PInv, [ProdNext]_allVars
    PROVE  ProdTypeOK'
<1>1. stored' \in 0..bufferSize
  BY AccountsStep, ConsequencesNext DEF Bounded
<1>2. at' \in [Procs -> Labels]
  BY PlacesStep
<1>3. \A x \in Int : x % bufferSize \in Position /\ x % CharRange \in Char
  BY ProdConsAssumption DEF Position, Char
<1>4. /\ item \in [Procs -> Char] /\ i \in Char /\ buffer \in [Position -> Char]
      /\ r \in Position /\ w \in Position /\ delivered \in Char
      /\ 0 \in Char
  BY ProdConsAssumption DEF PInv, ProdTypeOK, Char
<1>5. Char \subseteq Int /\ Position \subseteq Int
  BY DEF Char, Position
<1> DEFINE Rest == /\ item \in [Procs -> Char] /\ i \in Char
                   /\ buffer \in [Position -> Char]
                   /\ r \in Position /\ w \in Position /\ delivered \in Char
<1>6. ASSUME NEW p \in Procs, Producer(p) PROVE Rest'
  <2>1. CASE Produce(p) \/ Store(p) \/ AdvanceW(p)
    BY <1>3, <1>4, <1>5, <2>1 DEF Produce, Store, AdvanceW, bufferVars
  <2>2. CASE Count(p)
    <3>1. item[p] + 1 \in Int
      <4>1. item[p] \in Char
        BY <1>4
      <4> QED BY <4>1 DEF Char
    <3> QED BY <1>3, <1>4, <2>2, <3>1 DEF Count, bufferVars
  <2>3. CASE WaitEmpty(p) \/ LockProducer(p) \/ ReleaseProducer(p) \/ SignalFull(p)
    BY <1>4, <2>3 DEF WaitEmpty, LockProducer, ReleaseProducer, SignalFull, Call,
         EndRound, bufferVars
  <2> QED BY <1>6, <2>1, <2>2, <2>3 DEF Producer
<1>7. ASSUME NEW p \in Procs, Consumer(p) PROVE Rest'
  <2>1. CASE Fetch(p) \/ AdvanceR(p)
    BY <1>3, <1>4, <1>5, <2>1 DEF Fetch, AdvanceR, bufferVars
  <2>2. CASE WaitFull(p) \/ LockConsumer(p) \/ ReleaseConsumer(p) \/ SignalEmpty(p)
    BY <1>4, <2>2 DEF WaitFull, LockConsumer, ReleaseConsumer, SignalEmpty, Call,
         EndRound, bufferVars
  <2> QED BY <1>7, <2>1, <2>2 DEF Consumer
<1>8. ASSUME UNCHANGED <<item, i, bufferVars>> PROVE Rest'
  BY <1>4, <1>8 DEF bufferVars
<1> HIDE DEF Rest
<1>9. ASSUME Control \/ UNCHANGED allVars PROVE Rest'
  BY <1>8, <1>9 DEF Control, KeyP, KeyC, KeyZ, KeyX, KeyQ, KillNext, Quit, allVars
<1>10. Rest'
  BY <1>6, <1>7, <1>8, <1>9 DEF ProdNext, Step, Return
<1> QED BY <1>1, <1>2, <1>10 DEF ProdTypeOK, Rest

\* How the steps touch the buffer: storing and moving on are the only ones.
LEMMA BufferSteps ==
    ASSUME [ProdNext]_allVars
    PROVE  \/ \E p \in Procs : Store(p) \/ AdvanceW(p) \/ AdvanceR(p)
           \/ UNCHANGED bufferVars
<1>1. ASSUME NEW p \in Procs, Producer(p)
      PROVE  Store(p) \/ AdvanceW(p) \/ UNCHANGED bufferVars
  BY <1>1 DEF Producer, Produce, Count, WaitEmpty, LockProducer, ReleaseProducer,
       SignalFull, Call, EndRound
<1>2. ASSUME NEW p \in Procs, Consumer(p)
      PROVE  AdvanceR(p) \/ UNCHANGED bufferVars
  BY <1>2 DEF Consumer, WaitFull, LockConsumer, Fetch, ReleaseConsumer,
       SignalEmpty, Call, EndRound
<1>3. CASE Control \/ UNCHANGED allVars
  BY <1>3 DEF Control, KeyP, KeyC, KeyZ, KeyX, KeyQ, KillNext, Quit, allVars
<1> QED BY <1>1, <1>2, <1>3 DEF ProdNext, Step, Return

\* A process at one of these labels is inside, and nobody else is.
LEMMA InsideFacts ==
    ASSUME PInv
    PROVE  /\ \A p \in Procs :
                 at[p] \in {"advanceW", "releaseP", "advanceR", "releaseC"} =>
                     p \in Inside
           /\ \A p \in Procs : InProgram(p) /\ at[p] \in {"store", "fetch"} =>
                 p \in Inside
           /\ \A p, q \in Inside : p = q
           /\ \A p \in Procs : at[p] \in {"store", "advanceW"} => stored < bufferSize
           /\ \A p \in Procs : at[p] \in {"fetch", "advanceR"} => stored > 0
<1>1. Bounded
  <2>1. stored \in Int
    BY DEF PInv, ProdTypeOK
  <2> QED BY <2>1, Consequences DEF PInv
<1>2. \A p \in Procs :
          at[p] \in {"advanceW", "releaseP", "advanceR", "releaseC"} => p \in Inside
  BY DEF PInv, WaitsAt, Inside, InsideAt, InCriticalSection
<1>3. \A p \in Procs : InProgram(p) /\ at[p] \in {"store", "fetch"} => p \in Inside
  BY DEF Inside, InsideAt, InProgram, InCriticalSection
<1> QED BY <1>1, <1>2, <1>3
       DEF Bounded, Reserved, ReservedAt, Claimed, ClaimedAt

LEMMA PositionsStep ==
    ASSUME PInv, [ProdNext]_allVars
    PROVE  Positions' /\ Fetched'
<1>1. /\ r \in Position /\ w \in Position /\ stored \in 0..bufferSize
      /\ bufferSize \in Nat \ {0} /\ w = (r + stored) % bufferSize
      /\ Position = 0..(bufferSize - 1)
      /\ item \in [Procs -> Char] /\ at \in [Procs -> Labels]
  BY ProdConsAssumption DEF PInv, ProdTypeOK, Positions, Position
<1>2. Positions'
  <2>1. CASE UNCHANGED bufferVars
    BY <1>1, <2>1 DEF bufferVars, Positions
  <2>2. ASSUME NEW p \in Procs, Store(p) PROVE Positions'
    BY <1>1, <2>2 DEF Store, Positions
  <2>3. ASSUME NEW p \in Procs, AdvanceW(p) PROVE Positions'
    <3>1. stored < bufferSize
      BY <2>3, InsideFacts DEF AdvanceW, Goto
    <3>2. w' = (w + 1) % bufferSize /\ stored' = stored + 1 /\ r' = r
      BY <2>3 DEF AdvanceW
    <3> QED BY <1>1, <3>1, <3>2, CircleNext DEF Positions
  <2>4. ASSUME NEW p \in Procs, AdvanceR(p) PROVE Positions'
    <3>1. stored > 0
      BY <2>4, InsideFacts DEF AdvanceR, Goto
    <3>2. r' = (r + 1) % bufferSize /\ stored' = stored - 1 /\ w' = w
      BY <2>4 DEF AdvanceR
    <3> QED BY <1>1, <3>1, <3>2, CircleNext DEF Positions
  <2> QED BY <2>1, <2>2, <2>3, <2>4, BufferSteps
<1>3. Fetched'
  <2> SUFFICES ASSUME NEW q \in Procs, at'[q] = "advanceR"
               PROVE  item'[q] = buffer'[r']
    BY DEF Fetched
  <2>1. CASE at[q] = "advanceR"
    <3>1. item'[q] = item[q]
      <4>1. ASSUME NEW p \in Procs, Producer(p) \/ Consumer(p) PROVE item'[q] = item[q]
        <5>1. p # q \/ UNCHANGED item
          BY <1>1, <2>1, <4>1
             DEF Producer, Produce, Count, WaitEmpty, LockProducer, Store, AdvanceW,
                 ReleaseProducer, SignalFull, Consumer, WaitFull, LockConsumer,
                 Fetch, AdvanceR, ReleaseConsumer, SignalEmpty, Call, EndRound, Goto
        <5>2. item' = item \/ \E x : item' = [item EXCEPT ![p] = x]
          BY <4>1
             DEF Producer, Produce, Count, WaitEmpty, LockProducer, Store, AdvanceW,
                 ReleaseProducer, SignalFull, Consumer, WaitFull, LockConsumer,
                 Fetch, AdvanceR, ReleaseConsumer, SignalEmpty, Call, EndRound
        <5> QED BY <1>1, <5>1, <5>2
      <4>2. ASSUME Control \/ UNCHANGED allVars PROVE item' = item
        BY <4>2 DEF Control, KeyP, KeyC, KeyZ, KeyX, KeyQ, KillNext, Quit, allVars
      <4> QED BY <4>1, <4>2 DEF ProdNext, Step, Return
    <3>2. buffer' = buffer /\ r' = r
      <4>1. q \in Inside
        BY <2>1, InsideFacts
      <4>2. ASSUME NEW p \in Procs, Store(p) PROVE FALSE
        <5>1. p \in Inside
          BY <4>2, InsideFacts DEF Store, Goto
        <5>2. p = q
          BY <4>1, <5>1, InsideFacts
        <5> QED BY <2>1, <4>2, <5>2 DEF Store, Goto
      <4>3. ASSUME NEW p \in Procs, AdvanceW(p) PROVE buffer' = buffer /\ r' = r
        BY <4>3 DEF AdvanceW
      <4>4. ASSUME NEW p \in Procs, AdvanceR(p) PROVE FALSE
        <5>1. p \in Inside
          BY <4>4, InsideFacts DEF AdvanceR, Goto
        <5>2. p = q
          BY <4>1, <5>1, InsideFacts
        <5> QED BY <1>1, <4>4, <5>2 DEF AdvanceR, Goto
      <4> QED BY <4>2, <4>3, <4>4, BufferSteps DEF bufferVars
    <3> QED BY <2>1, <3>1, <3>2 DEF PInv, Fetched
  <2>2. CASE at[q] # "advanceR"
    <3>1. Fetch(q)
      <4>1. ASSUME NEW p \in Procs, Producer(p) PROVE FALSE
        BY <1>1, <2>2, <4>1
           DEF Producer, Produce, Count, WaitEmpty, LockProducer, Store, AdvanceW,
               ReleaseProducer, SignalFull, Call, EndRound, Goto
      <4>2. ASSUME NEW p \in Procs, Consumer(p) PROVE Fetch(q)
        <5>1. Fetch(p) \/ at'[q] = at[q] \/ at'[q] # "advanceR"
          BY <1>1, <4>2
             DEF Consumer, WaitFull, LockConsumer, AdvanceR, ReleaseConsumer,
                 SignalEmpty, Call, EndRound, Goto
        <5>2. Fetch(p) /\ p # q => at'[q] = at[q]
          BY <1>1 DEF Fetch, Goto
        <5> QED BY <2>2, <5>1, <5>2
      <4>3. ASSUME Control \/ UNCHANGED allVars PROVE FALSE
        <5>1. at' = at \/ \E p \in Procs, b \in {"produce", "waitFull"} :
                  at' = [at EXCEPT ![p] = b]
          BY <4>3 DEF Control, KeyP, KeyC, KeyZ, KeyX, KeyQ, KillNext, Quit,
               allVars, Start
        <5> QED BY <1>1, <2>2, <5>1
      <4> QED BY <2>2, <4>1, <4>2, <4>3 DEF ProdNext, Step, Return
    <3> QED BY <1>1, <3>1 DEF Fetch, bufferVars
  <2> QED BY <2>1, <2>2
<1> QED BY <1>2, <1>3

-----------------------------------------------------------------------------
(***************************************************************************)
(* The invariant and what follows from it.                                 *)
(***************************************************************************)

LEMMA ProdInitPInv == ProdInit => PInv
<1> SUFFICES ASSUME ProdInit PROVE PInv
  OBVIOUS
<1>1. PICK p \in Procs, c \in Procs :
          /\ life = [q \in Procs |-> IF q \in {p, c} THEN "alive" ELSE "unborn"]
          /\ at = [q \in Procs |-> IF q = p THEN "produce"
                                   ELSE IF q = c THEN "waitFull" ELSE "new"]
          /\ producerPid = <<p>> /\ consumerPid = <<c>>
  BY DEF ProdInit
<1>2. /\ bufferSize \in Nat \ {0} /\ CharRange \in Nat \ {0}
      /\ {"itemMutex", "fullCount", "emptyCount"} \subseteq Names
      /\ SemIndex = {itemMutex, fullCount, emptyCount}
  BY ProdConsAssumption, Indices
<1>3. TypeOK
  <2>1. name \in [SemIndex -> Names \cup {NullName}]
    BY <1>2 DEF ProdInit
  <2>2. semaphore \in [SemIndex -> Int] /\ permits = semaphore
    BY <1>2 DEF ProdInit
  <2>3. queue \in [SemIndex -> [QueueSpot -> Procs \cup {NoPid}]]
    BY DEF ProdInit, CleanQueues
  <2>4. life \in [Procs -> {"unborn", "alive", "dead"}]
    BY <1>1
  <2>5. 0 \in SemIndex
    BY <1>2 DEF itemMutex
  <2> QED BY <2>1, <2>2, <2>3, <2>4, <2>5 DEF ProdInit, TypeOK
<1>4. \A s \in SemIndex : /\ Waiting(s) = {} /\ cardinalBlocked[s] = 0
                          /\ InWait(s) = {} /\ Ready(s) = {}
  BY DEF ProdInit, CleanQueues, Waiting, EmptySpots, InWait, Ready
<1>5. Entries /\ Counts /\ UnbornIdle
  BY <1>4, FS_EmptySet DEF Entries, Counts, UnbornIdle, ProdInit
<1>6. \A s \in SemIndex : Covered(s)
  <2> SUFFICES ASSUME NEW s \in SemIndex PROVE Covered(s)
    OBVIOUS
  <2>1. semaphore[s] \in Nat /\ permits[s] = semaphore[s]
    BY <1>2 DEF ProdInit
  <2>2. Cardinality(Ready(s)) = 0 /\ cardinalBlocked[s] = 0
    BY <1>4, FS_EmptySet
  <2> QED BY <2>1, <2>2 DEF Covered, Positive
<1>7. ProdTypeOK
  BY <1>1, <1>2 DEF ProdInit, ProdTypeOK, Labels, Char, Position
<1>8. PidsOK
  BY <1>1 DEF PidsOK
<1>9. Accounts
  <2>1. /\ Inside = {} /\ Reserved = {} /\ Announcing = {} /\ Claimed = {}
        /\ Vacating = {}
    BY <1>1 DEF Inside, Reserved, Announcing, Claimed, Vacating, InsideAt,
         ReservedAt, AnnouncingAt, ClaimedAt, VacatingAt, InCriticalSection
  <2>2. /\ permits[itemMutex] = 1 /\ permits[fullCount] = 0
        /\ permits[emptyCount] = bufferSize /\ stored = 0
    BY <1>2 DEF ProdInit, itemMutex, fullCount, emptyCount
  <2>3. Cardinality({}) = 0
    BY FS_EmptySet
  <2> QED BY <1>2, <2>1, <2>2, <2>3
         DEF Accounts, MutexAccount, EmptyAccount, FullAccount
<1>10. WaitsAt /\ UnbornNew /\ Fetched
  BY <1>1 DEF ProdInit, WaitsAt, UnbornNew, Fetched
<1>11. Positions
  BY <1>2, Circle DEF ProdInit, Positions
<1> QED BY <1>3, <1>5, <1>6, <1>7, <1>8, <1>9, <1>10, <1>11
       DEF PInv, KernelInv, QueueInv

LEMMA ProdNextPInv ==
    ASSUME PInv, [ProdNext]_allVars
    PROVE  PInv'
BY AccountsStep, PlacesStep, BufferTypes, PositionsStep DEF PInv

LEMMA ProdInvariance == ProdSpec => []PInv
BY ProdInitPInv, ProdNextPInv, PTL DEF ProdSpec

\* The demo's variables have their types; in particular r and w stay in the
\* array and never more than bufferSize items are stored.
THEOREM ProdTypeCorrect == ProdSpec => []ProdTypeOK
<1>1. PInv => ProdTypeOK
  BY DEF PInv
<1> QED BY <1>1, ProdInvariance, PTL

\* The semaphore itemMutex keeps insertItem and removeItem of all processes
\* apart, whoever is killed, and also when its queue overflows.
THEOREM MutualExclusion == ProdSpec => []OneInside
<1>1. PInv => OneInside
  BY InsideFacts DEF OneInside, Inside, InsideAt
<1> QED BY <1>1, ProdInvariance, PTL

-----------------------------------------------------------------------------
(***************************************************************************)
(* The demo implements module BoundedBuffer: AdvanceW is Put, AdvanceR is  *)
(* Get, and all other steps are none, the write into the array among them. *)
(***************************************************************************)

LEMMA ContentsFacts ==
    ASSUME PInv
    PROVE  /\ Contents \in Seq(Char) /\ Len(Contents) = stored
           /\ \A k \in 1..stored :
                  /\ r + k - 1 \in 0..(2 * bufferSize - 1)
                  /\ (r + k - 1) % bufferSize \in Position
                  /\ Contents[k] = buffer[(r + k - 1) % bufferSize]
<1>1. /\ r \in Position /\ stored \in 0..bufferSize /\ buffer \in [Position -> Char]
      /\ bufferSize \in Nat \ {0} /\ Position = 0..(bufferSize - 1)
  BY ProdConsAssumption DEF PInv, ProdTypeOK, Position
<1>2. \A k \in 1..stored : /\ r + k - 1 \in 0..(2 * bufferSize - 1)
                           /\ (r + k - 1) % bufferSize \in Position
  BY <1>1
<1>3. Contents \in [1..stored -> Char]
  BY <1>1, <1>2 DEF Contents
<1>4. stored \in Nat
  BY <1>1
<1> QED BY <1>2, <1>3, <1>4 DEF Contents

\* Producers write where no item is.
LEMMA StoreStutters ==
    ASSUME PInv, NEW p \in Procs, Store(p)
    PROVE  Contents' = Contents /\ delivered' = delivered
<1>1. /\ r \in Position /\ stored \in 0..bufferSize /\ buffer \in [Position -> Char]
      /\ bufferSize \in Nat \ {0} /\ Position = 0..(bufferSize - 1)
      /\ w = (r + stored) % bufferSize
  BY ProdConsAssumption DEF PInv, ProdTypeOK, Position, Positions
<1>2. stored < bufferSize
  BY InsideFacts DEF Store, Goto
<1>3. /\ UNCHANGED <<r, stored, delivered>>
      /\ buffer' = [buffer EXCEPT ![w] = item[p]]
  BY DEF Store
<1>4. \A k \in 1..stored : (r + k - 1) % bufferSize # w
  <2> SUFFICES ASSUME NEW k \in 1..stored PROVE (r + k - 1) % bufferSize # w
    OBVIOUS
  <2> DEFINE x == r + k - 1
             y == r + stored
  <2>1. x \in 0..(2 * bufferSize - 1) /\ y \in 0..(2 * bufferSize - 1)
    BY <1>1, <1>2
  <2> HIDE DEF x, y
  <2>2. /\ x % bufferSize = IF x < bufferSize THEN x ELSE x - bufferSize
        /\ y % bufferSize = IF y < bufferSize THEN y ELSE y - bufferSize
    BY <2>1, Circle
  <2>3. x < y /\ y < x + bufferSize /\ x \in Int /\ y \in Int
    BY <1>1, <1>2 DEF x, y
  <2>4. x % bufferSize # y % bufferSize
    BY <1>1, <2>1, <2>2, <2>3
  <2> QED BY <1>1, <2>4 DEF x, y
<1>5. \A k \in 1..stored :
          buffer'[(r + k - 1) % bufferSize] = buffer[(r + k - 1) % bufferSize]
  BY <1>1, <1>3, <1>4, ContentsFacts
<1> QED BY <1>3, <1>5 DEF Contents

LEMMA AdvanceWPuts ==
    ASSUME PInv, PInv', NEW p \in Procs, AdvanceW(p)
    PROVE  \E x \in Char : Buffer!Put(x)
<1>1. /\ r \in Position /\ w \in Position /\ stored \in 0..bufferSize
      /\ buffer \in [Position -> Char]
      /\ w = (r + stored) % bufferSize /\ bufferSize \in Nat \ {0}
  BY ProdConsAssumption DEF PInv, ProdTypeOK, Positions
<1>2. stored < bufferSize
  BY InsideFacts DEF AdvanceW, Goto
<1>3. UNCHANGED <<r, buffer, delivered>> /\ stored' = stored + 1
  BY DEF AdvanceW
<1>4. Contents \in Seq(Char) /\ Len(Contents) = stored
  BY ContentsFacts
<1>5. Contents' = [k \in 1..(stored + 1) |-> buffer[(r + k - 1) % bufferSize]]
  BY <1>3 DEF Contents
<1>6. buffer[(r + (stored + 1) - 1) % bufferSize] = buffer[w]
  <2>1. r + (stored + 1) - 1 = r + stored
    BY <1>1 DEF Position
  <2> QED BY <1>1, <2>1
<1>7. Append(Contents, buffer[w])
          = [k \in 1..(stored + 1) |-> IF k = stored + 1 THEN buffer[w] ELSE Contents[k]]
  BY <1>4
<1>8. \A k \in 1..(stored + 1) : k # stored + 1 =>
          Contents[k] = buffer[(r + k - 1) % bufferSize]
  <2>1. \A k \in 1..(stored + 1) : k # stored + 1 => k \in 1..stored
    BY <1>1
  <2> QED BY <2>1, ContentsFacts
<1>9. Contents' = Append(Contents, buffer[w])
  BY <1>5, <1>6, <1>7, <1>8
<1>10. buffer[w] \in Char
  BY <1>1
<1> QED BY <1>2, <1>3, <1>4, <1>9, <1>10 DEF Buffer!Put

LEMMA AdvanceRGets ==
    ASSUME PInv, PInv', NEW p \in Procs, AdvanceR(p)
    PROVE  Buffer!Get
<1>1. /\ r \in Position /\ stored \in 0..bufferSize /\ bufferSize \in Nat \ {0}
      /\ Position = 0..(bufferSize - 1)
  BY ProdConsAssumption DEF PInv, ProdTypeOK, Position
<1>2. stored > 0
  BY InsideFacts DEF AdvanceR, Goto
<1>3. /\ r' = (r + 1) % bufferSize /\ stored' = stored - 1
      /\ delivered' = item[p] /\ buffer' = buffer
  BY DEF AdvanceR
<1>4. Contents \in Seq(Char) /\ Len(Contents) = stored
  BY ContentsFacts
<1>5. delivered' = Head(Contents)
  <2>1. item[p] = buffer[r]
    BY DEF AdvanceR, Goto, PInv, Fetched
  <2>2. 1 \in 1..stored /\ r + 1 - 1 = r
    BY <1>1, <1>2
  <2>3. r % bufferSize = r
    BY <1>1, Circle
  <2>4. Contents[1] = buffer[r]
    BY <2>2, <2>3, ContentsFacts
  <2> QED BY <1>2, <1>3, <1>4, <2>1, <2>4
<1>6. Contents' = [k \in 1..(stored - 1) |-> buffer[(r' + k - 1) % bufferSize]]
  BY <1>3 DEF Contents
<1>7. Tail(Contents) = [k \in 1..(stored - 1) |-> Contents[k + 1]]
  <2> DEFINE t == [k \in 1..(stored - 1) |-> Contents[k + 1]]
  <2>1. stored - 1 \in Nat /\ \A k \in 1..(stored - 1) : k + 1 \in 1..stored
    BY <1>1, <1>2
  <2>2. \A k \in 1..stored : Contents[k] \in Char
    BY <1>4
  <2>3. t \in Seq(Char) /\ Len(t) = stored - 1
    BY <2>1, <2>2
  <2>4. /\ Tail(Contents) \in Seq(Char) /\ Len(Tail(Contents)) = stored - 1
        /\ \A k \in 1..(stored - 1) : Tail(Contents)[k] = Contents[k + 1]
    BY <1>2, <1>4, <2>1
  <2> QED BY <2>3, <2>4, SeqEqual
<1>8. \A k \in 1..(stored - 1) :
          Contents[k + 1] = buffer[(r' + k - 1) % bufferSize]
  <2> SUFFICES ASSUME NEW k \in 1..(stored - 1)
               PROVE  Contents[k + 1] = buffer[(r' + k - 1) % bufferSize]
    OBVIOUS
  <2>1. k + 1 \in 1..stored /\ k \in 0..bufferSize /\ k > 0
    BY <1>1, <1>2
  <2>2. Contents[k + 1] = buffer[(r + (k + 1) - 1) % bufferSize]
    BY <2>1, ContentsFacts
  <2>3. r + (k + 1) - 1 = r + k /\ r' + k - 1 = r' + (k - 1)
    <3>1. r' \in Int
      BY DEF PInv, ProdTypeOK, Position
    <3> QED BY <1>1, <2>1, <3>1
  <2>4. (r' + (k - 1)) % bufferSize = (r + k) % bufferSize
    BY <1>3, <2>1, CircleNext, <1>1
  <2> QED BY <2>2, <2>3, <2>4
<1>9. Contents' = Tail(Contents)
  BY <1>6, <1>7, <1>8
<1>10. Contents # <<>>
  BY <1>2, <1>4
<1> QED BY <1>5, <1>9, <1>10 DEF Buffer!Get

\* What is put into the buffer is taken out once and in order, for any number
\* of producers and consumers, whoever is killed and whenever.
THEOREM Refinement == ProdSpec => IsABoundedBuffer
<1>1. ProdInit => Buffer!Init
  <2> SUFFICES ASSUME ProdInit PROVE Buffer!Init
    OBVIOUS
  <2>1. Contents \in Seq(Char) /\ Len(Contents) = 0 /\ delivered \in Char
    BY ProdInitPInv, ContentsFacts DEF ProdInit, PInv, ProdTypeOK
  <2> QED BY <2>1 DEF Buffer!Init
<1>2. PInv /\ PInv' /\ [ProdNext]_allVars
          => [Buffer!Next]_<<Contents, delivered>>
  <2> SUFFICES ASSUME PInv, PInv', [ProdNext]_allVars
               PROVE  [Buffer!Next]_<<Contents, delivered>>
    OBVIOUS
  <2>1. CASE UNCHANGED bufferVars
    BY <2>1 DEF bufferVars, Contents
  <2>2. ASSUME NEW p \in Procs, Store(p)
        PROVE  [Buffer!Next]_<<Contents, delivered>>
    BY <2>2, StoreStutters
  <2>3. ASSUME NEW p \in Procs, AdvanceW(p)
        PROVE  [Buffer!Next]_<<Contents, delivered>>
    BY <2>3, AdvanceWPuts DEF Buffer!Next
  <2>4. ASSUME NEW p \in Procs, AdvanceR(p)
        PROVE  [Buffer!Next]_<<Contents, delivered>>
    BY <2>4, AdvanceRGets DEF Buffer!Next
  <2> QED BY <2>1, <2>2, <2>3, <2>4, BufferSteps
<1> QED BY <1>1, <1>2, ProdInvariance, PTL DEF ProdSpec, IsABoundedBuffer, Buffer!Spec

=============================================================================
