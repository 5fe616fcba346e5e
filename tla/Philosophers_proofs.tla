------------------------ MODULE Philosophers_proofs ------------------------
(***************************************************************************)
(* Proof that two neighbouring philosophers never eat at the same time and *)
(* that the two that share a semaphore never both wait at it for ever, for *)
(* every size of the tables and of the queues and for every garbage that   *)
(* state[] may begin with.                                                 *)
(*                                                                         *)
(* The argument.  The mutex "mutexp" has one owner at most: the process    *)
(* that holds it, or the one it was handed to and that has not run since.  *)
(* That needs the queue of the mutex to hold blocked processes only, each  *)
(* once, and those in lockMutex; and since the philosophers block at a     *)
(* semaphore as well, the same of the queue of semaphore "0", so that a    *)
(* signal makes no process an owner.  A philosopher between its lockMutex  *)
(* and its freeMutex is an owner or queues up, so only one at a time       *)
(* reads and writes state[], and what testP has seen still holds when it   *)
(* writes EATING, after whatever the others did in between.                *)
(***************************************************************************)
EXTENDS Philosophers, TLAPS

\* The labels between lockMutex and freeMutex.
Critical == {"hungry", "test", "eat", "signal", "freeTake", "think", "freePut"}

\* The types of what the argument is about.
KernelTypes ==
    /\ mutex \in [MutexIndex -> {0, 1}]
    /\ queue \in [MutexIndex -> [QueueSpot -> Procs \cup {NoPid}]]
    /\ semQueue \in [Sem!SemIndex -> [Sem!QueueSpot -> Procs \cup {NoPid}]]
    /\ state \in [Procs -> {"READY", "BLOCKED"}]
    /\ pc \in [Procs -> {"user", "lock", "wait"}]
    /\ want \in [Procs -> MutexIndex]
    /\ held \in [Procs -> SUBSET {mutexp}]

ProgramTypes ==
    /\ philState \in [Procs -> Meals]
    /\ at \in [Procs -> Labels]
    /\ number \in [Procs -> Procs]

\* Who stands in the queue of the mutex is blocked in lockMutex, and is
\* entered once.
LockQueue ==
    /\ \A i \in QueueSpot : queue[mutexp][i] # NoPid =>
          /\ pc[queue[mutexp][i]] = "lock"
          /\ state[queue[mutexp][i]] = "BLOCKED"
    /\ \A i, j \in QueueSpot :
          queue[mutexp][i] # NoPid /\ queue[mutexp][i] = queue[mutexp][j] => i = j

\* Who stands in the queue of semaphore "0" is blocked in wait, and is entered
\* once.
WaitQueue ==
    /\ \A i \in Sem!QueueSpot : semQueue[0][i] # NoPid =>
          /\ pc[semQueue[0][i]] = "wait"
          /\ state[semQueue[0][i]] = "BLOCKED"
    /\ \A i, j \in Sem!QueueSpot :
          semQueue[0][i] # NoPid /\ semQueue[0][i] = semQueue[0][j] => i = j

\* The mutex has one owner at most, and none when it is free.
OneOwner ==
    /\ \A p \in Procs : pc[p] = "lock" => want[p] = mutexp /\ mutexp \notin held[p]
    /\ \A p \in Procs : Owns(p, mutexp) => mutex[mutexp] = 1
    /\ \A p, q \in Procs : Owns(p, mutexp) /\ Owns(q, mutexp) => p = q

Kernel == KernelTypes /\ LockQueue /\ WaitQueue /\ OneOwner

\* Where a philosopher is, and what it has of the mutex there.
Places ==
    \A p \in Procs :
        /\ at[p] \in Critical => mutexp \in held[p] \/ pc[p] = "lock"
        /\ at[p] \notin Critical => mutexp \notin held[p] /\ pc[p] # "lock"
        /\ pc[p] = "lock" => at[p] \in {"hungry", "think"}
        /\ pc[p] = "wait" => at[p] = "put"

\* What testP has seen still holds when it writes.
CheckHolds == \A p \in Procs : at[p] = "eat" => CanEat(number[p])

Inv == Kernel /\ ProgramTypes /\ Places /\ CheckHolds /\ NeighboursDontEat

-----------------------------------------------------------------------------
(***************************************************************************)
(* Arithmetic of the table.                                                *)
(***************************************************************************)

\* The indices of mutexp and of semaphore "0" are indices of the tables, and
\* no process has the value that marks an empty spot.
LEMMA Indices ==
    /\ mutexp \in MutexIndex
    /\ 0 \in MutexIndex
    /\ 0 \in Sem!SemIndex
    /\ Sem!QueueSpot = QueueSpot
    /\ NoPid \notin Procs
BY PhilosophersAssumption, MutexSizesAssumption, NoPidAssumption
   DEF mutexp, MutexIndex, QueueSpot, Sem!SemIndex, Sem!QueueSpot

\* Left and Right go to the neighbours at the round table, and back.
LEMMA Neighbours ==
    ASSUME NEW k \in Procs
    PROVE  /\ Left(k) \in Procs
           /\ Right(k) \in Procs
           /\ Left(Right(k)) = k
           /\ Right(k) # k
<1>1. k \in 0..4 /\ Procs = 0..4 /\ DEFAULTP = 5
  BY PhilosophersAssumption
<1> QED BY <1>1 DEF Left, Right

\* An entry of a table of queues is written.
LEMMA EntryWritten ==
    ASSUME NEW I, NEW J, NEW V, NEW f \in [I -> [J -> V]],
           NEW i \in I, NEW j \in J, NEW v \in V
    PROVE  [f EXCEPT ![i][j] = v] \in [I -> [J -> V]]
OBVIOUS

-----------------------------------------------------------------------------
(***************************************************************************)
(* What the calls of the kernel do to its part of the invariant, and to    *)
(* the mutex of the caller and of the others.                              *)
(***************************************************************************)

\* Nobody but p enters or leaves a call, or gets or frees the mutex.
OthersStay(p) ==
    \A q \in Procs \ {p} : pc'[q] = pc[q] /\ held'[q] = held[q]

\* A lockMutex that finds the mutex free.
LEMMA AcquireStep ==
    ASSUME Kernel, NEW p \in Procs, CallMutex(LockAcquire(p, mutexp))
    PROVE  /\ Kernel'
           /\ OthersStay(p)
           /\ pc'[p] = "user" /\ mutexp \in held'[p]
<1>1. /\ pc[p] = "user" /\ mutex[mutexp] = 0
      /\ mutex' = [mutex EXCEPT ![mutexp] = 1]
      /\ held' = [held EXCEPT ![p] = @ \cup {mutexp}]
      /\ UNCHANGED <<queue, semQueue, state, pc, want>>
  BY DEF CallMutex, LockAcquire, InProgram, Acquirable, semVars
<1>2. KernelTypes'
  BY <1>1, Indices DEF Kernel, KernelTypes
<1>3. LockQueue' /\ WaitQueue'
  BY <1>1 DEF Kernel, LockQueue, WaitQueue
<1>4. mutex'[mutexp] = 1
  BY <1>1, Indices DEF Kernel, KernelTypes
<1>5. \A q \in Procs : ~Owns(q, mutexp)
  BY <1>1 DEF Kernel, OneOwner
<1>6. held'[p] = held[p] \cup {mutexp} /\ \A q \in Procs \ {p} : held'[q] = held[q]
  BY <1>1 DEF Kernel, KernelTypes
<1>7. \A q \in Procs \ {p} : ~Owns(q, mutexp)'
  BY <1>1, <1>5, <1>6 DEF Owns
<1>8. OneOwner'
  <2>1. \A q \in Procs : pc'[q] = "lock" => want'[q] = mutexp /\ mutexp \notin held'[q]
    BY <1>1, <1>6 DEF Kernel, OneOwner
  <2> QED BY <2>1, <1>4, <1>7 DEF OneOwner, mutexp
<1> QED BY <1>1, <1>2, <1>3, <1>6, <1>8 DEF Kernel, OthersStay

\* A lockMutex that blocks.
LEMMA BlockStep ==
    ASSUME Kernel, NEW p \in Procs, CallMutex(LockBlock(p, mutexp))
    PROVE  /\ Kernel'
           /\ OthersStay(p)
           /\ pc'[p] = "lock" /\ held'[p] = held[p] /\ mutexp \notin held[p]
<1>1. /\ pc[p] = "user" /\ life[p] = "alive" /\ mutexp \notin held[p]
      /\ state' = StateChanged(p, "BLOCKED")
      /\ pc' = [pc EXCEPT ![p] = "lock"]
      /\ want' = [want EXCEPT ![p] = mutexp]
      /\ UNCHANGED <<mutex, held, semQueue>>
  BY DEF CallMutex, LockBlock, InProgram, semVars
<1>2. state' = [state EXCEPT ![p] = "BLOCKED"]
  BY <1>1 DEF StateChanged
<1>3. \/ queue' = queue
      \/ \E i \in QueueSpot : queue' = [queue EXCEPT ![mutexp][i] = p]
  BY DEF CallMutex, LockBlock
<1>4. KernelTypes'
  <2>1. queue' \in [MutexIndex -> [QueueSpot -> Procs \cup {NoPid}]]
    <3>1. queue \in [MutexIndex -> [QueueSpot -> Procs \cup {NoPid}]]
      BY DEF Kernel, KernelTypes
    <3>2. ASSUME NEW i \in QueueSpot, queue' = [queue EXCEPT ![mutexp][i] = p]
          PROVE  queue' \in [MutexIndex -> [QueueSpot -> Procs \cup {NoPid}]]
      <4>1. p \in Procs \cup {NoPid}
        OBVIOUS
      <4>2. [queue EXCEPT ![mutexp][i] = p] \in [MutexIndex -> [QueueSpot -> Procs \cup {NoPid}]]
        BY <3>1, <4>1, Indices, EntryWritten
      <4> QED BY <3>2, <4>2
    <3> QED BY <1>3, <3>1, <3>2
  <2>2. /\ state' \in [Procs -> {"READY", "BLOCKED"}]
        /\ pc' \in [Procs -> {"user", "lock", "wait"}]
        /\ want' \in [Procs -> MutexIndex]
    BY <1>1, <1>2, Indices DEF Kernel, KernelTypes
  <2> QED BY <1>1, <2>1, <2>2 DEF Kernel, KernelTypes, mutexp
<1>5. \A i \in QueueSpot : queue[mutexp][i] # p /\ semQueue[0][i] # p
  BY <1>1, Indices DEF Kernel, LockQueue, WaitQueue
<1>6. \A q \in Procs \ {p} : pc'[q] = pc[q] /\ state'[q] = state[q] /\ want'[q] = want[q]
  BY <1>1, <1>2 DEF Kernel, KernelTypes
<1>7. pc'[p] = "lock" /\ state'[p] = "BLOCKED" /\ want'[p] = mutexp
  BY <1>1, <1>2 DEF Kernel, KernelTypes
<1>8. LockQueue'
  <2>1. \A i \in QueueSpot : queue[mutexp][i] \in Procs \cup {NoPid}
    BY Indices DEF Kernel, KernelTypes
  <2>2. CASE queue' = queue
    BY <2>1, <2>2, <1>5, <1>6 DEF Kernel, LockQueue, mutexp
  <2>3. CASE \E i \in QueueSpot : queue' = [queue EXCEPT ![mutexp][i] = p]
    <3>1. PICK i \in QueueSpot : queue' = [queue EXCEPT ![mutexp][i] = p]
      BY <2>3
    <3>2. queue'[mutexp][i] = p /\ \A j \in QueueSpot \ {i} : queue'[mutexp][j] = queue[mutexp][j]
      BY <3>1, Indices DEF Kernel, KernelTypes
    <3> QED BY <3>2, <2>1, <1>5, <1>6, <1>7 DEF Kernel, LockQueue, mutexp
  <2> QED BY <1>3, <2>2, <2>3
<1>9. WaitQueue'
  <2>1. \A i \in QueueSpot : semQueue[0][i] \in Procs \cup {NoPid}
    BY Indices DEF Kernel, KernelTypes
  <2> QED BY <2>1, <1>1, <1>5, <1>6, Indices DEF Kernel, WaitQueue
<1>10. \A q \in Procs : Owns(q, mutexp)' => Owns(q, mutexp)
  BY <1>1, <1>6, <1>7 DEF Owns, mutexp
<1>11. OneOwner'
  <2>1. \A q \in Procs : pc'[q] = "lock" => want'[q] = mutexp /\ mutexp \notin held'[q]
    BY <1>1, <1>6, <1>7 DEF Kernel, OneOwner
  <2> QED BY <2>1, <1>1, <1>10 DEF Kernel, OneOwner, mutexp
<1> QED BY <1>1, <1>4, <1>6, <1>7, <1>8, <1>9, <1>11 DEF Kernel, OthersStay

\* lockMutex returns from its yield: the mutex was handed to the caller.
LEMMA LockReturnStep ==
    ASSUME Kernel, NEW p \in Procs, CallMutex(LockReturn(p))
    PROVE  /\ Kernel'
           /\ OthersStay(p)
           /\ pc[p] = "lock" /\ pc'[p] = "user" /\ mutexp \in held'[p]
<1>1. /\ pc[p] = "lock" /\ state[p] = "READY"
      /\ pc' = [pc EXCEPT ![p] = "user"]
      /\ held' = [held EXCEPT ![p] = @ \cup {want[p]}]
      /\ UNCHANGED <<mutex, queue, semQueue, state, want>>
  BY DEF CallMutex, LockReturn, semVars, Kernel, KernelTypes
<1>2. want[p] = mutexp /\ Owns(p, mutexp)
  BY <1>1 DEF Kernel, OneOwner, Owns
<1>3. KernelTypes'
  BY <1>1, <1>2 DEF Kernel, KernelTypes, mutexp
<1>4. /\ pc'[p] = "user" /\ mutexp \in held'[p]
      /\ \A q \in Procs \ {p} : pc'[q] = pc[q] /\ held'[q] = held[q]
  BY <1>1, <1>2 DEF Kernel, KernelTypes
<1>5. \A i \in QueueSpot : queue[mutexp][i] # p /\ semQueue[0][i] # p
  BY <1>1, Indices DEF Kernel, LockQueue, WaitQueue
<1>6. \A i \in QueueSpot : /\ queue[mutexp][i] \in Procs \cup {NoPid}
                           /\ semQueue[0][i] \in Procs \cup {NoPid}
  BY Indices DEF Kernel, KernelTypes
<1>7. LockQueue' /\ WaitQueue'
  BY <1>1, <1>4, <1>5, <1>6, Indices DEF Kernel, LockQueue, WaitQueue, mutexp
<1>8. \A q \in Procs : Owns(q, mutexp)' => Owns(q, mutexp)
  BY <1>1, <1>2, <1>4 DEF Owns, mutexp
<1>9. OneOwner'
  <2>1. \A q \in Procs : pc'[q] = "lock" => want'[q] = mutexp /\ mutexp \notin held'[q]
    BY <1>1, <1>4 DEF Kernel, OneOwner
  <2> QED BY <2>1, <1>1, <1>8 DEF Kernel, OneOwner, mutexp
<1> QED BY <1>1, <1>3, <1>4, <1>7, <1>9 DEF Kernel, OthersStay

\* freeMutex, whether it hands the mutex on or unlocks it.
LEMMA UnlockStep ==
    ASSUME Kernel, NEW p \in Procs, Unlock(p)
    PROVE  /\ Kernel'
           /\ OthersStay(p)
           /\ pc'[p] = "user" /\ mutexp \notin held'[p]
<1>1. /\ pc[p] = "user" /\ mutexp \in held[p]
      /\ held' = [held EXCEPT ![p] = @ \ {mutexp}]
      /\ UNCHANGED <<semQueue, pc, want>>
  BY DEF Unlock, CallMutex, Free, InProgram, semVars
<1>2. \/ UNCHANGED <<queue, mutex, state>>
      \/ /\ mutex' = mutex
         /\ \E i \in QueueSpot :
               /\ queue[mutexp][i] # NoPid
               /\ state' = StateChanged(queue[mutexp][i], "READY")
               /\ queue' = [queue EXCEPT ![mutexp][i] = NoPid]
      \/ mutex' = [mutex EXCEPT ![mutexp] = 0] /\ UNCHANGED <<queue, state>>
  BY DEF Unlock, CallMutex, Free, First, Waiting, EmptySpots
<1>3. /\ mutexp \notin held'[p]
      /\ \A q \in Procs \ {p} : held'[q] = held[q]
      /\ held' \in [Procs -> SUBSET {mutexp}]
  BY <1>1 DEF Kernel, KernelTypes
<1>4. \A q \in Procs \ {p} : ~Owns(q, mutexp)
  BY <1>1 DEF Kernel, OneOwner, Owns
<1>5. mutex[mutexp] = 1
  BY <1>1 DEF Kernel, OneOwner, Owns
<1>6. \A q \in Procs : pc'[q] = "lock" => want'[q] = mutexp /\ mutexp \notin held'[q]
  BY <1>1, <1>3 DEF Kernel, OneOwner
<1>7. ASSUME UNCHANGED <<queue, state>>,
             mutex' \in [MutexIndex -> {0, 1}]
      PROVE  Kernel'
  <2>1. KernelTypes' /\ LockQueue' /\ WaitQueue'
    BY <1>1, <1>3, <1>7 DEF Kernel, KernelTypes, LockQueue, WaitQueue, mutexp
  <2>2. \A q \in Procs : ~Owns(q, mutexp)'
    BY <1>1, <1>3, <1>4, <1>7 DEF Owns, mutexp
  <2>3. OneOwner'
    BY <1>6, <2>2 DEF OneOwner, mutexp
  <2> QED BY <2>1, <2>3 DEF Kernel
<1>8. ASSUME mutex' = mutex,
             NEW i \in QueueSpot,
             queue[mutexp][i] # NoPid,
             state' = StateChanged(queue[mutexp][i], "READY"),
             queue' = [queue EXCEPT ![mutexp][i] = NoPid]
      PROVE  Kernel'
  <2> DEFINE h == queue[mutexp][i]
  <2>1. h \in Procs /\ pc[h] = "lock" /\ state[h] = "BLOCKED"
    BY <1>8, Indices DEF Kernel, KernelTypes, LockQueue
  <2>2. \/ state' = state
        \/ state' = [state EXCEPT ![h] = "READY"]
    BY <1>8, <2>1 DEF StateChanged
  <2> HIDE DEF h
  <2>3. /\ state' \in [Procs -> {"READY", "BLOCKED"}]
        /\ \A q \in Procs \ {h} : state'[q] = state[q]
    BY <2>1, <2>2 DEF Kernel, KernelTypes
  <2>4. queue' \in [MutexIndex -> [QueueSpot -> Procs \cup {NoPid}]]
    BY <1>8, Indices DEF Kernel, KernelTypes
  <2>5. /\ queue'[mutexp][i] = NoPid
        /\ \A j \in QueueSpot \ {i} : queue'[mutexp][j] = queue[mutexp][j]
    BY <1>8, Indices DEF Kernel, KernelTypes
  <2>6. \A j \in QueueSpot \ {i} :
           queue[mutexp][j] # h /\ queue[mutexp][j] \in Procs \cup {NoPid}
    BY <1>8, Indices DEF Kernel, KernelTypes, LockQueue, h
  <2>7. \A j \in QueueSpot :
           semQueue[0][j] # h /\ semQueue[0][j] \in Procs \cup {NoPid}
    BY <2>1, Indices DEF Kernel, KernelTypes, WaitQueue
  <2>8. KernelTypes'
    BY <1>1, <1>3, <1>8, <2>3, <2>4 DEF Kernel, KernelTypes, mutexp
  <2>9. LockQueue'
    BY <1>1, <2>3, <2>5, <2>6 DEF Kernel, LockQueue, mutexp
  <2>10. WaitQueue'
    BY <1>1, <2>3, <2>7, Indices DEF Kernel, WaitQueue
  <2>11. \A q \in Procs \ {h} : ~Owns(q, mutexp)'
    BY <1>1, <1>3, <1>4, <2>1, <2>3 DEF Owns, mutexp
  <2>12. OneOwner'
    BY <1>5, <1>6, <1>8, <2>11 DEF OneOwner, mutexp
  <2> QED BY <2>8, <2>9, <2>10, <2>12 DEF Kernel
<1>9. Kernel'
  <2>1. CASE UNCHANGED <<queue, mutex, state>>
    BY <1>7, <2>1 DEF Kernel, KernelTypes
  <2>2. CASE mutex' = [mutex EXCEPT ![mutexp] = 0] /\ UNCHANGED <<queue, state>>
    BY <1>7, <2>2 DEF Kernel, KernelTypes
  <2> QED BY <1>2, <1>8, <2>1, <2>2
<1> QED BY <1>1, <1>3, <1>9 DEF OthersStay

\* A wait that passes.
LEMMA PassStep ==
    ASSUME Kernel, NEW p \in Procs, CallSem(Sem!WaitPass(p, 0))
    PROVE  Kernel' /\ UNCHANGED <<pc, held>>
<1>1. UNCHANGED <<mutex, queue, semQueue, state, pc, want, held>>
  BY DEF CallSem, Sem!WaitPass
<1> QED
  BY <1>1 DEF Kernel, KernelTypes, LockQueue, WaitQueue, OneOwner, Owns, mutexp

\* A wait that blocks.
LEMMA WaitStep ==
    ASSUME Kernel, NEW p \in Procs, CallSem(Sem!WaitBlock(p, 0))
    PROVE  /\ Kernel'
           /\ OthersStay(p)
           /\ pc'[p] = "wait" /\ held' = held
<1>1. /\ pc[p] = "user" /\ life[p] = "alive"
      /\ state' = Sem!StateChanged(p, "BLOCKED")
      /\ pc' = [pc EXCEPT ![p] = "wait"]
      /\ want' = [want EXCEPT ![p] = 0]
      /\ UNCHANGED <<mutex, queue, held>>
  BY DEF CallSem, Sem!WaitBlock, Sem!Calls, Sem!InProgram
<1>2. state' = [state EXCEPT ![p] = "BLOCKED"]
  BY <1>1 DEF Sem!StateChanged
<1>3. \/ semQueue' = semQueue
      \/ \E i \in Sem!QueueSpot : semQueue' = [semQueue EXCEPT ![0][i] = p]
  BY DEF CallSem, Sem!WaitBlock
<1>4. KernelTypes'
  <2>1. semQueue' \in [Sem!SemIndex -> [Sem!QueueSpot -> Procs \cup {NoPid}]]
    <3>1. semQueue \in [Sem!SemIndex -> [Sem!QueueSpot -> Procs \cup {NoPid}]]
      BY DEF Kernel, KernelTypes
    <3>2. ASSUME NEW i \in Sem!QueueSpot, semQueue' = [semQueue EXCEPT ![0][i] = p]
          PROVE  semQueue' \in [Sem!SemIndex -> [Sem!QueueSpot -> Procs \cup {NoPid}]]
      <4>1. p \in Procs \cup {NoPid}
        OBVIOUS
      <4>2. [semQueue EXCEPT ![0][i] = p] \in [Sem!SemIndex -> [Sem!QueueSpot -> Procs \cup {NoPid}]]
        BY <3>1, <4>1, Indices, EntryWritten
      <4> QED BY <3>2, <4>2
    <3> QED BY <1>3, <3>1, <3>2
  <2>2. /\ state' \in [Procs -> {"READY", "BLOCKED"}]
        /\ pc' \in [Procs -> {"user", "lock", "wait"}]
        /\ want' \in [Procs -> MutexIndex]
    BY <1>1, <1>2, Indices DEF Kernel, KernelTypes
  <2> QED BY <1>1, <2>1, <2>2 DEF Kernel, KernelTypes, mutexp
<1>5. \A i \in QueueSpot : queue[mutexp][i] # p /\ semQueue[0][i] # p
  BY <1>1, Indices DEF Kernel, LockQueue, WaitQueue
<1>6. \A q \in Procs \ {p} : pc'[q] = pc[q] /\ state'[q] = state[q] /\ want'[q] = want[q]
  BY <1>1, <1>2 DEF Kernel, KernelTypes
<1>7. pc'[p] = "wait" /\ state'[p] = "BLOCKED"
  BY <1>1, <1>2 DEF Kernel, KernelTypes
<1>8. \A i \in QueueSpot : /\ queue[mutexp][i] \in Procs \cup {NoPid}
                           /\ semQueue[0][i] \in Procs \cup {NoPid}
  BY Indices DEF Kernel, KernelTypes
<1>9. LockQueue'
  BY <1>1, <1>5, <1>6, <1>8 DEF Kernel, LockQueue, mutexp
<1>10. WaitQueue'
  <2>1. CASE semQueue' = semQueue
    BY <2>1, <1>5, <1>6, <1>8, Indices DEF Kernel, WaitQueue
  <2>2. CASE \E i \in Sem!QueueSpot : semQueue' = [semQueue EXCEPT ![0][i] = p]
    <3>1. PICK i \in QueueSpot : semQueue' = [semQueue EXCEPT ![0][i] = p]
      BY <2>2, Indices
    <3>2. semQueue'[0][i] = p /\ \A j \in QueueSpot \ {i} : semQueue'[0][j] = semQueue[0][j]
      BY <3>1, Indices DEF Kernel, KernelTypes
    <3> QED BY <3>2, <1>5, <1>6, <1>7, <1>8, Indices DEF Kernel, WaitQueue
  <2> QED BY <1>3, <2>1, <2>2
<1>11. \A q \in Procs : Owns(q, mutexp)' => Owns(q, mutexp)
  BY <1>1, <1>6, <1>7 DEF Owns, mutexp
<1>12. OneOwner'
  <2>1. \A q \in Procs : pc'[q] = "lock" => want'[q] = mutexp /\ mutexp \notin held'[q]
    BY <1>1, <1>6, <1>7 DEF Kernel, OneOwner
  <2> QED BY <2>1, <1>1, <1>11 DEF Kernel, OneOwner, mutexp
<1> QED BY <1>1, <1>4, <1>6, <1>7, <1>9, <1>10, <1>12 DEF Kernel, OthersStay

\* wait returns from its yield.
LEMMA WaitReturnStep ==
    ASSUME Kernel, NEW p \in Procs, CallSem(Sem!WaitReturn(p))
    PROVE  /\ Kernel'
           /\ OthersStay(p)
           /\ pc[p] = "wait" /\ pc'[p] = "user" /\ held' = held
<1>1. /\ pc[p] = "wait" /\ state[p] = "READY"
      /\ pc' = [pc EXCEPT ![p] = "user"]
      /\ want' = [want EXCEPT ![p] = 0]
      /\ UNCHANGED <<mutex, queue, semQueue, state, held>>
  BY DEF CallSem, Sem!WaitReturn
<1>2. KernelTypes'
  BY <1>1, Indices DEF Kernel, KernelTypes, mutexp
<1>3. /\ pc'[p] = "user"
      /\ \A q \in Procs \ {p} : pc'[q] = pc[q] /\ want'[q] = want[q]
  BY <1>1 DEF Kernel, KernelTypes
<1>4. \A i \in QueueSpot : queue[mutexp][i] # p /\ semQueue[0][i] # p
  BY <1>1, Indices DEF Kernel, LockQueue, WaitQueue
<1>5. \A i \in QueueSpot : /\ queue[mutexp][i] \in Procs \cup {NoPid}
                           /\ semQueue[0][i] \in Procs \cup {NoPid}
  BY Indices DEF Kernel, KernelTypes
<1>6. LockQueue' /\ WaitQueue'
  BY <1>1, <1>3, <1>4, <1>5, Indices DEF Kernel, LockQueue, WaitQueue, mutexp
<1>7. \A q \in Procs : Owns(q, mutexp)' => Owns(q, mutexp)
  BY <1>1, <1>3 DEF Owns, mutexp
<1>8. OneOwner'
  <2>1. \A q \in Procs : pc'[q] = "lock" => want'[q] = mutexp /\ mutexp \notin held'[q]
    BY <1>1, <1>3 DEF Kernel, OneOwner
  <2> QED BY <2>1, <1>1, <1>7 DEF Kernel, OneOwner, mutexp
<1> QED BY <1>1, <1>2, <1>3, <1>6, <1>8 DEF Kernel, OthersStay

\* A signal may wake a process, but one that is in wait.
LEMMA SignalStep ==
    ASSUME Kernel, NEW p \in Procs, CallSem(Sem!Signal(p, 0))
    PROVE  Kernel' /\ pc' = pc /\ held' = held
<1>1. UNCHANGED <<mutex, queue, held, pc, want>>
  BY DEF CallSem, Sem!Signal
<1>2. \/ UNCHANGED <<semQueue, state>>
      \/ \E i \in Sem!QueueSpot :
            /\ semQueue[0][i] # NoPid
            /\ state' = Sem!StateChanged(semQueue[0][i], "READY")
            /\ semQueue' = [semQueue EXCEPT ![0][i] = NoPid]
  BY DEF CallSem, Sem!Signal, Sem!First, Sem!Waiting, Sem!EmptySpots
<1>3. CASE UNCHANGED <<semQueue, state>>
  BY <1>1, <1>3
     DEF Kernel, KernelTypes, LockQueue, WaitQueue, OneOwner, Owns, mutexp
<1>4. CASE \E i \in Sem!QueueSpot :
              /\ semQueue[0][i] # NoPid
              /\ state' = Sem!StateChanged(semQueue[0][i], "READY")
              /\ semQueue' = [semQueue EXCEPT ![0][i] = NoPid]
  <2>1. PICK i \in QueueSpot :
              /\ semQueue[0][i] # NoPid
              /\ state' = Sem!StateChanged(semQueue[0][i], "READY")
              /\ semQueue' = [semQueue EXCEPT ![0][i] = NoPid]
    BY <1>4, Indices
  <2> DEFINE h == semQueue[0][i]
  <2>2. h \in Procs /\ pc[h] = "wait" /\ state[h] = "BLOCKED"
    BY <2>1, Indices DEF Kernel, KernelTypes, WaitQueue
  <2>3. \/ state' = state
        \/ state' = [state EXCEPT ![h] = "READY"]
    BY <2>1, <2>2 DEF Sem!StateChanged
  <2> HIDE DEF h
  <2>4. /\ state' \in [Procs -> {"READY", "BLOCKED"}]
        /\ \A q \in Procs \ {h} : state'[q] = state[q]
    BY <2>2, <2>3 DEF Kernel, KernelTypes
  <2>5. semQueue' \in [Sem!SemIndex -> [Sem!QueueSpot -> Procs \cup {NoPid}]]
    BY <2>1, Indices DEF Kernel, KernelTypes
  <2>6. /\ semQueue'[0][i] = NoPid
        /\ \A j \in QueueSpot \ {i} : semQueue'[0][j] = semQueue[0][j]
    BY <2>1, Indices DEF Kernel, KernelTypes
  <2>7. \A j \in QueueSpot \ {i} :
           semQueue[0][j] # h /\ semQueue[0][j] \in Procs \cup {NoPid}
    BY <2>1, Indices DEF Kernel, KernelTypes, WaitQueue, h
  <2>8. \A j \in QueueSpot :
           queue[mutexp][j] # h /\ queue[mutexp][j] \in Procs \cup {NoPid}
    BY <2>2, Indices DEF Kernel, KernelTypes, LockQueue
  <2>9. KernelTypes'
    BY <1>1, <2>4, <2>5 DEF Kernel, KernelTypes, mutexp
  <2>10. LockQueue'
    BY <1>1, <2>4, <2>8 DEF Kernel, LockQueue, mutexp
  <2>11. WaitQueue'
    BY <1>1, <2>4, <2>6, <2>7, Indices DEF Kernel, WaitQueue
  <2>12. \A q \in Procs : Owns(q, mutexp)' => Owns(q, mutexp)
    BY <1>1, <2>2, <2>4 DEF Owns, mutexp
  <2>13. OneOwner'
    BY <1>1, <2>12 DEF Kernel, OneOwner, mutexp
  <2> QED BY <1>1, <2>9, <2>10, <2>11, <2>13 DEF Kernel
<1> QED BY <1>1, <1>2, <1>3, <1>4

-----------------------------------------------------------------------------
(***************************************************************************)
(* The steps of a philosopher.                                             *)
(***************************************************************************)

\* A philosopher that runs in its program between lockMutex and freeMutex owns
\* the mutex, so nobody else is about to write what testP has seen.
LEMMA Alone ==
    ASSUME Kernel, Places, NEW p \in Procs,
           at[p] \in Critical, pc[p] = "user",
           NEW q \in Procs, at[q] = "eat"
    PROVE  q = p
<1>1. mutexp \in held[p]
  BY DEF Places
<1>2. mutexp \in held[q]
  BY DEF Places, Critical
<1> QED BY <1>1, <1>2 DEF Kernel, OneOwner, Owns

\* A step of p in the kernel, or to another line, keeps the places.
LEMMA PlacesKept ==
    ASSUME Places, ProgramTypes, NEW p \in Procs, OthersStay(p),
           NEW l \in Labels, at' = [at EXCEPT ![p] = l],
           l \in Critical => mutexp \in held'[p] \/ pc'[p] = "lock",
           l \notin Critical => mutexp \notin held'[p] /\ pc'[p] # "lock",
           pc'[p] = "lock" => l \in {"hungry", "think"},
           pc'[p] = "wait" => l = "put"
    PROVE  Places'
<1>1. at'[p] = l /\ \A q \in Procs \ {p} : at'[q] = at[q]
  BY DEF ProgramTypes
<1>2. \A q \in Procs \ {p} : pc'[q] = pc[q] /\ held'[q] = held[q]
  BY DEF OthersStay
<1> QED BY <1>1, <1>2 DEF Places, mutexp

\* Steps that write neither state[] nor a check keep what testP has seen, and
\* the neighbours, as long as they begin no round.
LEMMA TableKept ==
    ASSUME ProgramTypes, CheckHolds, NeighboursDontEat, NEW p \in Procs,
           NEW from \in Labels, NEW l \in Labels, Goto(p, from, l), l # "eat",
           l \notin {"new", "take", "hungry"} => from \notin {"new", "take", "hungry"},
           philState' = philState,
           \A q \in Procs \ {p} : number'[q] = number[q]
    PROVE  CheckHolds' /\ NeighboursDontEat'
<1>1. at[p] = from /\ at'[p] = l /\ \A q \in Procs \ {p} : at'[q] = at[q]
  BY DEF ProgramTypes, Goto
<1>2. CheckHolds'
  BY <1>1 DEF CheckHolds, CanEat
<1>3. \A q \in Procs : Begun(q)' => Begun(q)
  BY <1>1 DEF Begun
<1> QED BY <1>2, <1>3, Neighbours DEF NeighboursDontEat

\* A step that leaves the kernel as it is.
LEMMA KernelKept ==
    ASSUME Kernel, UNCHANGED <<vars, semVars>>
    PROVE  Kernel' /\ pc' = pc /\ held' = held
BY DEF Kernel, KernelTypes, LockQueue, WaitQueue, OneOwner, Owns, mutexp, vars,
       semVars

\* lockMutex and freeMutex of take_fork and put_fork.
LEMMA LockingSteps ==
    ASSUME Inv, NEW p \in Procs,
           TakeLock(p) \/ PutLock(p) \/ TakeFree(p) \/ PutFree(p)
    PROVE  Inv'
<1> USE DEF Inv
<1>1. ASSUME NEW from \in {"take", "put"}, NEW l \in {"hungry", "think"},
             from = "take" => l = "hungry",
             Goto(p, from, l), Lock(p), number' = number
      PROVE  Inv'
  <2>1. /\ Kernel' /\ OthersStay(p)
        /\ \/ pc'[p] = "user" /\ mutexp \in held'[p]
           \/ pc'[p] = "lock"
    <3>1. CallMutex(LockAcquire(p, mutexp)) \/ CallMutex(LockBlock(p, mutexp))
      BY <1>1 DEF Lock, CallMutex
    <3> QED BY <3>1, AcquireStep, BlockStep
  <2>2. philState' = philState
    BY <1>1 DEF Lock, CallMutex
  <2>3. from \in Labels /\ l \in Labels /\ l \in Critical /\ l # "eat"
    BY DEF Labels, Critical
  <2>4. ProgramTypes'
    BY <1>1, <2>2, <2>3 DEF ProgramTypes, Goto
  <2>5. Places'
    BY <1>1, <2>1, <2>3, PlacesKept DEF Goto
  <2>6. CheckHolds' /\ NeighboursDontEat'
    <3>1. l \notin {"new", "take", "hungry"} => from \notin {"new", "take", "hungry"}
      BY <1>1
    <3> QED BY <1>1, <2>2, <2>3, <3>1, TableKept
  <2> QED BY <2>1, <2>4, <2>5, <2>6
<1>2. ASSUME NEW from \in {"freeTake", "freePut"}, NEW l \in {"put", "wait", "take"},
             Goto(p, from, l), Unlock(p), number' = number
      PROVE  Inv'
  <2>1. Kernel' /\ OthersStay(p) /\ pc'[p] = "user" /\ mutexp \notin held'[p]
    BY <1>2, UnlockStep
  <2>2. philState' = philState
    BY <1>2 DEF Unlock, CallMutex
  <2>3. from \in Labels /\ l \in Labels /\ l \notin Critical /\ l # "eat"
    BY DEF Labels, Critical
  <2>4. ProgramTypes'
    BY <1>2, <2>2, <2>3 DEF ProgramTypes, Goto
  <2>5. Places'
    BY <1>2, <2>1, <2>3, PlacesKept DEF Goto
  <2>6. CheckHolds' /\ NeighboursDontEat'
    BY <1>2, <2>2, <2>3, TableKept
  <2> QED BY <2>1, <2>4, <2>5, <2>6
<1>3. CASE TakeLock(p)
  BY <1>1, <1>3 DEF TakeLock
<1>4. CASE PutLock(p)
  BY <1>1, <1>4 DEF PutLock
<1>5. CASE TakeFree(p)
  BY <1>2, <1>5 DEF TakeFree
<1>6. CASE PutFree(p)
  BY <1>2, <1>6 DEF PutFree
<1> QED BY <1>3, <1>4, <1>5, <1>6

\* The owner of the mutex writes state[k]: what it writes itself for a start, or
\* EATING after the check.
LEMMA WriteStep ==
    ASSUME Inv, NEW p \in Procs, NEW k \in Procs, NEW s \in Meals, Write(p, k, s),
           NEW from \in Critical, NEW l \in Critical, l \notin {"hungry", "eat"},
           Goto(p, from, l), number' \in [Procs -> Procs],
           from = "hungry" => k = p,
           s = "EATING" => CanEat(k) /\ from # "hungry"
    PROVE  Inv'
<1> USE DEF Inv
<1>1. /\ pc[p] = "user" /\ UNCHANGED <<vars, semVars>>
      /\ philState' = [philState EXCEPT ![k] = s]
  BY DEF Write, InProgram
<1>2. Kernel' /\ pc' = pc /\ held' = held
  BY <1>1, KernelKept
<1>3. at[p] = from /\ at' = [at EXCEPT ![p] = l]
  BY DEF Goto
<1>4. at[p] \in Critical /\ mutexp \in held[p] /\ l \in Labels
  BY <1>1, <1>3 DEF Places, Critical, Labels
<1>5. ProgramTypes'
  BY <1>1, <1>3, <1>4 DEF ProgramTypes
<1>6. Places'
  <2>1. OthersStay(p)
    BY <1>2 DEF OthersStay
  <2> QED BY <1>1, <1>2, <1>3, <1>4, <2>1, PlacesKept
<1>7. at'[p] = l /\ \A q \in Procs \ {p} : at'[q] = at[q]
  BY <1>3 DEF ProgramTypes
<1>8. CheckHolds'
  <2>1. \A q \in Procs : at[q] = "eat" => q = p
    BY <1>1, <1>4, Alone
  <2>2. \A q \in Procs : at'[q] # "eat"
    BY <1>7, <2>1
  <2> QED BY <2>2 DEF CheckHolds
<1>9. \A q \in Procs \ {k} : philState'[q] = philState[q] /\ (Begun(q)' => Begun(q))
  <2>1. \A q \in Procs \ {k} : philState'[q] = philState[q]
    BY <1>1 DEF ProgramTypes
  <2>2. ASSUME NEW q \in Procs \ {k}, Begun(q)'
        PROVE  Begun(q)
    BY <1>3, <1>7, <2>2 DEF Begun, Critical
  <2> QED BY <2>1, <2>2
<1>10. philState'[k] = s
  BY <1>1 DEF ProgramTypes
<1>11. NeighboursDontEat'
  <2> SUFFICES ASSUME NEW q \in Procs,
                      philState'[q] = "EATING", philState'[Right(q)] = "EATING"
               PROVE  ~Begun(q)' \/ ~Begun(Right(q))'
    BY Zenon DEF NeighboursDontEat, Begun, Right
  <2>1. /\ Right(q) \in Procs /\ Right(q) # q /\ Left(Right(q)) = q
        /\ Right(k) \in Procs /\ Left(k) \in Procs
    BY Neighbours
  <2>2. CASE q = k
    <3>1. philState[Right(k)] # "EATING"
      BY <1>10, <2>2 DEF CanEat
    <3> QED BY <1>9, <2>1, <2>2, <3>1
  <2>3. CASE Right(q) = k
    <3>1. philState[Left(k)] # "EATING" /\ Left(k) = q
      BY <1>10, <2>1, <2>3 DEF CanEat
    <3> QED BY <1>9, <2>1, <2>3, <3>1
  <2>4. CASE q # k /\ Right(q) # k
    <3>1. philState[q] = "EATING" /\ philState[Right(q)] = "EATING"
      BY <1>9, <2>1, <2>4
    <3>2. ~Begun(q) \/ ~Begun(Right(q))
      BY <3>1 DEF NeighboursDontEat
    <3> QED BY <1>9, <2>1, <2>4, <3>2
  <2> QED BY <2>2, <2>3, <2>4
<1> QED BY <1>2, <1>5, <1>6, <1>8, <1>11

\* The writes: of take_fork, of put_fork and of testP.
LEMMA WritingSteps ==
    ASSUME Inv, NEW p \in Procs, Hungry(p) \/ Think(p) \/ Eat(p)
    PROVE  Inv'
<1> USE DEF Inv
<1>1. number \in [Procs -> Procs] /\ Left(p) \in Procs /\ Right(p) \in Procs
  BY Neighbours DEF ProgramTypes
<1>2. CASE Hungry(p)
  <2>1. number' \in [Procs -> Procs]
    BY <1>1, <1>2 DEF Hungry
  <2>2. Goto(p, "hungry", "test") /\ Write(p, p, "HUNGRY")
    BY <1>2 DEF Hungry
  <2>3. "HUNGRY" \in Meals /\ "hungry" \in Critical /\ "test" \in Critical
    BY DEF Meals, Critical
  <2> QED BY <2>1, <2>2, <2>3, WriteStep
<1>3. CASE Think(p)
  <2>1. number' \in [Procs -> Procs]
    BY <1>1, <1>3 DEF Think
  <2>2. Goto(p, "think", "test") /\ Write(p, p, "THINKING")
    BY <1>3 DEF Think
  <2>3. "THINKING" \in Meals /\ "think" \in Critical /\ "test" \in Critical
    BY DEF Meals, Critical
  <2> QED BY <2>1, <2>2, <2>3, WriteStep
<1>4. CASE Eat(p)
  <2>1. /\ number' \in [Procs -> Procs]
        /\ \E l \in Critical \ {"hungry", "eat"} : Goto(p, "eat", l)
        /\ Write(p, number[p], "EATING")
    BY <1>1, <1>4 DEF Eat, LeaveTest, AfterTest, NextNumber, Critical
  <2>2. CanEat(number[p])
    BY <2>1 DEF CheckHolds, Goto
  <2>3. "EATING" \in Meals /\ "eat" \in Critical /\ number[p] \in Procs
    BY <1>1 DEF Meals, Critical
  <2> QED BY <2>1, <2>2, <2>3, WriteStep
<1> QED BY <1>2, <1>3, <1>4

\* The check of testP.
LEMMA TestStep ==
    ASSUME Inv, NEW p \in Procs, TestYes(p) \/ TestNo(p)
    PROVE  Inv'
<1> USE DEF Inv
<1>1. /\ pc[p] = "user" /\ UNCHANGED <<vars, semVars>> /\ philState' = philState
      /\ at[p] = "test"
  BY DEF TestYes, TestNo, LeaveTest, Goto, LocalStep, InProgram
<1>2. Kernel' /\ pc' = pc /\ held' = held
  BY <1>1, KernelKept
<1>3. number \in [Procs -> Procs] /\ Left(p) \in Procs /\ Right(p) \in Procs
  BY Neighbours DEF ProgramTypes
<1>4. mutexp \in held[p] /\ OthersStay(p)
  BY <1>1, <1>2 DEF Places, Critical, OthersStay
<1>5. CASE TestYes(p)
  <2>1. at' = [at EXCEPT ![p] = "eat"] /\ CanEat(number[p]) /\ number' = number
    BY <1>5 DEF TestYes, Goto
  <2>2. "eat" \in Labels /\ "eat" \in Critical
    BY DEF Labels, Critical
  <2>3. ProgramTypes'
    BY <1>1, <2>1, <2>2 DEF ProgramTypes
  <2>4. Places'
    BY <1>1, <1>2, <1>4, <2>1, <2>2, PlacesKept
  <2>5. at'[p] = "eat" /\ \A q \in Procs \ {p} : at'[q] = at[q]
    BY <2>1 DEF ProgramTypes
  <2>6. CheckHolds'
    BY <1>1, <2>1, <2>5 DEF CheckHolds, CanEat
  <2>7. \A q \in Procs : Begun(q)' => Begun(q)
    BY <1>1, <2>5 DEF Begun
  <2>8. NeighboursDontEat'
    BY <1>1, <2>7, Neighbours DEF NeighboursDontEat
  <2> QED BY <1>2, <2>3, <2>4, <2>6, <2>8
<1>6. CASE TestNo(p)
  <2>1. PICK l \in {"freeTake", "test", "freePut"} : Goto(p, "test", l)
    BY <1>6 DEF TestNo, LeaveTest, AfterTest
  <2>2. "test" \in Labels /\ l \in Labels /\ l \in Critical /\ l # "eat"
    BY DEF Labels, Critical
  <2>3. number' \in [Procs -> Procs] /\ \A q \in Procs \ {p} : number'[q] = number[q]
    BY <1>3, <1>6 DEF TestNo, LeaveTest, NextNumber
  <2>4. ProgramTypes'
    BY <1>1, <2>1, <2>2, <2>3 DEF ProgramTypes, Goto
  <2>5. Places'
    BY <1>1, <1>2, <1>4, <2>1, <2>2, PlacesKept DEF Goto
  <2>6. CheckHolds' /\ NeighboursDontEat'
    BY <1>1, <2>1, <2>2, <2>3, TableKept
  <2> QED BY <1>2, <2>4, <2>5, <2>6
<1> QED BY <1>5, <1>6

\* signal of testP and wait of take_fork.
LEMMA SemaphoreSteps ==
    ASSUME Inv, NEW p \in Procs, SignalTested(p) \/ Wait(p)
    PROVE  Inv'
<1> USE DEF Inv
<1>1. number \in [Procs -> Procs] /\ Left(p) \in Procs /\ Right(p) \in Procs
  BY Neighbours DEF ProgramTypes
<1>2. CASE SignalTested(p)
  <2>1. CallSem(Sem!Signal(p, 0))
    BY <1>2 DEF SignalTested, SignalOf, SemOf
  <2>2. Kernel' /\ pc' = pc /\ held' = held
    BY <2>1, SignalStep
  <2>3. pc[p] = "user" /\ philState' = philState
    BY <2>1 DEF CallSem, Sem!Signal, Sem!Calls, Sem!InProgram
  <2>4. PICK l \in {"freeTake", "test", "freePut"} : Goto(p, "signal", l)
    BY <1>2 DEF SignalTested, LeaveTest, AfterTest
  <2>5. "signal" \in Labels /\ l \in Labels /\ l \in Critical /\ l # "eat"
    BY DEF Labels, Critical
  <2>6. number' \in [Procs -> Procs] /\ \A q \in Procs \ {p} : number'[q] = number[q]
    BY <1>1, <1>2 DEF SignalTested, LeaveTest, NextNumber
  <2>7. ProgramTypes'
    BY <2>3, <2>4, <2>5, <2>6 DEF ProgramTypes, Goto
  <2>8. mutexp \in held[p] /\ OthersStay(p)
    BY <2>2, <2>3, <2>4 DEF Places, Critical, OthersStay, Goto
  <2>9. Places'
    BY <2>2, <2>3, <2>4, <2>5, <2>8, PlacesKept DEF Goto
  <2>10. CheckHolds' /\ NeighboursDontEat'
    BY <2>3, <2>4, <2>5, <2>6, TableKept
  <2> QED BY <2>2, <2>7, <2>9, <2>10
<1>3. CASE Wait(p)
  <2>1. CallSem(Sem!WaitPass(p, 0)) \/ CallSem(Sem!WaitBlock(p, 0))
    BY <1>3 DEF Wait, WaitOwn, SemOf, CallSem
  <2>2. Goto(p, "wait", "put") /\ number' = number
    BY <1>3 DEF Wait
  <2>3. pc[p] = "user" /\ philState' = philState
    BY <2>1 DEF CallSem, Sem!WaitPass, Sem!WaitBlock, Sem!Calls, Sem!InProgram
  <2>4. Kernel' /\ OthersStay(p) /\ pc'[p] # "lock" /\ held' = held
    BY <2>1, <2>3, PassStep, WaitStep DEF OthersStay
  <2>5. /\ "wait" \in Labels /\ "put" \in Labels
        /\ "put" \notin Critical /\ "wait" \notin Critical
    BY DEF Labels, Critical
  <2>6. ProgramTypes'
    BY <2>2, <2>3, <2>5 DEF ProgramTypes, Goto
  <2>7. mutexp \notin held[p]
    BY <2>2, <2>5 DEF Places, Goto
  <2>8. Places'
    BY <2>2, <2>4, <2>5, <2>7, PlacesKept DEF Goto
  <2>9. CheckHolds' /\ NeighboursDontEat'
    BY <2>2, <2>3, <2>5, TableKept
  <2> QED BY <2>4, <2>6, <2>8, <2>9
<1> QED BY <1>2, <1>3

\* The return from a yield, of lockMutex or of wait.
LEMMA ReturnStep ==
    ASSUME Inv, NEW p \in Procs, Return(p)
    PROVE  Inv'
<1> USE DEF Inv
<1>1. /\ CallMutex(LockReturn(p)) \/ CallSem(Sem!WaitReturn(p))
      /\ UNCHANGED <<at, number, philState>>
  BY DEF Return, CallMutex, CallSem
<1>2. ProgramTypes' /\ CheckHolds' /\ NeighboursDontEat'
  BY <1>1 DEF ProgramTypes, CheckHolds, CanEat, NeighboursDontEat, Begun
<1>3. /\ Kernel' /\ OthersStay(p) /\ pc'[p] = "user"
      /\ \/ pc[p] = "lock" /\ mutexp \in held'[p]
         \/ pc[p] = "wait" /\ held' = held
  BY <1>1, LockReturnStep, WaitReturnStep
<1>4. pc[p] = "lock" => at[p] \in Critical
  BY DEF Places, Critical
<1>5. pc[p] = "wait" => at[p] \notin Critical
  BY DEF Places, Critical
<1>6. Places'
  BY <1>1, <1>3, <1>4, <1>5 DEF Places, OthersStay, mutexp
<1> QED BY <1>2, <1>3, <1>6

\* createThreads starts a philosopher.
LEMMA CreateStep ==
    ASSUME Inv, NEW p \in Procs, createThreads(p)
    PROVE  Inv'
<1> USE DEF Inv
<1>1. /\ Goto(p, "new", "take")
      /\ UNCHANGED <<queue, mutex, state, pc, want, held, semQueue, philState, number>>
  BY DEF createThreads, semVars
<1>2. Kernel'
  BY <1>1 DEF Kernel, KernelTypes, LockQueue, WaitQueue, OneOwner, Owns, mutexp
<1>3. /\ "new" \in Labels /\ "take" \in Labels
      /\ "new" \notin Critical /\ "take" \notin Critical
  BY DEF Labels, Critical
<1>4. ProgramTypes'
  BY <1>1, <1>3 DEF ProgramTypes, Goto
<1>5. mutexp \notin held[p] /\ pc[p] \notin {"lock", "wait"} /\ OthersStay(p)
  BY <1>1, <1>3 DEF Places, Goto, OthersStay
<1>6. Places'
  BY <1>1, <1>3, <1>5, PlacesKept DEF Goto
<1>7. CheckHolds' /\ NeighboursDontEat'
  BY <1>1, <1>3, TableKept
<1> QED BY <1>2, <1>4, <1>6, <1>7

-----------------------------------------------------------------------------
\* dPhilosphers begins with the invariant, whatever state[] holds.
LEMMA InitInv ==
    PhilInit => Inv
<1> SUFFICES ASSUME PhilInit PROVE Inv
  OBVIOUS
<1>1. /\ queue = [m \in MutexIndex |-> [i \in QueueSpot |-> NoPid]]
      /\ mutex = [m \in MutexIndex |-> 0]
      /\ semQueue = [s \in Sem!SemIndex |-> [i \in Sem!QueueSpot |-> NoPid]]
      /\ state = [p \in Procs |-> "READY"]
      /\ pc = [p \in Procs |-> "user"]
      /\ want = [p \in Procs |-> mutexp]
      /\ held = [p \in Procs |-> {}]
  BY DEF PhilInit, CleanTable, Sem!CleanQueues
<1>2. KernelTypes
  BY <1>1, Indices DEF KernelTypes
<1>3. LockQueue /\ WaitQueue
  BY <1>1, Indices DEF LockQueue, WaitQueue
<1>4. OneOwner
  BY <1>1 DEF OneOwner, Owns
<1>5. ProgramTypes
  BY PhilosophersAssumption DEF PhilInit, ProgramTypes, Labels
<1>6. \A p \in Procs : at[p] = "new"
  BY DEF PhilInit
<1>7. Places /\ CheckHolds
  BY <1>1, <1>6 DEF Places, CheckHolds, Critical
<1>8. NeighboursDontEat
  BY <1>6 DEF NeighboursDontEat, Begun
<1> QED BY <1>2, <1>3, <1>4, <1>5, <1>7, <1>8 DEF Inv, Kernel

\* Every step keeps the invariant.
LEMMA NextInv ==
    Inv /\ [PhilNext]_allVars => Inv'
<1> SUFFICES ASSUME Inv, [PhilNext]_allVars PROVE Inv'
  OBVIOUS
<1>1. CASE UNCHANGED allVars
  <2>1. UNCHANGED <<vars, semVars, philState, at, number>>
    BY <1>1 DEF allVars
  <2>2. Kernel' /\ pc' = pc /\ held' = held
    BY <2>1, KernelKept DEF Inv
  <2>3. ProgramTypes' /\ CheckHolds' /\ NeighboursDontEat' /\ Places'
    BY <2>1, <2>2 DEF Inv, ProgramTypes, CheckHolds, CanEat, NeighboursDontEat,
                      Begun, Places, mutexp
  <2> QED BY <2>2, <2>3 DEF Inv
<1>2. CASE PhilNext
  <2>1. PICK p \in Procs : philospher(p) \/ createThreads(p)
    BY <1>2 DEF PhilNext
  <2>2. CASE take_fork(p)
    BY <2>2, LockingSteps, WritingSteps, SemaphoreSteps DEF take_fork
  <2>3. CASE testP(p)
    BY <2>3, TestStep, WritingSteps, SemaphoreSteps DEF testP
  <2>4. CASE put_fork(p)
    BY <2>4, LockingSteps, WritingSteps DEF put_fork
  <2> QED BY <2>1, <2>2, <2>3, <2>4, ReturnStep, CreateStep DEF philospher
<1> QED BY <1>1, <1>2

\* The mutex and the check of testP do what they are for: no two neighbours eat
\* at the same time, although testP writes the state of philosophers other than
\* its caller, preempted between the check and the write, and although a woken
\* process runs long after the mutex was handed to it.  It holds for every size
\* of the queues and of the tables and for every content of state[] at the start.
THEOREM NeighboursNeverEat ==
    PhilSpec => []NeighboursDontEat
<1>1. Inv => NeighboursDontEat
  BY DEF Inv
<1> QED BY InitInv, NextInv, <1>1, PTL DEF PhilSpec

\* Only one philosopher at a time is between its lockMutex and its freeMutex and
\* runs there: what testP has seen when it decided that somebody may eat still
\* holds when it writes EATING.
THEOREM TestStillHolds ==
    PhilSpec => []CheckHolds
<1>1. Inv => CheckHolds
  BY DEF Inv
<1> QED BY InitInv, NextInv, <1>1, PTL DEF PhilSpec


-----------------------------------------------------------------------------
(***************************************************************************)
(* The signals.  Philosophers 1 and 3 share semaphore "0", so the signal   *)
(* for the meal of one may wake the other, who then puts its forks down    *)
(* without having eaten.  The argument is an account: the value of the     *)
(* semaphore is what was signalled for meals that go on, less the waits of *)
(* the rounds they belong to, and at most one more of these is gone.  It   *)
(* needs that value, count and queue of the semaphore agree (Queued), and  *)
(* that the garbage of state[] makes testP signal once for each at most    *)
(* (Extra).                                                                *)
(***************************************************************************)

\* Those who have a semaphore.
Sharing == {1, 3}

One(b) == IF b THEN 1 ELSE 0

\* testP has made k eat and has not signalled yet.
Pending(k) == \E r \in Procs : at[r] = "signal" /\ number[r] = k

\* The signal for the meal of this round was given; the wait of this round is done.
Ate(k) == Begun(k) /\ philState[k] = "EATING" /\ ~Pending(k)
Waited(k) == at[k] \in {"put", "think"}

Due(k) == One(Ate(k)) - One(Waited(k))

\* The signal that k causes when state[k] is HUNGRY before k writes it: no more
\* once it was given or k has begun.
Extra(k) == One("HUNGRY" \in Garbage
                /\ (Begun(k) \/ (philState[k] # "HUNGRY" /\ ~Pending(k))))

Sleeps(k) == pc[k] = "wait" /\ state[k] = "BLOCKED"

SemTypes ==
    /\ semaphore \in [Sem!SemIndex -> Int]
    /\ semBlocked \in [Sem!SemIndex -> Int]
    /\ life \in [Procs -> {"unborn", "alive", "dead"}]

\* Where a philosopher is, and what state[] says there.
Round(p) ==
    /\ at[p] # "new" => life[p] = "alive"
    /\ pc[p] = "wait" => p \in Sharing
    /\ at[p] \notin {"test", "eat", "signal"} => number[p] = p
    /\ at[p] = "freePut" \/ number[p] # p => philState[p] = "THINKING"
    /\ at[p] = "signal" => philState[number[p]] = "EATING"
    /\ "HUNGRY" \notin Garbage /\ ~Begun(p) => philState[p] # "HUNGRY" /\ ~Pending(p)

Rounds == \A p \in Procs : Round(p)

\* Value, count and queue of semaphore "0".
Queued ==
    /\ semBlocked[0] = One(Sleeps(1)) + One(Sleeps(3))
    /\ semBlocked[0] = IF semaphore[0] < 0 THEN -semaphore[0] ELSE 0
    /\ \A k \in Procs : Sleeps(k) => \E i \in QueueSpot : semQueue[0][i] = k

Account ==
    /\ semaphore[0] >= Due(1) + Due(3) - 1
    /\ semaphore[0] <= Due(1) + Due(3) + Extra(1) + Extra(3)
    /\ \A s \in Sem!SemIndex \ {0} : semaphore[s] = 0

SignalInv == Inv /\ SemTypes /\ Rounds /\ Queued /\ Account

\* Philosophers 1 and 3 and nobody else have a semaphore, "0".
LEMMA SharingProcs ==
    /\ 1 \in Procs /\ 3 \in Procs
    /\ \A k \in Procs : SemOf(k) = IF k \in Sharing THEN {0} ELSE {}
    /\ \A k \in Procs : Left(k) # k /\ Right(k) # k /\ Left(k) # Right(k)
<1>1. Procs = 0..4 /\ DEFAULTP = 5
  BY PhilosophersAssumption
<1>2. \A k \in 0..4 : k % 2 = 1 <=> k \in {1, 3}
  OBVIOUS
<1> QED BY <1>1, <1>2 DEF SemOf, Sharing, Left, Right

\* What is counted are numbers.
LEMMA Counted ==
    ASSUME NEW k
    PROVE  /\ Due(k) \in -1..1 /\ Extra(k) \in 0..1
           /\ Due(k)' \in -1..1 /\ Extra(k)' \in 0..1
           /\ One(Sleeps(k)) \in 0..1 /\ One(Sleeps(k))' \in 0..1
BY DEF Due, Extra, One

\* A philosopher that runs between lockMutex and freeMutex is the only one that
\* is past its lockMutex there.
LEMMA OnlyOne ==
    ASSUME Kernel, Places, NEW p \in Procs, at[p] \in Critical, pc[p] = "user",
           NEW q \in Procs, at[q] \in Critical \ {"hungry", "think"}
    PROVE  q = p
<1>1. mutexp \in held[p]
  BY DEF Places
<1>2. mutexp \in held[q]
  BY DEF Places, Critical
<1> QED BY <1>1, <1>2 DEF Kernel, OneOwner, Owns

-----------------------------------------------------------------------------
(***************************************************************************)
(* Who sleeps in wait.                                                     *)
(***************************************************************************)

\* Nobody begins or ends to sleep in wait.
SameSleepers ==
    /\ UNCHANGED <<semQueue, semaphore, semBlocked, life>>
    /\ \A k \in Procs : pc'[k] = "wait" => pc[k] = "wait"
    /\ \A k \in Procs : Sleeps(k)' <=> Sleeps(k)

\* Then value, count and queue still agree.
LEMMA QueuedKept ==
    ASSUME Queued, SameSleepers
    PROVE  Queued'
BY SharingProcs DEF Queued, SameSleepers, One

\* The calls of the mutex library leave those who sleep in wait alone.
LEMMA MutexKeepsSleepers ==
    ASSUME Inv, NEW p \in Procs, Lock(p) \/ Unlock(p) \/ CallMutex(LockReturn(p))
    PROVE  SameSleepers
<1>0. Kernel
  BY DEF Inv
<1>1. UNCHANGED <<semQueue, semaphore, semBlocked>>
  BY DEF Lock, Unlock, CallMutex, semVars
<1>2. CASE CallMutex(LockAcquire(p, mutexp))
  <2>1. UNCHANGED <<pc, state, life>>
    BY <1>2 DEF CallMutex, LockAcquire, procVars
  <2> QED BY <1>1, <2>1 DEF SameSleepers, Sleeps
<1>3. CASE CallMutex(LockBlock(p, mutexp))
  <2>1. /\ pc[p] = "user" /\ pc' = [pc EXCEPT ![p] = "lock"] /\ life' = life
        /\ state' = StateChanged(p, "BLOCKED")
    BY <1>3 DEF CallMutex, LockBlock, InProgram, procVars
  <2>2. \A k \in Procs \ {p} : pc'[k] = pc[k] /\ state'[k] = state[k]
    BY <1>0, <2>1 DEF StateChanged, Kernel, KernelTypes
  <2>3. pc'[p] = "lock"
    BY <1>0, <2>1 DEF Kernel, KernelTypes
  <2> QED BY <1>1, <2>1, <2>2, <2>3 DEF SameSleepers, Sleeps
<1>4. CASE CallMutex(LockReturn(p))
  <2>1. /\ pc[p] = "lock" /\ pc' = [pc EXCEPT ![p] = "user"]
        /\ UNCHANGED <<state, life>>
    BY <1>0, <1>4 DEF CallMutex, LockReturn, procVars, Kernel, KernelTypes
  <2>2. pc'[p] = "user" /\ \A k \in Procs \ {p} : pc'[k] = pc[k]
    BY <1>0, <2>1 DEF Kernel, KernelTypes
  <2> QED BY <1>1, <2>1, <2>2 DEF SameSleepers, Sleeps
<1>5. CASE Unlock(p)
  <2>1. /\ UNCHANGED <<pc, life>>
        /\ \/ state' = state
           \/ \E i \in QueueSpot : /\ queue[mutexp][i] # NoPid
                                   /\ state' = StateChanged(queue[mutexp][i], "READY")
    BY <1>5 DEF Unlock, CallMutex, Free, First, Waiting, EmptySpots, procVars
  <2>2. ASSUME NEW k \in Procs, pc[k] = "wait"
        PROVE  state'[k] = state[k]
    <3>1. CASE state' = state
      BY <3>1
    <3>2. CASE \E i \in QueueSpot : /\ queue[mutexp][i] # NoPid
                                    /\ state' = StateChanged(queue[mutexp][i], "READY")
      <4>1. PICK i \in QueueSpot : /\ queue[mutexp][i] # NoPid
                                   /\ state' = StateChanged(queue[mutexp][i], "READY")
        BY <3>2
      <4>2. queue[mutexp][i] # k
        BY <2>2, <4>1 DEF Inv, Kernel, LockQueue
      <4> QED BY <1>0, <4>1, <4>2 DEF StateChanged, Kernel, KernelTypes
    <3> QED BY <2>1, <3>1, <3>2
  <2> QED BY <1>1, <2>1, <2>2 DEF SameSleepers, Sleeps
<1> QED BY <1>2, <1>3, <1>4, <1>5 DEF Lock, CallMutex

\* A step of the program alone.
LEMMA LocalKeepsSleepers ==
    ASSUME UNCHANGED <<vars, semVars>>
    PROVE  SameSleepers
BY DEF vars, semVars, SameSleepers, Sleeps

\* A wait that passes.
LEMMA PassQueued ==
    ASSUME SignalInv, NEW p \in Procs, CallSem(Sem!WaitPass(p, 0))
    PROVE  /\ SemTypes' /\ Queued' /\ life' = life
           /\ semaphore' = [semaphore EXCEPT ![0] = @ - 1]
           /\ pc' = pc
<1>1. /\ semaphore' = [semaphore EXCEPT ![0] = @ - 1] /\ semaphore[0] - 1 >= 0
      /\ UNCHANGED <<semQueue, semBlocked, life, state, pc>>
  BY DEF CallSem, Sem!WaitPass, Sem!Passable, Sem!procVars
<1>2. SemTypes' /\ semaphore'[0] = semaphore[0] - 1 /\ semaphore[0] \in Int
  BY <1>1, Indices DEF SignalInv, SemTypes
<1>3. \A k : Sleeps(k)' = Sleeps(k)
  BY <1>1 DEF Sleeps
<1>4. semBlocked[0] = 0
  BY <1>1, <1>2 DEF SignalInv, Queued
<1>5. \A k \in Procs : Sleeps(k)' => \E i \in QueueSpot : semQueue'[0][i] = k
  BY <1>1, <1>3 DEF SignalInv, Queued
<1>6. semBlocked'[0] = One(Sleeps(1))' + One(Sleeps(3))'
  BY <1>1, <1>3 DEF SignalInv, Queued, One
<1> QED BY <1>1, <1>2, <1>4, <1>5, <1>6 DEF Queued

\* The queue has a place for who comes to wait: the other one at most is in it.
LEMMA PlaceToWait ==
    ASSUME SignalInv, NEW p \in Sharing, pc[p] = "user"
    PROVE  Sem!EmptySpots(0) # {}
<1>1. 0 \in QueueSpot /\ 1 \in QueueSpot
  BY PhilosophersAssumption, MutexSizesAssumption DEF QueueSpot
<1>2. \A i \in QueueSpot : semQueue[0][i] \in Procs \cup {NoPid}
  BY Indices DEF SignalInv, Inv, Kernel, KernelTypes
<1>3. \A i \in QueueSpot : semQueue[0][i] # NoPid =>
         pc[semQueue[0][i]] = "wait" /\ semQueue[0][i] \in Sharing
  BY <1>2, Indices DEF SignalInv, Inv, Kernel, WaitQueue, Rounds, Round
<1>4. semQueue[0][0] # NoPid /\ semQueue[0][1] # NoPid
         => semQueue[0][0] # semQueue[0][1]
  BY <1>1, Indices DEF SignalInv, Inv, Kernel, WaitQueue
<1>5. semQueue[0][0] = NoPid \/ semQueue[0][1] = NoPid
  BY <1>1, <1>3, <1>4 DEF Sharing
<1> QED BY <1>1, <1>5, Indices DEF Sem!EmptySpots

\* A wait that blocks.
LEMMA BlockQueued ==
    ASSUME SignalInv, NEW p \in Sharing, CallSem(Sem!WaitBlock(p, 0))
    PROVE  /\ SemTypes' /\ Queued' /\ life' = life
           /\ semaphore' = [semaphore EXCEPT ![0] = @ - 1]
           /\ pc' = [pc EXCEPT ![p] = "wait"]
<1>0. p \in Procs
  BY SharingProcs DEF Sharing
<1>1. /\ semaphore' = [semaphore EXCEPT ![0] = @ - 1] /\ ~(semaphore[0] - 1 >= 0)
      /\ pc[p] = "user" /\ life[p] = "alive" /\ life' = life
      /\ pc' = [pc EXCEPT ![p] = "wait"]
      /\ state' = Sem!StateChanged(p, "BLOCKED")
  BY DEF CallSem, Sem!WaitBlock, Sem!Passable, Sem!procVars, Sem!Calls, Sem!InProgram
<1>2. Sem!EmptySpots(0) # {}
  BY <1>1, PlaceToWait
<1>3. PICK i \in QueueSpot : /\ semQueue[0][i] = NoPid
                             /\ semQueue' = [semQueue EXCEPT ![0][i] = p]
  BY <1>2, Indices DEF CallSem, Sem!WaitBlock, Sem!First, Sem!EmptySpots
<1>4. semBlocked' = [semBlocked EXCEPT ![0] = @ + 1]
  BY <1>2 DEF CallSem, Sem!WaitBlock
<1>5. /\ SemTypes' /\ semaphore[0] \in Int /\ semBlocked[0] \in Int
      /\ semaphore'[0] = semaphore[0] - 1 /\ semBlocked'[0] = semBlocked[0] + 1
  BY <1>1, <1>4, Indices DEF SignalInv, SemTypes
<1>6. /\ pc'[p] = "wait" /\ state'[p] = "BLOCKED"
      /\ \A k \in Procs \ {p} : pc'[k] = pc[k] /\ state'[k] = state[k]
  BY <1>0, <1>1 DEF SignalInv, Inv, Kernel, KernelTypes, Sem!StateChanged
<1>7. ~Sleeps(p) /\ Sleeps(p)' /\ \A k \in Procs \ {p} : Sleeps(k)' <=> Sleeps(k)
  BY <1>1, <1>6 DEF Sleeps
<1>8. semQueue'[0][i] = p /\ \A j \in QueueSpot \ {i} : semQueue'[0][j] = semQueue[0][j]
  BY <1>3, Indices DEF SignalInv, Inv, Kernel, KernelTypes
<1>9. ASSUME NEW k \in Procs, Sleeps(k)'
      PROVE  \E j \in QueueSpot : semQueue'[0][j] = k
  <2>1. CASE k = p
    BY <1>8, <2>1
  <2>2. CASE k # p
    <3>1. PICK j \in QueueSpot : semQueue[0][j] = k
      BY <1>7, <1>9, <2>2 DEF SignalInv, Queued
    <3>2. j # i
      BY <1>3, <3>1, Indices
    <3> QED BY <1>8, <3>1, <3>2
  <2> QED BY <2>1, <2>2
<1>10. One(Sleeps(1))' + One(Sleeps(3))' = One(Sleeps(1)) + One(Sleeps(3)) + 1
  BY <1>7, SharingProcs DEF One, Sharing
<1>11. /\ semBlocked'[0] = One(Sleeps(1))' + One(Sleeps(3))'
       /\ semBlocked'[0] = IF semaphore'[0] < 0 THEN -semaphore'[0] ELSE 0
  BY <1>1, <1>5, <1>10 DEF SignalInv, Queued
<1> QED BY <1>1, <1>5, <1>9, <1>11 DEF Queued

\* A signal wakes somebody if anybody sleeps in wait.
LEMMA SignalQueued ==
    ASSUME SignalInv, NEW p \in Procs, CallSem(Sem!Signal(p, 0))
    PROVE  /\ SemTypes' /\ Queued' /\ life' = life
           /\ semaphore' = [semaphore EXCEPT ![0] = @ + 1]
           /\ pc' = pc
<1>1. /\ semaphore' = [semaphore EXCEPT ![0] = @ + 1]
      /\ UNCHANGED <<pc, life>>
  BY DEF CallSem, Sem!Signal, Sem!procVars
<1>2. semaphore[0] \in Int /\ semBlocked[0] \in Int /\ semaphore'[0] = semaphore[0] + 1
  BY <1>1, Indices DEF SignalInv, SemTypes
<1>3. CASE semBlocked[0] > 0
  <2>1. semBlocked' = [semBlocked EXCEPT ![0] = @ - 1]
    BY <1>3 DEF CallSem, Sem!Signal
  <2>2. SemTypes' /\ semBlocked'[0] = semBlocked[0] - 1
    BY <1>1, <2>1, Indices DEF SignalInv, SemTypes
  <2>3. \E k \in Sharing : Sleeps(k)
    BY <1>3 DEF SignalInv, Queued, One, Sharing
  <2>4. \E i \in QueueSpot : semQueue[0][i] \in Procs
    BY <2>3, SharingProcs DEF SignalInv, Queued, Sharing
  <2>5. Sem!Waiting(0) # {}
    BY <2>4, Indices DEF Sem!Waiting, Sem!EmptySpots
  <2>6. PICK i \in QueueSpot :
           /\ semQueue[0][i] # NoPid
           /\ state' = Sem!StateChanged(semQueue[0][i], "READY")
           /\ semQueue' = [semQueue EXCEPT ![0][i] = NoPid]
    BY <1>3, <2>5, Indices
       DEF CallSem, Sem!Signal, Sem!First, Sem!Waiting, Sem!EmptySpots
  <2>7. PICK h \in Procs : h = semQueue[0][i] /\ pc[h] = "wait" /\ state[h] = "BLOCKED"
    BY <2>6, Indices DEF SignalInv, Inv, Kernel, KernelTypes, WaitQueue
  <2>8. h \in Sharing /\ life[h] = "alive"
    BY <2>7 DEF SignalInv, Inv, Places, Rounds, Round
  <2>9. state'[h] = "READY" /\ \A k \in Procs \ {h} : state'[k] = state[k]
    BY <2>6, <2>7, <2>8 DEF SignalInv, Inv, Kernel, KernelTypes, Sem!StateChanged
  <2>10. Sleeps(h) /\ ~Sleeps(h)' /\ \A k \in Procs \ {h} : Sleeps(k)' <=> Sleeps(k)
    BY <1>1, <2>7, <2>9 DEF Sleeps
  <2>11. \A j \in QueueSpot \ {i} : semQueue'[0][j] = semQueue[0][j]
    BY <2>6, Indices DEF SignalInv, Inv, Kernel, KernelTypes
  <2>12. ASSUME NEW k \in Procs, Sleeps(k)'
         PROVE  \E j \in QueueSpot : semQueue'[0][j] = k
    <3>1. k # h /\ Sleeps(k)
      BY <2>10, <2>12
    <3>2. PICK j \in QueueSpot : semQueue[0][j] = k
      BY <3>1 DEF SignalInv, Queued
    <3>3. j # i
      BY <2>7, <3>1, <3>2
    <3> QED BY <2>11, <3>2, <3>3
  <2>13. One(Sleeps(1))' + One(Sleeps(3))' = One(Sleeps(1)) + One(Sleeps(3)) - 1
    BY <2>8, <2>10, SharingProcs DEF One, Sharing
  <2>14. semBlocked'[0] = One(Sleeps(1))' + One(Sleeps(3))'
    BY <2>2, <2>13, Counted DEF SignalInv, Queued
  <2>15. semBlocked'[0] = IF semaphore'[0] < 0 THEN -semaphore'[0] ELSE 0
    <3>1. semBlocked[0] = -semaphore[0] /\ semaphore[0] < 0
      BY <1>2, <1>3 DEF SignalInv, Queued
    <3> QED BY <1>2, <2>2, <3>1
  <2> QED BY <1>1, <2>2, <2>12, <2>14, <2>15 DEF Queued
<1>4. CASE ~(semBlocked[0] > 0)
  <2>1. UNCHANGED <<semQueue, semBlocked, state>>
    BY <1>4 DEF CallSem, Sem!Signal
  <2>2. SemTypes'
    BY <1>1, <2>1, Indices DEF SignalInv, SemTypes
  <2>3. \A k : Sleeps(k)' = Sleeps(k)
    BY <1>1, <2>1 DEF Sleeps
  <2>4. \A k \in Procs : Sleeps(k)' => \E i \in QueueSpot : semQueue'[0][i] = k
    BY <2>1, <2>3 DEF SignalInv, Queued
  <2>5. semBlocked'[0] = One(Sleeps(1))' + One(Sleeps(3))'
    BY <2>1, <2>3 DEF SignalInv, Queued, One
  <2>6. semBlocked'[0] = IF semaphore'[0] < 0 THEN -semaphore'[0] ELSE 0
    BY <1>2, <1>4, <2>1 DEF SignalInv, Queued
  <2> QED BY <1>1, <2>2, <2>4, <2>5, <2>6 DEF Queued
<1> QED BY <1>3, <1>4

\* wait returns from its yield: who returns does not sleep any more.
LEMMA ReturnKeepsSleepers ==
    ASSUME Inv, NEW p \in Procs, CallSem(Sem!WaitReturn(p))
    PROVE  SameSleepers
<1>1. /\ state[p] = "READY" /\ pc' = [pc EXCEPT ![p] = "user"]
      /\ UNCHANGED <<semQueue, semaphore, semBlocked, state, life>>
  BY DEF CallSem, Sem!WaitReturn, Sem!procVars
<1>2. pc'[p] = "user" /\ \A k \in Procs \ {p} : pc'[k] = pc[k]
  BY <1>1 DEF Inv, Kernel, KernelTypes
<1> QED BY <1>1, <1>2 DEF SameSleepers, Sleeps

-----------------------------------------------------------------------------
(***************************************************************************)
(* The rounds and the account, for steps that do not write state[].        *)
(***************************************************************************)

\* Steps to lines other than the signal, which may be left.
LEMMA RoundsKept ==
    ASSUME Inv, Rounds, NEW p \in Procs, NEW l \in Labels,
           at' = [at EXCEPT ![p] = l], l # "signal", philState' = philState,
           \A q \in Procs \ {p} : number'[q] = number[q],
           \A q \in Procs : life[q] = "alive" => life'[q] = "alive",
           \A q \in Procs : pc'[q] = "wait" => pc[q] = "wait" \/ (q = p /\ p \in Sharing),
           l # "new" => life'[p] = "alive",
           l \notin {"test", "eat"} => number'[p] = p,
           l = "freePut" \/ number'[p] # p => philState[p] = "THINKING",
           "HUNGRY" \notin Garbage /\ l \in {"new", "take", "hungry"} =>
               philState[p] # "HUNGRY" /\ ~Pending(p)
    PROVE  Rounds'
<1>1. at'[p] = l /\ \A q \in Procs \ {p} : at'[q] = at[q]
  BY DEF Inv, ProgramTypes
<1>2. \A k : Pending(k)' => Pending(k)
  BY <1>1 DEF Pending
<1>3. Round(p)'
  BY <1>1, <1>2 DEF Rounds, Round, Begun
<1>4. ASSUME NEW q \in Procs \ {p}
      PROVE  Round(q)'
  BY <1>1, <1>2 DEF Rounds, Round, Begun
<1> QED BY <1>3, <1>4 DEF Rounds

\* Nothing that the account is about changes.
LEMMA AccountKept ==
    ASSUME Account, SemTypes, semaphore' = semaphore,
           \A k \in Sharing : Due(k)' = Due(k) /\ Extra(k)' >= Extra(k)
    PROVE  Account'
<1>1. semaphore[0] \in Int
  BY Indices DEF SemTypes
<1> QED BY <1>1, Counted DEF Account, Sharing

\* Steps in which nobody begins or ends a round, waits or signals.
LEMMA AccountQuiet ==
    ASSUME Inv, Account, SemTypes, NEW p \in Procs, NEW l \in Labels,
           semaphore' = semaphore, philState' = philState,
           at' = [at EXCEPT ![p] = l], at[p] # "signal", l # "signal",
           \A q \in Procs \ {p} : number'[q] = number[q],
           at[p] \in {"new", "take", "hungry"} <=> l \in {"new", "take", "hungry"},
           at[p] \in {"put", "think"} <=> l \in {"put", "think"}
    PROVE  Account'
<1>1. at'[p] = l /\ \A q \in Procs \ {p} : at'[q] = at[q]
  BY DEF Inv, ProgramTypes
<1>2. \A k : Pending(k)' <=> Pending(k)
  BY <1>1 DEF Pending
<1>3. ASSUME NEW k \in Procs
      PROVE  Due(k)' = Due(k) /\ Extra(k)' = Extra(k)
  <2>1. (Begun(k)' <=> Begun(k)) /\ (Waited(k)' <=> Waited(k))
    BY <1>1 DEF Begun, Waited
  <2>2. Ate(k)' <=> Ate(k)
    BY <1>2, <2>1 DEF Ate
  <2> QED BY <1>2, <2>1, <2>2 DEF Due, Extra, One
<1> QED BY <1>3, AccountKept, SharingProcs, Counted DEF Sharing

\* The lines without a number of testP.
LEMMA OwnNumber ==
    ASSUME SignalInv, NEW p \in Procs
    PROVE  /\ at[p] \notin {"test", "eat", "signal"} => number[p] = p
           /\ at[p] # "new" => life[p] = "alive"
           /\ "HUNGRY" \notin Garbage /\ ~Begun(p) =>
                 philState[p] # "HUNGRY" /\ ~Pending(p)
BY DEF SignalInv, Rounds, Round

\* A step that keeps those who sleep in wait, the rounds and the account keeps
\* the invariant.
LEMMA SignalInvKept ==
    ASSUME SignalInv, Inv', SameSleepers, Rounds', Account'
    PROVE  SignalInv'
BY QueuedKept DEF SignalInv, SemTypes, SameSleepers

\* lockMutex of take_fork and put_fork, and freeMutex of take_fork.
LEMMA LockSignals ==
    ASSUME SignalInv, NEW p \in Procs, TakeLock(p) \/ PutLock(p) \/ TakeFree(p)
    PROVE  SignalInv'
<1>1. Inv'
  BY LockingSteps DEF SignalInv
<1>2. SameSleepers /\ philState' = philState /\ number' = number
  BY MutexKeepsSleepers
     DEF SignalInv, TakeLock, PutLock, TakeFree, Lock, Unlock, CallMutex
<1>3. PICK l \in {"hungry", "think", "wait", "put"} :
        /\ at' = [at EXCEPT ![p] = l]
        /\ \/ at[p] = "take" /\ l = "hungry"
           \/ at[p] = "put" /\ l = "think"
           \/ at[p] = "freeTake" /\ l = IF SemOf(p) = {} THEN "put" ELSE "wait"
  BY DEF TakeLock, PutLock, TakeFree, Goto
<1>4. l \in Labels
  BY DEF Labels
<1>5. life' = life
  BY <1>2 DEF SameSleepers
<1>6. Rounds'
  <2>1. number'[p] = p
    BY <1>2, <1>3, OwnNumber
  <2>2. life'[p] = "alive"
    BY <1>3, <1>5, OwnNumber
  <2>3. l \in {"new", "take", "hungry"} => ~Begun(p)
    BY <1>3 DEF Begun
  <2>4. "HUNGRY" \notin Garbage /\ l \in {"new", "take", "hungry"} =>
           philState[p] # "HUNGRY" /\ ~Pending(p)
    BY <2>3, OwnNumber
  <2> QED BY <1>2, <1>3, <1>4, <1>5, <2>1, <2>2, <2>4, RoundsKept
          DEF SignalInv, SameSleepers
<1>7. Account'
  <2>1. CASE p \in Sharing
    <3>1. \/ at[p] = "take" /\ l = "hungry"
          \/ at[p] = "put" /\ l = "think"
          \/ at[p] = "freeTake" /\ l = "wait"
      BY <1>3, <2>1, SharingProcs
    <3> QED BY <1>2, <1>3, <1>4, <3>1, AccountQuiet DEF SignalInv, SameSleepers
  <2>2. CASE p \notin Sharing
    <3>1. at'[p] = l /\ \A q \in Procs \ {p} : at'[q] = at[q]
      BY <1>3 DEF SignalInv, Inv, ProgramTypes
    <3>2. \A k : Pending(k)' <=> Pending(k)
      BY <1>2, <1>3, <3>1 DEF Pending
    <3>3. ASSUME NEW k \in Sharing
          PROVE  Due(k)' = Due(k) /\ Extra(k)' = Extra(k)
      <4>1. k \in Procs \ {p}
        BY <2>2, SharingProcs DEF Sharing
      <4>2. (Begun(k)' <=> Begun(k)) /\ (Waited(k)' <=> Waited(k))
        BY <3>1, <4>1 DEF Begun, Waited
      <4>3. Ate(k)' <=> Ate(k)
        BY <1>2, <3>2, <4>2 DEF Ate
      <4> QED BY <1>2, <3>2, <4>2, <4>3 DEF Due, Extra, One
    <3> QED BY <1>2, <3>3, AccountKept, Counted DEF SignalInv, SameSleepers
  <2> QED BY <2>1, <2>2
<1> QED BY <1>1, <1>2, <1>6, <1>7, SignalInvKept

\* freeMutex of put_fork, which ends a round: the philosopher thinks.
LEMMA PutFreeSignals ==
    ASSUME SignalInv, NEW p \in Procs, PutFree(p)
    PROVE  SignalInv'
<1>1. Inv'
  BY LockingSteps DEF SignalInv
<1>2. SameSleepers /\ philState' = philState /\ number' = number /\ pc[p] = "user"
  BY MutexKeepsSleepers
     DEF SignalInv, PutFree, Unlock, CallMutex, Free, InProgram
<1>3. at' = [at EXCEPT ![p] = "take"] /\ at[p] = "freePut"
  BY DEF PutFree, Goto
<1>4. "take" \in Labels
  BY DEF Labels
<1>5. philState[p] = "THINKING" /\ number[p] = p /\ life[p] = "alive" /\ life' = life
  BY <1>2, <1>3 DEF SignalInv, Rounds, Round, SameSleepers
<1>6. \A k : ~Pending(k)
  <2>1. \A q \in Procs : at[q] # "signal"
    BY <1>2, <1>3, OnlyOne DEF SignalInv, Inv, Critical
  <2> QED BY <2>1 DEF Pending
<1>7. Rounds'
  BY <1>2, <1>3, <1>4, <1>5, <1>6, RoundsKept DEF SignalInv, SameSleepers
<1>8. at'[p] = "take" /\ \A q \in Procs \ {p} : at'[q] = at[q]
  BY <1>3 DEF SignalInv, Inv, ProgramTypes
<1>9. \A k : ~Pending(k)'
  BY <1>2, <1>6, <1>8 DEF Pending
<1>10. ASSUME NEW k \in Procs
       PROVE  Due(k)' = Due(k) /\ Extra(k)' >= Extra(k)
  <2>1. CASE k = p
    <3>1. ~Ate(p) /\ ~Ate(p)' /\ ~Waited(p) /\ ~Waited(p)'
      BY <1>2, <1>3, <1>5, <1>8 DEF Ate, Waited
    <3>2. Extra(p)' = One("HUNGRY" \in Garbage)
      BY <1>2, <1>5, <1>9 DEF Extra, One
    <3> QED BY <2>1, <3>1, <3>2 DEF Due, Extra, One
  <2>2. CASE k # p
    <3>1. (Begun(k)' <=> Begun(k)) /\ (Waited(k)' <=> Waited(k))
      BY <1>8, <2>2 DEF Begun, Waited
    <3>2. Ate(k)' <=> Ate(k)
      BY <1>2, <1>6, <1>9, <3>1 DEF Ate
    <3>3. Due(k)' = Due(k) /\ Extra(k)' = Extra(k)
      BY <1>2, <1>6, <1>9, <3>1, <3>2 DEF Due, Extra, One
    <3> QED BY <3>3, Counted
  <2> QED BY <2>1, <2>2
<1>11. Account'
  BY <1>2, <1>10, AccountKept, SharingProcs DEF SignalInv, SameSleepers, Sharing
<1> QED BY <1>1, <1>2, <1>7, <1>11, SignalInvKept

\* The check of testP.
LEMMA TestSignals ==
    ASSUME SignalInv, NEW p \in Procs, TestYes(p) \/ TestNo(p)
    PROVE  SignalInv'
<1>1. Inv'
  BY TestStep DEF SignalInv
<1>2. /\ SameSleepers /\ philState' = philState /\ at[p] = "test"
      /\ UNCHANGED <<vars, semVars>>
  BY LocalKeepsSleepers DEF TestYes, TestNo, LeaveTest, Goto, LocalStep
<1>3. PICK l \in {"eat", "freeTake", "test", "freePut"} :
        /\ at' = [at EXCEPT ![p] = l]
        /\ \/ l = "eat" /\ number' = number
           \/ l = AfterTest(p) /\ number' = [number EXCEPT ![p] = NextNumber(p)]
  BY DEF TestYes, TestNo, LeaveTest, Goto, AfterTest
<1>4. l \in Labels
  BY DEF Labels
<1>5. \A q \in Procs \ {p} : number'[q] = number[q]
  BY <1>3 DEF SignalInv, Inv, ProgramTypes
<1>6. /\ l \notin {"test", "eat"} => number'[p] = p
      /\ l = "freePut" \/ number'[p] # p => number[p] # p
  <2>1. CASE l = "eat" /\ number' = number
    BY <2>1
  <2>2. CASE l = AfterTest(p) /\ number' = [number EXCEPT ![p] = NextNumber(p)]
    <3>1. number'[p] = NextNumber(p)
      BY <2>2 DEF SignalInv, Inv, ProgramTypes
    <3> QED BY <2>2, <3>1, SharingProcs DEF AfterTest, NextNumber
  <2> QED BY <1>3, <2>1, <2>2
<1>7. number[p] # p => philState[p] = "THINKING"
  BY DEF SignalInv, Rounds, Round
<1>8. life' = life /\ life[p] = "alive" /\ pc' = pc
  BY <1>2, OwnNumber DEF vars
<1>9. Rounds'
  BY <1>2, <1>3, <1>4, <1>5, <1>6, <1>7, <1>8, RoundsKept DEF SignalInv
<1>10. Account'
  BY <1>2, <1>3, <1>4, <1>5, AccountQuiet DEF SignalInv, SameSleepers
<1> QED BY <1>1, <1>2, <1>9, <1>10, SignalInvKept

\* createThreads starts a philosopher.
LEMMA CreateSignals ==
    ASSUME SignalInv, NEW p \in Procs, createThreads(p)
    PROVE  SignalInv'
<1>1. Inv'
  BY CreateStep DEF SignalInv
<1>2. /\ at[p] = "new" /\ at' = [at EXCEPT ![p] = "take"]
      /\ life' = [life EXCEPT ![p] = "alive"]
      /\ UNCHANGED <<semQueue, semaphore, semBlocked, state, pc, philState, number>>
  BY DEF createThreads, Goto, semVars
<1>3. "take" \in Labels /\ ~Begun(p)
  BY <1>2 DEF Labels, Begun
<1>4. \A q \in Procs : life[q] = "alive" => life'[q] = "alive"
  BY <1>2 DEF SignalInv, SemTypes
<1>5. life'[p] = "alive" /\ SemTypes'
  BY <1>2 DEF SignalInv, SemTypes
<1>6. number[p] = p
  BY <1>2, OwnNumber
<1>7. Rounds'
  BY <1>2, <1>3, <1>4, <1>5, <1>6, OwnNumber, RoundsKept DEF SignalInv
<1>8. Account'
  BY <1>2, <1>3, AccountQuiet DEF SignalInv
<1>9. Queued'
  BY <1>2 DEF SignalInv, Queued, Sleeps, One
<1> QED BY <1>1, <1>5, <1>7, <1>8, <1>9 DEF SignalInv

\* lockMutex and wait return.
LEMMA ReturnSignals ==
    ASSUME SignalInv, NEW p \in Procs, Return(p)
    PROVE  SignalInv'
<1>1. Inv'
  BY ReturnStep DEF SignalInv
<1>2. UNCHANGED <<at, number, philState>>
  BY DEF Return, CallMutex, CallSem
<1>3. SameSleepers
  BY MutexKeepsSleepers, ReturnKeepsSleepers DEF SignalInv, Return
<1>4. \A k : (Pending(k)' <=> Pending(k)) /\ (Begun(k)' <=> Begun(k))
             /\ (Waited(k)' <=> Waited(k))
  BY <1>2 DEF Pending, Begun, Waited
<1>5. Rounds'
  BY <1>2, <1>3, <1>4 DEF SignalInv, Rounds, Round, SameSleepers
<1>6. \A k : Ate(k)' <=> Ate(k)
  BY <1>2, <1>4 DEF Ate
<1>7. \A k : Due(k)' = Due(k) /\ Extra(k)' = Extra(k)
  BY <1>2, <1>4, <1>6 DEF Due, Extra, One
<1>8. Account'
  BY <1>3, <1>7, AccountKept, Counted DEF SignalInv, SameSleepers
<1> QED BY <1>1, <1>3, <1>5, <1>8, SignalInvKept

-----------------------------------------------------------------------------
(***************************************************************************)
(* The steps that write state[], and the calls of the semaphore library.   *)
(***************************************************************************)

\* What the writes of take_fork and put_fork have in common: who writes is
\* alone, so no signal is pending, and it writes its own state.
LEMMA OwnWrite ==
    ASSUME SignalInv, NEW p \in Procs, NEW from \in {"hungry", "think"},
           NEW s \in {"HUNGRY", "THINKING"},
           Goto(p, from, "test"), Write(p, p, s)
    PROVE  /\ SameSleepers
           /\ life' = life /\ pc' = pc
           /\ at[p] = from /\ at'[p] = "test"
           /\ \A q \in Procs \ {p} : at'[q] = at[q] /\ philState'[q] = philState[q]
           /\ philState'[p] = s
           /\ \A k : ~Pending(k) /\ ~Pending(k)'
           /\ \A q \in Procs : at[q] # "signal" /\ at'[q] # "signal"
<1>1. /\ pc[p] = "user" /\ UNCHANGED <<vars, semVars>>
      /\ philState' = [philState EXCEPT ![p] = s]
      /\ at[p] = from /\ at' = [at EXCEPT ![p] = "test"]
  BY DEF Write, InProgram, Goto
<1>2. SameSleepers /\ life' = life /\ pc' = pc
  BY <1>1, LocalKeepsSleepers DEF vars
<1>3. /\ at'[p] = "test" /\ philState'[p] = s
      /\ \A q \in Procs \ {p} : at'[q] = at[q] /\ philState'[q] = philState[q]
  BY <1>1 DEF SignalInv, Inv, ProgramTypes
<1>4. \A q \in Procs : at[q] # "signal"
  <2>1. at[p] \in Critical /\ "signal" \in Critical \ {"hungry", "think"}
    BY <1>1 DEF Critical
  <2> QED BY <1>1, <2>1, OnlyOne DEF SignalInv, Inv
<1>5. \A q \in Procs : at'[q] # "signal"
  BY <1>3, <1>4
<1> QED BY <1>1, <1>2, <1>3, <1>4, <1>5 DEF Pending

\* take_fork writes HUNGRY: a round begins.
LEMMA HungrySignals ==
    ASSUME SignalInv, NEW p \in Procs, Hungry(p)
    PROVE  SignalInv'
<1>1. Inv'
  BY WritingSteps DEF SignalInv
<1>2. Goto(p, "hungry", "test") /\ Write(p, p, "HUNGRY") /\ number' = number
  BY DEF Hungry
<1>3. /\ SameSleepers
      /\ life' = life /\ pc' = pc
      /\ at[p] = "hungry" /\ at'[p] = "test"
      /\ \A q \in Procs \ {p} : at'[q] = at[q] /\ philState'[q] = philState[q]
      /\ philState'[p] = "HUNGRY"
      /\ \A k : ~Pending(k) /\ ~Pending(k)'
      /\ \A q \in Procs : at[q] # "signal" /\ at'[q] # "signal"
  BY <1>2, OwnWrite
<1>4. Round(p)'
  BY <1>2, <1>3 DEF SignalInv, Rounds, Round, Begun
<1>5. ASSUME NEW q \in Procs \ {p}
      PROVE  Round(q)'
  BY <1>2, <1>3 DEF SignalInv, Rounds, Round, Begun
<1>6. Rounds'
  BY <1>4, <1>5 DEF Rounds
<1>7. ASSUME NEW k \in Procs
      PROVE  Due(k)' = Due(k) /\ Extra(k)' >= Extra(k)
  <2>1. CASE k = p
    <3>1. ~Ate(p) /\ ~Ate(p)' /\ ~Waited(p) /\ ~Waited(p)'
      BY <1>3 DEF Ate, Waited, Begun
    <3>2. Extra(p)' = One("HUNGRY" \in Garbage)
      BY <1>3 DEF Extra, One, Begun
    <3> QED BY <2>1, <3>1, <3>2 DEF Due, Extra, One
  <2>2. CASE k # p
    <3>1. (Begun(k)' <=> Begun(k)) /\ (Waited(k)' <=> Waited(k))
      BY <1>3, <2>2 DEF Begun, Waited
    <3>2. Ate(k)' <=> Ate(k)
      BY <1>3, <2>2, <3>1 DEF Ate
    <3>3. Due(k)' = Due(k) /\ Extra(k)' = Extra(k)
      BY <1>3, <2>2, <3>1, <3>2 DEF Due, Extra, One
    <3> QED BY <3>3, Counted
  <2> QED BY <2>1, <2>2
<1>8. Account'
  BY <1>3, <1>7, AccountKept, SharingProcs DEF SignalInv, SameSleepers, Sharing
<1> QED BY <1>1, <1>3, <1>6, <1>8, SignalInvKept

\* put_fork writes THINKING: the meal ends, and with it the wait of the round.
\* Who has waited without having eaten took the signal of the other; then the
\* other does not sleep with its own meal signalled as well.
LEMMA ThinkSignals ==
    ASSUME SignalInv, NEW p \in Procs, Think(p)
    PROVE  SignalInv'
<1>1. Inv'
  BY WritingSteps DEF SignalInv
<1>2. /\ Goto(p, "think", "test") /\ Write(p, p, "THINKING") /\ pc[p] = "user"
      /\ number' = [number EXCEPT ![p] = Left(p)]
  BY DEF Think, Write, InProgram
<1>3. /\ SameSleepers
      /\ life' = life /\ pc' = pc
      /\ at[p] = "think" /\ at'[p] = "test"
      /\ \A q \in Procs \ {p} : at'[q] = at[q] /\ philState'[q] = philState[q]
      /\ philState'[p] = "THINKING"
      /\ \A k : ~Pending(k) /\ ~Pending(k)'
      /\ \A q \in Procs : at[q] # "signal" /\ at'[q] # "signal"
  BY <1>2, OwnWrite
<1>4. \A q \in Procs \ {p} : number'[q] = number[q]
  BY <1>2 DEF SignalInv, Inv, ProgramTypes
<1>5. Round(p)'
  BY <1>3 DEF SignalInv, Rounds, Round, Begun
<1>6. ASSUME NEW q \in Procs \ {p}
      PROVE  Round(q)'
  BY <1>3, <1>4 DEF SignalInv, Rounds, Round, Begun
<1>7. Rounds'
  BY <1>5, <1>6 DEF Rounds
<1>8. ASSUME NEW k \in Procs \ {p}
      PROVE  Due(k)' = Due(k) /\ Extra(k)' = Extra(k)
  <2>1. (Begun(k)' <=> Begun(k)) /\ (Waited(k)' <=> Waited(k))
    BY <1>3 DEF Begun, Waited
  <2>2. Ate(k)' <=> Ate(k)
    BY <1>3, <2>1 DEF Ate
  <2> QED BY <1>3, <2>1, <2>2 DEF Due, Extra, One
<1>9. /\ Due(p) = One(Ate(p)) - 1 /\ Due(p)' = 0 /\ Extra(p)' = Extra(p)
      /\ ~Sleeps(p)
  <2>1. Waited(p) /\ ~Waited(p)' /\ ~Ate(p)' /\ Begun(p) /\ Begun(p)'
    BY <1>3 DEF Ate, Waited, Begun
  <2> QED BY <1>2, <2>1 DEF Due, Extra, One, Sleeps
<1>10. semaphore' = semaphore /\ semaphore[0] \in Int
  BY <1>3, Indices DEF SignalInv, SemTypes, SameSleepers
<1>11. Account'
  <2>1. CASE p \notin Sharing
    <3>1. \A k \in Sharing : Due(k)' = Due(k) /\ Extra(k)' = Extra(k)
      BY <1>8, <2>1, SharingProcs DEF Sharing
    <3> QED BY <1>10, <3>1, AccountKept, Counted DEF SignalInv
  <2>2. CASE p \in Sharing
    <3>1. PICK o \in Sharing : o # p /\ Sharing = {p, o} /\ o \in Procs
      <4>1. CASE p = 1
        BY <4>1, SharingProcs DEF Sharing
      <4>2. CASE p = 3
        BY <4>2, SharingProcs DEF Sharing
      <4> QED BY <2>2, <4>1, <4>2 DEF Sharing
    <3>2. /\ Due(1) + Due(3) = Due(p) + Due(o)
          /\ Due(1)' + Due(3)' = Due(p)' + Due(o)'
          /\ Extra(1) + Extra(3) = Extra(p) + Extra(o)
          /\ Extra(1)' + Extra(3)' = Extra(p)' + Extra(o)'
          /\ One(Sleeps(1)) + One(Sleeps(3)) = One(Sleeps(p)) + One(Sleeps(o))
      <4>1. CASE p = 1 /\ o = 3
        BY <4>1
      <4>2. CASE p = 3 /\ o = 1
        BY <4>2, Counted
      <4> QED BY <2>2, <3>1, <4>1, <4>2 DEF Sharing
    <3>3. Due(o)' = Due(o) /\ Extra(o)' = Extra(o)
      BY <1>8, <3>1
    <3>4. semaphore[0] <= Due(1)' + Due(3)' + Extra(1)' + Extra(3)'
      <4>1. Due(p) <= 0
        BY <1>9 DEF One
      <4>2. semaphore[0] <= Due(p) + Due(o) + Extra(p) + Extra(o)
        BY <3>2, Counted, <1>10 DEF SignalInv, Account
      <4> QED BY <1>9, <1>10, <3>2, <3>3, <4>1, <4>2, Counted
    <3>5. semaphore[0] >= Due(1)' + Due(3)' - 1
      <4>1. semaphore[0] >= Due(p) + Due(o) - 1
        BY <3>2, Counted, <1>10 DEF SignalInv, Account
      <4>2. CASE Ate(p)
        <5>1. Due(p) = 0
          BY <1>9, <4>2 DEF One
        <5> QED BY <1>9, <1>10, <3>2, <3>3, <4>1, <5>1, Counted
      <4>3. CASE ~Ate(p)
        <5>1. Due(p) = -1
          BY <1>9, <4>3 DEF One
        <5>2. semBlocked[0] = One(Sleeps(o))
          BY <1>9, <3>2, Counted DEF SignalInv, Queued, One
        <5>3. semaphore[0] < 0 => semaphore[0] = -1 /\ Sleeps(o)
          BY <1>10, <5>2 DEF SignalInv, Queued, One
        <5>4. Sleeps(o) => Due(o) <= 0
          <6>1. Sleeps(o) => Waited(o)
            BY <3>1 DEF Sleeps, Waited, SignalInv, Inv, Places
          <6> QED BY <6>1 DEF Due, One
        <5>5. semaphore[0] >= Due(o) - 1
          BY <1>10, <5>3, <5>4, Counted
        <5> QED BY <1>9, <1>10, <3>2, <3>3, <5>5, Counted
      <4> QED BY <4>2, <4>3
    <3>6. semaphore' = semaphore /\ \A s \in Sem!SemIndex \ {0} : semaphore'[s] = 0
      BY <1>10 DEF SignalInv, Account
    <3> QED BY <3>4, <3>5, <3>6 DEF Account
  <2> QED BY <2>1, <2>2
<1> QED BY <1>1, <1>3, <1>7, <1>11, SignalInvKept

\* testP writes EATING: the signal becomes pending.
LEMMA EatSignals ==
    ASSUME SignalInv, NEW p \in Procs, Eat(p)
    PROVE  SignalInv'
<1>1. Inv'
  BY WritingSteps DEF SignalInv
<1>2. PICK k \in Procs : k = number[p]
  BY DEF SignalInv, Inv, ProgramTypes
<1>3. /\ pc[p] = "user" /\ at[p] = "eat" /\ UNCHANGED <<vars, semVars>>
      /\ philState' = [philState EXCEPT ![k] = "EATING"]
  BY <1>2 DEF Eat, Write, InProgram, LeaveTest, Goto
<1>4. SameSleepers /\ life' = life /\ pc' = pc
  BY <1>3, LocalKeepsSleepers DEF vars
<1>5. philState[k] = "HUNGRY"
  BY <1>2, <1>3 DEF SignalInv, Inv, CheckHolds, CanEat
<1>6. philState'[k] = "EATING" /\ \A q \in Procs \ {k} : philState'[q] = philState[q]
  BY <1>3 DEF SignalInv, Inv, ProgramTypes
<1>7. \A q \in Procs : at[q] # "signal"
  <2>1. at[p] \in Critical /\ "signal" \in Critical \ {"hungry", "think"}
    BY <1>3 DEF Critical
  <2> QED BY <1>3, <2>1, OnlyOne DEF SignalInv, Inv
<1>8. PICK l \in {"signal", "freeTake", "test", "freePut"} :
         /\ at' = [at EXCEPT ![p] = l]
         /\ l = "signal" => number' = number
         /\ l # "signal" => /\ SemOf(k) = {} /\ l = AfterTest(p)
                            /\ number' = [number EXCEPT ![p] = NextNumber(p)]
  BY <1>2 DEF Eat, LeaveTest, Goto, AfterTest
<1>9. at'[p] = l /\ \A q \in Procs \ {p} : at'[q] = at[q] /\ number'[q] = number[q]
  BY <1>8 DEF SignalInv, Inv, ProgramTypes
<1>10. /\ l \notin {"test", "signal"} => number'[p] = p
       /\ l = "freePut" \/ number'[p] # p => number[p] # p
       /\ l = "signal" => number'[p] = k
  <2>1. CASE l = "signal"
    BY <1>2, <1>8, <2>1
  <2>2. CASE l # "signal"
    <3>1. number'[p] = NextNumber(p)
      BY <1>8, <2>2 DEF SignalInv, Inv, ProgramTypes
    <3> QED BY <1>8, <2>2, <3>1, SharingProcs DEF AfterTest, NextNumber
  <2> QED BY <2>1, <2>2
<1>11. \A q \in Procs : Begun(q)' <=> Begun(q)
  BY <1>3, <1>9 DEF Begun
<1>12. \A q : ~Pending(q) /\ (Pending(q)' <=> l = "signal" /\ q = k)
  BY <1>7, <1>9, <1>10 DEF Pending
<1>13. "HUNGRY" \notin Garbage => Begun(k)
  BY <1>5 DEF SignalInv, Rounds, Round
<1>14. Rounds'
  <2> SUFFICES ASSUME NEW q \in Procs PROVE Round(q)'
    BY DEF Rounds
  <2>1. at'[q] # "new" => life'[q] = "alive"
    BY <1>3, <1>4, <1>9 DEF SignalInv, Rounds, Round
  <2>2. pc'[q] = "wait" => q \in Sharing
    BY <1>4 DEF SignalInv, Rounds, Round
  <2>3. at'[q] \notin {"test", "eat", "signal"} => number'[q] = q
    BY <1>9, <1>10 DEF SignalInv, Rounds, Round
  <2>4. at'[q] = "freePut" \/ number'[q] # q => philState'[q] = "THINKING"
    <3>1. at'[q] = "freePut" \/ number'[q] # q => at[q] = "freePut" \/ number[q] # q
      BY <1>9, <1>10
    <3>2. at[q] = "freePut" \/ number[q] # q => philState[q] = "THINKING"
      BY DEF SignalInv, Rounds, Round
    <3>3. philState[q] = "THINKING" => q # k
      BY <1>5
    <3> QED BY <1>6, <3>1, <3>2, <3>3
  <2>5. at'[q] = "signal" => philState'[number'[q]] = "EATING"
    BY <1>6, <1>7, <1>9, <1>10
  <2>6. "HUNGRY" \notin Garbage /\ ~Begun(q)' => philState'[q] # "HUNGRY" /\ ~Pending(q)'
    <3>1. "HUNGRY" \notin Garbage /\ ~Begun(q) => q # k /\ philState[q] # "HUNGRY"
      BY <1>13 DEF SignalInv, Rounds, Round
    <3> QED BY <1>6, <1>11, <1>12, <3>1
  <2> QED BY <2>1, <2>2, <2>3, <2>4, <2>5, <2>6 DEF Round
<1>15. ASSUME NEW q \in Sharing
       PROVE  Due(q)' = Due(q) /\ Extra(q)' >= Extra(q)
  <2>1. q \in Procs
    BY SharingProcs DEF Sharing
  <2>2. Waited(q)' <=> Waited(q)
    BY <1>3, <1>9, <2>1 DEF Waited
  <2>3. CASE q = k
    <3>1. l = "signal"
      BY <1>8, <2>1, <2>3, SharingProcs
    <3>2. ~Ate(q) /\ ~Ate(q)'
      BY <1>5, <1>12, <2>3, <3>1 DEF Ate
    <3>3. Extra(q)' = Extra(q)
      BY <1>5, <1>6, <1>11, <1>12, <2>1, <2>3, <3>1 DEF Extra, One
    <3>4. Due(q)' = Due(q)
      BY <2>2, <3>2 DEF Due, One
    <3> QED BY <3>3, <3>4, Counted
  <2>4. CASE q # k
    <3>1. philState'[q] = philState[q] /\ ~Pending(q) /\ ~Pending(q)'
      BY <1>6, <1>12, <2>1, <2>4
    <3>2. Ate(q)' <=> Ate(q)
      BY <1>11, <2>1, <3>1 DEF Ate
    <3>3. Due(q)' = Due(q) /\ Extra(q)' = Extra(q)
      BY <1>11, <2>1, <2>2, <3>1, <3>2 DEF Due, Extra, One
    <3> QED BY <3>3, Counted
  <2> QED BY <2>3, <2>4
<1>16. Account'
  BY <1>4, <1>15, AccountKept DEF SignalInv, SameSleepers
<1> QED BY <1>1, <1>4, <1>14, <1>16, SignalInvKept

\* testP signals: for the meal of a round, or for what state[] began with.
LEMMA TestedSignals ==
    ASSUME SignalInv, NEW p \in Procs, SignalTested(p)
    PROVE  SignalInv'
<1>1. Inv'
  BY SemaphoreSteps DEF SignalInv
<1>2. PICK k \in Procs : k = number[p]
  BY DEF SignalInv, Inv, ProgramTypes
<1>3. CallSem(Sem!Signal(p, 0)) /\ SemOf(k) # {}
  BY <1>2 DEF SignalTested, SignalOf, SemOf
<1>4. k \in Sharing
  BY <1>3, SharingProcs
<1>5. /\ SemTypes' /\ Queued' /\ life' = life /\ pc' = pc
      /\ semaphore' = [semaphore EXCEPT ![0] = @ + 1]
  BY <1>3, SignalQueued
<1>6. /\ pc[p] = "user" /\ at[p] = "signal" /\ philState' = philState
      /\ philState[k] = "EATING" /\ life[p] = "alive"
  <2>1. pc[p] = "user" /\ philState' = philState
    BY <1>3 DEF CallSem, Sem!Signal, Sem!Calls, Sem!InProgram
  <2>2. at[p] = "signal"
    BY DEF SignalTested, LeaveTest, Goto
  <2> QED BY <1>2, <2>1, <2>2 DEF SignalInv, Rounds, Round
<1>7. PICK l \in {"freeTake", "test", "freePut"} :
         /\ at' = [at EXCEPT ![p] = l] /\ l = AfterTest(p)
         /\ number' = [number EXCEPT ![p] = NextNumber(p)]
  BY DEF SignalTested, LeaveTest, Goto, AfterTest
<1>8. /\ at'[p] = l /\ number'[p] = NextNumber(p)
      /\ \A q \in Procs \ {p} : at'[q] = at[q] /\ number'[q] = number[q]
  BY <1>7 DEF SignalInv, Inv, ProgramTypes
<1>9. l \in Labels
  BY DEF Labels
<1>10. Rounds'
  <2>1. /\ l # "test" => number'[p] = p
        /\ l = "freePut" \/ number'[p] # p => number[p] # p
    BY <1>7, <1>8, SharingProcs DEF AfterTest, NextNumber
  <2>2. number[p] # p => philState[p] = "THINKING"
    BY DEF SignalInv, Rounds, Round
  <2> QED BY <1>5, <1>6, <1>7, <1>8, <1>9, <2>1, <2>2, RoundsKept DEF SignalInv
<1>11. \A q \in Procs \ {p} : at[q] # "signal"
  <2>1. at[p] \in Critical /\ "signal" \in Critical \ {"hungry", "think"}
    BY <1>6 DEF Critical
  <2> QED BY <1>6, <2>1, OnlyOne DEF SignalInv, Inv
<1>12. \A q : (Pending(q) <=> q = k) /\ ~Pending(q)'
  BY <1>2, <1>6, <1>8, <1>11 DEF Pending
<1>13. \A q \in Procs : (Begun(q)' <=> Begun(q)) /\ (Waited(q)' <=> Waited(q))
  BY <1>6, <1>8 DEF Begun, Waited
<1>14. ASSUME NEW q \in Procs \ {k}
       PROVE  Due(q)' = Due(q) /\ Extra(q)' = Extra(q)
  <2>1. Ate(q)' <=> Ate(q)
    BY <1>6, <1>12, <1>13 DEF Ate
  <2> QED BY <1>6, <1>12, <1>13, <2>1 DEF Due, Extra, One
<1>15. \/ Due(k)' = Due(k) + 1 /\ Extra(k)' = Extra(k)
       \/ Due(k)' = Due(k) /\ Extra(k)' = Extra(k) + 1
  <2>1. CASE Begun(k)
    <3>1. ~Ate(k) /\ Ate(k)'
      BY <1>6, <1>12, <1>13, <2>1 DEF Ate
    <3> QED BY <1>13, <2>1, <3>1 DEF Due, Extra, One
  <2>2. CASE ~Begun(k)
    <3>1. "HUNGRY" \in Garbage
      BY <1>12, <2>2 DEF SignalInv, Rounds, Round
    <3>2. ~Ate(k) /\ ~Ate(k)'
      BY <1>13, <2>2 DEF Ate
    <3> QED BY <1>6, <1>12, <1>13, <2>2, <3>1, <3>2 DEF Due, Extra, One
  <2> QED BY <2>1, <2>2
<1>16. Account'
  <2>1. /\ semaphore[0] \in Int /\ semaphore'[0] = semaphore[0] + 1
        /\ \A s \in Sem!SemIndex \ {0} : semaphore'[s] = semaphore[s]
    BY <1>5, Indices DEF SignalInv, SemTypes
  <2>2. \A s \in Sem!SemIndex \ {0} : semaphore'[s] = 0
    BY <2>1 DEF SignalInv, Account
  <2>3. CASE k = 1
    <3>1. Due(3)' = Due(3) /\ Extra(3)' = Extra(3)
      BY <1>14, <2>3, SharingProcs
    <3> QED BY <1>15, <2>1, <2>2, <2>3, <3>1, Counted DEF SignalInv, Account
  <2>4. CASE k = 3
    <3>1. Due(1)' = Due(1) /\ Extra(1)' = Extra(1)
      BY <1>14, <2>4, SharingProcs
    <3> QED BY <1>15, <2>1, <2>2, <2>4, <3>1, Counted DEF SignalInv, Account
  <2> QED BY <1>4, <2>3, <2>4 DEF Sharing
<1> QED BY <1>1, <1>5, <1>10, <1>16 DEF SignalInv

\* The wait of take_fork, whether it passes or blocks.
LEMMA WaitSignals ==
    ASSUME SignalInv, NEW p \in Procs, Wait(p)
    PROVE  SignalInv'
<1>1. Inv'
  BY SemaphoreSteps DEF SignalInv
<1>2. /\ CallSem(Sem!WaitPass(p, 0)) \/ CallSem(Sem!WaitBlock(p, 0))
      /\ SemOf(p) # {}
  BY DEF Wait, WaitOwn, SemOf, CallSem
<1>3. p \in Sharing
  BY <1>2, SharingProcs
<1>4. /\ SemTypes' /\ Queued' /\ life' = life
      /\ semaphore' = [semaphore EXCEPT ![0] = @ - 1]
      /\ pc' = pc \/ pc' = [pc EXCEPT ![p] = "wait"]
  BY <1>2, <1>3, PassQueued, BlockQueued
<1>5. /\ at[p] = "wait" /\ at' = [at EXCEPT ![p] = "put"]
      /\ number' = number /\ philState' = philState
  BY <1>2 DEF Wait, Goto, CallSem
<1>6. "put" \in Labels /\ number[p] = p /\ life[p] = "alive"
  BY <1>5, OwnNumber DEF Labels
<1>7. \A q \in Procs : pc'[q] = "wait" => pc[q] = "wait" \/ (q = p /\ p \in Sharing)
  BY <1>3, <1>4 DEF SignalInv, Inv, Kernel, KernelTypes
<1>8. Rounds'
  BY <1>4, <1>5, <1>6, <1>7, RoundsKept DEF SignalInv
<1>9. at'[p] = "put" /\ \A q \in Procs \ {p} : at'[q] = at[q]
  BY <1>5 DEF SignalInv, Inv, ProgramTypes
<1>10. \A k : Pending(k)' <=> Pending(k)
  BY <1>5, <1>9 DEF Pending
<1>11. \A k \in Procs : Begun(k)' <=> Begun(k)
  BY <1>5, <1>9 DEF Begun
<1>12. \A k \in Procs : (Ate(k)' <=> Ate(k)) /\ Extra(k)' = Extra(k)
  BY <1>5, <1>10, <1>11 DEF Ate, Extra, One
<1>13. Due(p)' = Due(p) - 1
  <2>1. ~Waited(p) /\ Waited(p)'
    BY <1>5, <1>9 DEF Waited
  <2> QED BY <1>12, <2>1 DEF Due, One
<1>14. \A k \in Procs \ {p} : Due(k)' = Due(k)
  <2>1. \A k \in Procs \ {p} : Waited(k)' <=> Waited(k)
    BY <1>9 DEF Waited
  <2> QED BY <1>12, <2>1 DEF Due, One
<1>15. Account'
  <2>1. /\ semaphore[0] \in Int /\ semaphore'[0] = semaphore[0] - 1
        /\ \A s \in Sem!SemIndex \ {0} : semaphore'[s] = semaphore[s]
    BY <1>4, Indices DEF SignalInv, SemTypes
  <2>2. \A s \in Sem!SemIndex \ {0} : semaphore'[s] = 0
    BY <2>1 DEF SignalInv, Account
  <2>3. Due(1)' + Due(3)' = Due(1) + Due(3) - 1
    <3>1. CASE p = 1
      BY <1>13, <1>14, <3>1, SharingProcs, Counted
    <3>2. CASE p = 3
      BY <1>13, <1>14, <3>2, SharingProcs, Counted
    <3> QED BY <1>3, <3>1, <3>2 DEF Sharing
  <2>4. Extra(1)' = Extra(1) /\ Extra(3)' = Extra(3)
    BY <1>12, SharingProcs
  <2> QED BY <2>1, <2>2, <2>3, <2>4, Counted DEF SignalInv, Account
<1> QED BY <1>1, <1>4, <1>8, <1>15 DEF SignalInv

-----------------------------------------------------------------------------
\* dPhilosphers begins with the account at zero.
LEMMA InitSignals ==
    PhilInit => SignalInv
<1> SUFFICES ASSUME PhilInit PROVE SignalInv
  OBVIOUS
<1>1. Inv
  BY InitInv
<1>2. /\ semaphore = [s \in Sem!SemIndex |-> 0]
      /\ semBlocked = [s \in Sem!SemIndex |-> 0]
      /\ life = [p \in Procs |-> "unborn"]
      /\ pc = [p \in Procs |-> "user"]
      /\ at = [p \in Procs |-> "new"]
      /\ number = [p \in Procs |-> p]
      /\ philState \in [Procs -> Garbage]
  BY DEF PhilInit
<1>3. SemTypes
  BY <1>2 DEF SemTypes
<1>4. \A k : ~Pending(k)
  BY <1>2 DEF Pending
<1>5. Rounds
  BY <1>2, <1>4 DEF Rounds, Round
<1>6. \A k \in Procs : ~Sleeps(k) /\ ~Ate(k) /\ ~Waited(k)
  BY <1>2 DEF Sleeps, Ate, Waited, Begun
<1>7. Queued
  BY <1>2, <1>6, Indices, SharingProcs DEF Queued, One
<1>8. Due(1) = 0 /\ Due(3) = 0
  BY <1>6, SharingProcs DEF Due, One
<1>9. Account
  BY <1>2, <1>8, Indices, Counted DEF Account
<1> QED BY <1>1, <1>3, <1>5, <1>7, <1>9 DEF SignalInv

\* Every step keeps the account.
LEMMA NextSignals ==
    SignalInv /\ [PhilNext]_allVars => SignalInv'
<1> SUFFICES ASSUME SignalInv, [PhilNext]_allVars PROVE SignalInv'
  OBVIOUS
<1>1. CASE UNCHANGED allVars
  <2>1. Inv'
    BY NextInv DEF SignalInv
  <2>2. UNCHANGED <<vars, semVars, philState, at, number>>
    BY <1>1 DEF allVars
  <2>3. SameSleepers /\ life' = life /\ pc' = pc
    BY <2>2, LocalKeepsSleepers DEF vars
  <2>4. \A k : (Pending(k)' <=> Pending(k)) /\ (Begun(k)' <=> Begun(k))
               /\ (Waited(k)' <=> Waited(k))
    BY <2>2 DEF Pending, Begun, Waited
  <2>5. Rounds'
    BY <2>2, <2>3, <2>4 DEF SignalInv, Rounds, Round
  <2>6. \A k : Ate(k)' <=> Ate(k)
    BY <2>2, <2>4 DEF Ate
  <2>7. \A k : Due(k)' = Due(k) /\ Extra(k)' = Extra(k)
    BY <2>2, <2>4, <2>6 DEF Due, Extra, One
  <2>8. Account'
    BY <2>3, <2>7, AccountKept, Counted DEF SignalInv, SameSleepers
  <2> QED BY <2>1, <2>3, <2>5, <2>8, SignalInvKept
<1>2. CASE PhilNext
  <2>1. PICK p \in Procs : philospher(p) \/ createThreads(p)
    BY <1>2 DEF PhilNext
  <2>2. CASE take_fork(p)
    BY <2>2, LockSignals, HungrySignals, WaitSignals DEF take_fork
  <2>3. CASE testP(p)
    BY <2>3, TestSignals, EatSignals, TestedSignals DEF testP
  <2>4. CASE put_fork(p)
    BY <2>4, LockSignals, ThinkSignals, PutFreeSignals DEF put_fork
  <2> QED BY <2>1, <2>2, <2>3, <2>4, ReturnSignals, CreateSignals DEF philospher
<1> QED BY <1>1, <1>2

\* Both philosophers that share semaphore "0" blocked with their meals signalled
\* would be two waits too many: the account allows one.
LEMMA AccountUnblocks ==
    SignalInv => NotBothStuck
<1> SUFFICES ASSUME SignalInv, \A r \in Procs : at[r] # "signal",
                    NEW p \in Procs, NEW q \in Procs, Stuck(p), Stuck(q)
             PROVE  p = q
  BY DEF NotBothStuck
<1>1. \A k : ~Pending(k)
  BY DEF Pending
<1>2. ASSUME NEW k \in Procs, Stuck(k)
      PROVE  k \in Sharing /\ Sleeps(k) /\ Due(k) = 0
  <2>1. k \in Sharing /\ Sleeps(k)
    BY <1>2 DEF Stuck, Sleeps, SignalInv, Rounds, Round
  <2>2. at[k] = "put"
    BY <1>2 DEF Stuck, SignalInv, Inv, Places
  <2>3. Ate(k) /\ Waited(k)
    BY <1>1, <1>2, <2>2 DEF Ate, Waited, Begun, Stuck
  <2> QED BY <2>1, <2>3 DEF Due, One
<1>3. ASSUME p # q
      PROVE  FALSE
  <2>1. /\ Sleeps(1) /\ Sleeps(3)
        /\ Due(1) = 0 /\ Due(3) = 0
    BY <1>2, <1>3 DEF Sharing
  <2>2. semBlocked[0] = 2
    BY <2>1 DEF SignalInv, Queued, One
  <2>3. semaphore[0] \in Int
    BY Indices DEF SignalInv, SemTypes
  <2>4. semaphore[0] = -2
    BY <2>2, <2>3 DEF SignalInv, Queued
  <2> QED BY <2>1, <2>4 DEF SignalInv, Account
<1> QED BY <1>3

\* Philosophers 1 and 3, who by a cast in createThreads wait at one semaphore,
\* never both block in wait with nobody left to signal, while both are taken to
\* eat, although the signal for the meal of one may wake the other and a
\* philosopher may put its forks down without having eaten.  It holds for every
\* content of state[] at the start and every size of the tables.
THEOREM NeverBothStuck ==
    PhilSpec => []NotBothStuck
BY InitSignals, NextSignals, AccountUnblocks, PTL DEF PhilSpec

\* The bound of the model is beyond what the account allows.
BoundSuffices ==
    MaxValue \in Nat /\ MaxValue >= IF "HUNGRY" \in Garbage THEN 5 ELSE 3

\* The variables of the program keep their types, and the value of semaphore "0"
\* stays between -3 and 2, or 4 when testP can take what state[] begins with for
\* hunger: the bound of Signal never holds a philosopher up.
THEOREM PhilTypeCorrect ==
    ASSUME BoundSuffices
    PROVE  PhilSpec => []PhilTypeOK
<1>1. SignalInv => PhilTypeOK
  <2> SUFFICES ASSUME SignalInv PROVE PhilTypeOK
    OBVIOUS
  <2>1. \A s \in Sem!SemIndex : semaphore[s] \in Int
    BY DEF SignalInv, SemTypes
  <2>2. "HUNGRY" \notin Garbage => Extra(1) = 0 /\ Extra(3) = 0
    BY DEF Extra, One
  <2>3. semaphore[0] >= -3 /\ semaphore[0] <= IF "HUNGRY" \in Garbage THEN 4 ELSE 2
    BY <2>1, <2>2, Indices, Counted DEF SignalInv, Account
  <2>4. ASSUME NEW s \in Sem!SemIndex
        PROVE  semaphore[s] \in (-DEFAULTP)..(MaxValue - 1)
    <3>1. DEFAULTP = 5
      BY PhilosophersAssumption
    <3>2. CASE s = 0
      BY <2>1, <2>3, <3>1, <3>2 DEF BoundSuffices
    <3>3. CASE s # 0
      BY <3>1, <3>3 DEF BoundSuffices, SignalInv, Account
    <3> QED BY <3>2, <3>3
  <2> QED BY <2>4 DEF SignalInv, Inv, ProgramTypes, PhilTypeOK
<1> QED BY InitSignals, NextSignals, <1>1, PTL DEF PhilSpec
=============================================================================
