------------------------------ MODULE ProdCons ------------------------------
(***************************************************************************)
(* The producer/consumer demo (Userland/dummy/dummy.c) on the kernel's     *)
(* semaphores (module Semaphore): producers and consumers that share a     *)
(* circular buffer, and the main program, which creates and kills them at  *)
(* the keys c, p, z, x and q.  The programs are preempted between any two  *)
(* accesses to shared variables.                                           *)
(*                                                                         *)
(* The model begins where main calls control(): the three semaphores, one  *)
(* producer and one consumer exist.  The main program is none of Procs.    *)
(***************************************************************************)
EXTENDS Semaphore, Sequences

CONSTANTS
    bufferSize,
    CharRange,      \* the number of values of a char
    MAX_PRODUCER,
    MAX_CONSUMER

ASSUME ProdConsAssumption ==
    /\ Procs \subseteq Nat
    /\ bufferSize \in Nat \ {0}
    /\ bufferSize < MaxValue
    /\ CharRange \in Nat \ {0}
    /\ MAX_PRODUCER \in Nat \ {0} /\ MAX_CONSUMER \in Nat \ {0}
    /\ MAX_SEMAPHORES = 3
    /\ {"itemMutex", "fullCount", "emptyCount"} \subseteq Names

itemMutex == 0
fullCount == 1
emptyCount == 2

Char == 0..(CharRange - 1)
Position == 0..(bufferSize - 1)

VARIABLES
    at,           \* where a producer or a consumer is
    item,         \* its local variable item, 0 between two rounds of its loop
    i,            \* the shared counter of items, as far as a char shows it
    buffer, r, w,
    producerPid, consumerPid,  \* the pids that control() keeps, in order
    main,         \* "control", "quit" or "ended"
    stored,       \* history: the number of items in the buffer
    delivered     \* history: the item taken out last

bufferVars == <<buffer, r, w, stored, delivered>>
mainVars == <<producerPid, consumerPid, main>>
allVars == <<vars, at, item, i, bufferVars, mainVars>>

InCriticalSection == {"store", "advanceW", "releaseP", "fetch", "advanceR", "releaseC"}

Labels == InCriticalSection \cup {"new", "produce", "count", "waitEmpty", "lockP",
    "signalFull", "waitFull", "lockC", "signalEmpty"}

-----------------------------------------------------------------------------
\* createProcess gives out pids in ascending order.
NextPid(p) == life[p] = "unborn" /\ \A q \in Procs : life[q] = "unborn" => p <= q

FirstTwo(p, c) == p < c /\ \A q \in Procs : q <= c => q \in {p, c}

ProdInit ==
    /\ used = [s \in SemIndex |-> TRUE]
    /\ name = [s \in SemIndex |-> IF s = itemMutex THEN "itemMutex"
                                  ELSE IF s = fullCount THEN "fullCount"
                                  ELSE "emptyCount"]
    /\ queue = CleanQueues
    /\ semaphore = [s \in SemIndex |-> IF s = itemMutex THEN 1
                                       ELSE IF s = fullCount THEN 0
                                       ELSE bufferSize]
    /\ permits = semaphore
    /\ cardinalBlocked = [s \in SemIndex |-> 0]
    /\ pidCreator = [s \in SemIndex |-> NoPid]
    /\ semaphoreMutex = "free"
    /\ \E p, c \in Procs :
          /\ FirstTwo(p, c)
          /\ life = [q \in Procs |-> IF q \in {p, c} THEN "alive" ELSE "unborn"]
          /\ at = [q \in Procs |-> IF q = p THEN "produce"
                                   ELSE IF q = c THEN "waitFull" ELSE "new"]
          /\ producerPid = <<p>>
          /\ consumerPid = <<c>>
    /\ state = [p \in Procs |-> "READY"]
    /\ pc = [p \in Procs |-> "user"]
    /\ want = [p \in Procs |-> 0]
    /\ known = [p \in Procs |-> SemIndex]
    /\ broken = {}
    /\ item = [p \in Procs |-> 0]
    /\ i = 0
    /\ buffer = [k \in Position |-> 0]
    /\ r = 0 /\ w = 0
    /\ main = "control"
    /\ stored = 0
    /\ delivered = 0

Goto(p, from, to) ==
    /\ at[p] = from
    /\ at' = [at EXCEPT ![p] = to]

\* A step of the program that calls the kernel.
Call(p, from, to, A) ==
    /\ Goto(p, from, to)
    /\ A
    /\ UNCHANGED <<item, i, bufferVars, mainVars>>

WaitFor(p, s) == WaitPass(p, s) \/ WaitBlock(p, s)

\* The last signal of a round.
EndRound(p, from, to, s) ==
    /\ Goto(p, from, to)
    /\ Signal(p, s)
    /\ item' = [item EXCEPT ![p] = 0]
    /\ UNCHANGED <<i, bufferVars, mainVars>>

-----------------------------------------------------------------------------
(***************************************************************************)
(* The loop of a producer.                                                 *)
(***************************************************************************)

\* int item = i++ reads the counter that all producers share ...
Produce(p) ==
    /\ InProgram(p)
    /\ Goto(p, "produce", "count")
    /\ item' = [item EXCEPT ![p] = i]
    /\ UNCHANGED <<vars, i, bufferVars, mainVars>>

\* ... and writes it.
Count(p) ==
    /\ InProgram(p)
    /\ Goto(p, "count", "waitEmpty")
    /\ i' = (item[p] + 1) % CharRange
    /\ UNCHANGED <<vars, item, bufferVars, mainVars>>

WaitEmpty(p) == Call(p, "waitEmpty", "lockP", WaitFor(p, emptyCount))

\* Mutant: the producer does not wait for the item mutex.
NoLock(p) ==
    Call(p, "lockP", "store", InProgram(p) /\ UNCHANGED vars)

LockProducer(p) == Call(p, "lockP", "store", WaitFor(p, itemMutex))

\* insertItem stores at w ...
Store(p) ==
    /\ InProgram(p)
    /\ Goto(p, "store", "advanceW")
    /\ buffer' = [buffer EXCEPT ![w] = item[p]]
    /\ UNCHANGED <<vars, item, i, r, w, stored, delivered, mainVars>>

\* Mutant: the write position wraps too late.
AdvanceWPast(p) ==
    /\ InProgram(p)
    /\ Goto(p, "advanceW", "releaseP")
    /\ w' = (w + 1) % (bufferSize + 1)
    /\ stored' = stored + 1
    /\ UNCHANGED <<vars, item, i, buffer, r, delivered, mainVars>>

\* ... and moves w on.
AdvanceW(p) ==
    /\ InProgram(p)
    /\ Goto(p, "advanceW", "releaseP")
    /\ w' = (w + 1) % bufferSize
    /\ stored' = stored + 1
    /\ UNCHANGED <<vars, item, i, buffer, r, delivered, mainVars>>

ReleaseProducer(p) == Call(p, "releaseP", "signalFull", Signal(p, itemMutex))
SignalFull(p) == EndRound(p, "signalFull", "produce", fullCount)

\* Mutant: the producer takes the two semaphores in the other order.
ProducerLocksFirst(p) ==
    \/ Produce(p) \/ Count(p)
    \/ Call(p, "waitEmpty", "lockP", WaitFor(p, itemMutex))
    \/ Call(p, "lockP", "store", WaitFor(p, emptyCount))
    \/ Store(p) \/ AdvanceW(p) \/ ReleaseProducer(p) \/ SignalFull(p)

Producer(p) ==
    \/ Produce(p) \/ Count(p) \/ WaitEmpty(p) \/ LockProducer(p)
    \/ Store(p) \/ AdvanceW(p) \/ ReleaseProducer(p) \/ SignalFull(p)

-----------------------------------------------------------------------------
(***************************************************************************)
(* The loop of a consumer.                                                 *)
(***************************************************************************)

WaitFull(p) == Call(p, "waitFull", "lockC", WaitFor(p, fullCount))
LockConsumer(p) == Call(p, "lockC", "fetch", WaitFor(p, itemMutex))

\* Mutant: the item is read where the next one is to be written.
FetchAtW(p) ==
    /\ InProgram(p)
    /\ Goto(p, "fetch", "advanceR")
    /\ item' = [item EXCEPT ![p] = buffer[w]]
    /\ UNCHANGED <<vars, i, bufferVars, mainVars>>

\* removeItem reads at r ...
Fetch(p) ==
    /\ InProgram(p)
    /\ Goto(p, "fetch", "advanceR")
    /\ item' = [item EXCEPT ![p] = buffer[r]]
    /\ UNCHANGED <<vars, i, bufferVars, mainVars>>

\* ... and moves r on.
AdvanceR(p) ==
    /\ InProgram(p)
    /\ Goto(p, "advanceR", "releaseC")
    /\ r' = (r + 1) % bufferSize
    /\ stored' = stored - 1
    /\ delivered' = item[p]
    /\ UNCHANGED <<vars, item, i, buffer, w, mainVars>>

ReleaseConsumer(p) == Call(p, "releaseC", "signalEmpty", Signal(p, itemMutex))
SignalEmpty(p) == EndRound(p, "signalEmpty", "waitFull", emptyCount)

Consumer(p) ==
    \/ WaitFull(p) \/ LockConsumer(p) \/ Fetch(p)
    \/ AdvanceR(p) \/ ReleaseConsumer(p) \/ SignalEmpty(p)

-----------------------------------------------------------------------------
(***************************************************************************)
(* control(): the keys of the main program, and killAllProcesses.          *)
(***************************************************************************)

Start(p, label) ==
    /\ NextPid(p)
    /\ Create(p)
    /\ at' = [at EXCEPT ![p] = label]

KeyP(p) ==
    /\ main = "control"
    /\ Len(producerPid) + 1 <= MAX_PRODUCER
    /\ Start(p, "produce")
    /\ producerPid' = Append(producerPid, p)
    /\ UNCHANGED <<item, i, bufferVars, consumerPid, main>>

KeyC(p) ==
    /\ main = "control"
    /\ Len(consumerPid) + 1 <= MAX_CONSUMER
    /\ Start(p, "waitFull")
    /\ consumerPid' = Append(consumerPid, p)
    /\ UNCHANGED <<item, i, bufferVars, producerPid, main>>

Last(pids) == pids[Len(pids)]
Front(pids) == SubSeq(pids, 1, Len(pids) - 1)

KeyZ ==
    /\ main = "control"
    /\ producerPid # <<>>
    /\ Remove(Last(producerPid))
    /\ producerPid' = Front(producerPid)
    /\ UNCHANGED <<at, item, i, bufferVars, consumerPid, main>>

KeyX ==
    /\ main = "control"
    /\ consumerPid # <<>>
    /\ Remove(Last(consumerPid))
    /\ consumerPid' = Front(consumerPid)
    /\ UNCHANGED <<at, item, i, bufferVars, producerPid, main>>

KeyQ ==
    /\ main = "control"
    /\ main' = "quit"
    /\ UNCHANGED <<vars, at, item, i, bufferVars, producerPid, consumerPid>>

\* The pids that killAllProcesses has still to remove, in its order.
ToKill == producerPid \o consumerPid

KillNext ==
    /\ main = "quit"
    /\ ToKill # <<>>
    /\ Remove(Head(ToKill))
    /\ IF producerPid # <<>>
       THEN producerPid' = Tail(producerPid) /\ consumerPid' = consumerPid
       ELSE producerPid' = <<>> /\ consumerPid' = Tail(consumerPid)
    /\ UNCHANGED <<at, item, i, bufferVars, main>>

Quit ==
    /\ main = "quit"
    /\ ToKill = <<>>
    /\ main' = "ended"
    /\ UNCHANGED <<vars, at, item, i, bufferVars, producerPid, consumerPid>>

Control ==
    \/ \E p \in Procs : KeyP(p) \/ KeyC(p)
    \/ KeyZ \/ KeyX \/ KeyQ \/ KillNext \/ Quit

-----------------------------------------------------------------------------
Return(p) == WaitReturn(p) /\ UNCHANGED <<at, item, i, bufferVars, mainVars>>

Step(p) == Producer(p) \/ Consumer(p) \/ Return(p)

ProdNext == Control \/ \E p \in Procs : Step(p)

\* Every ready process is dispatched again and every sleep() ends; nobody need
\* press a key.
ProdSpec ==
    /\ ProdInit
    /\ [][ProdNext]_allVars
    /\ \A p \in Procs : WF_allVars(Step(p))

-----------------------------------------------------------------------------
(***************************************************************************)
(* Properties.                                                             *)
(***************************************************************************)

\* The type invariant of the program's variables.
ProdTypeOK ==
    /\ at \in [Procs -> Labels]
    /\ item \in [Procs -> Char]
    /\ i \in Char
    /\ buffer \in [Position -> Char]
    /\ r \in Position /\ w \in Position
    /\ stored \in 0..bufferSize
    /\ delivered \in Char

\* The semaphore itemMutex keeps all others out between its wait and its
\* signal, also while producers and consumers are killed.  (A process killed
\* in between keeps them out for ever.)
OneInside ==
    \A p, q \in Procs :
        /\ at[p] \in InCriticalSection /\ pc[p] = "user"
        /\ at[q] \in InCriticalSection /\ pc[q] = "user"
        => p = q

\* The array read from r on, as far as items are stored.
Contents == [k \in 1..stored |-> buffer[(r + k - 1) % bufferSize]]

Buffer == INSTANCE BoundedBuffer
    WITH Item <- Char, items <- Contents

\* The demo is a bounded queue: nothing is overwritten before it is read, read
\* twice, lost or read out of order, whoever is killed and whenever.
IsABoundedBuffer == Buffer!Spec

\* While nobody is killed, items are put in and taken out for ever: the three
\* semaphores never leave all processes waiting.
KeepsMoving ==
    [](\A p \in Procs : life[p] # "dead")
        => /\ []<>(\E p \in Procs : at[p] = "releaseP")
           /\ []<>(\E p \in Procs : at[p] = "releaseC")
=============================================================================
