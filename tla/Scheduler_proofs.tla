-------------------------- MODULE Scheduler_proofs --------------------------
(***************************************************************************)
(* Type correctness of the scheduler, and that only the process that       *)
(* executes is RUNNING, for any number of processes and threads, any sleep *)
(* table and also when interrupts hit a program that is ending.  Then the  *)
(* ring, for programs whose end is not interrupted, and the sleep table.   *)
(***************************************************************************)
EXTENDS Scheduler, SequenceTheorems, FiniteSetTheorems, WellFoundedInduction,
        TLAPS

-----------------------------------------------------------------------------
(***************************************************************************)
(* What the helpers return.                                                *)
(***************************************************************************)

\* A ring over the slots S: every slot of S is followed by one of S.
RingOver(nx, S) == nx \in [Pid -> Slot] /\ \A p \in S : nx[p] \in S

\* removeProcess writes one next pointer.
LEMMA UnlinkedRing ==
    ASSUME NEW nx, NEW S \in SUBSET Pid, RingOver(nx, S), NEW c, NEW card,
           NEW p \in S
    PROVE  RingOver(Unlinked(nx, c, card, p), S)
<1>1. ASSUME NEW w PROVE RingOver([nx EXCEPT ![w] = nx[p]], S)
  BY <1>1 DEF RingOver
<1> QED BY <1>1 DEF Unlinked

\* addProcess makes a ring over one more slot.
LEMMA InsertedRing ==
    ASSUME NEW nx, NEW S \in SUBSET Pid, RingOver(nx, S), NEW c \in S,
           NEW p \in Pid
    PROVE  RingOver(Inserted(nx, c, p), S \cup {p})
BY DEF RingOver, Inserted, Slot

LEMMA StateChangedType ==
    ASSUME state \in [Pid -> ProcessState], NEW p, NEW st \in ProcessState
    PROVE  StateChanged(p, st) \in [Pid -> ProcessState]
BY DEF StateChanged

LEMMA PreemptedType ==
    ASSUME NEW st \in [Pid -> ProcessState], NEW c
    PROVE  Preempted(st, c) \in [Pid -> ProcessState]
BY DEF Preempted, ProcessState

\* After schedule()'s first lines nobody is RUNNING, if only c was.
LEMMA PreemptedNone ==
    ASSUME NEW st \in [Pid -> ProcessState], NEW c \in Pid,
           \A p \in Pid : st[p] = "RUNNING" => p = c
    PROVE  \A p \in Pid : Preempted(st, c)[p] # "RUNNING"
BY DEF Preempted

LEMMA CountedType == ASSUME NEW n \in Nat PROVE Counted(n) \in Nat
BY DEF Counted

\* deleteSleep leaves a table of entries.
LEMMA DeletedType ==
    ASSUME NEW s \in Seq(Entry), NEW i \in 1..Len(s)
    PROVE  Deleted(s, i) \in Seq(Entry)
<1>1. Len(s) \in Nat /\ Len(s) \in 1..Len(s)
  BY LenProperties
<1>2. s[Len(s)] \in Entry
  BY <1>1, ElementOfSeq
<1> DEFINE t == [s EXCEPT ![i] = s[Len(s)]]
<1>3. \A j \in 1..(Len(s) - 1) : t[j] \in Entry
  BY <1>1, <1>2, ExceptSeq, ElementOfSeq
<1>4. SubSeq(t, 1, Len(s) - 1) \in Seq(Entry)
  <2> HIDE DEF t
  <2> QED BY <1>1, <1>3, SubSeqProperties
<1> QED BY <1>4 DEF Deleted
\* The pids of the slots.
LEMMA SlotsFacts ==
    ASSUME TypeOK
    PROVE  /\ Slots \subseteq Pid
           /\ INIT_PID \in Slots
           /\ current \in Slots /\ current \in Pid
           /\ RingOver(next, Slots)
<1>1. nextPid \in 2..(MaxPid + 1) /\ MaxPid \in Nat
  BY SizesAssumption DEF TypeOK
<1>2. Slots \subseteq Pid /\ INIT_PID \in Slots
  BY <1>1 DEF Slots, Pid, INIT_PID
<1>3. current \in Slots /\ RingOver(next, Slots)
  BY DEF TypeOK, RingOver
<1> QED BY <1>2, <1>3

\* One more slot.
LEMMA SlotsGrow ==
    ASSUME TypeOK, nextPid <= MaxPid, nextPid' = nextPid + 1
    PROVE  /\ nextPid' \in 2..(MaxPid + 1)
           /\ nextPid \in Pid
           /\ Slots' = Slots \cup {nextPid}
<1>1. nextPid \in 2..(MaxPid + 1) /\ MaxPid \in Nat
  BY SizesAssumption DEF TypeOK
<1>2. nextPid' \in 2..(MaxPid + 1) /\ nextPid \in Pid
  BY <1>1 DEF Pid
<1>3. Slots' = Slots \cup {nextPid}
  BY <1>1 DEF Slots
<1> QED BY <1>2, <1>3

-----------------------------------------------------------------------------
(***************************************************************************)
(* The invariant: the types and RunningIsCurrent together are inductive.   *)
(***************************************************************************)

Inv == TypeOK /\ RunningIsCurrent

LEMMA InitInv == Init => Inv
<1> SUFFICES ASSUME Init PROVE Inv
  OBVIOUS
<1>1. /\ 0 \in Pid /\ 1 \in Pid
      /\ Slots = {0, 1}
      /\ 0 \in Spot
  BY SizesAssumption DEF Init, Pid, Slots, Spot
<1>2. TypeOK
  <2>1. next \in [Pid -> Slot] /\ \A p \in Slots : next[p] \in Slots
    BY <1>1 DEF Init, INIT_PID, SHELL_PID, Slot
  <2>2. nextPid \in 2..(MaxPid + 1)
    BY SizesAssumption DEF Init
  <2>3. sleepers \in Seq(Entry)
    BY EmptySeq DEF Init
  <2> QED BY <1>1, <2>1, <2>2, <2>3
          DEF Init, TypeOK, INIT_PID, ProcessState, Mode, ExitPc
<1>3. RunningIsCurrent
  BY DEF Init, RunningIsCurrent
<1> QED BY <1>2, <1>3 DEF Inv

\* Steps that leave the ring, the number of slots and the sleep table alone.
LEMMA ScheduleInv ==
    ASSUME Inv, Schedule
    PROVE  Inv'
<1> USE DEF Inv
<1> DEFINE p == next[current]
<1>1. p \in Slots /\ p \in Pid
  BY SlotsFacts DEF RingOver
<1>2. /\ current' = p
      /\ UNCHANGED <<next, cardinal_processes, nextPid, thread, sleepers, auxj,
                     aux, exitVars, removed>>
      /\ \A q \in Pid : state[q] # "RUNNING"
  BY DEF Schedule, RunningIsCurrent
<1>3. CASE state[p] = "READY"
  <2>1. PICK t \in (IF mode = "tickSchedule" THEN NextThread(p)
                                             ELSE {activeThread[p]}) :
           /\ state' = [state EXCEPT ![p] = "RUNNING"]
           /\ activeThread' = [activeThread EXCEPT ![p] = t]
           /\ mode' = Resumed(p, t)
    BY <1>3 DEF Schedule
  <2>2. t \in Spot
    <3>1. activeThread[p] \in Spot
      BY <1>1 DEF TypeOK
    <3>2. \A k \in Nat : k % MAX_THREADS \in Spot
      BY SizesAssumption DEF Spot
    <3>3. \A i \in 1..MAX_THREADS : (activeThread[p] + i) % MAX_THREADS \in Spot
      BY <3>1, <3>2, SizesAssumption DEF Spot
    <3>4. ASSUME t \in NextThread(p) PROVE t \in Spot
      BY <3>3, <3>4 DEF NextThread, Smallest
    <3> QED BY <3>1, <3>4
  <2>3. mode' \in {"user", "wild"}
    BY <2>1 DEF Resumed
  <2>4. TypeOK'
    BY <1>1, <1>2, <2>1, <2>2, <2>3
       DEF TypeOK, Slots, ProcessState, Mode, exitVars
  <2>5. RunningIsCurrent'
    BY <1>1, <1>2, <2>1, <2>3 DEF RunningIsCurrent, TypeOK
  <2> QED BY <2>4, <2>5
<1>4. CASE state[p] # "READY"
  <2>1. UNCHANGED <<state, activeThread, mode>>
    BY <1>4 DEF Schedule
  <2> QED BY <1>1, <1>2, <2>1 DEF TypeOK, Slots, exitVars, RunningIsCurrent
<1> QED BY <1>3, <1>4

\* The tick's pass over the sleep table.
LEMMA TickInv ==
    ASSUME Inv, Tick \/ TickEntry \/ TickSwitch
    PROVE  Inv'
<1> USE DEF Inv
<1>1. CASE Tick
  <2>1. sleepers' \in Seq(Entry)
    <3> DEFINE e(i) == [sleepers[i] EXCEPT !.slept = Counted(@)]
    <3>1. ASSUME NEW i \in 1..Len(sleepers) PROVE e(i) \in Entry
      <4>1. sleepers[i] \in Entry
        BY ElementOfSeq DEF TypeOK
      <4> QED BY <4>1, CountedType DEF Entry
    <3>2. Len(sleepers) \in Nat
      BY LenProperties DEF TypeOK
    <3>3. [i \in 1..Len(sleepers) |-> e(i)] \in Seq(Entry)
      <4> HIDE DEF e
      <4> QED BY <3>1, <3>2
    <3> QED BY <1>1, <3>3 DEF Tick
  <2> QED BY <1>1, <2>1
          DEF Tick, TypeOK, Slots, exitVars, Mode, RunningIsCurrent, Interruptible
<1>2. CASE TickEntry
  <2>1. auxj + 1 \in 1..Len(sleepers) /\ auxj \in Nat
    BY <1>2, LenProperties DEF TickEntry, TypeOK
  <2>2. sleepers[auxj + 1] \in Entry
    BY <2>1, ElementOfSeq DEF TypeOK
  <2> DEFINE e == sleepers[auxj + 1]
             counter == Counted(e.counter)
  <2>3. counter \in Nat
    BY <2>2, CountedType DEF Entry
  <2>4. /\ sleepers' \in Seq(Entry) /\ auxj' \in Nat
        /\ state' \in [Pid -> ProcessState]
        /\ \A q \in Pid : state'[q] = "RUNNING" => state[q] = "RUNNING"
    <3>1. CASE counter = e.alarm
      <4>1. /\ state' = StateChanged(e.pid, "READY")
            /\ sleepers' = Deleted(sleepers, auxj + 1)
            /\ auxj' = auxj
        BY <1>2, <3>1 DEF TickEntry
      <4>2. sleepers' \in Seq(Entry)
        BY <2>1, <4>1, DeletedType DEF TypeOK
      <4>3. state' \in [Pid -> ProcessState]
        BY <4>1, StateChangedType DEF TypeOK, ProcessState
      <4>4. \A q \in Pid : state'[q] = "RUNNING" => state[q] = "RUNNING"
        BY <4>1 DEF StateChanged, TypeOK
      <4> QED BY <2>1, <4>1, <4>2, <4>3, <4>4
    <3>2. CASE counter # e.alarm
      <4>1. /\ sleepers' = [sleepers EXCEPT ![auxj + 1].counter = counter]
            /\ auxj' = auxj + 1
            /\ state' = state
        BY <1>2, <3>2 DEF TickEntry
      <4>2. [e EXCEPT !.counter = counter] \in Entry
        BY <2>2, <2>3 DEF Entry
      <4>3. [sleepers EXCEPT ![auxj + 1] = [e EXCEPT !.counter = counter]]
               \in Seq(Entry)
        BY <2>1, <4>2, ExceptSeq DEF TypeOK
      <4>4. sleepers' \in Seq(Entry)
        BY <4>1, <4>3
      <4> QED BY <2>1, <4>1, <4>4 DEF TypeOK
    <3> QED BY <3>1, <3>2
  <2> QED BY <1>2, <2>4
          DEF TickEntry, TypeOK, Slots, exitVars, RunningIsCurrent
<1>3. CASE TickSwitch
  <2>1. \A q \in Pid : state'[q] # "RUNNING"
    BY <1>3, PreemptedNone, SlotsFacts DEF TickSwitch, RunningIsCurrent, TypeOK
  <2>2. state' \in [Pid -> ProcessState]
    BY <1>3, PreemptedType DEF TickSwitch, TypeOK
  <2> QED BY <1>3, <2>1, <2>2
          DEF TickSwitch, TypeOK, Slots, exitVars, Mode, RunningIsCurrent
<1> QED BY <1>1, <1>2, <1>3
\* removeProcess from the kernel, on a ring nx over the slots S.
LEMMA RemoveProcessInv ==
    ASSUME Inv, NEW nx, NEW S \in SUBSET Pid, RingOver(nx, S),
           NEW card \in Int, NEW pid \in S, removed \subseteq S,
           RemoveProcess(nx, card, pid),
           mode \in {"user", "killAll"}
    PROVE  /\ RingOver(next', S)
           /\ cardinal_processes' \in Int
           /\ removed' \subseteq S
           /\ state' \in [Pid -> ProcessState]
           /\ mode' \in {"user", "yieldSchedule"}
           /\ \A q \in Pid : state'[q] = "RUNNING" => q = current
           /\ mode' = "yieldSchedule" => \A q \in Pid : state'[q] # "RUNNING"
<1>1. RingOver(next', S)
  BY UnlinkedRing DEF RemoveProcess
<1>2. state \in [Pid -> ProcessState] /\ current \in Pid
  BY SlotsFacts DEF Inv, TypeOK
<1>3. \A q \in Pid : state[q] = "RUNNING" => q = current
  BY DEF Inv, RunningIsCurrent
<1>4. /\ Preempted(state, current) \in [Pid -> ProcessState]
      /\ \A q \in Pid : Preempted(state, current)[q] # "RUNNING"
  BY <1>2, <1>3, PreemptedType, PreemptedNone
<1>5. \/ mode' = "yieldSchedule" /\ state' = Preempted(state, current)
      \/ mode' = "user" /\ state' = state
  BY DEF RemoveProcess
<1>6. cardinal_processes' \in Int /\ removed' \subseteq S
  BY DEF RemoveProcess
<1> QED BY <1>1, <1>2, <1>3, <1>4, <1>5, <1>6

\* kill, and a general protection fault.
LEMMA KillInv ==
    ASSUME Inv, NEW pid, Kill(pid)
    PROVE  Inv'
<1>1. /\ pid \in Slots /\ mode = "user"
      /\ RemoveProcess(next, cardinal_processes, pid)
      /\ UNCHANGED <<current, nextPid, thread, activeThread, sleepers, auxj, aux,
                     exitVars>>
  BY DEF Kill, InProgram
<1>2. Slots' = Slots
  BY <1>1 DEF Slots
<1>3. /\ RingOver(next', Slots)
      /\ cardinal_processes' \in Int
      /\ removed' \subseteq Slots
      /\ state' \in [Pid -> ProcessState]
      /\ mode' \in {"user", "yieldSchedule"}
      /\ \A q \in Pid : state'[q] = "RUNNING" => q = current
      /\ mode' = "yieldSchedule" => \A q \in Pid : state'[q] # "RUNNING"
  BY <1>1, RemoveProcessInv, SlotsFacts DEF Inv, TypeOK
<1>4. TypeOK'
  BY <1>1, <1>2, <1>3 DEF Inv, TypeOK, RingOver, Mode, exitVars
<1>5. RunningIsCurrent'
  BY <1>1, <1>3 DEF RunningIsCurrent
<1> QED BY <1>4, <1>5 DEF Inv

\* runC, a page fault and the end of restartSHELL: one slot more, one removed.
LEMMA RunProgramInv ==
    ASSUME Inv, RunProgram, mode \in {"user", "killAll"},
           UNCHANGED <<current, thread, activeThread, sleepers, auxj, aux,
                       exitVars>>
    PROVE  Inv'
<1>1. nextPid <= MaxPid /\ nextPid' = nextPid + 1
  BY DEF RunProgram
<1>2. /\ nextPid' \in 2..(MaxPid + 1)
      /\ nextPid \in Pid
      /\ Slots' = Slots \cup {nextPid}
  BY <1>1, SlotsGrow DEF Inv
<1>3. /\ Slots \subseteq Pid /\ current \in Slots /\ current \in Pid
      /\ RingOver(next, Slots)
  BY SlotsFacts DEF Inv
<1>4. RingOver(Inserted(next, current, nextPid), Slots')
  BY <1>2, <1>3, InsertedRing
<1>5. /\ removed \subseteq Slots /\ cardinal_processes + 1 \in Int
  BY DEF Inv, TypeOK
<1>6. RemoveProcess(Inserted(next, current, nextPid), cardinal_processes + 1,
                    current)
  BY DEF RunProgram
<1>7. /\ RingOver(next', Slots')
      /\ cardinal_processes' \in Int
      /\ removed' \subseteq Slots'
      /\ state' \in [Pid -> ProcessState]
      /\ mode' \in {"user", "yieldSchedule"}
      /\ \A q \in Pid : state'[q] = "RUNNING" => q = current
      /\ mode' = "yieldSchedule" => \A q \in Pid : state'[q] # "RUNNING"
  <2>1. Slots' \in SUBSET Pid /\ current \in Slots' /\ removed \subseteq Slots'
    BY <1>2, <1>3, <1>5
  <2> QED BY <1>4, <1>5, <1>6, <2>1, RemoveProcessInv
<1>8. TypeOK'
  <2>1. exitSlot' \in [Pid -> Slots'] /\ aux' \in Slots' /\ current' \in Slots'
    BY <1>2, <1>3 DEF Inv, TypeOK, exitVars
  <2> QED BY <1>2, <1>7, <2>1 DEF Inv, TypeOK, RingOver, Mode, exitVars
<1>9. RunningIsCurrent'
  BY <1>7 DEF RunningIsCurrent
<1> QED BY <1>8, <1>9 DEF Inv

LEMMA CreateProcessInv ==
    ASSUME Inv, CreateProcess
    PROVE  Inv'
<1>1. /\ nextPid <= MaxPid /\ nextPid' = nextPid + 1
      /\ next' = Inserted(next, current, nextPid)
      /\ cardinal_processes' = cardinal_processes + 1
      /\ UNCHANGED <<current, state, thread, activeThread, sleepers, auxj, aux,
                     mode, exitVars, removed>>
  BY DEF CreateProcess
<1>2. /\ nextPid' \in 2..(MaxPid + 1)
      /\ nextPid \in Pid
      /\ Slots' = Slots \cup {nextPid}
  BY <1>1, SlotsGrow DEF Inv
<1>3. RingOver(next', Slots')
  BY <1>1, <1>2, InsertedRing, SlotsFacts DEF Inv
<1>4. TypeOK'
  <2>1. /\ exitSlot' \in [Pid -> Slots'] /\ aux' \in Slots'
        /\ current' \in Slots' /\ removed' \subseteq Slots'
    BY <1>1, <1>2 DEF Inv, TypeOK, exitVars
  <2> QED BY <1>1, <1>2, <1>3, <2>1 DEF Inv, TypeOK, RingOver, exitVars
<1>5. RunningIsCurrent'
  BY <1>1 DEF Inv, RunningIsCurrent
<1> QED BY <1>4, <1>5 DEF Inv

LEMMA SleepInv ==
    ASSUME Inv, NEW time \in SleepTimes, Sleep(time)
    PROVE  Inv'
<1>1. current \in Pid /\ mode = "user"
  BY SlotsFacts DEF Inv, Sleep, InProgram
<1>2. sleepers' \in Seq(Entry)
  <2>1. [pid |-> current, counter |-> 0, alarm |-> time, slept |-> 0] \in Entry
    BY <1>1 DEF Entry
  <2> QED BY <2>1, AppendProperties DEF Sleep, Inv, TypeOK
<1> DEFINE st == StateChanged(current, "SLEEPING")
<1>3. st \in [Pid -> ProcessState]
  BY StateChangedType DEF Inv, TypeOK, ProcessState
<1>4. \A q \in Pid : st[q] = "RUNNING" => q = current
  BY DEF Inv, RunningIsCurrent, StateChanged, TypeOK
<1>5. /\ state' \in [Pid -> ProcessState]
      /\ \A q \in Pid : state'[q] # "RUNNING"
  <2>1. state' = Preempted(st, current)
    BY DEF Sleep
  <2> HIDE DEF st
  <2> QED BY <1>1, <1>3, <1>4, <2>1, PreemptedType, PreemptedNone
<1>6. TypeOK'
  BY <1>2, <1>5 DEF Inv, Sleep, TypeOK, Slots, Mode, exitVars
<1>7. RunningIsCurrent'
  BY <1>5 DEF RunningIsCurrent
<1> QED BY <1>6, <1>7 DEF Inv

LEMMA ThreadInv ==
    ASSUME Inv, CreateThread \/ ExitThread
    PROVE  Inv'
<1>1. current \in Pid
  BY SlotsFacts DEF Inv
<1>2. CASE CreateThread
  <2>1. thread' \in [Pid -> SUBSET Spot]
    <3>1. 0..(ThreadDim - 1) \subseteq Spot
      BY SizesAssumption DEF Spot
    <3>2. \/ thread' = thread
          \/ \E i \in Spot : thread' = [thread EXCEPT ![current] = @ \cup {i}]
      BY <1>2, <3>1 DEF CreateThread, Smallest
    <3>3. ASSUME NEW i \in Spot, thread' = [thread EXCEPT ![current] = @ \cup {i}]
          PROVE  thread' \in [Pid -> SUBSET Spot]
      <4>1. thread \in [Pid -> SUBSET Spot]
        BY DEF Inv, TypeOK
      <4>2. thread[current] \cup {i} \in SUBSET Spot
        BY <1>1, <4>1
      <4> QED BY <1>1, <3>3, <4>1, <4>2
    <3> QED BY <3>2, <3>3 DEF Inv, TypeOK
  <2> QED BY <1>2, <2>1
          DEF CreateThread, Inv, TypeOK, Slots, exitVars, RunningIsCurrent
<1>3. CASE ExitThread
  <2>1. thread' \in [Pid -> SUBSET Spot]
    BY <1>1, <1>3 DEF ExitThread, Inv, TypeOK
  <2>2. /\ state' \in [Pid -> ProcessState]
        /\ \A q \in Pid : state'[q] # "RUNNING"
    BY <1>1, <1>3, PreemptedType, PreemptedNone
       DEF ExitThread, Inv, TypeOK, RunningIsCurrent
  <2>3. mode' \in {"yieldSchedule", "wild"}
    BY <1>3 DEF ExitThread
  <2> QED BY <1>3, <2>1, <2>2, <2>3
          DEF ExitThread, Inv, TypeOK, Slots, Mode, exitVars, RunningIsCurrent
<1> QED BY <1>2, <1>3

\* callProcess's removal of its own process.
LEMMA ExitInv ==
    ASSUME Inv, ExitStart \/ Exit
    PROVE  Inv'
<1>1. /\ current \in Pid /\ current \in Slots /\ Slots \subseteq Pid
      /\ RingOver(next, Slots)
  BY SlotsFacts DEF Inv
<1>2. /\ exitPc \in [Pid -> ExitPc] /\ exitPrev \in [Pid -> Pid]
      /\ exitSlot \in [Pid -> Slots] /\ exitI \in [Pid -> Nat]
  BY DEF Inv, TypeOK
<1>3. exitSlot[current] \in Slots /\ next[exitSlot[current]] \in Slots
      /\ next[current] \in Slots
  BY <1>1, <1>2 DEF RingOver
<1>4. CASE ExitStart
  BY <1>1, <1>2, <1>3, <1>4
     DEF ExitStart, Inv, TypeOK, Slots, ExitPc, RunningIsCurrent
<1>5. CASE ExitSearch
  <2>1. /\ exitPc' \in [Pid -> ExitPc] /\ exitPrev' \in [Pid -> Pid]
        /\ exitSlot' \in [Pid -> Slots] /\ exitI' \in [Pid -> Nat]
    BY <1>1, <1>2, <1>3, <1>5 DEF ExitSearch, ExitPc
  <2> QED BY <1>5, <2>1 DEF ExitSearch, Inv, TypeOK, Slots, RunningIsCurrent
<1>6. CASE ExitUnlink
  <2>1. RingOver(next', Slots)
    BY <1>1, <1>2, <1>3, <1>6 DEF ExitUnlink, RingOver
  <2>2. removed' \subseteq Slots /\ exitPc' \in [Pid -> ExitPc]
    BY <1>2, <1>3, <1>6 DEF ExitUnlink, Inv, TypeOK, ExitPc
  <2> QED BY <1>6, <2>1, <2>2
          DEF ExitUnlink, Inv, TypeOK, Slots, RunningIsCurrent, RingOver
<1>7. CASE ExitCount
  <2>1. cardinal_processes' \in Int
    BY <1>7 DEF ExitCount, Inv, TypeOK
  <2>2. exitPc' \in [Pid -> ExitPc]
    BY <1>2, <1>7 DEF ExitCount, ExitPc
  <2> QED BY <1>7, <2>1, <2>2 DEF ExitCount, Inv, TypeOK, Slots, RunningIsCurrent
<1>8. CASE ExitYield
  <2>0. state' = Preempted(state, current) /\ mode = "user"
    BY <1>8 DEF ExitYield, AtExit
  <2>1. /\ state' \in [Pid -> ProcessState]
        /\ \A q \in Pid : state'[q] # "RUNNING"
    BY <1>1, <2>0, PreemptedType, PreemptedNone DEF Inv, TypeOK, RunningIsCurrent
  <2>2. exitPc' \in [Pid -> ExitPc]
    BY <1>2, <1>8 DEF ExitYield, ExitPc
  <2> QED BY <1>8, <2>1, <2>2
          DEF ExitYield, Inv, TypeOK, Slots, Mode, RunningIsCurrent
<1> QED BY <1>4, <1>5, <1>6, <1>7, <1>8 DEF Exit

\* Shift+F1: killAllExceptCurrent.
LEMMA KillAllInv ==
    ASSUME Inv, RestartShell \/ KillAllStep \/ KillAllEnd
    PROVE  Inv'
<1>1. /\ current \in Slots /\ Slots \subseteq Pid /\ RingOver(next, Slots)
  BY SlotsFacts DEF Inv
<1>2. CASE RestartShell
  <2>1. next[current] \in Slots
    BY <1>1 DEF RingOver
  <2> QED BY <1>2, <2>1
          DEF RestartShell, Inv, TypeOK, Slots, Mode, exitVars, RunningIsCurrent,
              Interruptible
<1>3. CASE KillAllStep
  <2>1. aux \in Slots /\ removed \subseteq Slots
    BY DEF Inv, TypeOK
  <2>2. RingOver(next', Slots)
    BY <1>1, <1>3, <2>1, UnlinkedRing DEF KillAllStep
  <2>3. /\ aux' \in Slots /\ removed' \subseteq Slots
        /\ cardinal_processes' \in Int
    BY <1>3, <2>1, <2>2 DEF KillAllStep, RingOver, Inv, TypeOK
  <2>4. UNCHANGED <<current, state, nextPid, thread, activeThread, sleepers,
                    auxj, mode, exitVars>>
    BY <1>3 DEF KillAllStep
  <2> QED BY <2>2, <2>3, <2>4
          DEF Inv, TypeOK, Slots, RingOver, exitVars, RunningIsCurrent
<1>4. CASE KillAllEnd
  BY <1>4, RunProgramInv DEF KillAllEnd
<1> QED BY <1>2, <1>3, <1>4

LEMMA NextInv ==
    ASSUME Inv, [Next]_vars
    PROVE  Inv'
<1>1. CASE Kernel
  BY <1>1, ScheduleInv, TickInv, KillAllInv DEF Kernel
<1>2. CASE Tick \/ RestartShell
  BY <1>2, TickInv, KillAllInv
<1>3. CASE Program
  <2>1. ASSUME RunC PROVE Inv'
    BY <2>1, RunProgramInv DEF RunC, InProgram
  <2>2. ASSUME GPFault PROVE Inv'
    BY <2>2, KillInv DEF GPFault
  <2> QED BY <1>3, <2>1, <2>2, CreateProcessInv, ThreadInv, ExitInv, KillInv,
             SleepInv DEF Program
<1>4. CASE Wild \/ UNCHANGED vars
  BY <1>4 DEF Wild, vars, Inv, TypeOK, Slots, exitVars, RunningIsCurrent
<1> QED BY <1>1, <1>2, <1>3, <1>4 DEF Next

\* Every variable of the scheduler has its type and every next pointer leads
\* to a slot that exists, also when ending programs are interrupted.
THEOREM TypeCorrect == Spec => []TypeOK
<1>1. Inv => TypeOK
  BY DEF Inv
<1> QED BY <1>1, InitInv, NextInv, PTL DEF Spec

\* No process but the one that executes is ever RUNNING, and none is while
\* schedule() looks for the next: also when ending programs are interrupted.
THEOREM OneRunning == Spec => []RunningIsCurrent
<1>1. Inv => RunningIsCurrent
  BY DEF Inv
<1> QED BY <1>1, InitInv, NextInv, PTL DEF Spec

-----------------------------------------------------------------------------
(***************************************************************************)
(* The ring of processes and the sleep table of the scheduler, for any     *)
(* number of processes, as long as no interrupt hits a program that is     *)
(* ending (with InterruptExit the ring does break: run exit_race).         *)
(*                                                                         *)
(* The walks of the model are recursive functions.  What they find is      *)
(* proved by induction, which is set up here from the well-foundedness of  *)
(* the natural numbers: the induction rules of the library have an operator*)
(* parameter, a set serves as well.                                        *)
(***************************************************************************)

\* A set of numbers that is not empty has a least one.
LEMMA LeastNumber ==
    ASSUME NEW T \in SUBSET Nat, T # {}
    PROVE  \E x \in T : \A y \in T : x <= y
<1>1. IsWellFoundedOn(OpToRel(<, Nat), Nat)
  BY NatLessThanWellFounded
<1>2. PICK x \in T : \A y \in T : ~(<<y, x>> \in OpToRel(<, Nat))
  BY <1>1, WFMin
<1>3. \A y \in T : ~(y < x)
  BY <1>2 DEF OpToRel
<1> QED BY <1>3

\* Induction, on a set.
LEMMA SetInduction ==
    ASSUME NEW S, 0 \in S, \A n \in Nat : n \in S => n + 1 \in S
    PROVE  \A n \in Nat : n \in S
<1> DEFINE T == Nat \ S
<1> SUFFICES ASSUME T # {} PROVE FALSE
  OBVIOUS
<1>1. PICK x \in T : \A y \in T : x <= y
  BY LeastNumber
<1>2. x # 0 /\ x - 1 \in Nat /\ x - 1 \notin T
  BY <1>1
<1> QED BY <1>2

-----------------------------------------------------------------------------
(***************************************************************************)
(* What Walk computes.                                                     *)
(***************************************************************************)

\* g are the first N steps of the walk.
IsWalk(g, nx, c, N) == g = [k \in 0..N |-> IF k = 0 THEN c ELSE nx[g[k - 1]]]

LEMMA WalkExists ==
    ASSUME NEW nx, NEW c, NEW N \in Nat
    PROVE  \E g : IsWalk(g, nx, c, N)
<1> DEFINE S == { n \in Nat : \E g : IsWalk(g, nx, c, n) }
<1>1. 0 \in S
  <2> DEFINE g == [k \in 0..0 |-> c]
  <2>1. g = [k \in 0..0 |-> IF k = 0 THEN c ELSE nx[g[k - 1]]]
    OBVIOUS
  <2>2. IsWalk(g, nx, c, 0)
    BY <2>1 DEF IsWalk
  <2> QED BY <2>2
<1>2. ASSUME NEW n \in Nat, n \in S PROVE n + 1 \in S
  <2>1. PICK g : g = [k \in 0..n |-> IF k = 0 THEN c ELSE nx[g[k - 1]]]
    BY <1>2 DEF IsWalk
  <2> DEFINE h == [k \in 0..(n + 1) |-> IF k = n + 1 THEN nx[g[n]] ELSE g[k]]
  <2>2. ASSUME NEW k \in 0..(n + 1) PROVE h[k] = IF k = 0 THEN c ELSE nx[h[k - 1]]
    <3>1. CASE k = n + 1
      BY <3>1
    <3>2. CASE k # n + 1
      <4>1. k \in 0..n
        BY <3>2
      <4>2. g[k] = IF k = 0 THEN c ELSE nx[g[k - 1]]
        BY <2>1, <4>1
      <4> QED BY <4>1, <4>2
    <3> QED BY <3>1, <3>2
  <2>3. h = [k \in 0..(n + 1) |-> h[k]]
    OBVIOUS
  <2> HIDE DEF h
  <2>4. h = [k \in 0..(n + 1) |-> IF k = 0 THEN c ELSE nx[h[k - 1]]]
    BY <2>2, <2>3
  <2>5. IsWalk(h, nx, c, n + 1)
    BY <2>4 DEF IsWalk
  <2> QED BY <2>5
<1>3. N \in S
  <2> HIDE DEF S
  <2> QED BY <1>1, <1>2, SetInduction
<1> QED BY <1>3

LEMMA WalkSteps ==
    ASSUME NEW nx, NEW c
    PROVE  /\ Walk(nx, c)[0] = c
           /\ \A k \in 0..(MaxPid + 1) : Walk(nx, c)[k + 1] = nx[Walk(nx, c)[k]]
<1>1. MaxPid \in Nat
  BY SizesAssumption
<1>2. \E g : g = [k \in 0..(MaxPid + 2) |-> IF k = 0 THEN c ELSE nx[g[k - 1]]]
  <2> DEFINE N == MaxPid + 2
  <2>1. N \in Nat
    BY <1>1
  <2>2. \E g : IsWalk(g, nx, c, N)
    BY <2>1, WalkExists
  <2> QED BY <2>2 DEF IsWalk
<1>3. Walk(nx, c) = [k \in 0..(MaxPid + 2) |->
                        IF k = 0 THEN c ELSE nx[Walk(nx, c)[k - 1]]]
  BY <1>2 DEF Walk
<1> DEFINE W == Walk(nx, c)
<1> HIDE DEF W
<1>4. W = [k \in 0..(MaxPid + 2) |-> IF k = 0 THEN c ELSE nx[W[k - 1]]]
  BY <1>3 DEF W
<1>5. W[0] = c
  BY <1>1, <1>4
<1>6. ASSUME NEW k \in 0..(MaxPid + 1) PROVE W[k + 1] = nx[W[k]]
  <2>1. k + 1 \in 0..(MaxPid + 2) /\ k + 1 # 0 /\ (k + 1) - 1 = k
    BY <1>1
  <2> QED BY <1>4, <2>1
<1> QED BY <1>5, <1>6 DEF W

-----------------------------------------------------------------------------
(***************************************************************************)
(* Rings: f lists the n processes of S, from c on, in the order of nx.     *)
(***************************************************************************)

Ring(f, nx, c, n, S) ==
    /\ n \in Nat \ {0}
    /\ f \in [0..(n - 1) -> S]
    /\ f[0] = c
    /\ \A k \in 0..(n - 1) : nx[f[k]] = IF k = n - 1 THEN c ELSE f[k + 1]
    /\ \A j, k \in 0..(n - 1) : f[j] = f[k] => j = k
    /\ \A p \in S : \E k \in 0..(n - 1) : f[k] = p

IsRing(nx, c, n, S) == \E f \in [0..(n - 1) -> S] : Ring(f, nx, c, n, S)

\* A ring has as many slots as processes.
LEMMA RingCard ==
    ASSUME NEW f, NEW nx, NEW c, NEW n, NEW S \in SUBSET Pid, Ring(f, nx, c, n, S)
    PROVE  /\ IsFiniteSet(S) /\ Cardinality(S) = n
           /\ n <= MaxPid + 1
           /\ \A x \in Pid : x \notin S => n <= MaxPid
<1>1. n \in Nat \ {0} /\ MaxPid \in Nat
  BY SizesAssumption DEF Ring
<1>2. IsFiniteSet(0..(n - 1)) /\ Cardinality(0..(n - 1)) = n
  BY <1>1, FS_Interval
<1>3. f \in Bijection(0..(n - 1), S)
  BY DEF Ring, Bijection, Injection, Surjection, IsInjective
<1>4. IsFiniteSet(S) /\ Cardinality(S) = n
  BY <1>2, <1>3, FS_Bijection DEF ExistsBijection
<1>5. IsFiniteSet(Pid) /\ Cardinality(Pid) = MaxPid + 1
  BY <1>1, FS_Interval DEF Pid
<1>6. n <= MaxPid + 1
  BY <1>4, <1>5, FS_Subset
<1>7. ASSUME NEW x \in Pid, x \notin S PROVE n <= MaxPid
  <2>1. Cardinality(S) # Cardinality(Pid)
    BY <1>5, <1>7, FS_Subset
  <2> QED BY <1>1, <1>4, <1>5, <1>6, <2>1
<1> QED BY <1>4, <1>6, <1>7

\* Walk goes round it.
GoesRound(w, f, c, n) == (\A k \in 0..(n - 1) : w[k] = f[k]) /\ w[n] = c

LEMMA RingWalk ==
    ASSUME NEW f, NEW nx, NEW c, NEW n, NEW S \in SUBSET Pid, Ring(f, nx, c, n, S)
    PROVE  GoesRound(Walk(nx, c), f, c, n)
<1>1. n \in Nat \ {0} /\ MaxPid \in Nat /\ n <= MaxPid + 1
  <2>1. n <= MaxPid + 1
    BY RingCard
  <2> QED BY <2>1, SizesAssumption DEF Ring
<1> DEFINE W == Walk(nx, c)
           T == { k \in Nat : k <= n - 1 => W[k] = f[k] }
<1>2. W[0] = c /\ \A k \in 0..(MaxPid + 1) : W[k + 1] = nx[W[k]]
  BY WalkSteps
<1> HIDE DEF W
<1>3. 0 \in T
  BY <1>1, <1>2 DEF Ring
<1>4. ASSUME NEW k \in Nat, k \in T PROVE k + 1 \in T
  <2> SUFFICES ASSUME k + 1 <= n - 1 PROVE W[k + 1] = f[k + 1]
    OBVIOUS
  <2>1. k \in 0..(n - 1) /\ k # n - 1 /\ k \in 0..(MaxPid + 1)
    BY <1>1
  <2>2. W[k] = f[k] /\ W[k + 1] = nx[W[k]]
    BY <1>2, <1>4, <2>1
  <2>3. nx[f[k]] = f[k + 1]
    BY <2>1 DEF Ring
  <2> QED BY <2>2, <2>3
<1>5. \A k \in Nat : k \in T
  <2> HIDE DEF T
  <2> QED BY <1>3, <1>4, SetInduction
<1>6. \A k \in 0..(n - 1) : W[k] = f[k]
  BY <1>1, <1>5
<1>7. W[n] = c
  <2>1. n - 1 \in 0..(n - 1) /\ n - 1 \in 0..(MaxPid + 1) /\ (n - 1) + 1 = n
    BY <1>1
  <2>2. W[(n - 1) + 1] = nx[W[n - 1]]
    BY <1>2, <2>1
  <2>3. nx[f[n - 1]] = c
    BY <2>1 DEF Ring
  <2> QED BY <1>6, <2>1, <2>2, <2>3
<1> QED BY <1>6, <1>7 DEF W, GoesRound

\* schedule() moves on: the same ring from the next slot.
LEMMA RingRotates ==
    ASSUME NEW nx, NEW c, NEW n, NEW S, IsRing(nx, c, n, S)
    PROVE  IsRing(nx, nx[c], n, S) /\ c \in S /\ nx[c] \in S
<1>1. PICK f \in [0..(n - 1) -> S] : Ring(f, nx, c, n, S)
  BY DEF IsRing
<1>2. n \in Nat \ {0} /\ 0 \in 0..(n - 1)
  BY <1>1 DEF Ring
<1> DEFINE g == [k \in 0..(n - 1) |-> IF k = n - 1 THEN c ELSE f[k + 1]]
<1>3. c \in S
  BY <1>1, <1>2 DEF Ring
<1>4. g \in [0..(n - 1) -> S]
  BY <1>1, <1>2, <1>3
<1>5. g[0] = nx[c]
  BY <1>1, <1>2 DEF Ring
<1>6. ASSUME NEW k \in 0..(n - 1)
      PROVE  nx[g[k]] = IF k = n - 1 THEN nx[c] ELSE g[k + 1]
  BY <1>1, <1>2 DEF Ring
<1>7. ASSUME NEW j \in 0..(n - 1), NEW k \in 0..(n - 1), g[j] = g[k]
      PROVE  j = k
  BY <1>1, <1>2, <1>7 DEF Ring
<1>8. ASSUME NEW p \in S PROVE \E k \in 0..(n - 1) : g[k] = p
  <2>1. PICK k \in 0..(n - 1) : f[k] = p
    BY <1>1 DEF Ring
  <2>2. CASE k = 0
    <3>1. n - 1 \in 0..(n - 1) /\ g[n - 1] = p
      BY <1>1, <1>2, <2>1, <2>2 DEF Ring
    <3> QED BY <3>1
  <2>3. CASE k # 0
    <3>1. k - 1 \in 0..(n - 1) /\ g[k - 1] = p
      BY <1>2, <2>1, <2>3
    <3> QED BY <3>1
  <2> QED BY <2>2, <2>3
<1> HIDE DEF g
<1>9. Ring(g, nx, nx[c], n, S)
  BY <1>2, <1>4, <1>5, <1>6, <1>7, <1>8 DEF Ring
<1>10. nx[c] \in S
  BY <1>2, <1>4, <1>5
<1> QED BY <1>3, <1>4, <1>9, <1>10 DEF IsRing

\* addProcess: a ring with one slot more.
LEMMA RingInserts ==
    ASSUME NEW nx \in [Pid -> Slot], NEW c, NEW n, NEW S \in SUBSET Pid,
           IsRing(nx, c, n, S), NEW p \in Pid, p \notin S
    PROVE  IsRing(Inserted(nx, c, p), c, n + 1, S \cup {p})
<1>1. PICK f \in [0..(n - 1) -> S] : Ring(f, nx, c, n, S)
  BY DEF IsRing
<1>2. n \in Nat \ {0} /\ 0 \in 0..(n - 1)
  BY <1>1 DEF Ring
<1>3. c \in S /\ c # p /\ c \in Pid
  BY <1>1, <1>2 DEF Ring
<1> DEFINE ny == Inserted(nx, c, p)
           m == n + 1
           g == [k \in 0..n |-> IF k = 0 THEN c ELSE IF k = 1 THEN p ELSE f[k - 1]]
<1>4. /\ ny[c] = p /\ ny[p] = nx[c]
      /\ \A q \in S : q # c => ny[q] = nx[q]
  BY <1>3 DEF Inserted
<1>5. g \in [0..n -> S \cup {p}] /\ g[0] = c /\ g[1] = p
  BY <1>1, <1>2, <1>3
<1>6. \A k \in 0..n : k # 0 /\ k # 1 => g[k] = f[k - 1] /\ k - 1 \in 0..(n - 1)
  BY <1>2
<1> HIDE DEF ny, g
<1>7. ASSUME NEW k \in 0..n PROVE ny[g[k]] = IF k = n THEN c ELSE g[k + 1]
  <2>1. CASE k = 0
    BY <1>2, <1>4, <1>5, <2>1
  <2>2. CASE k = 1
    <3>1. nx[c] = IF n = 1 THEN c ELSE f[1]
      BY <1>1, <1>2 DEF Ring
    <3>2. n # 1 => g[2] = f[1]
      BY <1>2, <1>6
    <3> QED BY <1>2, <1>4, <1>5, <2>2, <3>1, <3>2
  <2>3. CASE k # 0 /\ k # 1
    <3>1. g[k] = f[k - 1] /\ k - 1 \in 0..(n - 1) /\ k - 1 # 0
      BY <1>6, <2>3
    <3>2. f[k - 1] \in S /\ f[k - 1] # c
      BY <1>1, <1>2, <3>1 DEF Ring
    <3>3. nx[f[k - 1]] = IF k - 1 = n - 1 THEN c ELSE f[(k - 1) + 1]
      BY <1>1, <3>1 DEF Ring
    <3>4. k # n => g[k + 1] = f[k]
      BY <1>2, <1>6, <2>3
    <3> QED BY <1>2, <1>4, <3>1, <3>2, <3>3, <3>4
  <2> QED BY <2>1, <2>2, <2>3
<1>8. ASSUME NEW j \in 0..n, NEW k \in 0..n, g[j] = g[k] PROVE j = k
  <2>1. \A i \in 0..n : i # 0 /\ i # 1 => g[i] \in S /\ g[i] # c /\ g[i] # p
    BY <1>1, <1>2, <1>6 DEF Ring
  <2>2. CASE j \in {0, 1} \/ k \in {0, 1}
    BY <1>3, <1>5, <1>8, <2>1, <2>2
  <2>3. CASE j \notin {0, 1} /\ k \notin {0, 1}
    <3>1. f[j - 1] = f[k - 1] /\ j - 1 \in 0..(n - 1) /\ k - 1 \in 0..(n - 1)
      BY <1>6, <1>8, <2>3
    <3>2. j - 1 = k - 1
      BY <1>1, <3>1 DEF Ring
    <3> QED BY <3>2
  <2> QED BY <2>2, <2>3
<1>9. ASSUME NEW q \in S \cup {p} PROVE \E k \in 0..n : g[k] = q
  <2>1. CASE q = p
    BY <1>2, <1>5, <2>1
  <2>2. CASE q \in S
    <3>1. PICK k \in 0..(n - 1) : f[k] = q
      BY <1>1, <2>2 DEF Ring
    <3>2. CASE k = 0
      BY <1>1, <1>2, <1>5, <3>1, <3>2 DEF Ring
    <3>3. CASE k # 0
      <4>1. k + 1 \in 0..n /\ g[k + 1] = f[k]
        BY <1>2, <1>6, <3>3
      <4> QED BY <3>1, <4>1
    <3> QED BY <3>2, <3>3
  <2> QED BY <2>1, <2>2
<1>10. n + 1 \in Nat \ {0} /\ (n + 1) - 1 = n
  BY <1>2
<1>11. Ring(g, ny, c, n + 1, S \cup {p})
  BY <1>5, <1>7, <1>8, <1>9, <1>10 DEF Ring
<1>12. IsRing(ny, c, n + 1, S \cup {p})
  BY <1>5, <1>10, <1>11 DEF IsRing
<1> QED BY <1>12 DEF ny

\* removeProcess: a ring with one slot less, if the predecessor of the slot is
\* the one that is written.
LEMMA RingRemoves ==
    ASSUME NEW nx \in [Pid -> Slot], NEW c, NEW n, NEW S \in SUBSET Pid,
           IsRing(nx, c, n, S), NEW p \in S, p # c, NEW q \in S, nx[q] = p
    PROVE  IsRing([nx EXCEPT ![q] = nx[p]], c, n - 1, S \ {p})
<1>1. PICK f \in [0..(n - 1) -> S] : Ring(f, nx, c, n, S)
  BY DEF IsRing
<1>2. n \in Nat \ {0} /\ 0 \in 0..(n - 1) /\ n - 1 \in 0..(n - 1)
  BY <1>1 DEF Ring
<1>3. PICK i \in 0..(n - 1) : f[i] = q
  BY <1>1 DEF Ring
<1>4. i # n - 1 /\ f[i + 1] = p /\ i + 1 \in 0..(n - 1)
  <2>1. nx[f[i]] = IF i = n - 1 THEN c ELSE f[i + 1]
    BY <1>1 DEF Ring
  <2>2. i # n - 1
    BY <1>3, <2>1
  <2> QED BY <1>2, <1>3, <2>1, <2>2
<1> DEFINE ny == [nx EXCEPT ![q] = nx[p]]
           g == [k \in 0..(n - 2) |-> IF k <= i THEN f[k] ELSE f[k + 1]]
<1>5. /\ ny[q] = nx[p]
      /\ \A r \in S : r # q => ny[r] = nx[r]
  OBVIOUS
<1>6. \A j, k \in 0..(n - 1) : f[j] = f[k] => j = k
  BY <1>1 DEF Ring
<1>7. \A k \in 0..(n - 2) :
         /\ k \in 0..(n - 1) /\ k + 1 \in 0..(n - 1)
         /\ k <= i => g[k] = f[k] /\ k # i + 1
         /\ ~(k <= i) => g[k] = f[k + 1] /\ k + 1 # i + 1
  BY <1>2
<1>8. n - 1 \in Nat \ {0} /\ (n - 1) - 1 = n - 2 /\ 0 \in 0..(n - 2) /\ 0 <= i
  BY <1>2, <1>4
<1>9. g \in [0..(n - 2) -> S \ {p}]
  <2>1. ASSUME NEW k \in 0..(n - 2) PROVE g[k] \in S \ {p}
    BY <1>1, <1>4, <1>6, <1>7
  <2> QED BY <2>1
<1>10. g[0] = c
  BY <1>1, <1>7, <1>8 DEF Ring
<1> HIDE DEF g, ny
<1>11. ASSUME NEW k \in 0..(n - 2)
       PROVE  ny[g[k]] = IF k = n - 2 THEN c ELSE g[k + 1]
  <2>1. \A j \in 0..(n - 1) : nx[f[j]] = IF j = n - 1 THEN c ELSE f[j + 1]
    BY <1>1 DEF Ring
  <2>2. k # n - 2 => k + 1 \in 0..(n - 2)
    BY <1>8
  <2>3. CASE k < i
    <3>1. g[k] = f[k] /\ k + 1 <= i /\ k # n - 2 /\ k # n - 1 /\ k # i
      BY <1>2, <1>4, <1>7, <2>3
    <3>2. f[k] # q /\ f[k] \in S
      BY <1>1, <1>3, <1>6, <1>7, <3>1
    <3>3. nx[f[k]] = f[k + 1]
      BY <1>7, <2>1, <3>1
    <3>4. g[k + 1] = f[k + 1]
      BY <1>7, <2>2, <3>1
    <3> QED BY <1>5, <3>1, <3>2, <3>3, <3>4
  <2>4. CASE k = i
    <3>1. g[k] = q /\ ny[g[k]] = nx[f[i + 1]]
      BY <1>3, <1>4, <1>5, <1>7, <2>4
    <3>2. nx[f[i + 1]] = IF i + 1 = n - 1 THEN c ELSE f[(i + 1) + 1]
      BY <1>4, <2>1
    <3>3. k # n - 2 => g[k + 1] = f[(k + 1) + 1]
      BY <1>7, <2>2, <2>4
    <3> QED BY <1>2, <2>4, <3>1, <3>2, <3>3
  <2>5. CASE k > i
    <3>1. g[k] = f[k + 1] /\ k + 1 \in 0..(n - 1) /\ k + 1 # i
      BY <1>7, <2>5
    <3>2. f[k + 1] # q /\ f[k + 1] \in S
      BY <1>1, <1>3, <1>6, <3>1
    <3>3. nx[f[k + 1]] = IF k + 1 = n - 1 THEN c ELSE f[(k + 1) + 1]
      BY <2>1, <3>1
    <3>4. k # n - 2 => g[k + 1] = f[(k + 1) + 1]
      BY <1>7, <2>2, <2>5
    <3> QED BY <1>2, <1>5, <3>1, <3>2, <3>3, <3>4
  <2> QED BY <2>3, <2>4, <2>5
<1>12. ASSUME NEW j \in 0..(n - 2), NEW k \in 0..(n - 2), g[j] = g[k] PROVE j = k
  BY <1>6, <1>7, <1>12
<1>13. ASSUME NEW r \in S \ {p} PROVE \E k \in 0..(n - 2) : g[k] = r
  <2>1. PICK k \in 0..(n - 1) : f[k] = r
    BY <1>1 DEF Ring
  <2>2. k # i + 1
    BY <1>4, <2>1
  <2>3. CASE k <= i
    <3>1. k \in 0..(n - 2) /\ g[k] = r
      BY <1>2, <1>4, <1>7, <2>1, <2>3
    <3> QED BY <3>1
  <2>4. CASE k > i + 1
    <3>1. k - 1 \in 0..(n - 2) /\ ~(k - 1 <= i) /\ (k - 1) + 1 = k
      BY <1>2, <2>4
    <3>2. g[k - 1] = f[k]
      BY <1>7, <3>1
    <3> QED BY <2>1, <3>1, <3>2
  <2> QED BY <1>2, <2>2, <2>3, <2>4
<1>14. Ring(g, ny, c, n - 1, S \ {p})
  BY <1>8, <1>9, <1>10, <1>11, <1>12, <1>13 DEF Ring
<1>15. IsRing(ny, c, n - 1, S \ {p})
  BY <1>8, <1>9, <1>14 DEF IsRing
<1> QED BY <1>15 DEF ny

\* removeProcess's search finds the processes of the ring, and stops at a
\* predecessor.
LEMMA RingFinds ==
    ASSUME NEW nx \in [Pid -> Slot], NEW c, NEW n, NEW S \in SUBSET Pid,
           IsRing(nx, c, n, S), NEW p
    PROVE  /\ Positions(nx, c, n, p) # {} <=> p \in S
           /\ p \in S => \E q \in S : /\ nx[q] = p
                                      /\ Unlinked(nx, c, n, p) = [nx EXCEPT ![q] = nx[p]]
<1>1. PICK f \in [0..(n - 1) -> S] : Ring(f, nx, c, n, S)
  BY DEF IsRing
<1>2. n \in Nat \ {0} /\ MaxPid \in Nat /\ n <= MaxPid + 1
  <2>1. n <= MaxPid + 1
    BY <1>1, RingCard
  <2> QED BY <1>1, <2>1, SizesAssumption DEF Ring
<1>3. \A k \in 0..(n - 1) : Walk(nx, c)[k] = f[k] /\ Walk(nx, c)[k + 1] = nx[f[k]]
  <2>1. \A k \in 0..(n - 1) : Walk(nx, c)[k] = f[k]
    <3>1. GoesRound(Walk(nx, c), f, c, n)
      BY <1>1, RingWalk
    <3> QED BY <3>1 DEF GoesRound
  <2>2. \A k \in 0..(MaxPid + 1) : Walk(nx, c)[k + 1] = nx[Walk(nx, c)[k]]
    BY WalkSteps
  <2> DEFINE W == Walk(nx, c)
  <2> HIDE DEF W
  <2>3. \A k \in 0..(n - 1) : W[k] = f[k]
    BY <2>1 DEF W
  <2>4. \A k \in 0..(MaxPid + 1) : W[k + 1] = nx[W[k]]
    BY <2>2 DEF W
  <2>5. \A k \in 0..(n - 1) : W[k] = f[k] /\ W[k + 1] = nx[f[k]]
    BY <1>2, <2>3, <2>4
  <2> QED BY <2>5 DEF W
<1> DEFINE W == Walk(nx, c)
<1>4. Positions(nx, c, n, p) = { k \in 0..(n - 1) : nx[f[k]] = p }
  <2>1. Positions(nx, c, n, p) = { k \in 0..(n - 1) : W[k + 1] = p }
    BY DEF Positions
  <2>2. \A k \in 0..(n - 1) : W[k + 1] = nx[f[k]]
    BY <1>3
  <2> HIDE DEF W
  <2> QED BY <2>1, <2>2
<1>5. \A k \in 0..(n - 1) : nx[f[k]] = IF k = n - 1 THEN c ELSE f[k + 1]
  BY <1>1 DEF Ring
<1>6. \A k \in 0..(n - 1) : nx[f[k]] \in S
  BY <1>1, <1>2, <1>5 DEF Ring
<1>7. ASSUME p \in S PROVE Positions(nx, c, n, p) # {}
  <2>1. PICK k \in 0..(n - 1) : f[k] = p
    BY <1>1, <1>7 DEF Ring
  <2>2. CASE k = 0
    <3>1. n - 1 \in 0..(n - 1) /\ nx[f[n - 1]] = p
      BY <1>1, <1>2, <1>5, <2>1, <2>2 DEF Ring
    <3> QED BY <1>4, <3>1
  <2>3. CASE k # 0
    <3>1. k - 1 \in 0..(n - 1) /\ k - 1 # n - 1 /\ (k - 1) + 1 = k
      BY <1>2, <2>3
    <3>2. nx[f[k - 1]] = p
      BY <1>5, <2>1, <3>1
    <3> QED BY <1>4, <3>1, <3>2
  <2> QED BY <2>2, <2>3
<1>8. Positions(nx, c, n, p) # {} => p \in S
  BY <1>4, <1>6
<1>9. ASSUME p \in S
      PROVE  \E q \in S : nx[q] = p /\ Unlinked(nx, c, n, p) = [nx EXCEPT ![q] = nx[p]]
  <2> DEFINE P == Positions(nx, c, n, p)
             i == CHOOSE i \in P : \A j \in P : i <= j
  <2>1. P # {} /\ P \in SUBSET Nat
    BY <1>2, <1>4, <1>7, <1>9
  <2>2. \E x \in P : \A y \in P : x <= y
    <3> HIDE DEF P
    <3> QED BY <2>1, LeastNumber
  <2>3. i \in P
    BY <2>2
  <2>4. Unlinked(nx, c, n, p) = [nx EXCEPT ![W[i]] = nx[p]]
    BY DEF Unlinked
  <2> HIDE DEF i, W
  <2>5. i \in 0..(n - 1) /\ nx[f[i]] = p
    BY <1>4, <2>3
  <2>6. W[i] = f[i] /\ f[i] \in S
    BY <1>1, <1>3, <2>5 DEF W
  <2> QED BY <2>4, <2>5, <2>6
<1> QED BY <1>7, <1>8, <1>9

\* removeProcess on a ring with init in it.  The slot that was taken out keeps
\* its pointer, so that schedule() can go on from it.
LEMMA KernelRemoves ==
    ASSUME NEW nx \in [Pid -> Slot], NEW c, NEW n, NEW S \in SUBSET Pid,
           IsRing(nx, c, n, S), INIT_PID \in S, NEW p \in S, p # INIT_PID
    PROVE  /\ Found(nx, c, n, p)
           /\ p # c => IsRing(Unlinked(nx, c, n, p), c, n - 1, S \ {p})
           /\ p = c => /\ IsRing(Unlinked(nx, c, n, p), nx[c], n - 1, S \ {p})
                       /\ Unlinked(nx, c, n, p)[c] = nx[c]
                       /\ nx[c] \in S \ {p}
<1>1. Found(nx, c, n, p)
  BY RingFinds DEF Found
<1>2. PICK q \in S : nx[q] = p /\ Unlinked(nx, c, n, p) = [nx EXCEPT ![q] = nx[p]]
  BY RingFinds
<1>3. ASSUME p # c PROVE IsRing(Unlinked(nx, c, n, p), c, n - 1, S \ {p})
  <2>1. IsRing([nx EXCEPT ![q] = nx[p]], c, n - 1, S \ {p})
    BY <1>2, <1>3, RingRemoves
  <2> QED BY <1>2, <2>1
<1>4. ASSUME p = c
      PROVE  /\ IsRing(Unlinked(nx, c, n, p), nx[c], n - 1, S \ {p})
             /\ Unlinked(nx, c, n, p)[c] = nx[c]
             /\ nx[c] \in S \ {p}
  <2>1. IsRing(nx, nx[c], n, S) /\ nx[c] \in S
    BY RingRotates
  <2>2. nx[c] # c
    <3>1. PICK f \in [0..(n - 1) -> S] : Ring(f, nx, c, n, S)
      BY DEF IsRing
    <3>2. PICK k \in 0..(n - 1) : f[k] = INIT_PID
      BY <3>1 DEF Ring
    <3>3. n \in Nat \ {0} /\ k # 0
      BY <1>4, <3>1, <3>2 DEF Ring
    <3>4. 0 \in 0..(n - 1) /\ 1 \in 0..(n - 1) /\ 0 # n - 1
      BY <3>3
    <3>5. nx[f[0]] = f[0 + 1] /\ f[0] = c /\ f[0] # f[1]
      BY <3>1, <3>4 DEF Ring
    <3> QED BY <3>5
  <2>3. IsRing([nx EXCEPT ![q] = nx[p]], nx[c], n - 1, S \ {p})
    BY <1>2, <1>4, <2>1, <2>2, RingRemoves
  <2>4. q # c
    BY <1>2, <1>4, <2>2
  <2> QED BY <1>2, <1>4, <2>1, <2>2, <2>3, <2>4
<1> QED BY <1>1, <1>3, <1>4

-----------------------------------------------------------------------------
(***************************************************************************)
(* The invariant.  The processes that are created and not removed form a   *)
(* ring.  A process that has removed itself is not in it, but its slot's   *)
(* pointer leads back into it; callProcess takes the slot out before it    *)
(* counts it out.                                                          *)
(***************************************************************************)

RingHead == IF current \in Live THEN current ELSE next[current]

RingSize == IF exitPc[current] = "count" THEN cardinal_processes - 1
                                         ELSE cardinal_processes

RingInv ==
    /\ IsRing(next, RingHead, RingSize, Live)
    /\ INIT_PID \in Live
    /\ current \notin Live =>
         mode = "yieldSchedule" \/ exitPc[current] \in {"count", "yield"}

\* The steps of callProcess that no interrupt may separate.
Ending == {"search", "unlink", "count", "yield"}

\* Only the program that executes is ending; its search has followed the ring,
\* and stops at the slot before its own.
ExitsInv ==
    /\ \A p \in Pid : exitPc[p] \in Ending =>
         p = current /\ mode = "user" /\ activeThread[p] = 0 /\ p # INIT_PID
    /\ \A p \in Pid : exitPc[p] \in {"count", "yield", "end", "done"} => p \in removed
    /\ exitPc[current] = "search" =>
         /\ exitI[current] \in 0..(cardinal_processes - 1)
         /\ exitPrev[current] = Walk(next, current)[exitI[current]]
         /\ exitSlot[current] = next[exitPrev[current]]
    /\ exitPc[current] = "unlink" =>
         /\ exitSlot[current] = current
         /\ exitPrev[current] \in Live
         /\ next[exitPrev[current]] = current

\* init never sleeps, and a program that executes was dispatched.
StatesInv ==
    /\ state[INIT_PID] \in {"READY", "RUNNING"}
    /\ mode = "user" /\ current # INIT_PID => state[current] = "RUNNING"

RInv == Inv /\ RingInv /\ ExitsInv /\ StatesInv

\* Nobody is half removed: what every handler and system call starts from.
Whole ==
    /\ \A p \in Pid : exitPc[p] \notin Ending
    /\ exitPc[current] = "no"
    /\ current \in Live
    /\ IsRing(next, current, cardinal_processes, Live)

LEMMA PidFacts ==
    ASSUME Inv
    PROVE  /\ Live \subseteq Pid /\ removed \subseteq Pid /\ Slots \subseteq Pid
           /\ current \in Pid /\ INIT_PID \in Pid
           /\ next \in [Pid -> Slot] /\ exitPc \in [Pid -> ExitPc]
           /\ state \in [Pid -> ProcessState]
           /\ MaxPid \in Nat
<1>1. TypeOK
  BY DEF Inv
<1>2. Slots \subseteq Pid /\ INIT_PID \in Slots /\ current \in Pid
  BY <1>1, SlotsFacts
<1>3. removed \subseteq Slots /\ next \in [Pid -> Slot] /\ exitPc \in [Pid -> ExitPc]
      /\ state \in [Pid -> ProcessState]
  BY <1>1 DEF TypeOK
<1> QED BY <1>2, <1>3, SizesAssumption DEF Live

LEMMA HandlersWhole ==
    ASSUME RInv, mode # "yieldSchedule", mode = "user" => ~Exiting(current)
    PROVE  Whole
<1>1. /\ current \in Pid /\ exitPc \in [Pid -> ExitPc]
      /\ removed \subseteq Slots /\ current \in Slots
  BY PidFacts DEF RInv, Inv, TypeOK
<1>2. \A p \in Pid : exitPc[p] \notin Ending
  BY DEF RInv, ExitsInv, Exiting, Ending
<1>3. current \in Live
  BY <1>1, <1>2 DEF RInv, RingInv, Ending
<1>4. exitPc[current] = "no"
  <2>1. exitPc[current] \notin {"end", "done"}
    BY <1>1, <1>3 DEF RInv, ExitsInv, Live
  <2> QED BY <1>1, <1>2, <2>1 DEF ExitPc, Ending
<1>5. IsRing(next, current, cardinal_processes, Live)
  <2>1. RingHead = current /\ RingSize = cardinal_processes
    BY <1>3, <1>4 DEF RingHead, RingSize
  <2> QED BY <2>1 DEF RInv, RingInv
<1> QED BY <1>2, <1>3, <1>4, <1>5 DEF Whole

\* The steps of handlers and system calls leave callProcess's locals alone.
LEMMA ExitsKept ==
    ASSUME RInv, \A p \in Pid : exitPc[p] \notin Ending, UNCHANGED exitVars,
           removed \subseteq removed', current' \in Pid
    PROVE  ExitsInv'
<1>1. exitPc' = exitPc
  BY DEF exitVars
<1>2. \A p \in Pid : exitPc'[p] \notin Ending
  BY <1>1
<1>3. \A p \in Pid : exitPc'[p] \in {"count", "yield", "end", "done"} => p \in removed'
  BY <1>1 DEF RInv, ExitsInv
<1>4. exitPc'[current'] # "search" /\ exitPc'[current'] # "unlink"
  BY <1>2 DEF Ending
<1> QED BY <1>2, <1>3, <1>4 DEF ExitsInv

LEMMA PreemptedInit ==
    ASSUME NEW st \in [Pid -> ProcessState], INIT_PID \in Pid,
           st[INIT_PID] \in {"READY", "RUNNING"}, NEW c
    PROVE  Preempted(st, c)[INIT_PID] \in {"READY", "RUNNING"}
BY DEF Preempted

\* Steps that do not touch the ring.
LEMMA RingKept ==
    ASSUME RInv, Whole, UNCHANGED <<next, current, cardinal_processes, nextPid,
                                    exitVars, removed>>
    PROVE  RingInv' /\ ExitsInv'
<1>1. ExitsInv'
  BY ExitsKept, PidFacts DEF RInv, Whole
<1>2. Live' = Live
  BY DEF Live, Slots
<1>3. RingHead' = current /\ RingSize' = cardinal_processes
  BY <1>2 DEF RingHead, RingSize, Whole, exitVars
<1>4. RingInv'
  BY <1>2, <1>3 DEF RingInv, Whole, RInv
<1> QED BY <1>1, <1>4

LEMMA InitRInv == Init => RInv
<1> SUFFICES ASSUME Init PROVE RInv
  OBVIOUS
<1>1. Inv
  BY InitInv
<1>2. /\ 0 \in Pid /\ 1 \in Pid
      /\ Slots = {0, 1} /\ Live = {0, 1}
  BY SizesAssumption DEF Init, Pid, Slots, Live
<1>3. IsRing(next, 0, 2, {0, 1})
  <2> DEFINE f == [k \in 0..1 |-> k]
  <2>1. next[0] = 1 /\ next[1] = 0
    BY <1>2 DEF Init, INIT_PID, SHELL_PID
  <2>2. 0..(2 - 1) = {0, 1} /\ 0..1 = {0, 1} /\ 2 - 1 = 1
    OBVIOUS
  <2>3. f \in [0..(2 - 1) -> {0, 1}] /\ f[0] = 0 /\ f[1] = 1
    BY <2>2
  <2> HIDE DEF f
  <2>4. Ring(f, next, 0, 2, {0, 1})
    BY <2>1, <2>2, <2>3 DEF Ring
  <2> QED BY <2>3, <2>4 DEF IsRing
<1>4. RingInv
  <2>1. RingHead = 0 /\ RingSize = 2
    BY <1>2 DEF Init, RingHead, RingSize, INIT_PID
  <2> QED BY <1>2, <1>3, <2>1 DEF RingInv, Init, INIT_PID
<1>5. ExitsInv
  BY <1>2 DEF Init, ExitsInv, Ending, INIT_PID
<1>6. StatesInv
  BY <1>2 DEF Init, StatesInv, INIT_PID
<1> QED BY <1>1, <1>4, <1>5, <1>6 DEF RInv

LEMMA ScheduleRInv ==
    ASSUME RInv, Schedule
    PROVE  RInv'
<1>1. Inv'
  BY ScheduleInv DEF RInv
<1>2. \A p \in Pid : exitPc[p] \notin Ending
  BY DEF RInv, ExitsInv, Schedule
<1>3. /\ current' = next[current]
      /\ UNCHANGED <<next, cardinal_processes, nextPid, exitVars, removed>>
  BY DEF Schedule
<1>4. Live' = Live /\ current' \in Pid
  <2>1. next[current] \in Slots
    BY DEF RInv, Inv, TypeOK
  <2>2. next[current] \in Pid
    BY <2>1, PidFacts DEF RInv
  <2> QED BY <1>3, <2>2 DEF Live, Slots
<1>5. ExitsInv'
  BY <1>2, <1>3, <1>4, ExitsKept DEF RInv
<1>6. RingSize = cardinal_processes /\ RingSize' = cardinal_processes
  <2>1. current \in Pid
    BY PidFacts DEF RInv
  <2>2. exitPc[current] # "count" /\ exitPc'[current'] # "count"
    BY <1>2, <1>3, <1>4, <2>1 DEF exitVars, Ending
  <2> QED BY <1>3, <2>2 DEF RingSize
<1>7. IsRing(next, current', cardinal_processes, Live) /\ current' \in Live
  <2>1. IsRing(next, RingHead, cardinal_processes, Live)
    BY <1>6 DEF RInv, RingInv
  <2>2. CASE current \in Live
    <3>1. IsRing(next, current, cardinal_processes, Live)
      BY <2>1, <2>2 DEF RingHead
    <3> QED BY <1>3, <3>1, RingRotates
  <2>3. CASE current \notin Live
    <3>1. IsRing(next, next[current], cardinal_processes, Live)
      BY <2>1, <2>3 DEF RingHead
    <3> QED BY <1>3, <3>1, RingRotates
  <2> QED BY <2>2, <2>3
<1>8. RingInv'
  <2>1. RingHead' = current'
    BY <1>4, <1>7 DEF RingHead
  <2> QED BY <1>3, <1>4, <1>6, <1>7, <2>1 DEF RingInv, RInv
<1>9. StatesInv'
  <2>1. state \in [Pid -> ProcessState] /\ INIT_PID \in Pid
    BY PidFacts DEF RInv
  <2>2. CASE state[next[current]] = "READY"
    BY <1>3, <1>4, <2>1, <2>2 DEF Schedule, StatesInv, RInv
  <2>3. CASE state[next[current]] # "READY"
    BY <1>3, <2>3 DEF Schedule, StatesInv, RInv
  <2> QED BY <2>2, <2>3
<1> QED BY <1>1, <1>5, <1>8, <1>9 DEF RInv

LEMMA TickRInv ==
    ASSUME ~InterruptExit, RInv, Tick \/ TickEntry \/ TickSwitch
    PROVE  RInv'
<1>1. Inv'
  BY TickInv DEF RInv
<1>2. Whole
  BY HandlersWhole DEF Tick, TickEntry, TickSwitch, Interruptible
<1>3. UNCHANGED <<next, current, cardinal_processes, nextPid, exitVars, removed>>
  BY DEF Tick, TickEntry, TickSwitch
<1>4. RingInv' /\ ExitsInv'
  BY <1>2, <1>3, RingKept
<1>5. StatesInv'
  <2>1. /\ state \in [Pid -> ProcessState] /\ INIT_PID \in Pid
        /\ state[INIT_PID] \in {"READY", "RUNNING"}
    BY PidFacts DEF RInv, StatesInv
  <2>2. mode' # "user"
    BY DEF Tick, TickEntry, TickSwitch
  <2>3. CASE Tick
    BY <2>1, <2>2, <2>3 DEF Tick, StatesInv
  <2>4. CASE TickEntry
    <3>1. \/ state' = state
          \/ \E p : state' = StateChanged(p, "READY")
      BY <2>4 DEF TickEntry
    <3>2. state'[INIT_PID] \in {"READY", "RUNNING"}
      BY <2>1, <3>1 DEF StateChanged
    <3> QED BY <2>2, <3>2 DEF StatesInv
  <2>5. CASE TickSwitch
    BY <2>1, <2>2, <2>5, PreemptedInit DEF TickSwitch, StatesInv
  <2> QED BY <2>3, <2>4, <2>5
<1> QED BY <1>1, <1>4, <1>5 DEF RInv

\* removeProcess from the kernel, on a ring of the processes S: pid leaves the
\* ring if it is in it and is not init; a process that leaves does not go on.
LEMMA RemoveRing ==
    ASSUME NEW nx \in [Pid -> Slot], NEW card, NEW S \in SUBSET Pid, NEW pid,
           IsRing(nx, current, card, S), INIT_PID \in S, current \in S,
           RemoveProcess(nx, card, pid)
    PROVE  \E T \in SUBSET S :
              /\ \/ T = S /\ removed' = removed
                 \/ pid \in S /\ T = S \ {pid} /\ removed' = removed \cup {pid}
              /\ INIT_PID \in T
              /\ IsRing(next', IF current \in T THEN current ELSE next'[current],
                        cardinal_processes', T)
              /\ current \notin T => mode' = "yieldSchedule"
              /\ pid = current => mode' = "yieldSchedule"
<1>1. CASE pid \in S /\ pid # INIT_PID
  <2>1. /\ Found(nx, current, card, pid)
        /\ pid # current => IsRing(Unlinked(nx, current, card, pid), current,
                                   card - 1, S \ {pid})
        /\ pid = current =>
             /\ IsRing(Unlinked(nx, current, card, pid), nx[current], card - 1,
                       S \ {pid})
             /\ Unlinked(nx, current, card, pid)[current] = nx[current]
             /\ nx[current] \in S \ {pid}
    BY <1>1, KernelRemoves
  <2>2. /\ next' = Unlinked(nx, current, card, pid)
        /\ cardinal_processes' = card - 1
        /\ removed' = removed \cup {pid}
        /\ pid = current => mode' = "yieldSchedule"
    BY <2>1 DEF RemoveProcess
  <2> DEFINE T == S \ {pid}
  <2>3. /\ T \in SUBSET S /\ INIT_PID \in T
        /\ current \in T <=> current # pid
    BY <1>1
  <2>4. IsRing(next', IF current \in T THEN current ELSE next'[current],
               cardinal_processes', T)
    <3>1. CASE current # pid
      BY <2>1, <2>2, <2>3, <3>1
    <3>2. CASE current = pid
      <4>1. current \notin T /\ next'[current] = nx[current]
        BY <2>1, <2>2, <2>3, <3>2
      <4>2. IsRing(next', nx[current], cardinal_processes', T)
        BY <2>1, <2>2, <3>2
      <4> HIDE DEF T
      <4> QED BY <4>1, <4>2
    <3> QED BY <3>1, <3>2
  <2> QED BY <1>1, <2>2, <2>3, <2>4
<1>2. CASE ~(pid \in S /\ pid # INIT_PID)
  <2>1. ~Found(nx, current, card, pid)
    BY <1>2, RingFinds DEF Found
  <2>2. /\ next' = nx /\ cardinal_processes' = card /\ removed' = removed
        /\ pid = INIT_PID => mode' = "yieldSchedule"
    BY <2>1 DEF RemoveProcess
  <2>3. IsRing(next', IF current \in S THEN current ELSE next'[current],
               cardinal_processes', S)
    BY <2>2
  <2> QED BY <1>2, <2>2, <2>3
<1> QED BY <1>1, <1>2

\* Its effect on the invariant; Live was grown to S before.
LEMMA RemoveRInv ==
    ASSUME RInv, Whole, Inv', NEW nx \in [Pid -> Slot], NEW card,
           NEW S \in SUBSET Pid, NEW pid,
           IsRing(nx, current, card, S), INIT_PID \in S, current \in S,
           S = Slots' \ removed, RemoveProcess(nx, card, pid),
           current' = current, UNCHANGED exitVars,
           mode = "user" \/ pid = current
    PROVE  RInv'
<1>1. PICK T \in SUBSET S :
         /\ \/ T = S /\ removed' = removed
            \/ pid \in S /\ T = S \ {pid} /\ removed' = removed \cup {pid}
         /\ INIT_PID \in T
         /\ IsRing(next', IF current \in T THEN current ELSE next'[current],
                   cardinal_processes', T)
         /\ current \notin T => mode' = "yieldSchedule"
         /\ pid = current => mode' = "yieldSchedule"
  BY RemoveRing
<1>2. Live' = T
  BY <1>1 DEF Live
<1>3. RingHead' = IF current \in T THEN current ELSE next'[current]
  BY <1>2 DEF RingHead
<1>4. RingSize' = cardinal_processes'
  <2>1. exitPc'[current'] = "no"
    BY DEF Whole, exitVars
  <2> QED BY <2>1 DEF RingSize
<1>5. RingInv'
  BY <1>1, <1>2, <1>3, <1>4 DEF RingInv
<1>6. ExitsInv'
  <2>1. removed \subseteq removed'
    BY <1>1
  <2> QED BY <2>1, ExitsKept, PidFacts DEF RInv, Whole
<1>7. StatesInv'
  <2>1. /\ state \in [Pid -> ProcessState] /\ INIT_PID \in Pid
        /\ state[INIT_PID] \in {"READY", "RUNNING"}
    BY PidFacts DEF RInv, StatesInv
  <2>2. \/ mode' = "yieldSchedule" /\ state' = Preempted(state, current)
        \/ mode' = "user" /\ state' = state
    BY DEF RemoveProcess
  <2>3. state'[INIT_PID] \in {"READY", "RUNNING"}
    BY <2>1, <2>2, PreemptedInit
  <2>4. mode' = "user" => mode = "user" /\ state' = state
    BY <1>1, <2>2
  <2> QED BY <2>3, <2>4 DEF StatesInv, RInv
<1> QED BY <1>5, <1>6, <1>7 DEF RInv

LEMMA KillRInv ==
    ASSUME RInv, NEW pid, Kill(pid)
    PROVE  RInv'
<1>1. Whole /\ mode = "user"
  BY HandlersWhole DEF Kill, InProgram
<1>2. Inv'
  BY KillInv DEF RInv
<1>3. /\ RemoveProcess(next, cardinal_processes, pid)
      /\ current' = current /\ nextPid' = nextPid /\ UNCHANGED exitVars
  BY DEF Kill
<1>4. Live = Slots' \ removed
  BY <1>3 DEF Live, Slots
<1>5. /\ next \in [Pid -> Slot] /\ Live \in SUBSET Pid
      /\ IsRing(next, current, cardinal_processes, Live)
      /\ INIT_PID \in Live /\ current \in Live
  BY <1>1, PidFacts DEF RInv, RingInv, Whole
<1> QED BY <1>1, <1>2, <1>3, <1>4, <1>5, RemoveRInv

\* addProcess grows the ring by the new process.
LEMMA GrownRing ==
    ASSUME RInv, Whole, nextPid <= MaxPid, nextPid' = nextPid + 1
    PROVE  /\ Inserted(next, current, nextPid) \in [Pid -> Slot]
           /\ Live \cup {nextPid} = Slots' \ removed
           /\ Live \cup {nextPid} \in SUBSET Pid
           /\ IsRing(Inserted(next, current, nextPid), current,
                     cardinal_processes + 1, Live \cup {nextPid})
<1>1. TypeOK
  BY DEF RInv, Inv
<1>2. nextPid \in Pid /\ Slots' = Slots \cup {nextPid}
  BY <1>1, SlotsGrow
<1>3. nextPid \notin Slots /\ removed \subseteq Slots
  BY <1>1, SizesAssumption DEF Slots, TypeOK
<1>4. /\ next \in [Pid -> Slot] /\ Live \in SUBSET Pid
      /\ IsRing(next, current, cardinal_processes, Live)
  BY PidFacts DEF RInv, Whole
<1>5. nextPid \notin Live /\ Live \cup {nextPid} = Slots' \ removed
  BY <1>2, <1>3 DEF Live
<1>6. IsRing(Inserted(next, current, nextPid), current, cardinal_processes + 1,
             Live \cup {nextPid})
  BY <1>2, <1>4, <1>5, RingInserts
<1>7. Inserted(next, current, nextPid) \in [Pid -> Slot]
  <2>1. next[current] \in Slot
    BY <1>4, PidFacts DEF RInv
  <2> QED BY <1>2, <1>4, <2>1 DEF Inserted, Slot
<1> QED BY <1>2, <1>4, <1>5, <1>6, <1>7

LEMMA RunProgramRInv ==
    ASSUME RInv, Whole, Inv', RunProgram, current' = current, UNCHANGED exitVars
    PROVE  RInv'
<1>1. /\ nextPid <= MaxPid /\ nextPid' = nextPid + 1
      /\ RemoveProcess(Inserted(next, current, nextPid), cardinal_processes + 1,
                       current)
  BY DEF RunProgram
<1> DEFINE S == Live \cup {nextPid}
           nx == Inserted(next, current, nextPid)
           card == cardinal_processes + 1
<1>2. /\ nx \in [Pid -> Slot]
      /\ S = Slots' \ removed
      /\ S \in SUBSET Pid
      /\ IsRing(nx, current, card, S)
  BY <1>1, GrownRing
<1>3. INIT_PID \in S /\ current \in S
  BY DEF RInv, RingInv, Whole
<1>4. RemoveProcess(nx, card, current)
  BY <1>1
<1> HIDE DEF S, nx, card
<1> QED BY <1>2, <1>3, <1>4, RemoveRInv

LEMMA CreateProcessRInv ==
    ASSUME RInv, CreateProcess
    PROVE  RInv'
<1>1. Whole
  BY HandlersWhole DEF CreateProcess, InProgram
<1>2. Inv'
  BY CreateProcessInv DEF RInv
<1>3. /\ nextPid <= MaxPid /\ nextPid' = nextPid + 1
      /\ next' = Inserted(next, current, nextPid)
      /\ cardinal_processes' = cardinal_processes + 1
      /\ UNCHANGED <<current, state, mode, exitVars, removed>>
  BY DEF CreateProcess
<1>4. Live' = Live \cup {nextPid}
  BY <1>1, <1>3, GrownRing DEF Live
<1>5. RingHead' = current /\ RingSize' = cardinal_processes'
  BY <1>1, <1>3, <1>4 DEF RingHead, RingSize, Whole, exitVars
<1>6. RingInv'
  <2>1. IsRing(next', current, cardinal_processes', Live')
    BY <1>1, <1>3, <1>4, GrownRing
  <2> QED BY <1>1, <1>3, <1>4, <1>5, <2>1 DEF RingInv, RInv, Whole
<1>7. ExitsInv'
  BY <1>1, <1>3, ExitsKept, PidFacts DEF RInv, Whole
<1>8. StatesInv'
  BY <1>3 DEF StatesInv, RInv
<1> QED BY <1>2, <1>6, <1>7, <1>8 DEF RInv

LEMMA SleepRInv ==
    ASSUME RInv, NEW time \in SleepTimes, Sleep(time)
    PROVE  RInv'
<1>1. Whole /\ current # INIT_PID
  BY HandlersWhole DEF Sleep, InProgram
<1>2. Inv'
  BY SleepInv DEF RInv
<1>3. UNCHANGED <<next, current, cardinal_processes, nextPid, exitVars, removed>>
      /\ mode' = "yieldSchedule"
  BY DEF Sleep
<1>4. RingInv' /\ ExitsInv'
  BY <1>1, <1>3, RingKept
<1>5. StatesInv'
  <2> DEFINE st == StateChanged(current, "SLEEPING")
  <2>1. /\ state \in [Pid -> ProcessState] /\ INIT_PID \in Pid
        /\ state[INIT_PID] \in {"READY", "RUNNING"}
    BY PidFacts DEF RInv, StatesInv
  <2>2. st \in [Pid -> ProcessState] /\ st[INIT_PID] \in {"READY", "RUNNING"}
    BY <1>1, <2>1 DEF StateChanged, ProcessState
  <2>3. state' = Preempted(st, current)
    BY DEF Sleep
  <2> HIDE DEF st
  <2> QED BY <1>3, <2>1, <2>2, <2>3, PreemptedInit DEF StatesInv
<1> QED BY <1>2, <1>4, <1>5 DEF RInv

LEMMA ThreadRInv ==
    ASSUME RInv, CreateThread \/ ExitThread
    PROVE  RInv'
<1>1. Whole
  BY HandlersWhole DEF CreateThread, ExitThread, InProgram
<1>2. Inv'
  BY ThreadInv DEF RInv
<1>3. UNCHANGED <<next, current, cardinal_processes, nextPid, exitVars, removed>>
  BY DEF CreateThread, ExitThread
<1>4. RingInv' /\ ExitsInv'
  BY <1>1, <1>3, RingKept
<1>5. StatesInv'
  <2>1. CASE CreateThread
    BY <1>3, <2>1 DEF CreateThread, StatesInv, RInv
  <2>2. CASE ExitThread
    <3>1. mode' # "user" /\ state' = Preempted(state, current)
      BY <2>2 DEF ExitThread
    <3> QED BY <3>1, PreemptedInit, PidFacts DEF StatesInv, RInv
  <2> QED BY <2>1, <2>2
<1> QED BY <1>2, <1>4, <1>5 DEF RInv

\* Shift+F1.
LEMMA KillAllRInv ==
    ASSUME ~InterruptExit, RInv, RestartShell \/ KillAllStep \/ KillAllEnd
    PROVE  RInv'
<1>1. Whole
  BY HandlersWhole DEF RestartShell, KillAllStep, KillAllEnd, Interruptible
<1>2. Inv'
  BY KillAllInv DEF RInv
<1>3. CASE RestartShell
  <2>1. UNCHANGED <<next, current, cardinal_processes, nextPid, exitVars, removed>>
        /\ state' = state /\ mode' # "user"
    BY <1>3 DEF RestartShell
  <2> QED BY <1>1, <1>2, <2>1, RingKept DEF RInv, StatesInv
<1>4. CASE KillAllStep
  <2>1. /\ aux # current /\ mode = "killAll"
        /\ UNCHANGED <<current, state, nextPid, mode, exitVars>>
    BY <1>4 DEF KillAllStep
  <2>2. /\ next \in [Pid -> Slot] /\ Live \in SUBSET Pid
        /\ IsRing(next, current, cardinal_processes, Live)
        /\ INIT_PID \in Live /\ current \in Live
    BY <1>1, PidFacts DEF RInv, RingInv, Whole
  <2>3. RingInv' /\ removed \subseteq removed'
    <3>1. CASE aux \in Live /\ aux # INIT_PID
      <4>1. /\ Found(next, current, cardinal_processes, aux)
            /\ IsRing(Unlinked(next, current, cardinal_processes, aux), current,
                      cardinal_processes - 1, Live \ {aux})
        BY <2>1, <2>2, <3>1, KernelRemoves
      <4>2. /\ next' = Unlinked(next, current, cardinal_processes, aux)
            /\ cardinal_processes' = cardinal_processes - 1
            /\ removed' = removed \cup {aux}
        BY <1>4, <4>1 DEF KillAllStep
      <4>3. Live' = Live \ {aux}
        BY <2>1, <4>2 DEF Live, Slots
      <4>4. RingHead' = current /\ RingSize' = cardinal_processes'
        BY <1>1, <2>1, <2>2, <4>3 DEF RingHead, RingSize, Whole, exitVars
      <4>5. IsRing(next', current, cardinal_processes', Live')
        BY <4>1, <4>2, <4>3
      <4> QED BY <2>1, <2>2, <3>1, <4>2, <4>3, <4>4, <4>5 DEF RingInv
    <3>2. CASE ~(aux \in Live /\ aux # INIT_PID)
      <4>1. ~Found(next, current, cardinal_processes, aux)
        BY <2>2, <3>2, RingFinds DEF Found
      <4>2. UNCHANGED <<next, cardinal_processes, removed>>
        BY <1>4, <4>1 DEF KillAllStep
      <4> QED BY <1>1, <2>1, <4>2, RingKept
    <3> QED BY <3>1, <3>2
  <2>4. ExitsInv'
    BY <1>1, <2>1, <2>3, ExitsKept, PidFacts DEF RInv, Whole
  <2>5. StatesInv'
    BY <2>1 DEF RInv, StatesInv
  <2> QED BY <1>2, <2>3, <2>4, <2>5 DEF RInv
<1>5. CASE KillAllEnd
  BY <1>1, <1>2, <1>5, RunProgramRInv DEF KillAllEnd
<1> QED BY <1>3, <1>4, <1>5

\* callProcess's search, while nobody interrupts it, goes round the ring.
LEMMA ExitSearchRInv ==
    ASSUME RInv, ExitSearch
    PROVE  RInv'
<1> DEFINE n == cardinal_processes
           W == Walk(next, current)
           k == exitI[current]
<1>1. Inv'
  BY ExitInv DEF RInv, Exit
<1>2. /\ mode = "user" /\ activeThread[current] = 0 /\ exitPc[current] = "search"
      /\ UNCHANGED <<next, current, cardinal_processes, state, nextPid, mode,
                     activeThread, removed>>
  BY DEF ExitSearch, AtExit
<1>3. /\ current \in Pid /\ Live \in SUBSET Pid /\ exitPc \in [Pid -> ExitPc]
      /\ exitPrev \in [Pid -> Pid] /\ exitI \in [Pid -> Nat]
      /\ exitSlot \in [Pid -> Slots]
  BY PidFacts DEF RInv, Inv, TypeOK
<1>4. current \in Live /\ current # INIT_PID
  BY <1>2, <1>3 DEF RInv, RingInv, ExitsInv, Ending
<1>5. IsRing(next, current, n, Live)
  <2>1. RingHead = current /\ RingSize = n
    BY <1>2, <1>4 DEF RingHead, RingSize
  <2> QED BY <2>1 DEF RInv, RingInv
<1>6. PICK f \in [0..(n - 1) -> Live] : Ring(f, next, current, n, Live)
  BY <1>5 DEF IsRing
<1>7. n \in Nat \ {0}
  BY <1>6 DEF Ring
<1>8. /\ k \in 0..(n - 1) /\ exitPrev[current] = W[k]
      /\ exitSlot[current] = next[exitPrev[current]]
  BY <1>2 DEF RInv, ExitsInv
<1>9. \A j \in 0..(n - 1) : W[j] = f[j]
  <2>1. GoesRound(Walk(next, current), f, current, n)
    BY <1>3, <1>6, RingWalk
  <2> QED BY <2>1 DEF GoesRound
<1> HIDE DEF W, n
<1>10. next[f[k]] = IF k = n - 1 THEN current ELSE f[k + 1]
  BY <1>6, <1>8 DEF Ring
<1>11. exitPrev[current] = f[k] /\ exitSlot[current] = next[f[k]]
  BY <1>8, <1>9
<1>12. CASE k # n - 1
  <2>1. k + 1 \in 0..(n - 1) /\ k < n /\ k \in Nat
    BY <1>7, <1>8, <1>12
  <2>2. exitSlot[current] = f[k + 1] /\ f[k + 1] # current
    <3>1. f[0] = current /\ 0 \in 0..(n - 1) /\ k + 1 # 0
      BY <1>6, <1>7, <2>1 DEF Ring
    <3>2. f[k + 1] # f[0]
      BY <1>6, <2>1, <3>1 DEF Ring
    <3> QED BY <1>10, <1>11, <1>12, <3>1, <3>2
  <2>3. /\ exitPrev' = [exitPrev EXCEPT ![current] = exitSlot[current]]
        /\ exitSlot' = [exitSlot EXCEPT ![current] = next[exitSlot[current]]]
        /\ exitI' = [exitI EXCEPT ![current] = k + 1]
        /\ exitPc' = exitPc
    BY <2>1, <2>2 DEF ExitSearch, n
  <2>4. /\ exitPrev'[current] = W[k + 1]
        /\ exitI'[current] = k + 1
        /\ exitSlot'[current] = next[exitPrev'[current]]
    BY <1>3, <1>9, <2>1, <2>2, <2>3
  <2>5. ExitsInv'
    <3>1. /\ exitI'[current'] \in 0..(cardinal_processes' - 1)
          /\ exitPrev'[current'] = Walk(next', current')[exitI'[current']]
          /\ exitSlot'[current'] = next'[exitPrev'[current']]
      BY <1>2, <2>1, <2>4 DEF n, W
    <3>2. /\ \A p \in Pid : exitPc'[p] \in Ending =>
               p = current' /\ mode' = "user" /\ activeThread'[p] = 0 /\ p # INIT_PID
          /\ \A p \in Pid : exitPc'[p] \in {"count", "yield", "end", "done"} => p \in removed'
      BY <1>2, <2>3 DEF RInv, ExitsInv
    <3>3. exitPc'[current'] # "unlink"
      BY <1>2, <2>3
    <3> QED BY <3>1, <3>2, <3>3 DEF ExitsInv
  <2>6. RingInv'
    BY <1>2, <2>3 DEF RInv, RingInv, RingHead, RingSize, Live, Slots
  <2>7. StatesInv'
    BY <1>2 DEF RInv, StatesInv
  <2> QED BY <1>1, <2>5, <2>6, <2>7 DEF RInv
<1>13. CASE k = n - 1
  <2>1. exitSlot[current] = current /\ k # n
    BY <1>7, <1>10, <1>11, <1>13
  <2>2. /\ exitPc' = [exitPc EXCEPT ![current] = "unlink"]
        /\ UNCHANGED <<exitPrev, exitSlot, exitI>>
    BY <2>1 DEF ExitSearch, n
  <2>3. exitPrev[current] \in Live /\ next[exitPrev[current]] = current
    BY <1>6, <1>8, <1>11, <2>1
  <2>4. exitPc'[current] = "unlink"
    BY <1>3, <2>2
  <2>5. Live' = Live
    BY <1>2 DEF Live, Slots
  <2>6. ExitsInv'
    <3>1. /\ \A p \in Pid : exitPc'[p] \in Ending =>
               p = current' /\ mode' = "user" /\ activeThread'[p] = 0 /\ p # INIT_PID
          /\ \A p \in Pid : exitPc'[p] \in {"count", "yield", "end", "done"} => p \in removed'
      BY <1>2, <1>3, <1>4, <2>2 DEF RInv, ExitsInv
    <3> QED BY <1>2, <2>1, <2>2, <2>3, <2>4, <2>5, <3>1 DEF ExitsInv
  <2>7. RingInv'
    <3>1. RingHead' = current /\ RingSize' = n
      BY <1>2, <1>4, <2>4, <2>5 DEF RingHead, RingSize, n
    <3> QED BY <1>2, <1>4, <1>5, <2>5, <3>1 DEF RInv, RingInv
  <2>8. StatesInv'
    BY <1>2 DEF RInv, StatesInv
  <2> QED BY <1>1, <2>6, <2>7, <2>8 DEF RInv
<1> QED BY <1>12, <1>13

\* The other steps of the end of a program.
LEMMA ExitRInv ==
    ASSUME RInv, ExitStart \/ Exit
    PROVE  RInv'
<1>1. Inv'
  BY ExitInv DEF RInv
<1>2. /\ current \in Pid /\ Live \in SUBSET Pid /\ exitPc \in [Pid -> ExitPc]
      /\ exitPrev \in [Pid -> Pid] /\ exitI \in [Pid -> Nat]
      /\ exitSlot \in [Pid -> Slots] /\ next \in [Pid -> Slot]
      /\ state \in [Pid -> ProcessState] /\ INIT_PID \in Pid
  BY PidFacts DEF RInv, Inv, TypeOK
<1>3. CASE ExitStart
  <2>1. Whole /\ current # INIT_PID /\ mode = "user" /\ activeThread[current] = 0
    BY <1>3, HandlersWhole DEF ExitStart, InProgram
  <2>2. /\ exitPc' = [exitPc EXCEPT ![current] = "search"]
        /\ exitPrev' = [exitPrev EXCEPT ![current] = current]
        /\ exitSlot' = [exitSlot EXCEPT ![current] = next[current]]
        /\ exitI' = [exitI EXCEPT ![current] = 0]
        /\ UNCHANGED <<next, current, cardinal_processes, state, nextPid,
                       activeThread, mode, removed>>
    BY <1>3 DEF ExitStart
  <2>3. Live' = Live
    BY <2>2 DEF Live, Slots
  <2>4. /\ exitPc'[current] = "search" /\ exitPrev'[current] = current
        /\ exitSlot'[current] = next[current] /\ exitI'[current] = 0
    BY <1>2, <2>2
  <2>5. RingInv'
    <3>1. RingHead' = current /\ RingSize' = cardinal_processes
      BY <2>1, <2>2, <2>3, <2>4 DEF RingHead, RingSize, Whole
    <3> QED BY <2>1, <2>2, <2>3, <3>1 DEF RInv, RingInv, Whole
  <2>6. Walk(next, current)[0] = current
    BY WalkSteps
  <2>7. 0 \in 0..(cardinal_processes - 1)
    BY <2>1 DEF Whole, IsRing, Ring
  <2>8. ExitsInv'
    <3>1. /\ \A p \in Pid : exitPc'[p] \in Ending =>
               p = current' /\ mode' = "user" /\ activeThread'[p] = 0 /\ p # INIT_PID
          /\ \A p \in Pid : exitPc'[p] \in {"count", "yield", "end", "done"} => p \in removed'
      BY <1>2, <2>1, <2>2 DEF RInv, ExitsInv
    <3>2. /\ exitI'[current'] \in 0..(cardinal_processes' - 1)
          /\ exitPrev'[current'] = Walk(next', current')[exitI'[current']]
          /\ exitSlot'[current'] = next'[exitPrev'[current']]
      BY <2>2, <2>4, <2>6, <2>7
    <3> QED BY <2>2, <2>4, <3>1, <3>2 DEF ExitsInv
  <2>9. StatesInv'
    BY <2>2 DEF RInv, StatesInv
  <2> QED BY <1>1, <2>5, <2>8, <2>9 DEF RInv
<1>4. CASE ExitSearch
  BY <1>4, ExitSearchRInv
<1>5. CASE ExitUnlink
  <2>1. /\ mode = "user" /\ activeThread[current] = 0 /\ exitPc[current] = "unlink"
        /\ next' = [next EXCEPT ![exitPrev[current]] = next[exitSlot[current]]]
        /\ removed' = removed \cup {exitSlot[current]}
        /\ exitPc' = [exitPc EXCEPT ![current] = "count"]
        /\ UNCHANGED <<current, cardinal_processes, state, nextPid, activeThread,
                       mode>>
    BY <1>5 DEF ExitUnlink, AtExit
  <2> DEFINE q == exitPrev[current]
  <2>2. /\ exitSlot[current] = current /\ q \in Live /\ next[q] = current
        /\ current # INIT_PID
    BY <1>2, <2>1 DEF RInv, ExitsInv, Ending
  <2>3. current \in Live
    BY <2>1 DEF RInv, RingInv
  <2>4. IsRing(next, current, cardinal_processes, Live) /\ INIT_PID \in Live
    <3>1. RingHead = current /\ RingSize = cardinal_processes
      BY <2>1, <2>3 DEF RingHead, RingSize
    <3> QED BY <3>1 DEF RInv, RingInv
  <2> HIDE DEF q
  <2>5. IsRing(next, next[current], cardinal_processes, Live) /\ next[current] \in Live
    BY <2>4, RingRotates
  <2>6. next[current] # current
    <3>1. next[current] \in Live \ {current}
      BY <1>2, <2>2, <2>3, <2>4, KernelRemoves
    <3> QED BY <3>1
  <2>7. next' = [next EXCEPT ![q] = next[current]]
    BY <2>1, <2>2 DEF q
  <2>8. Live' = Live \ {current}
    BY <2>1, <2>2 DEF Live, Slots
  <2>9. IsRing(next', next[current], cardinal_processes - 1, Live')
    <3>1. IsRing([next EXCEPT ![q] = next[current]], next[current],
                 cardinal_processes - 1, Live \ {current})
      BY <1>2, <2>2, <2>3, <2>5, <2>6, RingRemoves
    <3> QED BY <2>7, <2>8, <3>1
  <2>10. exitPc'[current] = "count" /\ next'[current] = next[current]
    BY <1>2, <2>1, <2>2, <2>6, <2>7
  <2>11. RingInv'
    <3>1. RingHead' = next[current] /\ RingSize' = cardinal_processes - 1
      BY <2>1, <2>8, <2>10 DEF RingHead, RingSize
    <3> QED BY <2>1, <2>2, <2>4, <2>8, <2>9, <2>10, <3>1 DEF RingInv
  <2>12. ExitsInv'
    BY <1>2, <2>1, <2>2, <2>10 DEF RInv, ExitsInv, Ending
  <2>13. StatesInv'
    BY <2>1 DEF RInv, StatesInv
  <2> QED BY <1>1, <2>11, <2>12, <2>13 DEF RInv
<1>6. CASE ExitCount
  <2>1. /\ mode = "user" /\ activeThread[current] = 0 /\ exitPc[current] = "count"
        /\ cardinal_processes' = cardinal_processes - 1
        /\ exitPc' = [exitPc EXCEPT ![current] = "yield"]
        /\ UNCHANGED <<next, current, state, nextPid, activeThread, mode, removed>>
    BY <1>6 DEF ExitCount, AtExit
  <2>2. exitPc'[current] = "yield" /\ Live' = Live
    BY <1>2, <2>1 DEF Live, Slots
  <2>3. RingHead' = RingHead /\ RingSize' = RingSize
    BY <2>1, <2>2 DEF RingHead, RingSize
  <2>4. RingInv'
    BY <2>1, <2>2, <2>3 DEF RInv, RingInv
  <2>5. ExitsInv'
    BY <1>2, <2>1, <2>2 DEF RInv, ExitsInv, Ending
  <2>6. StatesInv'
    BY <2>1 DEF RInv, StatesInv
  <2> QED BY <1>1, <2>4, <2>5, <2>6 DEF RInv
<1>7. CASE ExitYield
  <2>0. exitPc[current] # "end"
    <3>1. CASE exitPc[current] = "end"
      <4>1. current \in removed /\ mode = "user"
        BY <1>2, <1>7, <3>1 DEF RInv, ExitsInv, ExitYield, AtExit
      <4> QED BY <3>1, <4>1 DEF RInv, RingInv, Live
    <3> QED BY <3>1
  <2>1. /\ mode = "user" /\ activeThread[current] = 0 /\ exitPc[current] = "yield"
        /\ exitPc' = [exitPc EXCEPT ![current] = "end"]
        /\ state' = Preempted(state, current)
        /\ mode' = "yieldSchedule"
        /\ UNCHANGED <<next, current, cardinal_processes, nextPid, activeThread,
                       removed>>
    BY <1>7, <2>0 DEF ExitYield, AtExit
  <2>2. exitPc'[current] = "end" /\ Live' = Live
    BY <1>2, <2>1 DEF Live, Slots
  <2>3. RingHead' = RingHead /\ RingSize' = RingSize
    BY <2>1, <2>2 DEF RingHead, RingSize
  <2>4. RingInv'
    BY <2>1, <2>2, <2>3 DEF RInv, RingInv
  <2>5. ExitsInv'
    BY <1>2, <2>1, <2>2 DEF RInv, ExitsInv, Ending
  <2>6. StatesInv'
    BY <1>2, <2>1, PreemptedInit DEF RInv, StatesInv
  <2> QED BY <1>1, <2>4, <2>5, <2>6 DEF RInv
<1> QED BY <1>3, <1>4, <1>5, <1>6, <1>7 DEF Exit

LEMMA NextRInv ==
    ASSUME ~InterruptExit, RInv, [Next]_vars
    PROVE  RInv'
<1>1. CASE Kernel
  BY <1>1, ScheduleRInv, TickRInv, KillAllRInv DEF Kernel
<1>2. CASE Tick \/ RestartShell
  BY <1>2, TickRInv, KillAllRInv
<1>3. CASE Program
  <2>1. ASSUME RunC PROVE RInv'
    <3>1. Inv' /\ Whole
      <4>1. Next
        BY <1>3 DEF Next
      <4>2. Inv'
        BY <4>1, NextInv DEF RInv
      <4> QED BY <2>1, <4>2, HandlersWhole DEF RunC, InProgram
    <3> QED BY <2>1, <3>1, RunProgramRInv DEF RunC
  <2>2. ASSUME GPFault PROVE RInv'
    BY <2>2, KillRInv DEF GPFault
  <2> QED BY <1>3, <2>1, <2>2, CreateProcessRInv, ThreadRInv, ExitRInv, KillRInv,
             SleepRInv DEF Program
<1>4. CASE Wild \/ UNCHANGED vars
  <2>1. Inv'
    BY <1>4, NextInv DEF RInv, Next
  <2>2. UNCHANGED <<next, current, cardinal_processes, nextPid, exitPc, exitPrev,
                    exitSlot, exitI, removed, state, mode, activeThread>>
    BY <1>4 DEF Wild, vars, exitVars
  <2>3. Live' = Live /\ RingHead' = RingHead /\ RingSize' = RingSize
    BY <2>2 DEF Live, Slots, RingHead, RingSize
  <2>4. RingInv' /\ ExitsInv' /\ StatesInv'
    BY <2>2, <2>3 DEF RInv, RingInv, ExitsInv, StatesInv
  <2> QED BY <2>1, <2>4 DEF RInv
<1> QED BY <1>1, <1>2, <1>3, <1>4 DEF Next

-----------------------------------------------------------------------------
(***************************************************************************)
(* What follows.                                                           *)
(***************************************************************************)

\* The walk from a slot is the walk from the next one, a step later.
LEMMA WalkShift ==
    ASSUME NEW nx, NEW c
    PROVE  \A k \in 0..(MaxPid + 1) : Walk(nx, c)[k + 1] = Walk(nx, nx[c])[k]
<1>1. MaxPid \in Nat
  BY SizesAssumption
<1>2. /\ Walk(nx, c)[0] = c /\ Walk(nx, nx[c])[0] = nx[c]
      /\ \A k \in 0..(MaxPid + 1) : Walk(nx, c)[k + 1] = nx[Walk(nx, c)[k]]
      /\ \A k \in 0..(MaxPid + 1) : Walk(nx, nx[c])[k + 1] = nx[Walk(nx, nx[c])[k]]
  BY WalkSteps
<1> DEFINE V == Walk(nx, c)
           W == Walk(nx, nx[c])
<1> HIDE DEF V, W
<1>3. /\ V[0] = c /\ W[0] = nx[c]
      /\ \A k \in 0..(MaxPid + 1) : V[k + 1] = nx[V[k]]
      /\ \A k \in 0..(MaxPid + 1) : W[k + 1] = nx[W[k]]
  BY <1>2 DEF V, W
<1> DEFINE T == { k \in Nat : k <= MaxPid + 1 => V[k + 1] = W[k] }
<1>4. 0 \in T
  BY <1>1, <1>3
<1>5. ASSUME NEW k \in Nat, k \in T PROVE k + 1 \in T
  <2> SUFFICES ASSUME k + 1 <= MaxPid + 1 PROVE V[(k + 1) + 1] = W[k + 1]
    OBVIOUS
  <2>1. k \in 0..(MaxPid + 1) /\ k + 1 \in 0..(MaxPid + 1)
    BY <1>1
  <2>2. V[k + 1] = W[k] /\ W[k + 1] = nx[W[k]] /\ V[(k + 1) + 1] = nx[V[k + 1]]
    BY <1>3, <1>5, <2>1
  <2> QED BY <2>2
<1>6. \A k \in Nat : k \in T
  <2> HIDE DEF T
  <2> QED BY <1>4, <1>5, SetInduction
<1>7. \A k \in 0..(MaxPid + 1) : V[k + 1] = W[k]
  BY <1>1, <1>6
<1> QED BY <1>7 DEF V, W

\* changeProcessState, removeProcess and the list of processes meet every
\* process, and no other.
LEMMA WholeLists ==
    ASSUME Inv, Whole
    PROVE  /\ Listed = Live
           /\ Cardinality(Live) = cardinal_processes
           /\ Walk(next, current)[cardinal_processes] = current
<1>1. Live \in SUBSET Pid
  BY PidFacts
<1>2. PICK f \in [0..(cardinal_processes - 1) -> Live] :
         Ring(f, next, current, cardinal_processes, Live)
  BY DEF Whole, IsRing
<1>3. Cardinality(Live) = cardinal_processes
  BY <1>1, <1>2, RingCard
<1>4. GoesRound(Walk(next, current), f, current, cardinal_processes)
  BY <1>1, <1>2, RingWalk
<1>5. /\ \A k \in 0..(cardinal_processes - 1) : Walk(next, current)[k] = f[k]
      /\ Walk(next, current)[cardinal_processes] = current
  BY <1>4 DEF GoesRound
<1>6. Listed = { f[k] : k \in 0..(cardinal_processes - 1) }
  BY <1>5 DEF Listed
<1>7. { f[k] : k \in 0..(cardinal_processes - 1) } = Live
  BY <1>2 DEF Ring
<1> QED BY <1>3, <1>5, <1>6, <1>7

LEMMA InitMet ==
    ASSUME RInv
    PROVE  INIT_PID \in { Walk(next, current)[k] : k \in 1..(MaxPid + 1) }
<1>1. /\ Live \in SUBSET Pid /\ current \in Pid /\ MaxPid \in Nat
      /\ INIT_PID \in Live
  BY PidFacts DEF RInv, RingInv
<1>2. PICK f \in [0..(RingSize - 1) -> Live] :
         Ring(f, next, RingHead, RingSize, Live)
  BY DEF RInv, RingInv, IsRing
<1>3. /\ RingSize \in Nat \ {0} /\ RingSize <= MaxPid + 1
      /\ current \notin Live => RingSize <= MaxPid
  <2>1. RingSize <= MaxPid + 1 /\ \A x \in Pid : x \notin Live => RingSize <= MaxPid
    BY <1>1, <1>2, RingCard
  <2> QED BY <1>1, <1>2, <2>1 DEF Ring
<1>4. GoesRound(Walk(next, RingHead), f, RingHead, RingSize)
  BY <1>1, <1>2, RingWalk
<1>5. PICK k \in 0..(RingSize - 1) : f[k] = INIT_PID
  BY <1>1, <1>2 DEF Ring
<1>6. Walk(next, RingHead)[k] = INIT_PID /\ Walk(next, RingHead)[RingSize] = RingHead
      /\ Walk(next, RingHead)[0] = RingHead
  BY <1>4, <1>5, WalkSteps DEF GoesRound
<1>7. CASE current \in Live
  <2>1. RingHead = current
    BY <1>7 DEF RingHead
  <2>2. CASE k = 0
    <3>1. Walk(next, current)[RingSize] = INIT_PID /\ RingSize \in 1..(MaxPid + 1)
      BY <1>1, <1>3, <1>6, <2>1, <2>2
    <3> QED BY <3>1
  <2>3. CASE k # 0
    <3>1. Walk(next, current)[k] = INIT_PID /\ k \in 1..(MaxPid + 1)
      BY <1>1, <1>3, <1>5, <1>6, <2>1, <2>3
    <3> QED BY <3>1
  <2> QED BY <2>2, <2>3
<1>8. CASE current \notin Live
  <2>1. RingHead = next[current]
    BY <1>8 DEF RingHead
  <2>2. k \in 0..(MaxPid + 1) /\ k + 1 \in 1..(MaxPid + 1)
    BY <1>1, <1>3, <1>5, <1>8
  <2>3. Walk(next, current)[k + 1] = Walk(next, next[current])[k]
    BY <2>2, WalkShift
  <2>4. Walk(next, current)[k + 1] = INIT_PID
    BY <1>6, <2>1, <2>3
  <2> QED BY <2>2, <2>4
<1> QED BY <1>7, <1>8

\* As long as no interrupt hits the end of a program, the slots reached from
\* current in cardinal_processes steps are exactly the processes created and
\* not removed: for any number of processes and any sequence of creations,
\* kills, faults, exits, program changes and shell restarts.
THEOREM RingComplete ==
    ASSUME ~InterruptExit
    PROVE  Spec => []RingListsLive
<1>1. RInv => RingListsLive
  <2> SUFFICES ASSUME RInv, mode \in {"user", "tick", "killAll"}, ~Exiting(current)
               PROVE  /\ Listed = Live
                      /\ Cardinality(Live) = cardinal_processes
                      /\ Walk(next, current)[cardinal_processes] = current
    BY DEF RingListsLive
  <2>1. Whole
    BY HandlersWhole
  <2> QED BY <2>1, WholeLists DEF RInv
<1> QED BY <1>1, InitRInv, NextRInv, PTL DEF Spec

\* schedule() always finds a process to dispatch: init never sleeps and is on
\* the way round from current, also when current has just been removed.
THEOREM InitAlwaysMet ==
    ASSUME ~InterruptExit
    PROVE  Spec => []InitSchedulable
<1>1. RInv => InitSchedulable
  BY InitMet DEF RInv, StatesInv, InitSchedulable
<1> QED BY <1>1, InitRInv, NextRInv, PTL DEF Spec

\* A process that was killed, faulted, exited or was replaced by runC never
\* executes again.
THEOREM RemovedStayAway ==
    ASSUME ~InterruptExit
    PROVE  Spec => []NoZombie
<1>1. RInv => NoZombie
  <2> SUFFICES ASSUME RInv, mode = "user", ~Exiting(current)
               PROVE  current \in Live /\ (current = INIT_PID \/ state[current] = "RUNNING")
    BY DEF NoZombie
  <2>1. Whole
    BY HandlersWhole
  <2> QED BY <2>1 DEF Whole, RInv, StatesInv
<1> QED BY <1>1, InitRInv, NextRInv, PTL DEF Spec

-----------------------------------------------------------------------------
(***************************************************************************)
(* The sleep table.                                                        *)
(***************************************************************************)

\* A finite set of numbers has a largest one.
LEMMA LargestNumber ==
    ASSUME NEW S \in SUBSET Nat, IsFiniteSet(S), S # {}
    PROVE  \E m \in S : \A s \in S : s <= m
<1> DEFINE HasLargest(U) == \E m \in U : \A s \in U : s <= m
           Sets(n) == { U \in SUBSET Nat : IsFiniteSet(U) /\ Cardinality(U) = n }
           T == { n \in Nat : \A U \in Sets(n) : U # {} => HasLargest(U) }
<1>1. 0 \in T
  BY FS_EmptySet
<1>2. ASSUME NEW n \in Nat, n \in T PROVE n + 1 \in T
  <2> SUFFICES ASSUME NEW U \in Sets(n + 1), U # {} PROVE HasLargest(U)
    OBVIOUS
  <2>1. PICK x \in U : TRUE
    OBVIOUS
  <2>2. x \in Nat /\ U \in SUBSET Nat
    OBVIOUS
  <2>3. IsFiniteSet(U \ {x}) /\ Cardinality(U \ {x}) = n
    <3>1. IsFiniteSet(U) /\ Cardinality(U) = n + 1
      OBVIOUS
    <3>2. IsFiniteSet(U \ {x}) /\ Cardinality(U \ {x}) = Cardinality(U) - 1
      BY <2>1, <3>1, FS_RemoveElement
    <3>3. (n + 1) - 1 = n
      OBVIOUS
    <3> QED BY <3>1, <3>2, <3>3
  <2>4. CASE U \ {x} = {}
    <3>1. \A s \in U : s <= x
      BY <2>2, <2>4
    <3> QED BY <3>1
  <2>5. CASE U \ {x} # {}
    <3>1. U \ {x} \in Sets(n)
      BY <2>3
    <3>2. HasLargest(U \ {x})
      BY <1>2, <2>5, <3>1
    <3>3. PICK m \in U \ {x} : \A s \in U \ {x} : s <= m
      BY <3>2
    <3>4. CASE x <= m
      <4>1. \A s \in U : s <= m
        BY <3>3, <3>4
      <4> QED BY <4>1
    <3>5. CASE ~(x <= m)
      <4>1. m \in Nat /\ m <= x
        BY <2>2, <3>5
      <4>2. \A s \in U : s \in Nat
        BY <2>2
      <4>3. \A s \in U : s <= x
        BY <2>2, <3>3, <4>1, <4>2
      <4> QED BY <4>3
    <3> QED BY <3>4, <3>5
  <2> QED BY <2>4, <2>5
<1>3. \A n \in Nat : n \in T
  <2> HIDE DEF T
  <2> QED BY <1>1, <1>2, SetInduction
<1>4. Cardinality(S) \in Nat
  BY FS_CardinalityType
<1> QED BY <1>3, <1>4

\* No alarm is beyond what the counters count to.
LEMMA LastCountBound == LastCount \in Nat /\ \A t \in SleepTimes : t < LastCount
<1> DEFINE m == CHOOSE t \in SleepTimes : \A u \in SleepTimes : u <= t
<1>1. \E t \in SleepTimes : \A u \in SleepTimes : u <= t
  BY LargestNumber, SleepAssumption
<1>2. m \in SleepTimes /\ \A u \in SleepTimes : u <= m
  BY <1>1
<1>3. LastCount = 1 + m
  BY DEF LastCount
<1> HIDE DEF m
<1>4. m \in Nat /\ \A u \in SleepTimes : u \in Nat
  BY <1>2, SleepAssumption
<1> QED BY <1>2, <1>3, <1>4

\* deleteSleep: the last entry in the place of entry i.
LEMMA DeletedEntries ==
    ASSUME NEW s \in Seq(Entry), NEW i \in 1..Len(s)
    PROVE  /\ Len(Deleted(s, i)) = Len(s) - 1
           /\ \A j \in 1..(Len(s) - 1) :
                 Deleted(s, i)[j] = IF j = i THEN s[Len(s)] ELSE s[j]
<1>1. Len(s) \in Nat /\ Len(s) \in 1..Len(s)
  BY LenProperties
<1>2. s[Len(s)] \in Entry
  BY <1>1, ElementOfSeq
<1> DEFINE t == [s EXCEPT ![i] = s[Len(s)]]
           n == Len(s) - 1
<1>3. \A j \in 1..n : t[j] \in Entry /\ t[j] = IF j = i THEN s[Len(s)] ELSE s[j]
  BY <1>1, <1>2, ExceptSeq, ElementOfSeq
<1> HIDE DEF t
<1>4. n \in Nat
  BY <1>1
<1>5. Deleted(s, i) = SubSeq(t, 1, n)
  BY DEF Deleted, t
<1> HIDE DEF n
<1>6. /\ Len(SubSeq(t, 1, n)) = IF 1 <= n THEN (n - 1) + 1 ELSE 0
      /\ \A j \in 1..((n - 1) + 1) : SubSeq(t, 1, n)[j] = t[(1 + j) - 1]
  BY <1>3, <1>4, SubSeqProperties
<1>7. Len(SubSeq(t, 1, n)) = n /\ \A j \in 1..n : SubSeq(t, 1, n)[j] = t[j]
  <2>1. (n - 1) + 1 = n /\ \A j \in 1..n : (1 + j) - 1 = j
    BY <1>4
  <2> QED BY <1>4, <1>6, <2>1
<1> QED BY <1>3, <1>5, <1>7 DEF n

\* No alarm has passed, and every entry has been counted once per tick.
CountInv ==
    \A i \in 1..Len(sleepers) :
        /\ sleepers[i].counter < sleepers[i].alarm
        /\ sleepers[i].counter =
              IF mode = "tick" /\ i > auxj THEN sleepers[i].slept - 1
                                           ELSE sleepers[i].slept

\* The steps that do not touch the table are taken outside the tick's loop.
LEMMA TableKept ==
    ASSUME [Next]_vars
    PROVE  \/ Tick \/ TickEntry \/ TickSwitch
           \/ \E time \in SleepTimes : Sleep(time)
           \/ UNCHANGED <<sleepers, mode, auxj>>
           \/ sleepers' = sleepers /\ mode # "tick" /\ mode' # "tick"
<1>1. ASSUME NEW nx, NEW card, NEW pid, RemoveProcess(nx, card, pid)
      PROVE  mode' # "tick"
  BY <1>1 DEF RemoveProcess
<1>2. CASE Kernel
  <2>1. ASSUME Schedule PROVE sleepers' = sleepers /\ mode # "tick" /\ mode' # "tick"
    BY <2>1 DEF Schedule, Resumed
  <2>2. ASSUME KillAllStep PROVE sleepers' = sleepers /\ mode # "tick" /\ mode' # "tick"
    BY <2>2 DEF KillAllStep
  <2>3. ASSUME KillAllEnd PROVE sleepers' = sleepers /\ mode # "tick" /\ mode' # "tick"
    BY <1>1, <2>3 DEF KillAllEnd, RunProgram
  <2> QED BY <1>2, <2>1, <2>2, <2>3 DEF Kernel
<1>3. CASE RestartShell
  BY <1>3 DEF RestartShell, Interruptible
<1>4. CASE Program
  <2>1. ASSUME CreateProcess \/ CreateThread \/ ExitStart
        PROVE  UNCHANGED <<sleepers, mode, auxj>>
    BY <2>1 DEF CreateProcess, CreateThread, ExitStart
  <2>2. ASSUME NEW pid, Kill(pid)
        PROVE  sleepers' = sleepers /\ mode # "tick" /\ mode' # "tick"
    BY <1>1, <2>2 DEF Kill, InProgram
  <2>3. ASSUME RunC PROVE sleepers' = sleepers /\ mode # "tick" /\ mode' # "tick"
    BY <1>1, <2>3 DEF RunC, RunProgram, InProgram
  <2>4. ASSUME ExitThread PROVE sleepers' = sleepers /\ mode # "tick" /\ mode' # "tick"
    BY <2>4 DEF ExitThread, InProgram
  <2>5. ASSUME Exit PROVE sleepers' = sleepers /\ mode # "tick" /\ mode' # "tick"
    BY <2>5 DEF Exit, ExitSearch, ExitUnlink, ExitCount, ExitYield, AtExit
  <2> QED BY <1>4, <2>1, <2>2, <2>3, <2>4, <2>5 DEF Program, GPFault
<1>5. CASE Wild \/ UNCHANGED vars
  BY <1>5 DEF Wild, vars
<1> QED BY <1>2, <1>3, <1>4, <1>5 DEF Next

\* What the entry at i becomes when it is counted.
LEMMA CountsOn ==
    ASSUME NEW e \in Entry, e.counter < e.alarm
    PROVE  /\ Counted(e.counter) = e.counter + 1
           /\ e.counter \in Nat /\ e.alarm \in Nat /\ e.slept \in Nat
           /\ e.slept = e.counter => Counted(e.slept) = e.counter + 1
<1>1. /\ e.counter \in Nat /\ e.alarm \in SleepTimes /\ e.slept \in Nat
  BY DEF Entry
<1>2. e.alarm \in Nat /\ e.alarm < LastCount /\ LastCount \in Nat
  BY <1>1, LastCountBound, SleepAssumption
<1> QED BY <1>1, <1>2 DEF Counted

LEMMA NextCountInv ==
    ASSUME 0 \notin SleepTimes, Inv, CountInv, [Next]_vars
    PROVE  CountInv'
<1>1. sleepers \in Seq(Entry) /\ Len(sleepers) \in Nat /\ auxj \in Nat
  BY LenProperties DEF Inv, TypeOK
<1>2. \A i \in 1..Len(sleepers) : sleepers[i] \in Entry
  BY <1>1, ElementOfSeq
<1>3. CASE Tick
  <2>1. /\ sleepers' = [i \in 1..Len(sleepers) |->
                          [sleepers[i] EXCEPT !.slept = Counted(@)]]
        /\ mode = "user" /\ mode' = "tick" /\ auxj' = 0
    BY <1>3 DEF Tick, Interruptible
  <2>2. Len(sleepers') = Len(sleepers)
    BY <1>1, <2>1
  <2>3. ASSUME NEW i \in 1..Len(sleepers)
        PROVE  /\ sleepers'[i].counter < sleepers'[i].alarm
               /\ sleepers'[i].counter = sleepers'[i].slept - 1
    <3> DEFINE e == sleepers[i]
    <3>1. e \in Entry /\ e.counter < e.alarm /\ e.counter = e.slept
      BY <1>2, <2>1 DEF CountInv
    <3>2. sleepers'[i] = [e EXCEPT !.slept = Counted(e.slept)]
      BY <2>1
    <3>3. /\ sleepers'[i].counter = e.counter /\ sleepers'[i].alarm = e.alarm
          /\ sleepers'[i].slept = Counted(e.slept)
      BY <3>1, <3>2 DEF Entry
    <3> HIDE DEF e
    <3>4. Counted(e.slept) = e.counter + 1 /\ e.counter \in Nat
      BY <3>1, CountsOn
    <3> QED BY <3>1, <3>3, <3>4
  <2>4. mode' = "tick" /\ \A i \in 1..Len(sleepers) : i > auxj'
    BY <1>1, <2>1
  <2> QED BY <2>2, <2>3, <2>4 DEF CountInv
<1>4. CASE TickEntry
  <2> DEFINE a == auxj + 1
             e == sleepers[a]
             counter == Counted(e.counter)
  <2>1. mode = "tick" /\ mode' = "tick" /\ a \in 1..Len(sleepers)
    BY <1>1, <1>4 DEF TickEntry
  <2>2. /\ e \in Entry /\ e.counter < e.alarm /\ e.counter = e.slept - 1
    BY <1>1, <1>2, <2>1 DEF CountInv
  <2>3. /\ counter = e.counter + 1 /\ e.counter \in Nat /\ e.alarm \in Nat
        /\ e.slept \in Nat
    <3> HIDE DEF e
    <3> QED BY <2>2, CountsOn
  <2>4. CASE counter = e.alarm
    <3>1. sleepers' = Deleted(sleepers, a) /\ auxj' = auxj
      BY <1>4, <2>4 DEF TickEntry
    <3>2. /\ Len(sleepers') = Len(sleepers) - 1
          /\ \A j \in 1..(Len(sleepers) - 1) :
                sleepers'[j] = IF j = a THEN sleepers[Len(sleepers)] ELSE sleepers[j]
      BY <1>1, <2>1, <3>1, DeletedEntries
    <3>3. ASSUME NEW j \in 1..(Len(sleepers) - 1)
          PROVE  \E k \in 1..Len(sleepers) :
                    sleepers'[j] = sleepers[k] /\ (k > auxj <=> j > auxj)
      <4>1. CASE j = a
        <5>1. /\ Len(sleepers) \in 1..Len(sleepers)
              /\ Len(sleepers) > auxj /\ j > auxj
          BY <1>1, <2>1, <4>1
        <5> QED BY <3>2, <4>1, <5>1
      <4>2. CASE j # a
        <5>1. j \in 1..Len(sleepers)
          BY <1>1
        <5> QED BY <3>2, <4>2, <5>1
      <4> QED BY <4>1, <4>2
    <3> QED BY <2>1, <3>1, <3>2, <3>3 DEF CountInv
  <2>5. CASE counter # e.alarm
    <3>1. /\ sleepers' = [sleepers EXCEPT ![a] = [e EXCEPT !.counter = counter]]
          /\ auxj' = a
      BY <1>4, <2>5 DEF TickEntry
    <3>2. [e EXCEPT !.counter = counter] \in Entry
      BY <2>2, <2>3 DEF Entry
    <3>3. /\ Len(sleepers') = Len(sleepers)
          /\ \A j \in 1..Len(sleepers) :
                sleepers'[j] = IF j = a THEN [e EXCEPT !.counter = counter]
                                        ELSE sleepers[j]
      BY <1>1, <2>1, <3>1, <3>2, ExceptSeq
    <3>4. ASSUME NEW j \in 1..Len(sleepers)
          PROVE  /\ sleepers'[j].counter < sleepers'[j].alarm
                 /\ sleepers'[j].counter = IF j > auxj' THEN sleepers'[j].slept - 1
                                                        ELSE sleepers'[j].slept
      <4>1. CASE j = a
        <5>1. /\ sleepers'[j].counter = e.counter + 1
              /\ sleepers'[j].alarm = e.alarm /\ sleepers'[j].slept = e.slept
          BY <2>2, <2>3, <3>3, <4>1 DEF Entry
        <5>2. ~(j > auxj') /\ e.counter + 1 < e.alarm /\ e.counter + 1 = e.slept
          BY <1>1, <2>2, <2>3, <2>5, <3>1, <4>1
        <5> QED BY <5>1, <5>2
      <4>2. CASE j # a
        <5>1. sleepers'[j] = sleepers[j] /\ (j > auxj' <=> j > auxj)
          BY <1>1, <3>1, <3>3, <4>2
        <5> QED BY <2>1, <5>1 DEF CountInv
      <4> QED BY <4>1, <4>2
    <3> QED BY <2>1, <3>3, <3>4 DEF CountInv
  <2> QED BY <2>4, <2>5
<1>5. CASE TickSwitch
  <2>1. /\ sleepers' = sleepers /\ mode = "tick" /\ mode' # "tick"
        /\ auxj >= Len(sleepers)
    BY <1>5 DEF TickSwitch
  <2>2. \A i \in 1..Len(sleepers) : ~(i > auxj)
    BY <1>1, <2>1
  <2> QED BY <2>1, <2>2 DEF CountInv
<1>6. CASE \E time \in SleepTimes : Sleep(time)
  <2>1. PICK time \in SleepTimes : Sleep(time)
    BY <1>6
  <2> DEFINE e == [pid |-> current, counter |-> 0, alarm |-> time, slept |-> 0]
  <2>2. e \in Entry /\ e.counter = 0 /\ e.slept = 0 /\ e.alarm = time
    BY PidFacts DEF Entry
  <2>3. time \in Nat /\ 0 < time
    BY SleepAssumption
  <2>4. mode = "user" /\ mode' # "tick"
    BY <2>1 DEF Sleep, InProgram
  <2>5. sleepers' = sleepers \/ sleepers' = Append(sleepers, e)
    BY <2>1 DEF Sleep
  <2> HIDE DEF e
  <2>6. CASE sleepers' = Append(sleepers, e)
    <3>1. /\ Len(sleepers') = Len(sleepers) + 1
          /\ \A i \in 1..Len(sleepers) : sleepers'[i] = sleepers[i]
          /\ sleepers'[Len(sleepers) + 1] = e
      BY <1>1, <2>2, <2>6, AppendProperties
    <3>2. \A i \in 1..Len(sleepers') : i \in 1..Len(sleepers) \/ i = Len(sleepers) + 1
      BY <1>1, <3>1
    <3>3. ASSUME NEW i \in 1..Len(sleepers')
          PROVE  /\ sleepers'[i].counter < sleepers'[i].alarm
                 /\ sleepers'[i].counter = sleepers'[i].slept
      <4>1. CASE i \in 1..Len(sleepers)
        BY <2>4, <3>1, <4>1 DEF CountInv
      <4>2. CASE i = Len(sleepers) + 1
        BY <2>2, <2>3, <3>1, <4>2
      <4> QED BY <3>2, <4>1, <4>2
    <3> QED BY <2>4, <3>3 DEF CountInv
  <2>7. CASE sleepers' = sleepers
    BY <2>4, <2>7 DEF CountInv
  <2> QED BY <2>5, <2>6, <2>7
<1>7. CASE UNCHANGED <<sleepers, mode, auxj>>
  BY <1>7 DEF CountInv
<1>8. CASE sleepers' = sleepers /\ mode # "tick" /\ mode' # "tick"
  BY <1>8 DEF CountInv
<1> QED BY <1>3, <1>4, <1>5, <1>6, <1>7, <1>8, TableKept

\* The tick counts every entry of the sleep table exactly once, also the one
\* that deleteSleep moves: for any table and any alarms of at least one tick,
\* also when interrupts hit a program that is ending.
THEOREM EveryTickCounts ==
    ASSUME 0 \notin SleepTimes
    PROVE  Spec => []CountedOncePerTick
<1>1. Init => CountInv
  BY EmptySeq DEF Init, CountInv
<1>2. CountInv => CountedOncePerTick
  BY DEF CountInv, CountedOncePerTick
<1> QED BY <1>1, <1>2, InitInv, NextInv, NextCountInv, PTL DEF Spec

\* An entry belongs to a process that sleeps, or slept when it was removed; no
\* process has two; a process that sleeps and was not removed has one.
TableInv ==
    /\ \A i \in 1..Len(sleepers) :
         /\ sleepers[i].pid \in Slots \ {INIT_PID}
         /\ state[sleepers[i].pid] = "SLEEPING" \/ sleepers[i].pid \in removed
    /\ \A i, j \in 1..Len(sleepers) : sleepers[i].pid = sleepers[j].pid => i = j
    /\ \A p \in Pid : state[p] = "SLEEPING" =>
         p \in removed \/ \E i \in 1..Len(sleepers) : sleepers[i].pid = p

\* Steps after which the same processes have entries and the same ones sleep.
LEMMA TableInvKept ==
    ASSUME Inv, TableInv, Len(sleepers') = Len(sleepers),
           \A i \in 1..Len(sleepers) : sleepers'[i].pid = sleepers[i].pid,
           \A p \in Pid : state'[p] = "SLEEPING" <=> state[p] = "SLEEPING",
           removed \subseteq removed', Slots \subseteq Slots'
    PROVE  TableInv'
<1>1. \A i \in 1..Len(sleepers) : sleepers[i].pid \in Pid
  BY PidFacts DEF TableInv
<1> QED BY <1>1 DEF TableInv

\* Only sleep and the alarm change who sleeps.
LEMMA SleepingKept ==
    ASSUME Inv, [Next]_vars, ~TickEntry, ~(\E time \in SleepTimes : Sleep(time))
    PROVE  /\ \A p \in Pid : state'[p] = "SLEEPING" <=> state[p] = "SLEEPING"
           /\ removed \subseteq removed' /\ Slots \subseteq Slots'
<1>1. state \in [Pid -> ProcessState]
  BY PidFacts
<1>2. \A p \in Pid : Preempted(state, current)[p] = "SLEEPING" <=> state[p] = "SLEEPING"
  BY <1>1 DEF Preempted
<1>3. ASSUME nextPid' = nextPid PROVE Slots \subseteq Slots'
  BY <1>3 DEF Slots
<1>4. ASSUME nextPid' = nextPid + 1 PROVE Slots \subseteq Slots'
  <2>1. nextPid \in Nat
    BY SizesAssumption DEF Inv, TypeOK
  <2> QED BY <1>4, <2>1 DEF Slots
<1>5. ASSUME NEW nx, NEW card, NEW pid, RemoveProcess(nx, card, pid)
      PROVE  /\ \A p \in Pid : state'[p] = "SLEEPING" <=> state[p] = "SLEEPING"
             /\ removed \subseteq removed'
  BY <1>2, <1>5 DEF RemoveProcess
<1>6. CASE Kernel
  <2>1. CASE Schedule
    <3>1. removed' = removed /\ nextPid' = nextPid
      BY <2>1 DEF Schedule
    <3>2. CASE state[next[current]] = "READY"
      BY <1>1, <1>3, <2>1, <3>1, <3>2 DEF Schedule
    <3>3. CASE state[next[current]] # "READY"
      BY <1>1, <1>3, <2>1, <3>1, <3>3 DEF Schedule
    <3> QED BY <3>2, <3>3
  <2>2. CASE TickSwitch
    BY <1>2, <1>3, <2>2 DEF TickSwitch
  <2>3. CASE KillAllStep
    BY <1>3, <2>3 DEF KillAllStep
  <2>4. CASE KillAllEnd
    BY <1>4, <1>5, <2>4 DEF KillAllEnd, RunProgram
  <2> QED BY <1>6, <2>1, <2>2, <2>3, <2>4 DEF Kernel
<1>7. CASE Tick \/ RestartShell
  BY <1>3, <1>7 DEF Tick, RestartShell
<1>8. CASE Program
  <2>1. ASSUME CreateProcess
        PROVE  state' = state /\ removed' = removed /\ nextPid' = nextPid + 1
    BY <2>1 DEF CreateProcess
  <2>2. ASSUME CreateThread \/ ExitStart
        PROVE  state' = state /\ removed' = removed /\ nextPid' = nextPid
    BY <2>2 DEF CreateThread, ExitStart
  <2>3. ASSUME NEW pid, Kill(pid)
        PROVE  /\ \A p \in Pid : state'[p] = "SLEEPING" <=> state[p] = "SLEEPING"
               /\ removed \subseteq removed' /\ nextPid' = nextPid
    BY <1>5, <2>3 DEF Kill
  <2>4. ASSUME RunC
        PROVE  /\ \A p \in Pid : state'[p] = "SLEEPING" <=> state[p] = "SLEEPING"
               /\ removed \subseteq removed' /\ nextPid' = nextPid + 1
    BY <1>5, <2>4 DEF RunC, RunProgram
  <2>5. ASSUME ExitThread
        PROVE  /\ \A p \in Pid : state'[p] = "SLEEPING" <=> state[p] = "SLEEPING"
               /\ removed \subseteq removed' /\ nextPid' = nextPid
    BY <1>2, <2>5 DEF ExitThread
  <2>6. ASSUME Exit
        PROVE  /\ \A p \in Pid : state'[p] = "SLEEPING" <=> state[p] = "SLEEPING"
               /\ removed \subseteq removed' /\ nextPid' = nextPid
    BY <1>2, <2>6 DEF Exit, ExitSearch, ExitUnlink, ExitCount, ExitYield
  <2> QED BY <1>3, <1>4, <1>8, <2>1, <2>2, <2>3, <2>4, <2>5, <2>6 DEF Program, GPFault
<1>9. CASE Wild \/ UNCHANGED vars
  BY <1>3, <1>9 DEF Wild, vars
<1> QED BY <1>6, <1>7, <1>8, <1>9 DEF Next

\* The alarm goes off: the process of the entry is woken, if it is in the ring.
LEMMA WakeTableInv ==
    ASSUME Inv, Whole, TableInv, NEW a \in 1..Len(sleepers),
           state' = StateChanged(sleepers[a].pid, "READY"),
           sleepers' = Deleted(sleepers, a),
           UNCHANGED <<nextPid, removed>>
    PROVE  TableInv'
<1> DEFINE n == Len(sleepers)
           w == sleepers[a].pid
<1>1. sleepers \in Seq(Entry) /\ n \in Nat
  BY LenProperties DEF Inv, TypeOK
<1>2. /\ Len(sleepers') = n - 1
      /\ \A j \in 1..(n - 1) :
            sleepers'[j] = IF j = a THEN sleepers[n] ELSE sleepers[j]
  BY <1>1, DeletedEntries
<1>3. w \in Slots /\ w \in Pid /\ state \in [Pid -> ProcessState]
  BY PidFacts DEF TableInv
<1>4. /\ \A p \in Pid : p # w => state'[p] = state[p]
      /\ w \notin removed => state'[w] = "READY"
  <2>1. Listed = Live
    BY WholeLists
  <2>2. w \in Listed <=> w \notin removed
    BY <1>3, <2>1 DEF Live
  <2> QED BY <1>3, <2>2 DEF StateChanged
<1>5. Slots' = Slots
  BY DEF Slots
<1>6. /\ \A i \in 1..n : /\ sleepers[i].pid \in Slots \ {INIT_PID}
                         /\ sleepers[i].pid \in Pid
                         /\ state[sleepers[i].pid] = "SLEEPING"
                            \/ sleepers[i].pid \in removed
      /\ \A i, j \in 1..n : sleepers[i].pid = sleepers[j].pid => i = j
  BY PidFacts DEF TableInv
<1>7. \A p \in Pid : state[p] = "SLEEPING" =>
         p \in removed \/ \E i \in 1..n : sleepers[i].pid = p
  BY DEF TableInv
<1> DEFINE old(j) == IF j = a THEN n ELSE j
<1>8. /\ \A j \in 1..(n - 1) : old(j) \in 1..n /\ old(j) # a /\ sleepers'[j] = sleepers[old(j)]
      /\ \A i, j \in 1..(n - 1) : old(i) = old(j) => i = j
      /\ \A k \in 1..n : k # a => \E j \in 1..(n - 1) : old(j) = k
  <2>1. \A j \in 1..(n - 1) : old(j) \in 1..n /\ old(j) # a /\ sleepers'[j] = sleepers[old(j)]
    BY <1>1, <1>2
  <2>2. \A i, j \in 1..(n - 1) : old(i) = old(j) => i = j
    BY <1>1
  <2>3. ASSUME NEW k \in 1..n, k # a PROVE \E j \in 1..(n - 1) : old(j) = k
    <3>1. CASE k = n
      <4>1. a \in 1..(n - 1) /\ old(a) = k
        BY <1>1, <2>3, <3>1
      <4> QED BY <4>1
    <3>2. CASE k # n
      <4>1. k \in 1..(n - 1) /\ old(k) = k
        BY <1>1, <2>3, <3>2
      <4> QED BY <4>1
    <3> QED BY <3>1, <3>2
  <2> QED BY <2>1, <2>2, <2>3
<1> HIDE DEF old, n
<1>9. ASSUME NEW j \in 1..(n - 1)
      PROVE  /\ sleepers'[j].pid \in Slots \ {INIT_PID}
             /\ state'[sleepers'[j].pid] = "SLEEPING" \/ sleepers'[j].pid \in removed
  <2>1. /\ old(j) \in 1..n /\ old(j) # a
        /\ sleepers'[j].pid = sleepers[old(j)].pid
    BY <1>8
  <2>2. sleepers[old(j)].pid # w
    BY <1>6, <2>1 DEF n
  <2> QED BY <1>4, <1>6, <2>1, <2>2
<1>10. ASSUME NEW i \in 1..(n - 1), NEW j \in 1..(n - 1),
              sleepers'[i].pid = sleepers'[j].pid
       PROVE  i = j
  <2>1. sleepers[old(i)].pid = sleepers[old(j)].pid /\ old(i) \in 1..n /\ old(j) \in 1..n
    BY <1>8, <1>10
  <2> QED BY <1>6, <1>8, <2>1
<1>11. ASSUME NEW p \in Pid, state'[p] = "SLEEPING", p \notin removed
       PROVE  \E j \in 1..(n - 1) : sleepers'[j].pid = p
  <2>1. p # w /\ state[p] = "SLEEPING"
    BY <1>4, <1>11
  <2>2. PICK k \in 1..n : sleepers[k].pid = p
    BY <1>7, <1>11, <2>1
  <2>3. k # a
    BY <2>1, <2>2
  <2>4. PICK j \in 1..(n - 1) : old(j) = k
    BY <1>8, <2>3
  <2> QED BY <1>8, <2>2, <2>4
<1> QED BY <1>2, <1>5, <1>9, <1>10, <1>11 DEF TableInv, n

\* A process that falls asleep gets an entry: it has none, and each of the
\* others has at most one, so the table has a place left.
LEMMA SleepTableInv ==
    ASSUME RInv, TableInv, MAX_LISTENERS >= MaxPid, NEW time \in SleepTimes,
           Sleep(time)
    PROVE  TableInv'
<1> DEFINE n == Len(sleepers)
           e == [pid |-> current, counter |-> 0, alarm |-> time, slept |-> 0]
<1>1. /\ sleepers \in Seq(Entry) /\ n \in Nat /\ MaxPid \in Nat /\ MAX_LISTENERS \in Nat
      /\ current \in Pid /\ state \in [Pid -> ProcessState]
  BY LenProperties, PidFacts, SizesAssumption DEF RInv, Inv, TypeOK
<1>2. Whole /\ current # INIT_PID /\ state[current] = "RUNNING"
  BY HandlersWhole DEF RInv, StatesInv, Sleep, InProgram
<1>3. current \in Slots /\ current \notin removed
  BY <1>2 DEF Whole, Live
<1>4. \A i \in 1..n : /\ sleepers[i].pid # current
                      /\ sleepers[i].pid \in Slots \ {INIT_PID}
                      /\ sleepers[i].pid \in Pid
  BY <1>2, <1>3, PidFacts DEF TableInv, RInv
<1>5. n < MAX_LISTENERS
  <2> DEFINE U == (1..MaxPid) \ {current}
             h == [i \in 1..n |-> sleepers[i].pid]
  <2>1. current \in 1..MaxPid
    BY <1>1, <1>2 DEF Pid, INIT_PID
  <2>2. IsFiniteSet(1..MaxPid) /\ Cardinality(1..MaxPid) = MaxPid
    <3>1. /\ IsFiniteSet(1..MaxPid)
          /\ Cardinality(1..MaxPid) = IF 1 > MaxPid THEN 0 ELSE (MaxPid - 1) + 1
      BY <1>1, FS_Interval
    <3> QED BY <1>1, <2>1, <3>1
  <2>3. IsFiniteSet(U) /\ Cardinality(U) = MaxPid - 1
    BY <2>1, <2>2, FS_RemoveElement
  <2>4. \A i \in 1..n : h[i] \in U
    BY <1>1, <1>4 DEF Pid, INIT_PID
  <2>5. \A i, j \in 1..n : h[i] = h[j] => i = j
    BY DEF TableInv
  <2>6. h \in [1..n -> U]
    BY <2>4
  <2> HIDE DEF h, U
  <2>7. h \in Injection(1..n, U)
    BY <2>5, <2>6 DEF Injection, IsInjective
  <2>8. Cardinality(1..n) <= Cardinality(U)
    BY <2>3, <2>7, FS_Injection
  <2>9. Cardinality(1..n) = n
    <3> HIDE DEF n
    <3>1. Cardinality(1..n) = IF 1 > n THEN 0 ELSE (n - 1) + 1
      BY <1>1, FS_Interval
    <3> QED BY <1>1, <3>1
  <2> HIDE DEF n
  <2>10. n <= MaxPid - 1
    BY <2>3, <2>8, <2>9
  <2> QED BY <1>1, <2>10
<1>6. sleepers' = Append(sleepers, e)
  BY <1>1, <1>5 DEF Sleep
<1>7. e \in Entry /\ e.pid = current
  BY <1>1 DEF Entry
<1> HIDE DEF e
<1>8. /\ Len(sleepers') = n + 1
      /\ \A i \in 1..n : sleepers'[i] = sleepers[i]
      /\ sleepers'[n + 1] = e
  BY <1>1, <1>6, <1>7, AppendProperties
<1>9. /\ state'[current] = "SLEEPING"
      /\ \A p \in Pid : p # current => state'[p] = state[p]
  <2> DEFINE st == StateChanged(current, "SLEEPING")
  <2>1. current \in Listed
    BY <1>2, WholeLists DEF Whole, RInv
  <2>2. st = [state EXCEPT ![current] = "SLEEPING"]
    BY <2>1 DEF StateChanged
  <2>3. st[current] = "SLEEPING" /\ \A p \in Pid : p # current => st[p] = state[p]
    BY <1>1, <2>2
  <2>4. state' = Preempted(st, current)
    BY DEF Sleep
  <2> HIDE DEF st
  <2>5. state' = st
    BY <2>3, <2>4 DEF Preempted
  <2> QED BY <2>3, <2>5
<1>10. Slots' = Slots /\ removed' = removed
  BY DEF Sleep, Slots
<1>11. 1..(n + 1) = (1..n) \cup {n + 1} /\ n + 1 \notin 1..n
  BY <1>1
<1>12. ASSUME NEW i \in 1..(n + 1)
       PROVE  /\ sleepers'[i].pid \in Slots \ {INIT_PID}
              /\ state'[sleepers'[i].pid] = "SLEEPING" \/ sleepers'[i].pid \in removed
  <2>1. CASE i \in 1..n
    BY <1>4, <1>8, <1>9, <2>1 DEF TableInv
  <2>2. CASE i = n + 1
    BY <1>2, <1>3, <1>7, <1>8, <1>9, <2>2
  <2> QED BY <1>11, <2>1, <2>2
<1>13. ASSUME NEW i \in 1..(n + 1), NEW j \in 1..(n + 1),
              sleepers'[i].pid = sleepers'[j].pid
       PROVE  i = j
  <2>1. CASE i \in 1..n /\ j \in 1..n
    BY <1>8, <1>13, <2>1 DEF TableInv
  <2>2. CASE i = n + 1 \/ j = n + 1
    BY <1>4, <1>7, <1>8, <1>11, <1>13, <2>2
  <2> QED BY <1>11, <2>1, <2>2
<1>14. ASSUME NEW p \in Pid, state'[p] = "SLEEPING", p \notin removed
       PROVE  \E i \in 1..(n + 1) : sleepers'[i].pid = p
  <2>1. CASE p = current
    BY <1>7, <1>8, <1>11, <2>1
  <2>2. CASE p # current
    <3>1. PICK i \in 1..n : sleepers[i].pid = p
      BY <1>9, <1>14, <2>2 DEF TableInv
    <3> QED BY <1>8, <1>11, <3>1
  <2> QED BY <2>1, <2>2
<1> HIDE DEF n
<1> QED BY <1>8, <1>10, <1>12, <1>13, <1>14 DEF TableInv

LEMMA NextTableInv ==
    ASSUME ~InterruptExit, MAX_LISTENERS >= MaxPid, RInv, TableInv, [Next]_vars
    PROVE  TableInv'
<1>1. sleepers \in Seq(Entry) /\ Len(sleepers) \in Nat /\ auxj \in Nat
  BY LenProperties DEF RInv, Inv, TypeOK
<1>2. \A i \in 1..Len(sleepers) : sleepers[i] \in Entry
  BY <1>1, ElementOfSeq
<1>3. CASE TickEntry
  <2> DEFINE a == auxj + 1
             e == sleepers[a]
             counter == Counted(e.counter)
  <2>1. a \in 1..Len(sleepers) /\ Whole /\ UNCHANGED <<nextPid, removed>>
    BY <1>1, <1>3, HandlersWhole DEF TickEntry
  <2>2. CASE counter = e.alarm
    <3>1. state' = StateChanged(e.pid, "READY") /\ sleepers' = Deleted(sleepers, a)
      BY <1>3, <2>2 DEF TickEntry
    <3> HIDE DEF a
    <3> QED BY <2>1, <3>1, WakeTableInv DEF RInv
  <2>3. CASE counter # e.alarm
    <3>1. /\ sleepers' = [sleepers EXCEPT ![a] = [e EXCEPT !.counter = counter]]
          /\ state' = state
      BY <1>3, <2>3 DEF TickEntry
    <3>2. [e EXCEPT !.counter = counter] \in Entry
      <4>1. e \in Entry
        BY <1>2, <2>1
      <4>2. counter \in Nat
        BY <4>1, CountedType DEF Entry
      <4> QED BY <4>1, <4>2 DEF Entry
    <3>3. /\ Len(sleepers') = Len(sleepers)
          /\ \A j \in 1..Len(sleepers) :
                sleepers'[j] = IF j = a THEN [e EXCEPT !.counter = counter]
                                        ELSE sleepers[j]
      BY <1>1, <2>1, <3>1, <3>2, ExceptSeq
    <3>4. \A j \in 1..Len(sleepers) : sleepers'[j].pid = sleepers[j].pid
      BY <1>2, <2>1, <3>3 DEF Entry
    <3>5. Slots \subseteq Slots' /\ removed \subseteq removed'
      BY <2>1 DEF Slots
    <3> QED BY <3>1, <3>3, <3>4, <3>5, TableInvKept DEF RInv
  <2> QED BY <2>2, <2>3
<1>4. CASE \E time \in SleepTimes : Sleep(time)
  BY <1>4, SleepTableInv
<1>5. CASE ~TickEntry /\ ~(\E time \in SleepTimes : Sleep(time))
  <2>1. /\ \A p \in Pid : state'[p] = "SLEEPING" <=> state[p] = "SLEEPING"
        /\ removed \subseteq removed' /\ Slots \subseteq Slots'
    BY <1>5, SleepingKept DEF RInv
  <2>2. CASE Tick
    <3>1. sleepers' = [i \in 1..Len(sleepers) |->
                         [sleepers[i] EXCEPT !.slept = Counted(@)]]
      BY <2>2 DEF Tick
    <3>2. Len(sleepers') = Len(sleepers)
      BY <1>1, <3>1
    <3>3. \A i \in 1..Len(sleepers) : sleepers'[i].pid = sleepers[i].pid
      BY <1>2, <3>1 DEF Entry
    <3> QED BY <2>1, <3>2, <3>3, TableInvKept DEF RInv
  <2>3. CASE ~Tick
    <3>1. sleepers' = sleepers
      BY <1>5, <2>3, TableKept DEF TickSwitch
    <3> QED BY <2>1, <3>1, TableInvKept DEF RInv
  <2> QED BY <2>2, <2>3
<1> QED BY <1>3, <1>4, <1>5

\* A process that sleeps has exactly one entry in the sleep table and its alarm
\* is still to come, when the table has a place for every process that can
\* sleep, every sleep is of at least one tick and no interrupt hits the end of
\* a program.
THEOREM SleepersAreWoken ==
    ASSUME ~InterruptExit, 0 \notin SleepTimes, MAX_LISTENERS >= MaxPid
    PROVE  Spec => []SleeperHasAlarm
<1>1. Init => CountInv /\ TableInv
  BY EmptySeq DEF Init, CountInv, TableInv
<1>2. RInv => Inv
  BY DEF RInv
<1>3. RInv /\ CountInv /\ TableInv => SleeperHasAlarm
  <2> SUFFICES ASSUME RInv, CountInv, TableInv, NEW p \in Live, state[p] = "SLEEPING"
               PROVE  \E i \in 1..Len(sleepers) :
                         /\ sleepers[i].pid = p
                         /\ sleepers[i].counter < sleepers[i].alarm
                         /\ \A j \in 1..Len(sleepers) : sleepers[j].pid = p => j = i
    BY DEF SleeperHasAlarm
  <2>1. p \in Pid /\ p \notin removed
    BY PidFacts DEF RInv, Live
  <2>2. PICK i \in 1..Len(sleepers) : sleepers[i].pid = p
    BY <2>1 DEF TableInv
  <2> QED BY <2>2 DEF TableInv, CountInv
<1> QED BY <1>1, <1>2, <1>3, InitRInv, NextRInv, NextCountInv, NextTableInv, PTL
        DEF Spec

=============================================================================
