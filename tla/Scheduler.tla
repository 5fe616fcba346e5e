------------------------------ MODULE Scheduler ------------------------------
(***************************************************************************)
(* The round-robin scheduler of Kernel/scheduler.c with the operations     *)
(* that drive it: process creation and removal, the timer tick and the     *)
(* sleep table of Kernel/interrupts.c, the threads of Kernel/threads.c,    *)
(* the end of a program (callProcess), runC and the Shift+F1 restart.      *)
(*                                                                         *)
(* There is one CPU and every IDT gate is an interrupt gate, so a system   *)
(* call or a handler runs to its end or to its _yield() undisturbed.  The  *)
(* kernel's own loops (schedule, the sleep table, killAllExceptCurrent)    *)
(* are taken one iteration at a time, so that "the kernel spins for ever"  *)
(* is a behaviour of the model.  callProcess runs the end of a program     *)
(* with interrupts enabled, on the program's own stack: its removeProcess  *)
(* is the one kernel routine that another process can run in the middle of.*)
(***************************************************************************)
EXTENDS Integers, Sequences, FiniteSets

CONSTANTS
    MaxPid,          \* bound on the processes ever created: pids 0..MaxPid
    MAX_THREADS,     \* size of a process's thread array
    ThreadDim,       \* spots of it that createThread searches (3 in the code)
    MAX_LISTENERS,   \* size of the sleep table
    SleepTimes,      \* the ticks a program asks to sleep
    InterruptExit    \* may an interrupt arrive while callProcess is ending?

ASSUME SizesAssumption ==
    /\ MaxPid \in Nat \ {0}
    /\ MAX_THREADS \in Nat \ {0}
    /\ ThreadDim \in 1..MAX_THREADS
    /\ MAX_LISTENERS \in Nat

ASSUME SleepAssumption ==
    /\ SleepTimes \subseteq Nat
    /\ SleepTimes # {}
    /\ IsFiniteSet(SleepTimes)

ASSUME InterruptAssumption == InterruptExit \in BOOLEAN

Pid == 0..MaxPid
INIT_PID == 0
SHELL_PID == 1
NoSlot == MaxPid + 1           \* the next pointer of a slot not yet made
Slot == Pid \cup {NoSlot}
Spot == 0..(MAX_THREADS - 1)
ProcessState == {"RUNNING", "READY", "SLEEPING"}

\* Where the CPU is: in a program, in the loop of one of the kernel's
\* routines, or in code that no program has (a stack that is not a context).
Mode == {"user", "tick", "tickSchedule", "yieldSchedule", "killAll", "wild"}

\* Where callProcess is, for a program that has returned.
ExitPc == {"no", "search", "unlink", "count", "yield", "end", "done"}

VARIABLES
    next,          \* next[p]: the slot after p's slot, kept when p is unlinked
    current,
    cardinal_processes,
    state,
    nextPid,       \* the static pid counter of process.c
    thread,        \* thread[p]: the spots of p's array that are not NULL
    activeThread,
    sleepers,      \* the sleep table, entries 0..sleepListeners-1; an entry's
                   \* slept is history: the ticks taken since it was added
    auxj,          \* the static index of the tick's loop
    aux,           \* the slot killAllExceptCurrent looks at
    mode,
    exitPc, exitPrev, exitSlot, exitI,   \* removeProcess's locals, per exiting process
    removed        \* history: the pids removeProcess was carried out for

exitVars == <<exitPc, exitPrev, exitSlot, exitI>>
vars == <<next, current, cardinal_processes, state, nextPid, thread,
          activeThread, sleepers, auxj, aux, mode, exitVars, removed>>

-----------------------------------------------------------------------------
(***************************************************************************)
(* The ring of slots.                                                      *)
(***************************************************************************)

Slots == 0..(nextPid - 1)      \* the slots that exist

\* walk(k): the slot k steps after c.
Walk(nx, c) ==
    LET walk[k \in 0..(MaxPid + 2)] == IF k = 0 THEN c ELSE nx[walk[k - 1]]
    IN  walk

\* The pids a walk of cardinal_processes slots finds, starting at current.
Listed == { Walk(next, current)[k] : k \in 0..(cardinal_processes - 1) }

\* The processes that were created and have not been removed.
Live == Slots \ removed

\* Mutant: the new slot points back to the current one, not to its old next.
InsertedBack(nx, c, p) == [nx EXCEPT ![c] = p, ![p] = c]

\* addProcess: the new slot goes right after the current one.
Inserted(nx, c, p) == [nx EXCEPT ![c] = p, ![p] = nx[c]]

\* The iterations of removeProcess's loop after which it stands on p.
Positions(nx, c, card, p) ==
    { i \in 0..(card - 1) : Walk(nx, c)[i + 1] = p }

\* Mutant: init is removed like any other process.
FoundInit(nx, c, card, p) == Positions(nx, c, card, p) # {}

Found(nx, c, card, p) == p # INIT_PID /\ Positions(nx, c, card, p) # {}

\* prevSlot->next = slotToRemove->next
Unlinked(nx, c, card, p) ==
    LET i == CHOOSE i \in Positions(nx, c, card, p) :
                \A j \in Positions(nx, c, card, p) : i <= j
    IN  [nx EXCEPT ![Walk(nx, c)[i]] = nx[p]]

\* changeProcessState: nothing happens when the walk does not meet pid.
StateChanged(pid, st) ==
    IF pid \in Listed THEN [state EXCEPT ![pid] = st] ELSE state

\* Mutant: the process that leaves the CPU stays RUNNING.
StillRunning(st, c) == st

\* The state change schedule() starts with.
Preempted(st, c) ==
    IF st[c] = "RUNNING" THEN [st EXCEPT ![c] = "READY"] ELSE st

-----------------------------------------------------------------------------
(***************************************************************************)
(* main(): init and the shell exist, init's entry point is being run, and  *)
(* no process has been through schedule() yet.                             *)
(***************************************************************************)
Init ==
    /\ next = [p \in Pid |-> CASE p = INIT_PID  -> SHELL_PID
                               [] p = SHELL_PID -> INIT_PID
                               [] OTHER         -> NoSlot]
    /\ current = INIT_PID
    /\ cardinal_processes = 2
    /\ state = [p \in Pid |-> "READY"]
    /\ nextPid = 2
    /\ thread = [p \in Pid |-> {0}]
    /\ activeThread = [p \in Pid |-> 0]
    /\ sleepers = <<>>
    /\ auxj = 0
    /\ aux = INIT_PID
    /\ mode = "user"
    /\ exitPc = [p \in Pid |-> "no"]
    /\ exitPrev = [p \in Pid |-> INIT_PID]
    /\ exitSlot = [p \in Pid |-> INIT_PID]
    /\ exitI = [p \in Pid |-> 0]
    /\ removed = {}

-----------------------------------------------------------------------------
(***************************************************************************)
(* schedule(), one slot of its loop at a time.  next_process resumes the   *)
(* thread the process last ran; the tick goes on to its next thread.       *)
(***************************************************************************)

Smallest(S) == { i \in S : \A j \in S : i <= j }

\* Mutant: the index of the next thread is not taken modulo MAX_THREADS.
NextThreadUnwrapped(p) ==
    { activeThread[p] + i : i \in Smallest({ i \in 1..MAX_THREADS :
                           (activeThread[p] + i) % MAX_THREADS \in thread[p] }) }

\* The first spot after the active one, cyclically, that is not NULL.
NextThread(p) ==
    LET after(i) == (activeThread[p] + i) % MAX_THREADS
    IN  { after(i) : i \in Smallest({ i \in 1..MAX_THREADS :
                                        after(i) \in thread[p] }) }

\* What is executed when thread t of p is loaded: its program, or the stack
\* of a thread or of a program that has ended.
Resumed(p, t) ==
    IF t \in thread[p] /\ ~(t = 0 /\ exitPc[p] = "done") THEN "user" ELSE "wild"

Schedule ==
    /\ mode \in {"tickSchedule", "yieldSchedule"}
    /\ current' = next[current]
    /\ LET p == next[current]
           threads == IF mode = "tickSchedule" THEN NextThread(p)
                                               ELSE {activeThread[p]}
       IN  IF state[p] = "READY"
           THEN \E t \in threads :
                   /\ state' = [state EXCEPT ![p] = "RUNNING"]
                   /\ activeThread' = [activeThread EXCEPT ![p] = t]
                   /\ mode' = Resumed(p, t)
           ELSE UNCHANGED <<state, activeThread, mode>>
    /\ UNCHANGED <<next, cardinal_processes, nextPid, thread, sleepers, auxj,
                   aux, exitVars, removed>>

-----------------------------------------------------------------------------
(***************************************************************************)
(* The timer interrupt: one pass over the sleep table, then a switch.      *)
(***************************************************************************)

Exiting(p) == activeThread[p] = 0 /\ exitPc[p] # "no"

\* An interrupt is taken between two instructions of a program.
Interruptible == mode = "user" /\ (Exiting(current) => InterruptExit)

\* A counter beyond every alarm is told apart from no other such counter.
LastCount == 1 + CHOOSE t \in SleepTimes : \A u \in SleepTimes : u <= t
Counted(n) == IF n < LastCount THEN n + 1 ELSE n

Tick ==
    /\ Interruptible
    /\ mode' = "tick"
    /\ auxj' = 0
    /\ sleepers' = [i \in 1..Len(sleepers) |->
                      [sleepers[i] EXCEPT !.slept = Counted(@)]]
    /\ UNCHANGED <<next, current, cardinal_processes, state, nextPid, thread,
                   activeThread, aux, exitVars, removed>>

\* Mutant: the last entry is dropped without being moved.
DeletedLast(s, i) == SubSeq(s, 1, Len(s) - 1)

\* deleteSleep: the last entry takes the place of entry i.
Deleted(s, i) ==
    SubSeq([s EXCEPT ![i] = s[Len(s)]], 1, Len(s) - 1)

\* Mutant: the index goes on after a deletion too, past the entry moved there.
TickEntrySkips ==
    /\ mode = "tick"
    /\ auxj < Len(sleepers)
    /\ LET e == sleepers[auxj + 1]
           counter == Counted(e.counter)
       IN  IF counter = e.alarm
           THEN /\ state' = StateChanged(e.pid, "READY")
                /\ sleepers' = Deleted(sleepers, auxj + 1)
           ELSE /\ sleepers' = [sleepers EXCEPT ![auxj + 1].counter = counter]
                /\ state' = state
    /\ auxj' = auxj + 1
    /\ UNCHANGED <<next, current, cardinal_processes, nextPid, thread,
                   activeThread, aux, mode, exitVars, removed>>

TickEntry ==
    /\ mode = "tick"
    /\ auxj < Len(sleepers)
    /\ LET e == sleepers[auxj + 1]
           counter == Counted(e.counter)
       IN  IF counter = e.alarm
           THEN /\ state' = StateChanged(e.pid, "READY")
                /\ sleepers' = Deleted(sleepers, auxj + 1)
                /\ auxj' = auxj
           ELSE /\ sleepers' = [sleepers EXCEPT ![auxj + 1].counter = counter]
                /\ auxj' = auxj + 1
                /\ state' = state
    /\ UNCHANGED <<next, current, cardinal_processes, nextPid, thread,
                   activeThread, aux, mode, exitVars, removed>>

TickSwitch ==
    /\ mode = "tick"
    /\ auxj >= Len(sleepers)
    /\ state' = Preempted(state, current)
    /\ mode' = "tickSchedule"
    /\ UNCHANGED <<next, current, cardinal_processes, nextPid, thread,
                   activeThread, sleepers, auxj, aux, exitVars, removed>>

-----------------------------------------------------------------------------
(***************************************************************************)
(* System calls.  init makes none: its program is an empty loop.           *)
(***************************************************************************)

InProgram == mode = "user" /\ current # INIT_PID /\ ~Exiting(current)

CreateProcess ==
    /\ InProgram
    /\ nextPid <= MaxPid                       \* bound
    /\ next' = Inserted(next, current, nextPid)
    /\ cardinal_processes' = cardinal_processes + 1
    /\ nextPid' = nextPid + 1
    /\ UNCHANGED <<current, state, thread, activeThread, sleepers, auxj, aux,
                   mode, exitVars, removed>>

\* Mutant: a process that removes itself does not yield.
RemoveProcessStays(nx, card, pid) ==
    LET found == Found(nx, current, card, pid)
    IN  /\ next' = IF found THEN Unlinked(nx, current, card, pid) ELSE nx
        /\ cardinal_processes' = IF found THEN card - 1 ELSE card
        /\ removed' = IF found THEN removed \cup {pid} ELSE removed
        /\ UNCHANGED state
        /\ mode' = "user"

\* removeProcess(pid) from the kernel: the ring is nx with card processes.  Its
\* branch for the only process of the list is left out: init is never removed
\* (InitSchedulable), so a pid other than init's is not the only one.
RemoveProcess(nx, card, pid) ==
    LET found == Found(nx, current, card, pid)
    IN  /\ next' = IF found THEN Unlinked(nx, current, card, pid) ELSE nx
        /\ cardinal_processes' = IF found THEN card - 1 ELSE card
        /\ removed' = IF found THEN removed \cup {pid} ELSE removed
        /\ IF pid = INIT_PID \/ (found /\ pid = current)
           THEN mode' = "yieldSchedule" /\ state' = Preempted(state, current)
           ELSE mode' = "user" /\ state' = state

Kill(pid) ==
    /\ InProgram
    /\ pid \in Slots
    /\ RemoveProcess(next, cardinal_processes, pid)
    /\ UNCHANGED <<current, nextPid, thread, activeThread, sleepers, auxj, aux,
                   exitVars>>

\* generalProtectionHandlerC
GPFault == Kill(current)

\* sys_call_runC: make the program's process, then remove the caller.
RunProgram ==
    /\ nextPid <= MaxPid                       \* bound
    /\ nextPid' = nextPid + 1
    /\ RemoveProcess(Inserted(next, current, nextPid), cardinal_processes + 1,
                     current)

\* The system call, and pageFaultHandlerC, which runs the shell that way.
RunC ==
    /\ InProgram
    /\ RunProgram
    /\ UNCHANGED <<current, thread, activeThread, sleepers, auxj, aux, exitVars>>

Sleep(time) ==
    /\ InProgram
    /\ sleepers' = IF Len(sleepers) >= MAX_LISTENERS
                   THEN sleepers
                   ELSE Append(sleepers, [pid |-> current, counter |-> 0,
                                          alarm |-> time, slept |-> 0])
    /\ state' = Preempted(StateChanged(current, "SLEEPING"), current)
    /\ mode' = "yieldSchedule"
    /\ UNCHANGED <<next, current, cardinal_processes, nextPid, thread,
                   activeThread, auxj, aux, exitVars, removed>>

CreateThread ==
    /\ InProgram
    /\ LET free == (0..(ThreadDim - 1)) \ thread[current]
       IN  IF free = {}
           THEN UNCHANGED thread
           ELSE \E i \in Smallest(free) :
                   thread' = [thread EXCEPT ![current] = @ \cup {i}]
    /\ UNCHANGED <<next, current, cardinal_processes, state, nextPid,
                   activeThread, sleepers, auxj, aux, mode, exitVars, removed>>

-----------------------------------------------------------------------------
(***************************************************************************)
(* callProcess, after the program's function has returned.  A thread other *)
(* than 0 gives its spot up and yields; an interrupt in between uses the   *)
(* stacks of the NULL thread.                                              *)
(***************************************************************************)

ExitThread ==
    /\ InProgram
    /\ activeThread[current] # 0
    /\ thread' = [thread EXCEPT ![current] = @ \ {activeThread[current]}]
    /\ state' = Preempted(state, current)
    /\ mode' \in IF InterruptExit THEN {"yieldSchedule", "wild"}
                                  ELSE {"yieldSchedule"}
    /\ UNCHANGED <<next, current, cardinal_processes, nextPid, activeThread,
                   sleepers, auxj, aux, exitVars, removed>>

\* Thread 0 removes its process: removeProcess(getCurrentPid()), step by step.
ExitStart ==
    /\ InProgram
    /\ activeThread[current] = 0
    /\ exitPc' = [exitPc EXCEPT ![current] = "search"]
    /\ exitPrev' = [exitPrev EXCEPT ![current] = current]
    /\ exitSlot' = [exitSlot EXCEPT ![current] = next[current]]
    /\ exitI' = [exitI EXCEPT ![current] = 0]
    /\ UNCHANGED <<next, current, cardinal_processes, state, nextPid, thread,
                   activeThread, sleepers, auxj, aux, mode, removed>>

AtExit(pc) ==
    mode = "user" /\ activeThread[current] = 0 /\ exitPc[current] = pc

ExitSearch ==
    /\ AtExit("search")
    /\ LET p == current
       IN  IF exitSlot[p] # p /\ exitI[p] < cardinal_processes
           THEN /\ exitPrev' = [exitPrev EXCEPT ![p] = exitSlot[p]]
                /\ exitSlot' = [exitSlot EXCEPT ![p] = next[exitSlot[p]]]
                /\ exitI' = [exitI EXCEPT ![p] = @ + 1]
                /\ exitPc' = exitPc
           ELSE /\ exitPc' = [exitPc EXCEPT ![p] =
                                IF exitI[p] = cardinal_processes
                                THEN "end" ELSE "unlink"]
                /\ UNCHANGED <<exitPrev, exitSlot, exitI>>
    /\ UNCHANGED <<next, current, cardinal_processes, state, nextPid, thread,
                   activeThread, sleepers, auxj, aux, mode, removed>>

ExitUnlink ==
    /\ AtExit("unlink")
    /\ next' = [next EXCEPT ![exitPrev[current]] = next[exitSlot[current]]]
    /\ removed' = removed \cup {exitSlot[current]}
    /\ exitPc' = [exitPc EXCEPT ![current] = "count"]
    /\ UNCHANGED <<current, cardinal_processes, state, nextPid, thread,
                   activeThread, sleepers, auxj, aux, mode, exitPrev, exitSlot,
                   exitI>>

ExitCount ==
    /\ AtExit("count")
    /\ cardinal_processes' = cardinal_processes - 1
    /\ exitPc' = [exitPc EXCEPT ![current] = "yield"]
    /\ UNCHANGED <<next, current, state, nextPid, thread, activeThread,
                   sleepers, auxj, aux, mode, exitPrev, exitSlot, exitI, removed>>

\* The _yield of removeProcess, and the one that ends callProcess: a process
\* that is still in the ring comes back from the first to the second.
ExitYield ==
    /\ \E pc \in {"yield", "end"} :
          /\ AtExit(pc)
          /\ exitPc' = [exitPc EXCEPT ![current] = IF pc = "yield" THEN "end" ELSE "done"]
    /\ state' = Preempted(state, current)
    /\ mode' = "yieldSchedule"
    /\ UNCHANGED <<next, current, cardinal_processes, nextPid, thread,
                   activeThread, sleepers, auxj, aux, exitPrev, exitSlot, exitI,
                   removed>>

-----------------------------------------------------------------------------
(***************************************************************************)
(* Shift+F1: the keyboard interrupt runs restartSHELL on whatever process  *)
(* is current, init included.                                              *)
(***************************************************************************)

RestartShell ==
    /\ Interruptible
    /\ nextPid <= MaxPid                       \* bound
    /\ mode' = "killAll"
    /\ aux' = next[current]
    /\ UNCHANGED <<next, current, cardinal_processes, state, nextPid, thread,
                   activeThread, sleepers, auxj, exitVars, removed>>

KillAllStep ==
    /\ mode = "killAll"
    /\ aux # current
    /\ LET found == Found(next, current, cardinal_processes, aux)
       IN  /\ next' = IF found
                      THEN Unlinked(next, current, cardinal_processes, aux)
                      ELSE next
           /\ cardinal_processes' = IF found THEN cardinal_processes - 1
                                             ELSE cardinal_processes
           /\ removed' = IF found THEN removed \cup {aux} ELSE removed
    /\ aux' = next'[aux]
    /\ UNCHANGED <<current, state, nextPid, thread, activeThread, sleepers,
                   auxj, mode, exitVars>>

KillAllEnd ==
    /\ mode = "killAll"
    /\ aux = current
    /\ RunProgram
    /\ UNCHANGED <<current, thread, activeThread, sleepers, auxj, aux, exitVars>>

\* What the CPU does on such a stack is undefined: nothing more is modelled.
Wild == mode = "wild" /\ UNCHANGED vars

-----------------------------------------------------------------------------
Kernel == Schedule \/ TickEntry \/ TickSwitch \/ KillAllStep \/ KillAllEnd

Exit == ExitSearch \/ ExitUnlink \/ ExitCount \/ ExitYield

Program ==
    \/ CreateProcess \/ RunC \/ CreateThread \/ GPFault
    \/ ExitThread \/ ExitStart \/ Exit
    \/ \E pid \in Pid : Kill(pid)
    \/ \E time \in SleepTimes : Sleep(time)

Next == Kernel \/ Tick \/ RestartShell \/ Program \/ Wild

Spec == Init /\ [][Next]_vars

\* The CPU does not stop in the kernel, nor in callProcess.  The timer keeps
\* ticking, and the interrupt controller holds a tick until interrupts are
\* enabled again.
Fairness == WF_vars(Kernel) /\ WF_vars(Exit) /\ SF_vars(Tick)

FairSpec == Spec /\ Fairness

-----------------------------------------------------------------------------
(***************************************************************************)
(* Properties.                                                             *)
(***************************************************************************)

Entry == [pid : Pid, counter : Nat, alarm : SleepTimes, slept : Nat]

\* Every variable has its type, every existing slot points to an existing
\* slot, and init and the shell have been created.
TypeOK ==
    /\ next \in [Pid -> Slot]
    /\ nextPid \in 2..(MaxPid + 1)
    /\ current \in Slots
    /\ \A p \in Slots : next[p] \in Slots
    /\ cardinal_processes \in Int
    /\ state \in [Pid -> ProcessState]
    /\ thread \in [Pid -> SUBSET Spot]
    /\ activeThread \in [Pid -> Spot]
    /\ sleepers \in Seq(Entry)
    /\ auxj \in Nat
    /\ aux \in Slots
    /\ mode \in Mode
    /\ exitPc \in [Pid -> ExitPc]
    /\ exitPrev \in [Pid -> Pid]
    /\ exitSlot \in [Pid -> Slots]
    /\ exitI \in [Pid -> Nat]
    /\ removed \subseteq Slots

\* Whenever no process is half removed, the slots reached from current in
\* cardinal_processes steps are exactly the processes created and not removed,
\* and the walk ends where it began (what changeProcessState, removeProcess
\* and the process list rely on), whatever was created, killed or restarted.
RingListsLive ==
    mode \in {"user", "tick", "killAll"} /\ ~Exiting(current) =>
        /\ Listed = Live
        /\ Cardinality(Live) = cardinal_processes
        /\ Walk(next, current)[cardinal_processes] = current

\* schedule()'s loop cannot run for ever: init can always be dispatched and is
\* met on the way round from current, also while current is being removed.
InitSchedulable ==
    /\ state[INIT_PID] \in {"READY", "RUNNING"}
    /\ INIT_PID \in { Walk(next, current)[k] : k \in 1..(MaxPid + 1) }

\* RUNNING is the state of the process whose program executes, and of no other:
\* no two processes are RUNNING and none is while schedule() looks for one.
RunningIsCurrent ==
    \A p \in Pid : state[p] = "RUNNING" =>
        p = current /\ mode \notin {"tickSchedule", "yieldSchedule"}

\* A process that was killed, faulted or replaced by runC never executes again.
NoZombie ==
    mode = "user" /\ ~Exiting(current) =>
        current \in Live /\ (current = INIT_PID \/ state[current] = "RUNNING")

\* A sleeping process has exactly one entry in the sleep table, and the entry's
\* alarm is still to come: no sequence of sleeps, deletions by swapping with the
\* last entry, kills and restarts loses a sleeper or leaves it a passed alarm.
SleeperHasAlarm ==
    \A p \in Live : state[p] = "SLEEPING" =>
        \E i \in 1..Len(sleepers) :
            /\ sleepers[i].pid = p
            /\ sleepers[i].counter < sleepers[i].alarm
            /\ \A j \in 1..Len(sleepers) : sleepers[j].pid = p => j = i

\* The tick's loop counts every entry exactly once per tick, also the entry
\* that deleteSleep moves into the place of the one just woken.
CountedOncePerTick ==
    \A i \in 1..Len(sleepers) :
        sleepers[i].counter =
            IF mode = "tick" /\ i > auxj THEN sleepers[i].slept - 1
                                         ELSE sleepers[i].slept

\* The list of processes (getCurrentProcesses) has every process that was
\* created and has not been removed, when no removal is under way.
ListHasAllProcesses ==
    mode = "user" /\ (\A p \in Live \cup {current} : ~Exiting(p))
        => Live \subseteq Listed

\* A ready process is dispatched, unless it is removed first.
ReadyRuns ==
    \A p \in Pid :
        (p \in Live /\ state[p] = "READY")
            ~> (current = p /\ mode = "user") \/ p \in removed \/ mode = "wild"

\* A sleeping process becomes ready, unless it is removed first.
SleeperWakes ==
    \A p \in Pid :
        (p \in Live /\ state[p] = "SLEEPING")
            ~> state[p] # "SLEEPING" \/ p \in removed \/ mode = "wild"

\* Every interrupt and every yield ends in a program: no loop of the kernel
\* goes on for ever.
KernelReturns == (mode \notin {"user", "wild"}) ~> (mode \in {"user", "wild"})
=============================================================================
