# gatOS.v2: a TLA+ model of the kernel

gatOS.v2 is a teaching kernel for x86-64: one CPU, preemptive round robin,
processes with threads, mutexes, semaphores and pipes, a buddy allocator for
pages, a keyboard and a text screen, and a few user programs. This directory
models its concurrent core in TLA+, checks it with TLC and proves some of it
with TLAPS.

## What makes it hard

* **What is atomic.** Every IDT gate is an interrupt gate (`interrupts.c:55`),
  so system calls and handlers run with interrupts off, on one CPU: each is one
  step up to its `_yield()` and another from there to its end. Programs are
  preempted anywhere. The exception is `callProcess`: it is entered with
  rflags 0x202 (`process.c`), so the *end* of a program, `terminateThread` and
  `removeProcess`, runs kernel code with interrupts **on**.
* **Pointers into a ring that changes.** Dispatching, state changes, listing,
  removal and the restart all walk the same circular list for
  `cardinal_processes` steps.
* **Hand-off.** `freeMutex` gives the mutex to a waiting process that may have
  been killed; a closed mutex keeps its lock and its queue for the next user of
  the index.
* **Fixed-size tables** (sleepers, queues, the key buffer, the page tree) that
  fill up.
* **Two views of one thing.** A line is kept by the keyboard interrupt on the
  screen and by the shell in an array; a selection by the mouse handler in the
  attributes of the screen and in a copy; a page in the allocator's marks and
  by whoever uses it.

## Components

| component | state | operations | talks to | status |
|---|---|---|---|---|
| Scheduler (`scheduler.c`, `process.c`, `libasm.asm`) | ring of slots, `current`, `cardinal_processes`, process states, pid counter | `createProcess`, `removeProcess`, `schedule`, `next_process`, `switchKernelToUser`, `killAllExceptCurrent`, `restartSHELL`, `callProcess` | called by everything that blocks or wakes | `Scheduler` |
| Timer and sleep (`interrupts.c`) | sleep table, `auxj` | tick, `sleep`, `addSleep`, `deleteSleep`, faults | `changeProcessState` | `Scheduler` |
| Threads (`threads.c`) | array of threads, `activeThread`, pages of stacks | `createThread`, `terminateThread`, `nextThread`, `freeThreadPages` | scheduler, page allocator | `Scheduler`, `Memory` |
| Mutexes (`mutex.c` from line 200, `lock.asm`) | table of name, lock, count, queue, creator | `lockMutex`, `freeMutex`, `getMutex`, `closeMutex`, `initializeMutexes` | scheduler | `Mutex` |
| Page allocator (`buddyAllocator.c`) | tree of marks | `allocPage`, `deallocPage` | processes, threads, heaps | `Buddy`, `BuddyRecursion`, driven by `Memory` |
| Keyboard and terminal (`keyboard.c`, `terminal.c`) | modifiers, circular buffer, echo | key interrupt, `read`, `resetBuffer` | scheduler (Shift+F1), video | `Terminal`, `Console` |
| Semaphores (`semaphores.c`) | table of value, queue, mutex | `wait`, `signal`, `semCreate`, `semOpen`, `semClose` | mutexes | `Semaphore` |
| Process heap (`malloc.c`) | list of blocks | `mallock`, `kmalloc` | page allocator | `Memory` |
| Video (`video.c`) | characters, attributes, cursor, region | printing, scrolling, erasing, selection | | `Screen`, `Mouse` |
| Mouse (`mouse.c`) | packet, pointer, selection | interrupt | video, terminal (paste) | `Mouse` |
| Shell (`SHELL/`) | the line, background threads | `main`, `scanFF`, `parser`, `asyncParser` | all system calls | `Console` |
| Demos (`dummy.c`) | shared buffer; `state[]` | producer/consumer; philosophers | semaphores, mutexes | `ProdCons`; `Philosophers` |
| Pipes (`IPC.c`) | ring of bytes, blocked readers | `read`, `write`, `openPipe`, `createPipe`, `closePipe` | mutexes, scheduler | not modelled, see below |
| Second mutex library, conditions, queue | table, linked queue | `mutex_*`, `cond_*` | scheduler, page allocator | no system call reaches it |
| Editor, fortune, boot console, clock, loader | | text and device I/O | | not modelled |

`PROJECT.json` lists every component, the hazards with the line where each
bites, the properties that cover them, and the source lines of every definition.

## Modules

**`Scheduler`.** `next` is the ring (a slot keeps its pointer when it is
unlinked, as in the code), `mode` says where the CPU is. The kernel's loops are
taken one iteration per step (`Schedule`, `TickEntry`, `KillAllStep`), so "the
kernel hangs" is a behaviour that a liveness property can exclude.
`removeProcess` called from the kernel is one step; called from `callProcess` it
is `ExitStart`, `ExitSearch`, `ExitUnlink`, `ExitCount` and `ExitYield`, its own
yield and then that of `callProcess`, with its locals kept per process. That init
is never removed is why its branch for the only process in the list is not there.
`InterruptExit` says whether interrupts may arrive in that tail: in the hardware
they may. With it FALSE the runs show that everything else is right, with it TRUE
the run `exit_race` shows what goes wrong; each theorem says whether it needs it
FALSE. `"wild"` is the mode in which the CPU has loaded a stack that is no saved
context; nothing is said of what follows. A counter of the sleep table stops
growing once it is beyond every alarm (`Counted`), which no comparison can tell.
`MaxPid` bounds the processes ever created.

**`Mutex`.** The table by index, each process's place in `lockMutex`, and
`held`, what a process may believe it holds. The uninitialised `pid` at the full
queue is a free choice. Which ready process runs next is left open: the module
covers every scheduler. Programs are by the book (lock what `getMutex`
returned and is not held; free what is held); a lock of an index that is not in
use returns at once, and is taken to acquire nothing. `getMutex` locks and frees
`adminMutex` without yielding in between, so it is one step. `overflowed` is
history: it turns "yes" when a process meets a full queue, which nothing in the
kernel handles; what is said of exclusion and hand-off is said until then.

**`Semaphore`.** `wait`, `signal`, `semCreate`, `semOpen`, `semClose` over the
table by index. `wait` locks and frees the mutex of its semaphore without
yielding in between, and so does `semCreate` with `semaphoreMutex`, so nobody
finds these locked; the exception, kept in the model, is the early return of
`semCreate` for a name that exists, which leaves `semaphoreMutex` locked and
blocks every later `semCreate` (as many callers as the queue of `semaphoreMutex`
holds, a bound; what comes then is `Mutex`'s overflow). Supposed of programs:
names of semaphores are not used for mutexes. `permits` (start value plus signals
minus waits that have returned) and `broken` (indices whose queue overflowed, or
that were created again while a process was still inside the old `wait`) are
history. `MaxValue` bounds signals.

**`ProdCons`, `BoundedBuffer`.** The demo of `dummy.c` on top of `Semaphore`
(EXTENDS): each producer and consumer has a label between any two accesses to
shared variables, the `i++` of the producer outside the critical section is a
read and a write, and the main program creates and kills processes at its keys.
`BoundedBuffer` is the abstract queue; `ProdCons` maps its array, read from `r`
on, to the queue's items (`Contents`). `stored` and `delivered` are history that
the mapping needs: how many items have been put in and not taken out, and the
last one taken.

**`Philosophers`.** The demo on top of `Mutex` (EXTENDS) and `Semaphore`
(INSTANCE, with its table under other names): each philosopher has a label
between any two accesses to `state[]` and system calls. `createThreads` casts an
array of pointers to an array of numbers, so philosophers 1 and 3 read 0 as the
number of their semaphore (the upper half of a pointer) and 0, 2 and 4 read the
lower half, which is no semaphore (`SemOf`); the demo works all the same, which
is what the run is about. `Garbage` is what an element of `state[]` may hold
before it is written. That the queue has a place for all philosophers but one
(`PhilosophersAssumption`) is why `lockMutex` at a full queue is left out.

**`Terminal`.** The buffer as an array with two offsets. A character is its key
and the column of `kbd_EN` that the modifiers choose. `unread` is history: what
was accepted and not yet read. `MaxUnread` bounds it.

**`Screen`, `Console`.** `Screen` is `video.c` as operators on the record of its
static variables. `Console` composes it with `Terminal` (EXTENDS) and the shell:
a program is the sequence of system calls it has still to make, so that keys, the
shell, its `&` threads and Shift+F1 interleave between any two of them. A message
is one character and a line feed, and which command a line names is left open
(`Commands`, `AsyncCommands`). Of what `kill` removes, the shell itself is seen
here (`KillShell`); another process is not on the screen. `quiet` and `cleared`
are history and say when the properties are claimed: nobody else has printed
since the prompt, and no thread has cleared the screen behind it.

**`Mouse`.** The handler byte by byte, on top of `Terminal`, into which it
pastes: `putTerminalBuffer` enables interrupts, so each pasted character is a
step of its own with keys and readers in between. The text on the screen does
not change; `lit` is the set of positions with the mouse's attribute. `origin` and
`dropped` are history: which of the unread characters are of the paste that is
running, and which of them a full buffer ignored.

**`Buddy`, `BuddyRecursion`, `Memory`.** `Buddy` states what the allocator's two
recursions do to each node on the path they follow; `BuddyRecursion` has the
recursions as written, and `PathsAgree` (in `MCMemory`, so that `Memory` reaches
no RECURSIVE operator and can be proved about) compares them in every reachable
tree.
`Memory` has the tree as its state and the processes, threads and heaps that
take pages from it: a heap is the list of its blocks in bytes. `ps` takes pages too
and gives none back (`getCurrentProcesses`). What runs in a system call is one
step; the end of a thread runs with interrupts on and is a step for each of its
three `deallocPage` calls (`freeThreadPages`) and one for the array of threads
(`TerminateThread`), with everybody else in between. Where `allocPage`
returns NULL the program writes over address 0; there the model stops
(`NoMemory`). `threadEnded` and `asked` are history, `MaxProcesses` and
`MaxBlocks` (of a process's heap) bounds.

**`MC*`** extend these modules for TLC; the `.cfg` files only give constants.
**`*_proofs`** hold the theorems; each extends the module it is about
(`Semaphore_proofs` both `Semaphore` and `ProdCons`). Definitions commented
"Mutant" are plausible wrong versions of the definition they precede, used to
confirm that each property notices.

## Runs

| run | asks | bounds and why they suffice |
|---|---|---|
| `scheduler` | ring, count and list agree with what was created and removed; init is always reachable and ready; no removed process executes; only the executing process is RUNNING; the tick's loop neither skips nor recounts an entry; every sleeper has one alarm still to come; a ready process is dispatched, a sleeper wakes, no kernel loop goes on for ever | 4 pids: init, the shell and two more, so a removed slot can have distinct neighbours and the new slot another; two threads; a table with a place for each sleeper (50 in the code); alarms of 2, so that two entries end in one tick or in different ones (the theorems have every alarm but 0) |
| `exit_race` (violated) | the process list has every process | one thread; interrupts in the tail of `callProcess` |
| `mutex` | mutual exclusion and hand-off to exactly the processes that wait, until a process meets a full queue; count, queue and lock bit agree even after that | 5 processes, a queue for 3, so the queue overflows with one holder and one process outside; two names for one free index, so closing and reuse happen |
| `mutex_live` | a waiting process is forgotten only if a process that held or waited was removed | 3 processes, one mutex (with two, programs can deadlock each other) |
| `semaphore` | value, count and queue agree; no permit is invented | 4 processes, a queue for 2, one index under two names, start 0 or 1, values up to 2: overflow, failing `semCreate`, reuse with a process inside `wait`, kills, restart |
| `prod_cons` | one process in the critical section; the demo implements `BoundedBuffer`; items keep moving while nobody is killed | 3 processes (two of a kind, or one killed and another started), buffer of 2, two characters, up to 2 producers and 2 consumers, a queue for all; values up to 3, which the demo does not reach |
| `terminal` | reads return the latest characters in order, with their modifiers, and all of them unless more was accepted than there is room for; keys are refused only at `BUFFERSIZE - 1` | buffer of 3, 6 unread: the position goes round twice |
| `terminal_full` (violated) | what was accepted stays until it is read | as above |
| `philosophers` | neighbours never eat together; the two philosophers with a semaphore never both wait for a signal that nobody will give; no deadlock | the demo's five philosophers, a queue for all of them, the semaphore up to 2; `state[]` starts with a value that is neither HUNGRY nor EATING (a fresh page is zero, THINKING); the other values in all five places are out of TLC's reach and are covered by the theorems of `Philosophers_proofs` |
| `console` | the cursor stays in the region; the clock's rows stay as they are; the line on the screen is the one the shell will read | 5 columns and 3 rows below the header, so that lines wrap and the region scrolls; a prompt of 2, lines of at most 2 (100 in the code); 4 keys, so that a line is typed, erased and followed by another; 2 threads; every kind of command |
| `mouse` | nothing stays lit; the copy is the selection; a paste arrives in its order, whatever comes between its characters | a screen of 2 by 2, which has selections in both directions and across rows; movements of one position, of less, and one of 240 that turns round; a buffer of 2, which a paste of up to 4 overflows, and up to 3 unread |
| `memory` | disjoint pages until a thread ends; blocks tile their pages; blocks of the right size; recursions agree with `Buddy` | 16 pages of 96 bytes, the code's header of 28: two processes of 7 pages, their threads and heaps until the memory is used up; requests of 13 bytes (a block that is split), of exactly a page with its header and of more, of a heap with fewer than 3 blocks |

Each violated run is an entry of `findings`: its property states what a manual
page of the shell (`exit_race`) or a comment (`terminal_full`) says.

**Fairness.** `scheduler`: weak fairness of the kernel's steps and of the
tail of `callProcess` (the CPU does not stop), strong fairness of the tick (the
interrupt controller latches a tick until interrupts are enabled; a program
cannot disable them). Programs owe nothing. `mutex_live`: weak fairness of
`LockReturn` (a ready process is dispatched, `ReadyRuns`) and of `Free`, the
assumption that programs keep no mutex for ever, and programs that close no
locked mutex. `prod_cons`: weak fairness of the steps of each process (a ready
process is dispatched, `ReadyRuns`, and its `sleep` ends, `SleeperWakes`); nobody
need press a key. `KeepsMoving` supposes that no process is killed: one killed
between `wait(itemMutex)` and `signal(itemMutex)` stops the demo for ever.

**Deadlock** is checked in all runs but `mutex`, `mutex_live`, `semaphore` and
`prod_cons`, where all processes may be gone or wait for one that was killed,
`console`, where the number of keys is bounded, and `memory`, where memory is
used up.

## Proofs

`Mutex_proofs`, for any finite set of processes, any names and table sizes:

* `TypeCorrect`: the types.
* `QueueBookkeeping`: `QueueCounts`, also for queues that overflow. Not
  inductive alone: that nobody is queued twice needs `Entries`, that whoever is
  in a queue is BLOCKED at the yield of the `lockMutex` for that mutex.
* `Exclusion` and `NoneForgotten`: `MutualExclusion` and `WaitersAreQueued`,
  which hold until some process meets a full queue. The proof follows the
  *owner* of a mutex, who holds it or was handed it and has not run since: the
  inductive invariant `Owned` says that there is at most one and then the mutex
  is locked, and that living waiters are queued.
* `NeverOverflows`: under `QueueFits`, a queue has a place for every process, no
  process meets a full queue, so that the two theorems hold without exception.
  `NotFull` is the pigeonhole argument: entries are distinct processes other
  than the caller.

`Scheduler_proofs`, for any number of processes and threads, and for
`InterruptExit` TRUE as well:

* `TypeCorrect`: the types, and that every `next` pointer of an existing slot
  leads to an existing slot (what `Walk` does in between is not needed).
* `OneRunning`: `RunningIsCurrent`. With the types it is inductive; each yield
  and tick needs that `schedule()` begins by taking RUNNING from the process
  that leaves.

On top of these, what the walks over the ring find. The walk is a recursive
function of the number of steps, and induction over it is done with a set in place
of the predicate (`SetInduction`, from the well-foundedness of the naturals).

* `RingComplete`, `InitAlwaysMet`, `RemovedStayAway`: `RingListsLive`,
  `InitSchedulable`, `NoZombie`, under `~InterruptExit` (with interrupts in the
  tail of `callProcess` the first is false: run `exit_race`). None is inductive.
  `RingInv` says that the live slots are a cycle of `cardinal_processes` slots
  that begins at `current`, or at its successor while `current` is a removed slot
  that `schedule()` is about to leave. `ExitsInv` follows the search of the
  ending program round the ring step by step, so that the slot it unlinks is its
  own; `StatesInv` says that init never sleeps. The lemmas on rings (a slot is put
  in, taken out, the cycle begins elsewhere) are about any next pointers.
* `EveryTickCounts`: `CountedOncePerTick`, for alarms of at least one tick, also
  with `InterruptExit`. `CountInv` says, for each entry, whether this tick's loop
  is past it: an entry that `deleteSleep` moves comes from a place that is.
* `SleepersAreWoken`: `SleeperHasAlarm`, when the table has a place for every
  process and no alarm is 0. `TableInv` adds that entries belong to different
  processes, each asleep or removed. Both hypotheses are needed: they are the
  defects of `sleep(0)` and of the full table.

`Semaphore_proofs`, for any finite set of processes, any names and table sizes,
queues that overflow included:

* `TypeCorrect`: the types.
* `QueueBookkeeping`, `PermitsKept`: `QueueMatchesValue` and `PermitsAccounted`.
  The inductive invariant has two parts: for every semaphore, also a broken one,
  the queue's entries are distinct, BLOCKED in its `wait` and counted
  (`QueueInv`); for those not broken the value, the waiters and the permits
  agree (`Sound`). `Granted`, those handed a permit who have not run since, is what
  a signal adds to and a return takes from.
* For a broken one `Covered` remains: what its value and its woken waiters
  promise is never more than the permits. That is all the demo needs.

In the same module the producer/consumer demo, for any number of producers and
consumers, any buffer and any queue size, and whoever is killed:

* `ProdTypeCorrect`, `MutualExclusion`: `ProdTypeOK` and `OneInside`.
* `Refinement`: `ProdSpec => IsABoundedBuffer`. The inductive invariant `PInv`
  keeps three accounts, one for each semaphore: its permits and the processes
  at certain labels, dead ones included, add up to a constant or to the items
  stored. Since permits are not negative, a producer about to store finds a free
  place and a consumer about to fetch an item; with one process inside, `w` is
  `stored` places after `r`, and each write of `w` is a `Put`, each of `r` a `Get`.

`Philosophers_proofs`, for every content of `state[]` at the start and all table
sizes (that TLC can only sample):

* `NeighboursNeverEat`: `NeighboursDontEat`. The inductive invariant follows the
  owner of `mutexp` as in `Mutex_proofs`, but with processes that also block at a
  semaphore: entries of both queues are BLOCKED, each in its own call
  (`LockQueue`, `WaitQueue`), so that a signal makes no owner. `Places` ties the
  label to the mutex, so one philosopher at a time is past its `lockMutex`.
* `TestStillHolds`: what `testP` saw still holds when it writes, wherever its
  caller was preempted in between (`CheckHolds`), which is the step the first
  theorem rests on.
* `NeverBothStuck`: `NotBothStuck`. Philosophers 1 and 3 share a semaphore, so a
  signal for the meal of one may let the other pass, who then puts its forks down
  hungry. The inductive invariant is an account (`Account`): for each of the two,
  `Due` is 1 when its meal has been signalled, less 1 when its wait is done, and
  the value of the semaphore is at least the sum less one. The one is lost when a
  hungry philosopher thinks again; it is not lost twice, because then the other
  sleeps in `wait` and has nothing due, which needs that value, count and queue
  agree (`Queued`) and that a signal finds somebody to wake. Two sleeping
  philosophers with signalled meals would have the value at -2 and nothing due.
* `PhilTypeCorrect`: `PhilTypeOK`, when `MaxValue` is at least 3, or 5 when
  `Garbage` has HUNGRY (`BoundSuffices`). The upper half of the account: the value
  is at most what is due, and one more for each of the two whose garbage was
  HUNGRY (`Extra`), since `testP` may signal for it before they begin.

`Terminal_proofs`, for every buffer size and reads of every length:

* `TypeCorrect`, `ReadsInOrder`, `DropsOnlyWhenFull`. The inductive invariant is
  in terms of places in the array: the number of lost characters is a multiple of
  the size (`LostBuffers`), so none is lost as long as no more were accepted than
  there is room for, and the i-th place from `bufferConsume` on has the i-th of
  the last accepted characters (`Stored`).

`Mouse_proofs`, for every size of screen and buffer, every text and movement:

* `PointerOnScreen`, `NothingElseLit`, `SelectionCopied`: `MouseTypeOK`,
  `OnlySelectionLit`, `CopyIsSelection`. The second is made inductive by saying it
  of all of a packet, and that the selection ends at the pointer between the
  buttons and the movement (`LitCells`).
* `PasteKeepsOrder`: `PasteInOrder`. The invariant says of all unread characters
  what the property says of those in the buffer (`Tracked`): later ones of the
  paste have later numbers, and from each on every number taken so far is there or
  was ignored. Those in the buffer are the last of them, by the invariant of
  `Terminal_proofs`, and what holds of a history holds of its end (`TracksLast`).

`Console_proofs`, for every size of the screen, every prompt shorter than a row,
every set of commands and any number of threads:

* `CursorStaysInRegion`, `HeaderIsKept`: `CursorInRegion` and `HeaderKept`. Each
  routine of `video.c` keeps the header, the region and a cursor that is inside it
  (`Keeps`), which is transitive, so that the longer routines follow from the
  shorter ones. The invariant adds that the calls the shell still has to make
  are those of the scripts, and that before a `clear` of the shell the region has
  been set back to column 0 (`ClearReady`): otherwise `clear` would leave the
  cursor left of the region, as it does when a thread clears (`cleared`).

`Memory_proofs`, for a tree of any height, any sizes of pages and headers, any
requests and any number of processes and threads:

* `MemoryTypeCorrect`: `TypeOK`, also after threads have ended.
* `BlocksFit`: `BlockFits`. The nodes above a node are its quotients by powers of
  two and the pages below it are consecutive (`BlockOf`); the recursion of `Pow2`
  and the loop of `getLevel` (`Halvings`) are recursive functions over the levels
  and the pages, whose existence and values are proved by induction on a set.
* `PagesAreApart`: `NoOverlap`. `MarksSound` says what the marks mean until a page
  is given back: a node that is not EMPTY has no EMPTY node above it. Everything a
  process has is BUDDY_FULL (`Holds`), so a node that `allocPage` takes, which is
  EMPTY and has no BUDDY_FULL node above it, is neither above nor below one of them
  and shares no page with it (`AllocHolds`).
  The invariant is said of all processes, removed ones included,
  since nothing gives their pages back (`Owned`, `Safe`).
* `HeapsAreTiled`: `HeapTiled`, from the theorem before: a block is split into two
  that fill it (`GrantSplit`, `CutInTwo`), and the block that `extendHeap` adds
  fills pages that nobody has.

Assumptions on constants are those of the modules (sizes are numbers, `NoPid` is
no process, and so on) and the hypotheses named above.

Only model-checked: liveness (`ReadyRuns`, `SleeperWakes`, `KernelReturns`,
`HandedOn`, `KeepsMoving`: fairness is out of the prover's reach); `PathsAgree`,
which is about RECURSIVE operators, that the prover does not handle; and
`LineShown`, which says what a fold over the characters in the buffer computes,
an induction over data.

## Defects met while modelling

The model does what the code does; where that is plainly not what was meant, the
properties say up to where they are claimed.

* An interrupt in the tail of `callProcess` can cut a process out of the ring
  (run `exit_race`).
* A process that meets a full mutex queue is neither queued nor killed
  (`mutex.c:380`, whose comment wants it killed): it goes on as if it held the
  mutex. `overflowed` in `Mutex`.
* A process that meets the full queue of a semaphore is blocked in no queue
  (`semaphores.c:54`). `broken` in `Semaphore`.
* `isBufferFull` does not see a full buffer whose read offset is 0
  (`terminal.c:24`): the next key drops all that is waiting (run `terminal_full`).
* `freeUpRecursive` marks a node EMPTY when its *sibling* is, with pages below
  the node still in use (`buddyAllocator.c:137`), and `freeThreadPages` gives
  back the page behind a kernel stack (`threads.c:73`): blocks in use are marked
  empty. `threadEnded` in `Memory`.
* `createThread` without a free place loses five pages; `ps` loses those of its
  list; a removed process keeps
  all of its own; nobody checks for NULL (`threads.c:20`, `scheduler.c:256`,
  `malloc.c:110`).
* `semCreate` of an existing name keeps `semaphoreMutex` locked; `openPipe` of
  an unknown one keeps the mutex library's own (`semaphores.c:118`, `IPC.c:47`).
* `&clear` behind a prompt lets backspaces move the cursor out of the screen
  (`video.c:172`); a key during the prompt spoils it.
* A line of exactly 100 characters is reported as too long, and what follows the
  hundredth is read as the next command (`SHELL/stdio.c:162`).
* `sleep(0)`, or a full sleep table, means sleeping for ever
  (`interrupts.c:118`, `interrupts.c:136`).
* `lockMutex` of an index that was closed returns at once (`mutex.c:374`), and
  the caller cannot tell that it holds nothing.
* `getProcessById` indexes a slot as an array (`scheduler.c:31`); only the list of
  a process's pages, which nothing reachable reads, and the page-fault
  demonstration depend on it.
* The kernel heap's first block does not count its header (`malloc.c:34`), and
  `putNumber` loses 20 bytes of it at each call.
* `state[]` of the philosophers is not initialised (`dummy.c:425`).
* Mouse movements of 128 and more turn round (`mouse.c:190`), the handler loses
  bytes of the keyboard (`mouse.c:108`) and the interrupted program's registers
  (`libasm.asm:271`).

## What could follow

An abstract specification of the life of a process, implemented by `Scheduler`;
`LineShown` as a theorem, with the line kept as a history in place of the fold;
the pipes, once `initializePipes` is called.

## Not modelled

* An interrupt inside `deallocPage`, and what a new owner's writes do to the stack
  that an ending thread still runs on.
* Which process a mouse interrupt stops: if it is removed during a paste, the
  handler never ends and the mouse stays silent.
* Pipes: `initializePipes` is called by nothing, so `ipcAdminMutex` is 0, the
  mutex library's own mutex. `createPipe` calls `getMutex` with it locked and
  waits for itself; no pipe ever exists.
* The second mutex library, conditions and queue, `memoryAllocator.c`: called by
  nothing.
* Editor and fortune (a loop of `getchar` and `putchar`), the boot console, the
  clock (device I/O), module loading (once, before interrupts), the boot loader
  (third-party).
