------------------------------- MODULE Memory -------------------------------
(***************************************************************************)
(* Who has which memory: the pages that processes and threads are made of  *)
(* (Kernel/process.c, threads.c, newProcessSlot), the heaps of processes   *)
(* and of the kernel (Kernel/malloc.c), all from the page allocator of     *)
(* module Buddy.  What is here runs in system calls or before interrupts   *)
(* are on, and is one step, except the end of a thread: callProcess runs   *)
(* terminateThread with interrupts enabled, so it is a step for each call  *)
(* of deallocPage and one for the array.  (An interrupt inside deallocPage,*)
(* and what a new owner does to the stack that the ending thread still     *)
(* runs on, are not modelled.)                                             *)
(*                                                                         *)
(* No caller of allocPage looks for NULL: it writes through it, over the   *)
(* interrupt table at address 0.  There the model stops.  A process that   *)
(* is removed takes its pages with it, and there is no free for programs.  *)
(***************************************************************************)
EXTENDS Buddy, SequencesExt

CONSTANTS
    PAGE_SIZE,
    BLOCK_STRUCT_SIZE,   \* the header of a block of a heap
    KERNEL_HEAP_SIZE,
    Sizes,               \* the numbers of bytes that programs ask for
    ThreadDim,           \* the threads that findNextSpot has room for
    MaxProcesses,        \* bound on the processes created
    MaxBlocks            \* bound on the blocks of a process's heap

ASSUME MemoryAssumption ==
    /\ PAGE_SIZE \in Nat /\ BLOCK_STRUCT_SIZE \in Nat
    /\ PAGE_SIZE > BLOCK_STRUCT_SIZE
    /\ Sizes \subseteq Nat \ {0}
    /\ ThreadDim \in Nat \ {0} /\ MaxProcesses \in Nat /\ MaxBlocks \in Nat

VARIABLES
    occupied,       \* the marks of the page allocator
    processes,      \* by pid + 1
    kernelHeap,     \* the list that starts at kernelBase
    status,         \* "ok", or "noMemory"
    freed,          \* the pieces that each ending thread has given back
    threadEnded     \* history: a thread has ended, or begun to

vars == <<occupied, processes, kernelHeap, status, freed, threadEnded>>

\* A thread's three pieces, and a place in the array without a thread.
NoThread == [t |-> NULL, user |-> NULL, kernel |-> NULL]
Spot == 0..(ThreadDim - 1)

-----------------------------------------------------------------------------
(***************************************************************************)
(* Pages.                                                                  *)
(***************************************************************************)

FirstPage(node) == CHOOSE page \in PagesOf[node] : \A o \in PagesOf[node] : page <= o

\* One more allocPage, after those that got has nodes from.
Then(got, pages) ==
    LET a == allocPage(got.occ, pages)
    IN  [occ |-> a.occ, nodes |-> Append(got.nodes, a.node)]

Nothing == [occ |-> occupied, nodes |-> <<>>]

NoMemory ==
    /\ status' = "noMemory"
    /\ UNCHANGED <<occupied, processes, kernelHeap, freed, threadEnded>>

\* The Thread, the user stack and the kernel stack.
ThreadPages(got) == Then(Then(Then(got, 1), 2), 2)
ThreadOf(nodes) == [t |-> nodes[1], user |-> nodes[2], kernel |-> nodes[3]]

\* createProcess: getProcess, with createThread in it, and newProcessSlot.
CreateProcess ==
    LET got == Then(ThreadPages(Then(Nothing, 1)), 1) IN
    /\ status = "ok"
    /\ Len(processes) < MaxProcesses             \* bound
    /\ IF Contains(got.nodes, NULL) THEN NoMemory
       ELSE /\ occupied' = got.occ
            /\ processes' = Append(processes,
                  [alive |-> TRUE, info |-> got.nodes[1], slot |-> got.nodes[5],
                   threads |-> [k \in Spot |->
                                   IF k = 0 THEN ThreadOf(SubSeq(got.nodes, 2, 4))
                                   ELSE NoThread],
                   heap |-> <<>>, runs |-> <<>>])
            /\ UNCHANGED <<kernelHeap, status, freed, threadEnded>>

\* createThread: the pages are taken before it looks for a place in the array,
\* and are nobody's when there is none.
CreateThread(p) ==
    LET got == ThreadPages(Nothing)
        free == { k \in Spot : processes[p].threads[k] = NoThread }
    IN  /\ status = "ok"
        /\ processes[p].alive
        /\ IF Contains(got.nodes, NULL) THEN NoMemory
           ELSE /\ occupied' = got.occ
                /\ processes' =
                      IF free = {} THEN processes
                      ELSE [processes EXCEPT ![p].threads[First(free)] =
                                                ThreadOf(got.nodes)]
                /\ UNCHANGED <<kernelHeap, status, freed, threadEnded>>

\* Thread k of p has returned to callProcess.
Ending(p, k) ==
    /\ status = "ok"
    /\ processes[p].alive
    /\ k # 0 /\ processes[p].threads[k] # NoThread

\* The next call of deallocPage in freeThreadPages: the user stack is given back
\* with the stack pointer, somewhere in it, the kernel stack with the address
\* behind its last byte, which is in the next page, and the Thread.
freeThreadPages(p, k) ==
    LET th == processes[p].threads[k]
        addresses == <<PagesOf[th.user], {FirstPage(th.kernel) + 2}, {FirstPage(th.t)}>>
    IN  /\ Ending(p, k)
        /\ freed[p][k] < 3
        /\ \E page \in addresses[freed[p][k] + 1] :
              occupied' = deallocPage(occupied, page)
        /\ freed' = [freed EXCEPT ![p][k] = @ + 1]
        /\ threadEnded' = "yes"
        /\ UNCHANGED <<processes, kernelHeap, status>>

\* What terminateThread does after that.
TerminateThread(p, k) ==
    /\ Ending(p, k)
    /\ freed[p][k] = 3
    /\ processes' = [processes EXCEPT ![p].threads[k] = NoThread]
    /\ freed' = [freed EXCEPT ![p][k] = 0]
    /\ UNCHANGED <<occupied, kernelHeap, status, threadEnded>>

\* removeProcess gives nothing back.
RemoveProcess(p) ==
    /\ status = "ok"
    /\ p # 1 /\ processes[p].alive
    /\ processes' = [processes EXCEPT ![p].alive = FALSE]
    /\ UNCHANGED <<occupied, kernelHeap, status, freed, threadEnded>>

Alive == { p \in DOMAIN processes : processes[p].alive }

NUMBER_OF_PAGES_TO_ALLOC(size) ==
    IF size % PAGE_SIZE = 0 THEN size \div PAGE_SIZE ELSE size \div PAGE_SIZE + 1

\* getCurrentProcesses, for ps: pages for a pointer (of 8 bytes) to each process,
\* which nobody gives back.
getCurrentProcesses ==
    LET a == allocPage(occupied, NUMBER_OF_PAGES_TO_ALLOC(8 * Cardinality(Alive)))
    IN  /\ status = "ok"
        /\ Alive # {}
        /\ IF a.node = NULL THEN NoMemory
           ELSE /\ occupied' = a.occ
                /\ UNCHANGED <<processes, kernelHeap, status, freed, threadEnded>>

-----------------------------------------------------------------------------
(***************************************************************************)
(* Heaps: lists of blocks, each a header and size bytes from base on.      *)
(* asked is a history: the bytes a program has been granted in it.         *)
(***************************************************************************)

align4(x) == ((x - 1) \div 4) * 4 + 4

FreeBlock(base, size) == [base |-> base, size |-> size, free |-> TRUE, asked |-> 0]

\* The blocks at which findFirstFreeBlock would stop.
findFreeBlocks(heap, size) ==
    { i \in DOMAIN heap : heap[i].free /\ heap[i].size > size }

\* Mutant: the header of the new block is forgotten.
split_blockNoHeader(heap, i, size) ==
    LET b == heap[i] IN
    InsertAt([heap EXCEPT ![i].size = size], i + 1,
             FreeBlock(b.base + BLOCK_STRUCT_SIZE + size, b.size - size))

split_block(heap, i, size) ==
    LET b == heap[i] IN
    InsertAt([heap EXCEPT ![i].size = size], i + 1,
             FreeBlock(b.base + BLOCK_STRUCT_SIZE + size,
                       b.size - (size + BLOCK_STRUCT_SIZE)))

\* The block is no longer free.
Take(heap, i, size) == [heap EXCEPT ![i].free = FALSE, ![i].asked = size]

\* What mallock and kmalloc do with the block they have found.
Grant(heap, i, size) ==
    LET s == align4(size)
        split == IF heap[i].size > s + 4 + BLOCK_STRUCT_SIZE
                 THEN split_block(heap, i, s) ELSE heap
    IN  Take(split, i, size)

\* A heap with the pages it has, h, after extendHeap; node is NULL without
\* memory.
extendHeap(h, size) ==
    LET pages == NUMBER_OF_PAGES_TO_ALLOC(size + BLOCK_STRUCT_SIZE)
        a == allocPage(h.occ, pages)
    IN  IF a.node = NULL THEN [h EXCEPT !.ok = FALSE]
        ELSE [occ |-> a.occ, ok |-> TRUE,
              runs |-> Append(h.runs, [node |-> a.node, pages |-> pages]),
              heap |-> Append(h.heap,
                          FreeBlock(FirstPage(a.node) * PAGE_SIZE,
                                    pages * PAGE_SIZE - BLOCK_STRUCT_SIZE))]

\* mallock: the first extension is looked through like any other block, so that
\* a request that fills it exactly takes a second one.
Mallock(p, size) ==
    LET h0 == [occ |-> occupied, heap |-> processes[p].heap,
               runs |-> processes[p].runs, ok |-> TRUE]
        h1 == IF h0.heap = <<>> THEN extendHeap(h0, size) ELSE h0
        found == findFreeBlocks(h1.heap, align4(size))
        h2 == IF h1.ok /\ found = {} THEN extendHeap(h1, size) ELSE h1
        i == IF found = {} THEN Len(h2.heap) ELSE First(found)
    IN  /\ status = "ok"
        /\ processes[p].alive
        /\ Len(processes[p].heap) < MaxBlocks    \* bound
        /\ IF ~h2.ok THEN NoMemory
           ELSE /\ occupied' = h2.occ
                /\ processes' = [processes EXCEPT ![p].heap = Grant(h2.heap, i, size),
                                                  ![p].runs = h2.runs]
                /\ UNCHANGED <<kernelHeap, status, freed, threadEnded>>

\* kmalloc, from which the kernel's putNumber takes 20 bytes; NULL when there
\* is no block.
Kmalloc(size) ==
    LET found == findFreeBlocks(kernelHeap, align4(size)) IN
    /\ status = "ok"
    /\ found # {}
    /\ kernelHeap' = Grant(kernelHeap, First(found), size)
    /\ UNCHANGED <<occupied, processes, status, freed, threadEnded>>

-----------------------------------------------------------------------------
\* createHeap and initializeKernelHeap.
Init ==
    /\ occupied = [n \in Node |-> "EMPTY"]
    /\ processes = <<>>
    /\ kernelHeap = <<FreeBlock(0, KERNEL_HEAP_SIZE)>>
    /\ status = "ok"
    /\ freed = [p \in 1..MaxProcesses |-> [k \in Spot |-> 0]]
    /\ threadEnded = "no"

Next ==
    \/ CreateProcess
    \/ getCurrentProcesses
    \/ \E p \in DOMAIN processes :
          \/ CreateThread(p)
          \/ \E k \in Spot : freeThreadPages(p, k) \/ TerminateThread(p, k)
          \/ RemoveProcess(p)
          \/ \E size \in Sizes : Mallock(p, size)
    \/ Kmalloc(20)

Spec == Init /\ [][Next]_vars

-----------------------------------------------------------------------------
(***************************************************************************)
(* Properties.                                                             *)
(***************************************************************************)

\* The type invariant.
TypeOK ==
    /\ occupied \in [Node -> Mark]
    /\ \A p \in DOMAIN processes :
          /\ processes[p].info \in Node /\ processes[p].slot \in Node
          /\ \A k \in Spot : processes[p].threads[k] = NoThread
                \/ \A f \in {"t", "user", "kernel"} :
                      processes[p].threads[k][f] \in Node
    /\ status \in {"ok", "noMemory"}
    /\ freed \in [1..MaxProcesses -> [Spot -> 0..3]]

\* The nodes that process q has, each with what it is for.
ThreadFields == {"t", "user", "kernel"}

PiecesOfThreads(threads) ==
    UNION { { <<f, k, threads[k][f]>> : f \in ThreadFields } :
            k \in { o \in Spot : threads[o] # NoThread } }

PiecesOfHeap(runs) == { <<"heap", r, runs[r].node>> : r \in DOMAIN runs }

PiecesOf(q) ==
    {<<"info", 0, q.info>>, <<"slot", 0, q.slot>>}
    \cup PiecesOfThreads(q.threads) \cup PiecesOfHeap(q.runs)

\* No page is part of two things: processes, threads, stacks, slots and heaps
\* that are in use have pages of their own, whatever the order in which they are
\* created and grow, as long as no thread has ended, which gives back a page
\* that is not its own.
NoOverlap ==
    threadEnded = "no" =>
        \A p, q \in Alive :
            \A a \in PiecesOf(processes[p]), b \in PiecesOf(processes[q]) :
                <<p, a>> # <<q, b>> => PagesOf[a[3]] \cap PagesOf[b[3]] = {}

Extent(b) == b.base .. (b.base + BLOCK_STRUCT_SIZE + b.size - 1)

\* A block is granted at least what was asked for, and the blocks of a heap,
\* with their headers, fill the pages it was extended by: none reaches into
\* another or out of its pages, also at a request that fills a page exactly;
\* as long as no thread has ended (see NoOverlap).
HeapTiled ==
    threadEnded = "no" => \A p \in DOMAIN processes :
        LET heap == processes[p].heap
            runs == processes[p].runs
            bytes == [r \in DOMAIN runs |->
                        LET from == FirstPage(runs[r].node) * PAGE_SIZE
                        IN  from .. (from + runs[r].pages * PAGE_SIZE - 1)]
        IN  /\ \A i \in DOMAIN heap : heap[i].asked <= heap[i].size
            /\ \A i, j \in DOMAIN heap :
                  i # j => Extent(heap[i]) \cap Extent(heap[j]) = {}
            /\ UNION { Extent(heap[i]) : i \in DOMAIN heap }
                  = UNION { bytes[r] : r \in DOMAIN runs }

\* A block that would be handed out now has room for the pages asked for and is
\* less than twice as large: getLevel rounds as it should, up to the whole
\* memory.
BlockFits ==
    \A pages \in 1..NUMBER_OF_PAGES :
        LET node == allocPage(occupied, pages).node IN
        node # NULL => /\ pages <= Cardinality(PagesOf[node])
                       /\ Cardinality(PagesOf[node]) < 2 * pages
=============================================================================
