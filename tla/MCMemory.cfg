\* Sixteen pages: room for two processes and their heaps.
CONSTANTS
    heapLevel = 5
    PAGE_SIZE = 96
    BLOCK_STRUCT_SIZE = 28
    KERNEL_HEAP_SIZE = 64
    Sizes = {13, 68, 70}
    ThreadDim = 2
    MaxProcesses = 2
    MaxBlocks = 3
SPECIFICATION Spec
CHECK_DEADLOCK FALSE
INVARIANTS
    TypeOK
    NoOverlap
    HeapTiled
    BlockFits
    PathsAgree
