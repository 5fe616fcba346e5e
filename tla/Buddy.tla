-------------------------------- MODULE Buddy --------------------------------
(***************************************************************************)
(* The page allocator of Kernel/buddyAllocator.c: a complete binary tree   *)
(* of marks over the pages, kept in an array with the root at 1.  Its two  *)
(* recursions only look at and mark one path of the tree, so what they do  *)
(* to a node is stated for each node of that path.  The marks occ are a    *)
(* parameter; module Memory has them as its state.                         *)
(***************************************************************************)
EXTENDS Integers, FiniteSets

CONSTANTS
    heapLevel      \* levels of the tree: 2^(heapLevel-1) pages

ASSUME BuddyAssumption == heapLevel \in Nat \ {0}

\* The number of nodes doubles from level to level.
Pow2[k \in 0..heapLevel] == IF k = 0 THEN 1 ELSE 2 * Pow2[k - 1]

NUMBER_OF_PAGES == Pow2[heapLevel - 1]
HEAPSIZE == 2 * NUMBER_OF_PAGES - 1
Node == 1..HEAPSIZE
Page == 0..(NUMBER_OF_PAGES - 1)

Mark == {"EMPTY", "PARTIALLY_FULL", "BUDDY_FULL"}

NULL == 0      \* no node

-----------------------------------------------------------------------------
(***************************************************************************)
(* The tree.                                                               *)
(***************************************************************************)
PARENT(i) == i \div 2
LCHILD(i) == 2 * i
RCHILD(i) == 2 * i + 1
SIBLING(i) == IF i % 2 = 1 THEN i - 1 ELSE i + 1

NodesOf(level) == Pow2[level - 1] .. (Pow2[level] - 1)
Leaf(page) == page + NUMBER_OF_PAGES

\* The path from n, exclusive, to the root, and n's subtree.
Above == [n \in Node |-> { n \div Pow2[k] : k \in 1..heapLevel } \ {0}]
Subtree == [n \in Node |-> { d \in Node : d = n \/ n \in Above[d] }]
PagesOf == [n \in Node |-> { page \in Page : Leaf(page) \in Subtree[n] }]

-----------------------------------------------------------------------------
(***************************************************************************)
(* getLevel: halve, rounding up, until one page is left.                   *)
(***************************************************************************)
Halvings[pages \in 1..NUMBER_OF_PAGES] ==
    IF pages <= 1 THEN 0 ELSE 1 + Halvings[(pages \div 2) + (pages % 2)]

\* Mutant: halving rounds down.
getLevelRoundsDown(pages) ==
    heapLevel - CHOOSE k \in 0..heapLevel : 2 ^ k <= pages /\ pages < 2 ^ (k + 1)

getLevel(pages) == heapLevel - Halvings[pages]

(***************************************************************************)
(* allocPage.  getNextPageRecursive goes left first, enters no full node   *)
(* and takes the first empty node of the level; on the way back it marks   *)
(* the nodes it came through.                                              *)
(***************************************************************************)
\* Mutant: full nodes above the block are not looked at.
TakeableBelowFull(occ, level) == { n \in NodesOf(level) : occ[n] = "EMPTY" }

Takeable(occ, level) ==
    { n \in NodesOf(level) : /\ occ[n] = "EMPTY"
                             /\ \A a \in Above[n] : occ[a] # "BUDDY_FULL" }

\* The child of a on the way to n.
Towards(a, n) ==
    CHOOSE c \in {LCHILD(a), RCHILD(a)} : n \in Subtree[c]

\* From a, the way to n only turns right.
AllRight(a, n) ==
    \A b \in (Above[n] \cap Subtree[a]) : Towards(b, n) = RCHILD(b)

Marked(occ, n, a) ==
    IF Towards(a, n) = LCHILD(a) THEN "PARTIALLY_FULL"
    ELSE IF AllRight(a, n) THEN "BUDDY_FULL"
    ELSE occ[a]

First(S) == CHOOSE n \in S : \A o \in S : n <= o

MarksAfterAlloc(occ, n) ==
    [o \in Node |-> CASE o = n -> "BUDDY_FULL"
                      [] o \in Above[n] -> Marked(occ, n, o)
                      [] OTHER -> occ[o]]

\* The node whose pages are handed out, or NULL, and the marks.
allocPage(occ, pages) ==
    LET S == IF pages \in 1..NUMBER_OF_PAGES
             THEN Takeable(occ, getLevel(pages)) ELSE {}
    IN  IF S = {}
        THEN [node |-> NULL, occ |-> occ]
        ELSE [node |-> First(S), occ |-> MarksAfterAlloc(occ, First(S))]

(***************************************************************************)
(* deallocPage, with an address in page.  freeUpRecursive looks at each    *)
(* node above the page's leaf and at the sibling of the node it came from. *)
(***************************************************************************)
\* Mutant: a node that is partially full is not freed with its halves.
FreedOnlyFull(occ, leaf, a) ==
    LET sibling == occ[SIBLING(Towards(a, leaf))]
    IN  IF occ[a] = "BUDDY_FULL" /\ sibling = "EMPTY" THEN "EMPTY"
        ELSE IF occ[a] = "BUDDY_FULL" /\ sibling = "BUDDY_FULL"
             THEN "PARTIALLY_FULL"
        ELSE occ[a]

Freed(occ, leaf, a) ==
    LET sibling == occ[SIBLING(Towards(a, leaf))]
    IN  IF occ[a] # "EMPTY" /\ sibling = "EMPTY" THEN "EMPTY"
        ELSE IF occ[a] = "BUDDY_FULL" /\ sibling = "BUDDY_FULL"
             THEN "PARTIALLY_FULL"
        ELSE occ[a]

\* Mutant: the climb goes on past the root and marks entry 0.
MarksPastRoot(occ, leaf) ==
    [o \in Node \cup {0} |-> CASE o \in {0, leaf} -> "EMPTY"
                              [] o \in Above[leaf] -> Freed(occ, leaf, o)
                              [] OTHER -> occ[o]]

MarksAfterDealloc(occ, leaf) ==
    [o \in Node |-> CASE o = leaf -> "EMPTY"
                      [] o \in Above[leaf] -> Freed(occ, leaf, o)
                      [] OTHER -> occ[o]]

\* The page behind the last has its mark where the compiler leaves a byte
\* unused, and its climb begins at the leaf of page 0, beside an address of
\* which the byte next to it is zero, as EMPTY is: it is page 0 that is freed.
deallocPage(occ, page) ==
    MarksAfterDealloc(occ, Leaf(IF page = NUMBER_OF_PAGES THEN 0 ELSE page))
=============================================================================
