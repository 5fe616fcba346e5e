--------------------------- MODULE BuddyRecursion ---------------------------
(***************************************************************************)
(* The two recursive routines of Kernel/buddyAllocator.c as they are       *)
(* written, to compare with what module Buddy says they do to each node.   *)
(* Each takes the marks and returns them, changed.                         *)
(***************************************************************************)
EXTENDS Buddy

RECURSIVE getNextPageRecursive(_, _, _, _)
getNextPageRecursive(occ, index, currentLevel, level) ==
    IF occ[index] = "BUDDY_FULL" THEN [occ |-> occ, node |-> NULL]
    ELSE IF currentLevel = level
    THEN IF occ[index] = "PARTIALLY_FULL" THEN [occ |-> occ, node |-> NULL]
         ELSE [occ |-> [occ EXCEPT ![index] = "BUDDY_FULL"], node |-> index]
    ELSE
    LET lchild == getNextPageRecursive(occ, LCHILD(index), currentLevel + 1, level)
        rchild == getNextPageRecursive(lchild.occ, RCHILD(index),
                                       currentLevel + 1, level)
    IN  IF lchild.node # NULL
        THEN [lchild EXCEPT !.occ[index] = "PARTIALLY_FULL"]
        ELSE IF rchild.node # NULL /\ rchild.occ[RCHILD(index)] = "BUDDY_FULL"
        THEN [rchild EXCEPT !.occ[index] = "BUDDY_FULL"]
        ELSE rchild

RECURSIVE freeUpRecursive(_, _)
freeUpRecursive(occ, index) ==
    IF index = 1 THEN occ
    ELSE LET parent == occ[PARENT(index)]
             sibling == occ[SIBLING(index)]
             mark == CASE parent = "BUDDY_FULL" /\ sibling = "EMPTY" -> "EMPTY"
                       [] parent = "BUDDY_FULL" /\ sibling = "BUDDY_FULL"
                             -> "PARTIALLY_FULL"
                       [] parent = "PARTIALLY_FULL" /\ sibling = "EMPTY"
                             -> "EMPTY"
                       [] OTHER -> parent
         IN  freeUpRecursive([occ EXCEPT ![PARENT(index)] = mark], PARENT(index))

\* For marks occ, the recursions find the block and leave the marks that module
\* Buddy states.
SamePaths(occ, requests) ==
    /\ \A pages \in requests \cap (1..NUMBER_OF_PAGES) :
          LET found == getNextPageRecursive(occ, 1, 1, getLevel(pages))
          IN  allocPage(occ, pages) = [node |-> found.node, occ |-> found.occ]
    /\ \A page \in Page :
          deallocPage(occ, page) =
              freeUpRecursive([occ EXCEPT ![Leaf(page)] = "EMPTY"], Leaf(page))
=============================================================================
