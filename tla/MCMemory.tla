------------------------------ MODULE MCMemory ------------------------------
(***************************************************************************)
(* Memory for TLC, with the recursions of module BuddyRecursion beside what*)
(* module Buddy says of them.                                              *)
(***************************************************************************)
EXTENDS Memory, BuddyRecursion

\* In every state that processes, threads and heaps lead to, the recursions of
\* the code find the block and leave the marks that module Buddy states.
PathsAgree == SamePaths(occupied, { Pow2[k] : k \in 0..(heapLevel - 1) })

=============================================================================
