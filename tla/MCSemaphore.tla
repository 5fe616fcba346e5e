----------------------------- MODULE MCSemaphore -----------------------------
(***************************************************************************)
(* Semaphore for TLC.  Processes are told apart only by equality.          *)
(***************************************************************************)
EXTENDS Semaphore, TLC

Symmetry == Permutations(Procs)

=============================================================================
