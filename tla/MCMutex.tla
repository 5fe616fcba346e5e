------------------------------- MODULE MCMutex -------------------------------
(***************************************************************************)
(* Mutex for TLC.  Processes are told apart only by equality.              *)
(***************************************************************************)
EXTENDS Mutex, TLC

Symmetry == Permutations(Procs)

=============================================================================
