--------------------------- MODULE MCPhilosophers ---------------------------
(***************************************************************************)
(* Philosophers for TLC.                                                   *)
(***************************************************************************)
EXTENDS Philosophers

=============================================================================
