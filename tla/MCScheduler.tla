---------------------------- MODULE MCScheduler ----------------------------
(***************************************************************************)
(* Scheduler for TLC: the configurations give its sizes.                   *)
(***************************************************************************)
EXTENDS Scheduler

=============================================================================
