------------------------------- MODULE MCMouse -------------------------------
(***************************************************************************)
(* Mouse for TLC.                                                          *)
(***************************************************************************)
EXTENDS Mouse

\* Two characters in turn over the screen.
TextOfTwo == [p \in Cells |-> <<"k", 1 + (p % 2)>>]

MovesOfOne == {-10, 9, 10, 240}

=============================================================================
