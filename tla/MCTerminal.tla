----------------------------- MODULE MCTerminal -----------------------------
(***************************************************************************)
(* Terminal for TLC: the configurations give the sizes.                    *)
(***************************************************************************)
EXTENDS Terminal

=============================================================================
