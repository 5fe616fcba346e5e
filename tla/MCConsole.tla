------------------------------ MODULE MCConsole ------------------------------
(***************************************************************************)
(* Console for TLC.                                                        *)
(***************************************************************************)
EXTENDS Console

PromptOfTwo == <<"s", ">">>

=============================================================================
