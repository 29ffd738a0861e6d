-------------------------- MODULE MCTerminalViews --------------------------
(***************************************************************************)
(* TerminalViews with two agent sessions, interchangeable.                 *)
(***************************************************************************)
EXTENDS TerminalViews, TLC

Symmetry == Permutations(Sessions)
=============================================================================
