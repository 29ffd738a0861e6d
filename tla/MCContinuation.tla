--------------------------- MODULE MCContinuation ---------------------------
(* Small instances of Continuation for TLC. *)
EXTENDS Continuation
=============================================================================
