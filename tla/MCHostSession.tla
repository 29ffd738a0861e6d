--------------------------- MODULE MCHostSession ---------------------------
(* Small instances of HostSession for TLC. *)
EXTENDS HostSession
=============================================================================
