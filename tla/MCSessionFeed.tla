---------------------------- MODULE MCSessionFeed ----------------------------
(* Small instances of SessionFeed for TLC. *)
EXTENDS SessionFeed
=============================================================================
