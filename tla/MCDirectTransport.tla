------------------------- MODULE MCDirectTransport --------------------------
(* Small instances of DirectTransport for TLC. *)
EXTENDS DirectTransport, TLC

\* Clients are interchangeable: nothing orders them but the offers they get.
ClientSymmetry == Permutations(Clients)
=============================================================================
