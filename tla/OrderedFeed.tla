----------------------------- MODULE OrderedFeed -----------------------------
(***************************************************************************)
(* What the control server promises a client about discrete frames: while  *)
(* the link is up they arrive in the order they were broadcast, each once, *)
(* and none is lost.  pending is what was broadcast and has not arrived.   *)
(***************************************************************************)
EXTENDS Sequences, SequencesExt

VARIABLES pending, up

Broadcast == up' = up /\ IsPrefix(pending, pending')
Arrives   == up' = up /\ pending # <<>> /\ pending' = Tail(pending)
Ends      == ~up' /\ IsPrefix(pending', pending)     \* a prefix may still arrive
Begins    == ~up /\ up'                              \* a new link, a new feed

Next == Broadcast \/ Arrives \/ Ends \/ Begins

Spec == [][Next]_<<pending, up>>
=============================================================================
