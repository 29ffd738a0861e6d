------------------------------ MODULE Framing -------------------------------
(***************************************************************************)
(* A payload as frames and frames as a payload (p2p-framing.ts and its     *)
(* mirror in the app, direct_framing.dart).  A frame names its message,    *)
(* its part and the number of parts; the bytes of part p of payload m are  *)
(* the pair <<m, p>>.                                                      *)
(***************************************************************************)
EXTENDS Naturals, Sequences

CONSTANT Parts      \* Parts[m]: the frames payload m takes

ASSUME PartsAssumption == \A m \in DOMAIN Parts : Parts[m] \in Nat \ {0}

\* FrameWriter.frames: the payloads of one writer are numbered in the order they are framed.
FramesOf(id, m) == [k \in 1..Parts[m] |-> [id |-> id, part |-> k - 1, count |-> Parts[m], bytes |-> <<m, k>>]]

\* What a reader holds: the message being assembled, 0 for none.
Idle == [id |-> 0, parts |-> <<>>, expected |-> 0]

\* Accepts refuses a part whose message was not started.
Accepts(r, f) == f.part = 0 \/ f.id = r.id

\* The reader with this frame's part added.
Taken(r, f) ==
    LET begun == IF f.part = 0 THEN [id |-> f.id, parts |-> <<>>, expected |-> f.count] ELSE r
    IN [begun EXCEPT !.parts = Append(@, f.bytes)]

Complete(r) == r.id # 0 /\ Len(r.parts) >= r.expected

\* FrameReader.accept, for a frame it accepts: the reader after it, and the payload it completes.
Accept(r, f) ==
    LET now == Taken(r, f)
    IN IF Complete(now) THEN [reader |-> Idle, whole |-> <<now.parts>>] ELSE [reader |-> now, whole |-> <<>>]

\* The payload m, whole.
Payload(m) == [k \in 1..Parts[m] |-> <<m, k>>]
=============================================================================
