---------------------------- MODULE OutboundBox ----------------------------
(***************************************************************************)
(* The outbound schedule of one authenticated client of the control server *)
(* (server/src/wsserver.ts: enqueue, flushOutbound, writeFrame).  Discrete *)
(* frames queue in order and are written as soon as they fit; of the       *)
(* stream frames of a session only the newest waits, behind them, for a    *)
(* timer.  The operators map a connection to the connection after the call;*)
(* the module has no behaviour of its own.                                 *)
(*                                                                         *)
(* A frame takes one place of the socket's buffer, which holds Room of     *)
(* them: sizes decide when a frame does not fit, never which.  No frame is *)
(* larger than the whole allowance.                                        *)
(***************************************************************************)
EXTENDS Naturals, Sequences

CONSTANT Room       \* bound: frames the socket's buffer holds

ASSUME RoomBound == Room \in Nat \ {0}

IsStream(f) == f.kind = "stream"

(* What the frames of a sequence that are not supersedable are, in order.  *)
Discrete(fs) ==
    LET kept[n \in 0 .. Len(fs)] ==
            IF n = 0 THEN <<>>
            ELSE IF IsStream(fs[n]) THEN kept[n - 1] ELSE Append(kept[n - 1], fs[n])
    IN  kept[Len(fs)]

(* A fresh connection: nothing queued, no timer, never blocked.            *)
FreshConn == [up |-> TRUE, urgent |-> <<>>, streams |-> <<>>,
              timer |-> FALSE, stall |-> "none", wire |-> <<>>, dropped |-> {}]

(* closeSocket: no more frames are accepted.  What the socket already took *)
(* may still arrive.                                                       *)
Closed(c) == [c EXCEPT !.up = FALSE, !.urgent = <<>>, !.streams = <<>>,
                       !.timer = FALSE, !.stall = "none"]

First(fs, n) == SubSeq(fs, 1, n)
After(fs, n) == SubSeq(fs, n + 1, Len(fs))
Fitting(fs, used) == IF Len(fs) <= Room - used THEN Len(fs) ELSE Room - used

SidsOf(fs) == {fs[i].sid : i \in DOMAIN fs}

(***************************************************************************)
(* flushOutbound.  Discrete frames go first.  The first that does not fit  *)
(* stays at the front and arms the retry, and the first time that happens  *)
(* without a write in between starts the stall clock; a client still       *)
(* blocked after it ran out is closed.  Then the streams, each deleted     *)
(* before it is written: the first that does not fit is dropped, and the   *)
(* ones behind it stay, with no timer.                                     *)
(***************************************************************************)
HoldAtTheBack(c, n) ==       \* mutant of HoldUrgent: the frame is queued again, behind the rest
    [c EXCEPT !.urgent = Append(After(@, n + 1), @[n + 1]),
              !.wire = @ \o First(c.urgent, n), !.timer = TRUE, !.stall = "held"]

HoldWithoutRetry(c, n) ==    \* mutant of HoldUrgent: nothing tries the held frame again
    [c EXCEPT !.urgent = After(@, n), !.wire = @ \o First(c.urgent, n),
              !.timer = FALSE, !.stall = "held"]

HoldUrgent(c, n) ==
    IF n = 0 /\ c.stall = "overdue"
    THEN Closed(c)
    ELSE [c EXCEPT !.urgent = After(@, n),
                   !.wire = @ \o First(c.urgent, n),
                   !.timer = TRUE,
                   !.stall = IF n = 0 /\ @ # "none" THEN @ ELSE "held"]

WriteStreams(c) ==
    LET m == Fitting(c.streams, Len(c.wire))
    IN  [c EXCEPT !.wire = @ \o First(c.streams, m),
                  !.streams = After(@, m + 1),
                  !.timer = FALSE,
                  !.stall = IF m > 0 THEN "none" ELSE @,
                  !.dropped = (@ \ SidsOf(First(c.streams, m)))
                              \cup {c.streams[i].sid : i \in {m + 1} \cap DOMAIN c.streams}]

FlushOutbound(c) ==
    LET n == Fitting(c.urgent, Len(c.wire))
    IN  IF n < Len(c.urgent)
        THEN HoldUrgent(c, n)
        ELSE WriteStreams([c EXCEPT !.wire = @ \o c.urgent, !.urgent = <<>>,
                                    !.stall = IF n > 0 THEN "none" ELSE @])

(* enqueue, for a frame that is supersedable state: it takes the place of  *)
(* the older frame of its session, or the last place.                      *)
Supersede(c, f) ==
    [c EXCEPT !.streams =
                IF f.sid \in SidsOf(@)
                THEN [i \in DOMAIN @ |-> IF @[i].sid = f.sid THEN f ELSE @[i]]
                ELSE Append(@, f),
              !.timer = TRUE]

Enqueue(c, f) ==
    IF ~c.up THEN c
    ELSE IF IsStream(f) THEN Supersede(c, f)
    ELSE FlushOutbound([c EXCEPT !.urgent = Append(@, f)])
=============================================================================
