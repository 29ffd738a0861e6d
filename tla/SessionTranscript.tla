------------------------- MODULE SessionTranscript --------------------------
(***************************************************************************)
(* What the terminal draws of a session's messages (session-transcript.ts):*)
(* from scratch out of the session's own messages, and incrementally out   *)
(* of the session's events.                                                *)
(*                                                                         *)
(* A message is [role, live, tool]: who says it, whether it is still being *)
(* written, and how far its tool call is: "none", "called", "done", or     *)
(* "cut" when the message failed before the call ran.  What is drawn is a  *)
(* sequence of components, each of a message or of its call, the message   *)
(* being streamed into, and the calls that wait for a result.              *)
(***************************************************************************)
EXTENDS Naturals, Sequences

Blank == [shown |-> <<>>, streaming |-> 0, waiting |-> {}]

Component(kind, i) == [kind |-> kind, of |-> i, done |-> FALSE]

Drawn(d, kind, i) == [d EXCEPT !.shown = Append(@, Component(kind, i))]

\* The components of the calls in W get a result.
WithResults(shown, W) ==
    [k \in DOMAIN shown |-> IF shown[k].kind = "tool" /\ shown[k].of \in W THEN [shown[k] EXCEPT !.done = TRUE] ELSE shown[k]]

CloseStreaming(d) == [d EXCEPT !.streaming = 0, !.waiting = {}]

BeginStreaming(d, i) == [Drawn(CloseStreaming(d), "message", i) EXCEPT !.streaming = i]

\* A tool call of message i gets a component, which waits for its result.
AddTool(d, i) == [Drawn(d, "tool", i) EXCEPT !.waiting = @ \cup {i}]

\* onToolResult, and the end of an execution: a call nobody waits for is left as it is.
OnToolResult(d, i) ==
    IF i \notin d.waiting THEN d
    ELSE [d EXCEPT !.waiting = @ \ {i}, !.shown = WithResults(@, {i})]

\* append, for message i, and the result that follows its call in the session's messages.
AppendMessage(d, i, m) ==
    LET said == IF m.role = "assistant" /\ m.live THEN BeginStreaming(d, i) ELSE Drawn(d, "message", i)
        called == IF m.tool = "none" THEN said ELSE AddTool(said, i)
    IN IF m.tool = "done" THEN OnToolResult(called, i) ELSE called

\* rebuild.
Rebuilt(msgs) ==
    LET after[n \in 0..Len(msgs)] == IF n = 0 THEN Blank ELSE AppendMessage(after[n - 1], n, msgs[n])
    IN after[Len(msgs)]

OnMessageStart(d, i, m) == IF m.role = "assistant" THEN BeginStreaming(d, i) ELSE AppendMessage(d, i, m)

\* A view that was opened, or rebuilt, in the middle of a run may not have seen the start.
OnMessageUpdate(d, i, m) ==
    LET on == IF d.streaming = 0 THEN BeginStreaming(d, i) ELSE d
    IN IF m.tool = "none" \/ i \in on.waiting THEN on ELSE AddTool(on, i)

\* A message that failed gives its calls an error for a result.
OnMessageEnd(d, failed) ==
    IF failed THEN [d EXCEPT !.streaming = 0, !.waiting = {}, !.shown = WithResults(@, d.waiting)]
    ELSE [d EXCEPT !.streaming = 0]

OnToolStart(d, i) == IF i \in d.waiting THEN d ELSE AddTool(d, i)

Finish(d) == CloseStreaming(d)

\* What is drawn, in order, and the calls that are drawn with a result.
Order(d) == [k \in DOMAIN d.shown |-> <<d.shown[k].kind, d.shown[k].of>>]
Results(d) == {d.shown[k].of : k \in {j \in DOMAIN d.shown : d.shown[j].kind = "tool" /\ d.shown[j].done}}
=============================================================================
