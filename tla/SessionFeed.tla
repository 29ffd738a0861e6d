---------------------------- MODULE SessionFeed ----------------------------
(***************************************************************************)
(* How a turn of a session reaches the app's screen: the supervisor's turn *)
(* events and the frames they broadcast (server/src/supervisor.ts: wire),  *)
(* the client's outbound schedule (OutboundBox), the link, and the app's   *)
(* view of each session (app/lib/services/session_store.dart).             *)
(*                                                                         *)
(* What the assistant says is a sequence of pieces, numbered per session.  *)
(* Pieces 1..saved are in the transcript; text is what is being said now   *)
(* and segs what this turn said before its tool calls; untold counts the   *)
(* pieces being said that no stream frame tells.  A history page           *)
(* carries the transcript, a state frame the status of every session, a    *)
(* stream frame segs and text; thinking, images and paging are left out.   *)
(*                                                                         *)
(* Events: "loss", the link may break (a stalled one is closed anyway).    *)
(***************************************************************************)
EXTENDS OutboundBox, FiniteSets

CONSTANTS
    Sessions,
    Open,           \* the sessions whose chat screen is open in the app
    MaxPieces,      \* bound: pieces said in one session
    MaxMessages,    \* bound: user messages delivered to one session
    MaxHeld,        \* bound: discrete frames waiting while sessions work on
    MaxLinks,       \* bound: redials
    Events

ASSUME OpenAreSessions == Open \subseteq Sessions
ASSUME FeedBounds == {MaxPieces, MaxMessages, MaxHeld, MaxLinks} \subseteq Nat

VARIABLES
    session,        \* the host's side of each session
    late,           \* sessions whose delayed history push is still to come
    conn,           \* the client's connection, as the server holds it
    view,           \* what the app holds of each session
    asked,          \* sessions whose history the app has requested
    reply,          \* history replies on their way to the app (0 = none;
                    \* a reply with an empty thread shows nothing)
    links           \* redials so far

feedVars == <<session, late, conn, view, asked, reply, links>>

Piece  == 1 .. MaxPieces
Pieces == SUBSET Piece

SessionRecord == [working : BOOLEAN, saved : 0 .. MaxPieces, untold : 0 .. MaxPieces,
                  segs : Pieces, text : Pieces, turns : 0 .. MaxMessages]
ViewRecord == [working : BOOLEAN, hist : 0 .. MaxPieces, segs : Pieces, text : Pieces]

----------------------------------------------------------------------------
(* The frames, as the server broadcasts them.                              *)

StateFrame(ss)  == [kind |-> "state", working |-> {s \in Sessions : ss[s].working}]
HistoryFrame(ss, s) == [kind |-> "history", sid |-> s, upto |-> ss[s].saved]
ToolFrame(s)    == [kind |-> "tool", sid |-> s]
StreamFrame(ss, s) == [kind |-> "stream", sid |-> s,
                       segs |-> ss[s].segs, text |-> ss[s].text]

Frame == [kind : {"state"}, working : SUBSET Sessions]
         \cup [kind : {"history"}, sid : Sessions, upto : 0 .. MaxPieces]
         \cup [kind : {"tool"}, sid : Sessions]
         \cup [kind : {"stream"}, sid : Sessions, segs : Pieces, text : Pieces]

Publish(f) == conn' = Enqueue(conn, f)

(* admit: the snapshot every authenticated client is sent first.           *)
Admitted(ss) == Enqueue(FreshConn, StateFrame(ss))

----------------------------------------------------------------------------
IdleSession == [working |-> FALSE, saved |-> 0, untold |-> 0, segs |-> {}, text |-> {}, turns |-> 0]
Blank == [working |-> FALSE, hist |-> 0, segs |-> {}, text |-> {}]

(* The app has just opened the chat of every open session, which asks for  *)
(* its history.                                                            *)
FeedInit ==
    /\ session = [s \in Sessions |-> IdleSession]
    /\ late = {}
    /\ conn = Admitted(session)
    /\ view = [s \in Sessions |-> Blank]
    /\ asked = Open
    /\ reply = [s \in Sessions |-> 0]
    /\ links = 0

AppUnchanged == UNCHANGED <<view, asked, reply, links>>

(* The sessions go on only while the backlog is within the bound.          *)
Backlog == Len(conn.urgent) >= MaxHeld

(* The message being said is part of the transcript once it ended.         *)
Said(r) == r.saved + r.untold + Cardinality(r.text)
Saying(r) == r.untold # 0 \/ r.text # {}

----------------------------------------------------------------------------
(* message_start of a user message: it opens a turn, or steers one.  What  *)
(* the assistant said before it is in the transcript, and the segmenter    *)
(* starts over.  message_end follows at once and pushes the history 100 ms *)
(* later.                                                                  *)
UserMessage(s) ==
    /\ ~Backlog /\ session[s].turns < MaxMessages
    /\ session' = [session EXCEPT ![s] =
            [working |-> TRUE, saved |-> Said(@), untold |-> 0, segs |-> {}, text |-> {},
             turns |-> @.turns + 1]]
    /\ late' = late \cup {s}
    /\ conn' = Enqueue(Enqueue(conn, StreamFrame(session', s)), StateFrame(session'))
    /\ AppUnchanged

LateHistory(s) ==
    /\ ~Backlog /\ s \in late
    /\ late' = late \ {s}
    /\ Publish(HistoryFrame(session, s))
    /\ UNCHANGED session /\ AppUnchanged

(* message_start of an assistant message, after the user's or after tools. *)
AssistantStarts(s) ==
    /\ ~Backlog /\ session[s].working /\ ~Saying(session[s])
    /\ Publish(StateFrame(session))
    /\ UNCHANGED <<session, late>> /\ AppUnchanged

(* message_update: a text delta, of a turn that has an id.                 *)
TextDelta(s) ==
    /\ ~Backlog /\ session[s].working /\ Said(session[s]) < MaxPieces
    /\ session' = [session EXCEPT ![s].text = @ \cup {Said(session[s]) + 1}]
    /\ Publish(StreamFrame(session', s))
    /\ UNCHANGED late /\ AppUnchanged

(* The same of a turn without one: the frame is not made, and the          *)
(* segmenter is not told.  An id comes with a submission, at any time, and *)
(* goes with the end of a turn; a run nobody submitted has none.           *)
UntoldDelta(s) ==
    /\ ~Backlog /\ session[s].working /\ Said(session[s]) < MaxPieces
    /\ session' = [session EXCEPT ![s].untold = @ + 1]
    /\ UNCHANGED <<late, conn>> /\ AppUnchanged

(* tool_execution_start: the message ended, and its text is promoted.      *)
ToolStarts(s) ==
    /\ ~Backlog /\ session[s].working
    /\ session' = [session EXCEPT ![s].segs = @ \cup session[s].text,
                                  ![s].saved = Said(session[s]),
                                  ![s].untold = 0, ![s].text = {}]
    /\ conn' = Enqueue(IF session[s].text = {} THEN conn ELSE Enqueue(conn, StreamFrame(session', s)),
                       ToolFrame(s))
    /\ UNCHANGED late /\ AppUnchanged

(* tool_execution_end: the result.                                         *)
ToolEnds(s) ==
    /\ ~Backlog /\ session[s].working /\ ~Saying(session[s])
    /\ Publish(ToolFrame(s))
    /\ UNCHANGED <<session, late>> /\ AppUnchanged

(* What the end of a turn sends: the idle state first, then the history,   *)
(* then the empty stream.  Nothing of the host runs in between.            *)
TurnOver(idle, page, empty) == Enqueue(Enqueue(Enqueue(conn, idle), page), empty)

EndsBeforeSaving(s) ==      \* mutant of AgentEnds: the page is taken before the last message is in it
    /\ ~Backlog /\ session[s].working
    /\ session' = [session EXCEPT ![s].working = FALSE, ![s].saved = Said(session[s]),
                                  ![s].untold = 0, ![s].segs = {}, ![s].text = {}]
    /\ conn' = TurnOver(StateFrame(session'), HistoryFrame(session, s), StreamFrame(session', s))
    /\ UNCHANGED late /\ AppUnchanged

(* agent_end: the last message is in the transcript, and nothing streams.  *)
AgentEnds(s) ==
    /\ ~Backlog /\ session[s].working
    /\ session' = [session EXCEPT ![s].working = FALSE, ![s].saved = Said(session[s]),
                                  ![s].untold = 0, ![s].segs = {}, ![s].text = {}]
    /\ conn' = TurnOver(StateFrame(session'), HistoryFrame(session', s), StreamFrame(session', s))
    /\ UNCHANGED late /\ AppUnchanged

----------------------------------------------------------------------------
(* The 50 ms of a stream or the 250 ms of a retry are over.                *)
TimerFires ==
    /\ conn.up /\ conn.timer
    /\ conn' = FlushOutbound(conn)
    /\ UNCHANGED <<session, late>> /\ AppUnchanged

(* A frame has been held for more than MAX_OUTBOUND_STALL_MS.              *)
StallRunsOut ==
    /\ conn.up /\ conn.stall = "held"
    /\ conn' = [conn EXCEPT !.stall = "overdue"]
    /\ UNCHANGED <<session, late>> /\ AppUnchanged

(* get_history: the reply over HTTP, and the same frame on the socket.     *)
(* Bound: one reply per session is on its way at a time.                   *)
ServeHistory(s) ==
    /\ conn.up /\ ~Backlog /\ s \in asked /\ reply[s] = 0
    /\ asked' = asked \ {s}
    /\ reply' = [reply EXCEPT ![s] = session[s].saved]
    /\ Publish(HistoryFrame(session, s))
    /\ UNCHANGED <<session, late, view, links>>

----------------------------------------------------------------------------
(* The app's side.                                                         *)

(* applyState: the statuses, and no streamed text survives a snapshot that *)
(* does not carry it, which none does.                                     *)
ApplyState(v, f) ==
    [s \in Sessions |-> [v[s] EXCEPT !.working = s \in f.working, !.text = {}]]

(* applyHistory: the page replaces the thread; an idle session streams     *)
(* nothing.                                                                *)
ApplyHistory(v, s, upto) ==
    [v EXCEPT ![s] = IF @.working
                     THEN [@ EXCEPT !.hist = upto]
                     ELSE [@ EXCEPT !.hist = upto, !.segs = {}, !.text = {}]]

ApplyStream(v, f) ==
    [v EXCEPT ![f.sid].segs = f.segs, ![f.sid].text = f.text]

Applied(v, f) ==
    CASE f.kind = "state"   -> ApplyState(v, f)
      [] f.kind = "history" -> ApplyHistory(v, f.sid, f.upto)
      [] f.kind = "stream"  -> ApplyStream(v, f)
      [] f.kind = "tool"    -> v

(* An open chat asks for the history again when its session stops working. *)
StoppedWorking == {s \in Open : view[s].working /\ ~view'[s].working}

Deliver ==
    /\ conn.wire # <<>>
    /\ conn' = [conn EXCEPT !.wire = Tail(@)]
    /\ view' = Applied(view, Head(conn.wire))
    /\ asked' = asked \cup StoppedWorking
    /\ UNCHANGED <<session, late, reply, links>>

(* The HTTP reply overtakes the socket's frames or is overtaken by them,   *)
(* the next turn's too.                                                    *)
ReplyArrives(s) ==
    /\ reply[s] # 0
    /\ view' = ApplyHistory(view, s, reply[s])
    /\ reply' = [reply EXCEPT ![s] = 0]
    /\ UNCHANGED <<session, late, conn, asked, links>>

LinkBreaks ==
    /\ "loss" \in Events /\ conn.up
    /\ conn' = [Closed(conn) EXCEPT !.wire = <<>>]
    /\ UNCHANGED <<session, late>> /\ AppUnchanged

(* The app redials and is sent the snapshot.  It asks for no history.      *)
Redial ==
    /\ ~conn.up /\ links < MaxLinks
    /\ links' = links + 1
    /\ conn' = Admitted(session)
    /\ UNCHANGED <<session, late, view, asked, reply>>

----------------------------------------------------------------------------
FeedNext ==
    \/ \E s \in Sessions :
          \/ UserMessage(s) \/ LateHistory(s) \/ AssistantStarts(s)
          \/ TextDelta(s) \/ UntoldDelta(s) \/ ToolStarts(s) \/ ToolEnds(s) \/ AgentEnds(s)
          \/ ServeHistory(s) \/ ReplyArrives(s)
    \/ TimerFires \/ StallRunsOut \/ Deliver \/ LinkBreaks \/ Redial

FeedSpec == FeedInit /\ [][FeedNext]_feedVars

(* The server's own timers fire; the app and the network promise nothing.  *)
FairFeedSpec == FeedSpec /\ WF_feedVars(TimerFires) /\ WF_feedVars(StallRunsOut)

----------------------------------------------------------------------------
(* Every variable keeps its type; of a session at most one stream frame    *)
(* waits (OutboundBox.streams, a Map keyed by session).                    *)
FeedTypeOK ==
    /\ session \in [Sessions -> SessionRecord]
    /\ late \in SUBSET Sessions
    /\ conn \in [up : BOOLEAN, urgent : Seq(Frame), streams : Seq(Frame),
                 timer : BOOLEAN, stall : {"none", "held", "overdue"},
                 wire : Seq(Frame), dropped : SUBSET Sessions]
    /\ Len(conn.wire) <= Room /\ Len(conn.urgent) <= MaxHeld + 1
    /\ \A i, j \in DOMAIN conn.streams : conn.streams[i].sid = conn.streams[j].sid => i = j
    /\ view \in [Sessions -> ViewRecord]
    /\ asked \in SUBSET Sessions
    /\ reply \in [Sessions -> 0 .. MaxPieces]
    /\ links \in 0 .. MaxLinks

(* Discrete frames are never reordered, lost or repeated by the schedule:  *)
(* held frames go back to the front, and streams never take their place.   *)
Feed == INSTANCE OrderedFeed WITH
            pending <- Discrete(conn.wire) \o conn.urgent, up <- conn.up

FeedInOrder == Feed!Spec

(* A session the host has nothing more to say about: no frame, timer,      *)
(* request or reply is under way.                                          *)
Quiet ==
    /\ conn.up /\ conn.wire = <<>> /\ conn.urgent = <<>> /\ conn.streams = <<>>
    /\ late = {} /\ asked = {} /\ \A s \in Sessions : reply[s] = 0

(* Over a link that never broke, once everything sent has arrived the app  *)
(* shows each session as the host has it: the status, the whole transcript *)
(* of a session that stopped, and what was said before the tool calls of   *)
(* one that works, unless a stream frame of it was dropped since.          *)
SettledViewAgrees ==
    links = 0 /\ Quiet =>
        \A s \in Sessions :
            /\ view[s].working = session[s].working
            /\ ~session[s].working => view[s].hist = session[s].saved
            /\ s \notin conn.dropped => view[s].segs = session[s].segs

(* The state keeps its types, and what has settled agrees.                 *)
FeedIsSound == FeedTypeOK /\ SettledViewAgrees

(* Frames are held only for a client that goes on taking some: one that    *)
(* has stopped is closed ("It is only ended when it stops draining").      *)
StalledIsClosed == <>[](conn.up /\ conn.urgent # <<>>) => []<><<Deliver>>_feedVars

-----------------------------------------------------------------------------
(* What the code's own comments and tests say of it, and it does not do:   *)
(* TLC refutes each of these (the README names the instance).              *)

(* "How long stream deltas may coalesce before the newest one is flushed": *)
(* a stream frame that waits has a timer that will flush it.               *)
StreamsHaveTimer == conn.up /\ conn.streams # <<>> => conn.timer

(* What the screen shows of a session: its history and, while it works,    *)
(* what it streams.                                                        *)
Shown(s) == 1 .. view[s].hist \cup
            (IF view[s].working THEN view[s].segs \cup view[s].text ELSE {})

(* "Send updated history FIRST so the completed message sticks ... so      *)
(* there is no gap/blink": once a turn is over, nothing the screen shows   *)
(* of it disappears.                                                       *)
AnswerStaysShown ==
    [][\A s \in Sessions :
         ~session[s].working /\ ~session'[s].working => Shown(s) \subseteq Shown(s)']_feedVars

(* After a redial too, an open chat of a session that stopped shows its    *)
(* whole transcript once everything sent has arrived.                      *)
RedialCatchesUp ==
    Quiet => \A s \in Open : ~session[s].working => view[s].hist = session[s].saved
=============================================================================
