--------------------------- MODULE TerminalViews ---------------------------
(***************************************************************************)
(* The views a host's terminal has of its agent sessions: the list         *)
(* (sessions-view.ts), the pane of one session (attach-view.ts), and the   *)
(* flow that goes from one to the other (host-commands.ts), beside the     *)
(* sessions themselves, which run, and which the app and the supervisor    *)
(* replace, rewrite and end while a view is open.                          *)
(*                                                                         *)
(* A session's id names the agent session in its slot of the supervisor's  *)
(* map (live); a new or restored session is another object under the same  *)
(* id.  Of pi it is assumed that a session's messages hold the one being   *)
(* written, that its listeners hear a change in the step that makes it, and*)
(* that an overlay is disposed when it says it is done.  Left out: layout, *)
(* scrolling, the prompt's editor, the queue's echo, the status line, and  *)
(* what the feedback line says when it is not a notice.                    *)
(***************************************************************************)
EXTENDS SessionTranscript, SequencesExt, FiniteSets

CONSTANTS
    Sessions,    \* the ids of agent sessions
    Host,        \* the id of the terminal's own session
    NoOne,       \* no session
    MaxObjects,  \* agent sessions ever built
    MaxMessages, \* messages of the agent sessions, together
    MaxPanes,    \* panes ever opened
    MaxCommands, \* commands in flight
    MaxRewrites, \* rewrites of messages, and notices one pane counts
    MaxElsewhere \* steps of the app and of others: spawns, ends, replacements, rewrites, notices

ASSUME ViewsAssumption ==
    /\ Host \notin Sessions /\ NoOne \notin Sessions \cup {Host}
    /\ {MaxObjects, MaxMessages, MaxPanes, MaxCommands, MaxRewrites, MaxElsewhere} \subseteq Nat /\ MaxObjects > 0

VARIABLES
    live,     \* [Sessions -> 0..MaxObjects]: the agent session in each slot, 0: none
    order,    \* the ids in the supervisor's map, oldest first
    parent,   \* whose subagent each session is
    objects,  \* the agent sessions: [msgs, phase, epoch, others]
    flow,     \* "closed", "list", "asking", "directory" or "pane"
    list,     \* [rows, shown, cursor, asked]
    killing,  \* the sessions the list is despawning
    pane,     \* the pane opened last
    subs,     \* who listens to which agent session: <<pane, object>>
    bus,      \* the panes that listen to the broadcasts
    running,  \* commands in flight: [pane, id, kind, before, result]
    elsewhere \* counts the steps of others, which MaxElsewhere bounds

people == <<flow, list, killing, elsewhere>>
host == <<live, order, parent>>
hearing == <<subs, bus>>
viewVars == <<live, order, parent, objects, flow, list, killing, pane, subs, bus, running, elsewhere>>

\* What follows a command in the pane: the session again, after /new and /tree; its messages again, after /compact,
\* /thinking <level> and /reload; nothing, after the rest.
Kinds == {"anew", "refresh", "plain"}
Message == [role : {"user", "assistant"}, live : BOOLEAN, tool : {"none", "called", "done", "cut"}]
Plain(role) == [role |-> role, live |-> role = "assistant", tool |-> "none"]
Fresh == [msgs |-> <<>>, phase |-> "idle", epoch |-> 0, others |-> FALSE]
NoList == [rows |-> <<>>, shown |-> <<>>, cursor |-> NoOne, asked |-> NoOne]
NoPane == [n |-> 0, id |-> NoOne, first |-> 0, shows |-> 0, drawn |-> Blank, epoch |-> 0,
           mode |-> "transcript", notice |-> 0, notices |-> 0]

ViewsInit ==
    \E a \in Sessions :
        /\ live = [s \in Sessions |-> IF s = a THEN 1 ELSE 0]
        /\ order = <<a>>
        /\ parent = [s \in Sessions |-> NoOne]
        /\ objects = <<Fresh>>
        /\ flow = "closed"
        /\ list = NoList
        /\ killing = {}
        /\ pane = NoPane
        /\ subs = {}
        /\ bus = {}
        /\ running = {}
        /\ elsewhere = 0

-----------------------------------------------------------------------------
\* The list.

\* The rows that are in F, in their order.
Among(rows, F) ==
    LET upTo[n \in 0..Len(rows)] ==
            IF n = 0 THEN <<>> ELSE IF rows[n] \in F THEN Append(upTo[n - 1], rows[n]) ELSE upTo[n - 1]
    IN upTo[Len(rows)]

\* A row that is nobody's subagent, or whose parent is not there.
IsRoot(s, rows) == s = Host \/ parent[s] \notin ToSet(rows)

\* byParent: the rows of the subagents of s.
RowsUnder(s, rows) == Among(rows, {c \in ToSet(rows) \ {Host} : parent[c] = s})

\* emit: a row that is not placed is placed, and then what is under it is emitted.  todo: the calls still to be made.
Emit(walk, rows) ==
    IF walk.todo = <<>> THEN walk
    ELSE IF Head(walk.todo) \in ToSet(walk.placed) THEN [walk EXCEPT !.todo = Tail(@)]
    ELSE [todo |-> RowsUnder(Head(walk.todo), rows) \o Tail(walk.todo), placed |-> Append(walk.placed, Head(walk.todo))]

\* orderSessionsByParent: emit each root, and at last every row, for those that only a cycle of parents holds.
\* There are never more calls of emit than this many.
OrderedByParent(rows) ==
    LET calls == Len(rows) * (Len(rows) + 3)
        roots == Among(rows, {s \in ToSet(rows) : IsRoot(s, rows)})
        walk[n \in 0..calls] == IF n = 0 THEN [todo |-> roots \o rows, placed |-> <<>>] ELSE Emit(walk[n - 1], rows)
    IN walk[calls].placed

FirstOf(rows) == IF rows = <<>> THEN NoOne ELSE Head(rows)

\* One turn of showSessionsFlow: the rows are read once, when the list opens.
ListOpens ==
    LET rows == OrderedByParent(<<Host>> \o order)
    IN /\ flow' = "list"
       /\ list' = [rows |-> rows, shown |-> rows, cursor |-> Host, asked |-> NoOne]

OpenFlow ==
    /\ flow = "closed"
    /\ ListOpens
    /\ UNCHANGED <<host, objects, killing, pane, hearing, running, elsewhere>>

\* onCancel, when nothing filters.
CloseList ==
    /\ flow = "list"
    /\ list.shown = list.rows
    /\ flow' = "closed"
    /\ list' = NoList
    /\ UNCHANGED <<host, objects, killing, pane, hearing, running, elsewhere>>

\* The keys, the wheel and a press move the cursor over what is shown.
MoveCursor ==
    /\ flow = "list"
    /\ \E s \in ToSet(list.shown) : list' = [list EXCEPT !.cursor = s]
    /\ UNCHANGED <<host, objects, flow, killing, pane, hearing, running, elsewhere>>

\* Mutant of Filtered: the list is built again and the cursor goes to its top.
FilteredFromTop(F) ==
    LET shown == Among(list.rows, F)
    IN [list EXCEPT !.shown = shown, !.cursor = FirstOf(shown)]

\* applyFilter, when the rows that match are F.
Filtered(F) ==
    LET shown == Among(list.rows, F)
    IN [list EXCEPT !.shown = shown, !.cursor = IF @ \in F THEN @ ELSE FirstOf(shown)]

\* A printable key narrows what is shown; backspace widens it, and esc shows every row again.  Neither this nor Ask
\* reads or writes what a command in flight does: they are taken with none in flight.
Filter ==
    /\ flow = "list" /\ running = {}
    /\ \E F \in SUBSET ToSet(list.rows) :
          /\ F \subseteq ToSet(list.shown) \/ ToSet(list.shown) \subseteq F
          /\ list' = Filtered(F)
    /\ UNCHANGED <<host, objects, flow, killing, pane, hearing, running, elsewhere>>

\* ctrl-d asks once, and not about the host's own row.  One kill at a time is a bound of the model.
Ask ==
    /\ flow = "list"
    /\ list.cursor \notin {Host, NoOne}
    /\ running = {} /\ killing = {}
    /\ flow' = "asking"
    /\ list' = [list EXCEPT !.asked = list.cursor]
    /\ UNCHANGED <<host, objects, killing, pane, hearing, running, elsewhere>>

KeepIt ==
    /\ flow = "asking"
    /\ flow' = "list"
    /\ list' = [list EXCEPT !.asked = NoOne]
    /\ UNCHANGED <<host, objects, killing, pane, hearing, running, elsewhere>>

\* The row goes at once and the list is built again; onKill runs on beside it.
ConfirmKill ==
    LET left == Among(list.rows, ToSet(list.rows) \ {list.asked})
        shown == Among(list.shown, ToSet(list.shown) \ {list.asked})
    IN /\ flow = "asking"
       /\ flow' = "list"
       /\ list' = [rows |-> left, shown |-> shown, cursor |-> FirstOf(shown), asked |-> NoOne]
       /\ killing' = killing \cup {list.asked}
       /\ UNCHANGED <<host, objects, pane, hearing, running, elsewhere>>

-----------------------------------------------------------------------------
\* The supervisor's map, and the agent sessions in it.

\* A stopped agent session says nothing more.
Stopped(o) == [objects EXCEPT ![o].phase = "gone"]

Leaves(s) ==
    /\ live' = [live EXCEPT ![s] = 0]
    /\ order' = Among(order, Sessions \ {s})
    /\ parent' = [parent EXCEPT ![s] = NoOne]
    /\ objects' = Stopped(live[s])

Enters(s, p) ==
    /\ Len(objects) < MaxObjects
    /\ live[s] = 0
    /\ live' = [live EXCEPT ![s] = Len(objects) + 1]
    /\ order' = Append(order, s)
    /\ parent' = [parent EXCEPT ![s] = p]
    /\ objects' = Append(objects, Fresh)

\* onKill's despawn ends.  When it fails only the list's feedback says so.
DespawnEnds(s) ==
    /\ s \in killing
    /\ killing' = killing \ {s}
    /\ \/ live[s] # 0 /\ Leaves(s)
       \/ UNCHANGED <<host, objects>>
    /\ UNCHANGED <<flow, list, pane, hearing, running, elsewhere>>

ByOthers ==
    /\ elsewhere < MaxElsewhere
    /\ elsewhere' = elsewhere + 1
    /\ UNCHANGED <<flow, list, killing>>

\* A session spawned or resumed, as a subagent or not, or ended, by someone else.  Its parent may have gone, and the id
\* of a session that ended may be taken again under any other parent.
SpawnElsewhere(s, p) ==
    /\ ByOthers
    /\ p # s
    /\ Enters(s, p)
    /\ UNCHANGED <<pane, hearing, running>>

DespawnElsewhere(s) ==
    /\ ByOthers
    /\ live[s] # 0
    /\ Leaves(s)
    /\ UNCHANGED <<pane, hearing, running>>

\* session_new, or a reload: the slot gets another agent session.
Replaced(s) ==
    /\ Len(objects) < MaxObjects
    /\ live' = [live EXCEPT ![s] = Len(objects) + 1]
    /\ objects' = Append(Stopped(live[s]), Fresh)
    /\ UNCHANGED <<order, parent>>

ReplaceElsewhere(s) ==
    /\ ByOthers
    /\ live[s] # 0
    /\ Replaced(s)
    /\ UNCHANGED <<pane, hearing, running>>

\* How often the messages of a session were rewritten.
Rewrites == FoldLeft(LAMBDA n, o : n + o.epoch, 0, objects)

Rewriting(a, msgs, foreign) == [a EXCEPT !.msgs = msgs, !.epoch = @ + 1, !.others = @ \/ foreign]

\* A compaction leaves a summary, a rewind a prefix.  Nobody who listens to the session hears of either.
Rewritten(s, foreign) ==
    LET o == live[s]
    IN /\ objects[o].phase = "idle"
       /\ Rewrites < MaxRewrites
       /\ objects[o].msgs # <<>>
       /\ \E msgs \in {<<Plain("user")>>, SubSeq(objects[o].msgs, 1, Len(objects[o].msgs) - 1)} :
             objects' = [objects EXCEPT ![o] = Rewriting(@, msgs, foreign)]
       /\ UNCHANGED host

RewriteElsewhere(s) ==
    /\ ByOthers
    /\ live[s] # 0
    /\ Rewritten(s, TRUE)
    /\ UNCHANGED <<pane, hearing, running>>

-----------------------------------------------------------------------------
\* A run of an agent session, and what a pane that listens draws of it (onEvent).

Said == FoldLeft(LAMBDA n, o : n + Len(o.msgs), 0, objects)

Newest(o) == Len(objects[o].msgs)

\* The list reads no messages, so a step of a run is taken while it is not open: before or after would be the same.
\* Object o's messages and phase become these; a pane that listens to it draws this.
Says(o, msgs, phase, drawn) ==
    /\ flow \in {"closed", "pane"}
    /\ objects' = [objects EXCEPT ![o] = [@ EXCEPT !.msgs = msgs, !.phase = phase]]
    /\ pane' = IF flow = "pane" /\ <<pane.n, o>> \in subs THEN [pane EXCEPT !.drawn = drawn] ELSE pane
    /\ UNCHANGED <<host, people, hearing, running>>

UserSays(o) ==
    LET i == Newest(o) + 1
    IN /\ objects[o].phase \in {"idle", "between"}
       /\ Said < MaxMessages
       /\ Says(o, Append(objects[o].msgs, Plain("user")), "between", OnMessageStart(pane.drawn, i, Plain("user")))

AssistantStarts(o) ==
    LET i == Newest(o) + 1
    IN /\ objects[o].phase = "between"
       /\ Said < MaxMessages
       /\ Says(o, Append(objects[o].msgs, Plain("assistant")), "writing", OnMessageStart(pane.drawn, i, Plain("assistant")))

\* message_update: more text, or a tool call.
AssistantUpdates(o) ==
    LET i == Newest(o)
    IN /\ objects[o].phase = "writing"
       /\ \E m \in {objects[o].msgs[i], [objects[o].msgs[i] EXCEPT !.tool = "called"]} :
             Says(o, [objects[o].msgs EXCEPT ![i] = m], "writing", OnMessageUpdate(pane.drawn, i, m))

AssistantEnds(o, failed) ==
    LET i == Newest(o)
        m == objects[o].msgs[i]
        called == m.tool = "called"
    IN /\ objects[o].phase = "writing"
       /\ Says(o, [objects[o].msgs EXCEPT ![i] = [m EXCEPT !.live = FALSE, !.tool = IF called /\ failed THEN "cut" ELSE @]],
               IF called /\ ~failed THEN "calling" ELSE "ending", OnMessageEnd(pane.drawn, failed))

ToolStarts(o) ==
    /\ objects[o].phase = "calling"
    /\ Says(o, objects[o].msgs, "executing", OnToolStart(pane.drawn, Newest(o)))

ToolEnds(o) ==
    /\ objects[o].phase = "executing"
    /\ Says(o, [objects[o].msgs EXCEPT ![Newest(o)].tool = "done"], "between", OnToolResult(pane.drawn, Newest(o)))

\* agent_end.
AgentEnds(o) ==
    /\ objects[o].phase \in {"between", "ending"}
    /\ Says(o, objects[o].msgs, "idle", Finish(pane.drawn))

-----------------------------------------------------------------------------
\* The pane.

\* The view of agent session o under id s, as it is built.
PaneOpens(s, o, built) ==
    /\ pane.n < MaxPanes
    /\ flow' = "pane"
    /\ list' = NoList
    /\ pane' = [NoPane EXCEPT !.n = pane.n + 1, !.id = s, !.first = o, !.shows = o,
                              !.drawn = Rebuilt(built[o].msgs), !.epoch = built[o].epoch]
    /\ subs' = subs \cup {<<pane.n + 1, o>>}
    /\ bus' = bus \cup {pane.n + 1}

\* Enter, or a click, on a session's row.  The host's own row cannot be opened.
OpenSelected ==
    /\ flow = "list"
    /\ list.cursor \notin {Host, NoOne}
    /\ live[list.cursor] # 0
    /\ PaneOpens(list.cursor, live[list.cursor], objects)
    /\ UNCHANGED <<host, objects, killing, running, elsewhere>>

\* The same, when the session has gone since the list was read: the flow ends.
OpenGone ==
    /\ flow = "list"
    /\ list.cursor \notin {Host, NoOne}
    /\ live[list.cursor] = 0
    /\ flow' = "closed"
    /\ list' = NoList
    /\ UNCHANGED <<host, objects, killing, pane, hearing, running, elsewhere>>

\* ctrl-n closes the list and asks for a directory.
AskDirectory ==
    /\ flow = "list"
    /\ flow' = "directory"
    /\ list' = NoList
    /\ UNCHANGED <<host, objects, killing, pane, hearing, running, elsewhere>>

DirectoryChosen(s) ==
    /\ flow = "directory"
    /\ Enters(s, NoOne)
    /\ PaneOpens(s, Len(objects) + 1, objects')
    /\ UNCHANGED <<killing, running, elsewhere>>

\* No directory, or the spawn failed: back to the list.
DirectoryRefused ==
    /\ flow = "directory"
    /\ ListOpens
    /\ UNCHANGED <<host, objects, killing, pane, hearing, running, elsewhere>>

\* dispose.
Disposes ==
    /\ subs' = subs \ {<<pane.n, pane.shows>>}
    /\ bus' = bus \ {pane.n}
    /\ pane' = [NoPane EXCEPT !.n = pane.n]

\* Left goes back to the list, esc closes the flow.
Leave ==
    /\ flow = "pane"
    /\ pane.mode = "transcript"
    /\ Disposes
    /\ \/ ListOpens
       \/ flow' = "closed" /\ list' = list
    /\ UNCHANGED <<host, objects, killing, running, elsewhere>>

\* sessionOf: what is in the slot, or what was there when the pane was opened.
SessionOf == IF live[pane.id] # 0 THEN live[pane.id] ELSE pane.first

Refreshed(p) == [p EXCEPT !.drawn = Rebuilt(objects[p.shows].msgs), !.epoch = objects[p.shows].epoch]

\* Mutant of AdoptSession: the old session keeps its listener.
AdoptSessionTwice ==
    IF SessionOf = pane.shows THEN [pane |-> pane, subs |-> subs]
    ELSE [pane |-> Refreshed([pane EXCEPT !.shows = SessionOf]), subs |-> subs \cup {<<pane.n, SessionOf>>}]

AdoptSession ==
    IF SessionOf = pane.shows THEN [pane |-> pane, subs |-> subs]
    ELSE [pane |-> Refreshed([pane EXCEPT !.shows = SessionOf]),
          subs |-> (subs \ {<<pane.n, pane.shows>>}) \cup {<<pane.n, SessionOf>>}]

Render ==
    /\ flow = "pane"
    /\ pane' = AdoptSession.pane
    /\ subs' = AdoptSession.subs
    /\ UNCHANGED <<host, objects, people, bus, running>>

\* sendText goes to whatever is in the slot, and says so when nothing is.
SendText ==
    /\ flow = "pane"
    /\ pane.mode = "transcript"
    /\ pane' = [pane EXCEPT !.notice = 0]
    /\ UNCHANGED <<host, objects, people, hearing, running>>

\* /help, /tree, /model and /thinking open a mode of their own, or say why they cannot.
OpenMode ==
    /\ flow = "pane"
    /\ pane.mode = "transcript"
    /\ \/ pane' = [pane EXCEPT !.mode = "choosing"]
       \/ pane' = [pane EXCEPT !.notice = 0]
    /\ UNCHANGED <<host, objects, people, hearing, running>>

CloseMode ==
    /\ flow = "pane"
    /\ pane.mode = "choosing"
    /\ pane' = [pane EXCEPT !.mode = "transcript"]
    /\ UNCHANGED <<host, objects, people, hearing, running>>

\* dispatch starts.
Dispatched(kind) ==
    /\ Cardinality(running) < MaxCommands
    /\ running' = running \cup {[pane |-> pane.n, id |-> pane.id, kind |-> kind, before |-> pane.notices, result |-> "sent"]}
    /\ UNCHANGED <<host, objects, people, hearing>>

\* A command typed in the prompt.
RunCommand(kind) ==
    /\ flow = "pane"
    /\ pane.mode = "transcript"
    /\ pane' = pane
    /\ Dispatched(kind)

\* What a selector chose: where to go back to in the tree, a model, a thinking level.
Choose(kind) ==
    /\ flow = "pane"
    /\ pane.mode = "choosing"
    /\ kind # "refresh"
    /\ pane' = [pane EXCEPT !.mode = "transcript"]
    /\ Dispatched(kind)

Become(c, result) == running' = (running \ {c}) \cup {[c EXCEPT !.result = result]}

\* The session is gone: the dispatcher says so.
CommandRefused(c) ==
    /\ c.result = "sent"
    /\ live[c.id] = 0
    /\ Become(c, "refused")
    /\ UNCHANGED <<host, objects, people, pane, hearing>>

CommandDone(c) ==
    /\ c.result = "sent"
    /\ live[c.id] # 0
    /\ \/ c.kind = "anew" /\ Replaced(c.id)
       \/ c.kind # "plain" /\ Rewritten(c.id, ~(flow = "pane" /\ c.pane = pane.n))
       \/ c.kind # "anew" /\ UNCHANGED <<host, objects>>
    /\ Become(c, "taken")
    /\ UNCHANGED <<people, pane, hearing>>

\* showNotice, for each pane that listens and shows session s.
Noticed(s) ==
    IF flow = "pane" /\ pane.n \in bus /\ pane.id = s
    THEN [pane EXCEPT !.notices = @ + 1, !.notice = pane.notices + 1]
    ELSE pane

\* The command fails: the dispatcher broadcasts an error and still answers that it took the command.
\* A new session that cannot be built leaves the stopped one in its slot.
CommandFails(c) ==
    /\ c.result = "sent"
    /\ live[c.id] # 0
    /\ pane.notices < MaxRewrites
    /\ objects' \in {objects} \cup (IF c.kind = "anew" THEN {Stopped(live[c.id])} ELSE {})
    /\ pane' = Noticed(c.id)
    /\ Become(c, "taken")
    /\ UNCHANGED <<host, people, hearing>>

\* Mutant of NoticeAfter: a command that was taken leaves no feedback.
NoticeAfterAlways(c) == 0

\* The end of dispatch: a failure takes the notice's place, success clears it unless it came while the command ran.
NoticeAfter(c) == IF c.result = "refused" \/ pane.notices = c.before THEN 0 ELSE pane.notice

\* The command returns to the pane that ran it: the feedback, and for some commands the session and its messages.
\* A pane that was disposed is not touched.
CommandReturns(c) ==
    LET now == IF c.kind = "anew" THEN AdoptSession ELSE [pane |-> pane, subs |-> subs]
        drawn == IF c.kind = "plain" THEN now.pane ELSE Refreshed(now.pane)
    IN /\ c.result # "sent"
       /\ running' = running \ {c}
       /\ \/ /\ flow = "pane" /\ c.pane = pane.n
             /\ pane' = [drawn EXCEPT !.notice = NoticeAfter(c)]
             /\ subs' = now.subs
          \/ /\ ~(flow = "pane" /\ c.pane = pane.n)
             /\ UNCHANGED <<pane, subs>>
       /\ UNCHANGED <<host, objects, people, bus>>

\* Somebody else's command on the session fails, or the session says something.
NoticeElsewhere(s) ==
    /\ ByOthers
    /\ flow = "pane"
    /\ pane.notices < MaxRewrites
    /\ pane' = Noticed(s)
    /\ UNCHANGED <<host, objects, hearing, running>>

-----------------------------------------------------------------------------
ViewsNext ==
    \/ OpenFlow \/ CloseList \/ MoveCursor \/ Filter \/ Ask \/ KeepIt \/ ConfirmKill
    \/ OpenSelected \/ OpenGone \/ AskDirectory \/ DirectoryRefused \/ Leave
    \/ Render \/ SendText \/ OpenMode \/ CloseMode
    \/ \E s \in Sessions :
          \/ DirectoryChosen(s) \/ DespawnEnds(s) \/ DespawnElsewhere(s) \/ ReplaceElsewhere(s)
          \/ RewriteElsewhere(s) \/ NoticeElsewhere(s)
          \/ \E p \in Sessions \cup {Host, NoOne} : SpawnElsewhere(s, p)
    \/ \E o \in 1..Len(objects) :
          \/ UserSays(o) \/ AssistantStarts(o) \/ AssistantUpdates(o) \/ ToolStarts(o) \/ ToolEnds(o) \/ AgentEnds(o)
          \/ \E failed \in BOOLEAN : AssistantEnds(o, failed)
    \/ \E kind \in Kinds : RunCommand(kind) \/ Choose(kind)
    \/ \E c \in running : CommandRefused(c) \/ CommandDone(c) \/ CommandFails(c) \/ CommandReturns(c)

ViewsSpec == ViewsInit /\ [][ViewsNext]_viewVars

-----------------------------------------------------------------------------
ViewsTypeOK ==
    /\ live \in [Sessions -> 0..MaxObjects]
    /\ parent \in [Sessions -> Sessions \cup {Host, NoOne}]
    /\ ToSet(order) = {s \in Sessions : live[s] # 0}
    /\ \A o \in 1..Len(objects) : ToSet(objects[o].msgs) \subseteq Message
    /\ flow \in {"closed", "list", "asking", "directory", "pane"}
    /\ killing \subseteq Sessions
    /\ pane.mode \in {"transcript", "choosing"}
    /\ \A c \in running : c.kind \in Kinds

\* The open pane listens once, to the session it shows, and nobody listens after a pane was disposed:
\* dispose, and adoptSession from a render or from a command that returns late.
PaneListens ==
    IF flow = "pane" THEN subs = {<<pane.n, pane.shows>>} /\ bus = {pane.n} ELSE subs = {} /\ bus = {}

\* What the pane drew out of events is what it would draw out of the session's messages, until the messages are
\* rewritten; and after a rewrite by the pane's own command it draws them again.  The exception is the result of a call
\* that an abort or an error cut off: the end of the message writes why into each open call, and a rebuild does not,
\* so for these calls only that they are drawn, and where, is claimed (see EventsAndRebuildAgree).
PaneIsItsSession ==
    LET o == objects[pane.shows]
        cut == {i \in DOMAIN o.msgs : o.msgs[i].tool = "cut"}
        right == Rebuilt(o.msgs)
    IN flow = "pane" =>
          IF pane.epoch = o.epoch
          THEN Order(pane.drawn) = Order(right) /\ Results(pane.drawn) \ cut = Results(right)
          ELSE o.others \/ \E c \in running : c.pane = pane.n

\* What is shown is rows of the list, in its order, and the cursor is on one of them.
CursorIsShown ==
    flow \in {"list", "asking"} =>
        /\ ToSet(list.shown) \subseteq ToSet(list.rows)
        /\ IF list.shown = <<>> THEN list.cursor = NoOne ELSE list.cursor \in ToSet(list.shown)

\* The views agree with the sessions they show, and listen to them and to nothing else.
ViewsAreSound == ViewsTypeOK /\ PaneListens /\ PaneIsItsSession /\ CursorIsShown

\* A notice leaves the pane when text is sent, or when a command returns that was given after it was shown: never
\* when the command that failed with it returns (dispatch, and the dispatcher's broadcast).
NoticeStays ==
    [][(flow = "pane" /\ flow' = "pane" /\ pane.notice # 0 /\ pane'.notice = 0) =>
          \/ running' = running
          \/ \E c \in running \ running' : c.result = "refused" \/ c.before >= pane.notice]_viewVars

\* Row s runs, at any depth, under row p.
Under(s, p) ==
    \A S \in SUBSET Sessions : (\A c \in Sessions : parent[c] \in S \cup {p} => c \in S) => s \in S

\* The rows that are a root or run, at any depth, under one: those that are not in, or under, a cycle of parents.
Rooted(rows) ==
    {s \in ToSet(rows) :
        \A S \in SUBSET ToSet(rows) : (\A r \in ToSet(rows) : (IsRoot(r, rows) \/ parent[r] \in S) => r \in S) => s \in S}

\* The list that opens has the host and every live session once; a subagent's row is below its parent's, with only
\* rows of that parent's subagents between (orderSessionsByParent).
IsTree(rows) ==
    /\ IsInjective(rows)
    /\ ToSet(rows) = {Host} \cup ToSet(order)
    /\ \A c, p \in DOMAIN rows :
          (rows[c] # Host /\ parent[rows[c]] = rows[p] /\ rows[c] \in Rooted(rows)) =>
              (p < c /\ \A k \in p + 1..c : Under(rows[k], rows[p]))

\* The list shows every session in its place.  Typing and deleting in the filter leave the cursor on its session while
\* that is shown, and what is killed or opened is the session asked about or under the cursor, never the host's own.
ListActsOnItsRow ==
    [][/\ (flow' = "list" /\ flow \notin {"list", "asking"}) => IsTree(list'.rows)
       /\ (flow = "list" /\ flow' = "list" /\ list.shown # list'.shown /\ list.cursor \in ToSet(list'.shown)) =>
             list'.cursor = list.cursor
       /\ \A s \in killing' \ killing : s = list.asked /\ s # Host
       /\ (flow = "list" /\ flow' = "pane") => pane'.id = list.cursor]_viewVars

-----------------------------------------------------------------------------
\* What the code's own comments say of it, and it does not do: TLC refutes it (the README names the instance).

\* "One renderer, so a session viewed from here and the same session viewed in its own terminal cannot disagree"
\* (session-transcript.ts:18): a pane that was open when a call was cut off shows why ("Operation aborted",
\* onMessageEnd), one opened later shows the call without a result (append).
EventsAndRebuildAgree ==
    LET o == objects[pane.shows]
    IN (flow = "pane" /\ pane.epoch = o.epoch) => Results(pane.drawn) = Results(Rebuilt(o.msgs))
=============================================================================
