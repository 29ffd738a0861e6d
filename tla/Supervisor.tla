----------------------------- MODULE Supervisor -----------------------------
(***************************************************************************)
(* Hosting agent sessions (server/src/supervisor.ts, session-lifecycle.ts, *)
(* session-persistence.ts and the bootstrap and teardown of index.ts).     *)
(*                                                                         *)
(* A runtime is one load of the extension: a supervisor with its own map   *)
(* of live sessions and its own copy of the registry.  A reload tears the  *)
(* runtime down and loads the next one into the same process, so the       *)
(* promises of the old one go on; the sessions themselves are parked and   *)
(* adopted without being stopped.  A crash ends the process, and leaves    *)
(* the registry file.                                                      *)
(*                                                                         *)
(* Every operation that stops or creates an agent awaits in the middle; a  *)
(* step here runs from one await to the next, so that operations on one    *)
(* session, and a reload in the middle of them, interleave as in the code. *)
(***************************************************************************)
EXTENDS Integers, FiniteSets

CONSTANTS
    Sessions,       \* session ids
    None,
    MaxRuntimes,    \* bound: loads of the extension
    MaxAgents,      \* bound: agents ever created
    MaxOps,         \* bound: operations in flight at once
    Scopes          \* bound: which sessions, agents and events a behaviour has

ASSUME NoneIsNoSession == None \notin Sessions
ASSUME RuntimeBound == MaxRuntimes \in Nat \ {0}
ASSUME AgentBound   == MaxAgents \in Nat \ {0}
ASSUME OpBound      == MaxOps \in Nat \ {0}
ASSUME ScopeBound == Scopes \subseteq
    [sessions : SUBSET Sessions, agents : 1 .. MaxAgents,
     events : SUBSET {"spawn", "resume", "despawn", "clear", "model", "overlap",
                      "failure", "refusal", "reload", "busy reload", "deadline", "stall", "crash"}]

Runtime == 1 .. MaxRuntimes
Agent   == 1 .. MaxAgents
Op      == 1 .. MaxOps

\* A transcript is named after the agent it was begun by; a session that is in
\* the registry from before has one of its own.
ASSUME TranscriptsApart == Sessions \cap Agent = {} /\ None \notin Agent \cup Runtime
Transcript == Agent \cup Sessions

VARIABLES
    agent,      \* every AgentSession, as pi knows it
    nextAgent,
    object,     \* every LiveSession, named after the first agent it holds
    rt,         \* each runtime: its bootstrap and whether it was torn down
    live,       \* each supervisor's map: session id -> LiveSession
    rows,       \* each runtime's copy of the registry
    disk,       \* the registry file
    stash,      \* RELOAD_STASH: the parked sessions
    dying,      \* parked sessions whose adoption deadline passed
    op,         \* operations in flight
    cut,        \* history: sessions whose agent was asked to work, or was being
                \* stopped, when the process or the adoption deadline ended
    scope       \* bound: the scope of this behaviour; it never changes

vars == <<agent, nextAgent, object, rt, live, rows, disk, stash, dying, op, cut, scope>>

Phases == {"unstarted", "identity", "restoring", "stalled", "serving", "dead"}
Kinds  == {"free", "spawn", "resume", "restore", "despawn", "delete", "clear", "model"}

AgentRecord == [state : {"unused", "alive", "disposed"},
                file : Transcript \cup {None}, running : BOOLEAN,
                prompt : {"none", "preparing", "refused"},  \* the last prompt it got idle
                sid : Sessions \cup {None}, of : Agent \cup {None},
                heardBy : SUBSET Runtime]
ObjectRecord == [agent : Agent \cup {None}, working : BOOLEAN,
                 submits : BOOLEAN,                  \* submitter # null
                 unsub : Runtime \cup {None}]        \* whose handler unsub removes
RuntimeRecord == [phase : Phases, torn : BOOLEAN, restore : SUBSET Sessions]
OpRecord == [kind : Kinds, at : {"create", "settle", "stop"}, rt : Runtime,
             sid : Sessions \cup {None}, obj : Agent \cup {None},
             file : Transcript \cup {None}, held : BOOLEAN, nudge : BOOLEAN]
Row   == [status : {"none", "idle", "running", "closed"}, file : Transcript \cup {None}]
Stash == [by : Runtime \cup {None}, of : [Sessions -> Agent \cup {None}]]

NoAgent  == [state |-> "unused", file |-> None, running |-> FALSE, prompt |-> "none",
             sid |-> None, of |-> None, heardBy |-> {}]
NoObject == [agent |-> None, working |-> FALSE, submits |-> FALSE, unsub |-> None]
NoRow    == [status |-> "none", file |-> None]
NoOp     == [kind |-> "free", at |-> "create", rt |-> 1, sid |-> None, obj |-> None,
             file |-> None, held |-> FALSE, nudge |-> FALSE]
Nobody   == [s \in Sessions |-> None]
NoStash  == [by |-> None, of |-> Nobody]

TypeOK ==
    /\ agent \in [Agent -> AgentRecord]
    /\ nextAgent \in 1 .. (MaxAgents + 1)
    /\ object \in [Agent -> ObjectRecord]
    /\ rt \in [Runtime -> RuntimeRecord]
    /\ live \in [Runtime -> [Sessions -> Agent \cup {None}]]
    /\ rows \in [Runtime -> [Sessions -> Row]]
    /\ disk \in [Sessions -> Row]
    /\ stash \in Stash
    /\ dying \in Stash
    /\ op \in [Op -> OpRecord]
    /\ cut \in SUBSET Sessions
    /\ scope \in Scopes

Init ==
    /\ agent = [a \in Agent |-> NoAgent]
    /\ nextAgent = 1
    /\ object = [a \in Agent |-> NoObject]
    /\ rt = [r \in Runtime |-> [phase |-> "unstarted", torn |-> FALSE, restore |-> {}]]
    /\ live = [r \in Runtime |-> Nobody]
    /\ rows = [r \in Runtime |-> [s \in Sessions |-> NoRow]]
    /\ scope \in Scopes
    /\ \E had \in {{}, scope.sessions} :
          disk = [s \in Sessions |-> IF s \in had THEN [status |-> "idle", file |-> s] ELSE NoRow]
    /\ stash = NoStash
    /\ dying = NoStash
    /\ op = [i \in Op |-> NoOp]
    /\ cut = {}

-----------------------------------------------------------------------------
(* The registry, and an agent's subscribers.                               *)

Current(r) == rt[r].phase # "unstarted" /\ ~rt[r].torn
Serving(r) == rt[r].phase = "serving" /\ ~rt[r].torn
Alive(a)   == a # None /\ agent[a].state = "alive"
Held(r, s) == \E i \in Op : op[i].kind # "free" /\ op[i].held /\ op[i].rt = r /\ op[i].sid = s
Busy(r)    == \E i \in Op : op[i].kind # "free" /\ op[i].rt = r
NoOverlap(r, s) ==
    "overlap" \in scope.events \/ \A i \in Op : op[i].kind = "free" \/ op[i].rt # r \/ op[i].sid # s

\* A save writes the runtime's whole copy over the file.
Save(r, s, row) ==
    /\ rows' = [rows EXCEPT ![r][s] = row]
    /\ disk' = [rows[r] EXCEPT ![s] = row]

\* What persistRow writes about a session: the live one's transcript, and null
\* when this supervisor's map holds none (any more).
RowOf(r, s, status) ==
    [status |-> status,
     file   |-> IF live[r][s] = None THEN None ELSE agent[object[live[r][s]].agent].file]

StatusOf(r, s) ==
    IF live[r][s] # None /\ object[live[r][s]].working THEN "running" ELSE "idle"

\* Subscriptions: an object's unsub removes its own handler from its agent.
Unheard(o, agents) ==
    IF object[o].unsub = None THEN agents
    ELSE [agents EXCEPT ![object[o].agent].heardBy = @ \ {object[o].unsub}]
Heard(a, r, agents) == [agents EXCEPT ![a].heardBy = @ \cup {r}]
Disposed(a, agents) ==
    [agents EXCEPT ![a].state = "disposed", ![a].running = FALSE, ![a].prompt = "none",
                   ![a].heardBy = {}]
Wired(o, r) == [object EXCEPT ![o].submits = TRUE, ![o].unsub = r]

Born(file, s, o) == [state |-> "alive", file |-> file, running |-> FALSE, prompt |-> "none",
                     sid |-> s, of |-> o, heardBy |-> {}]

\* session.prompt: an idle agent prepares before it runs, and a running one is
\* steered.
Prompted(u) == IF u.running THEN u ELSE [u EXCEPT !.prompt = "preparing"]

\* It runs, or is asked to, or was asked in vain.
Asked(a) == agent[a].running \/ agent[a].prompt # "none"

\* A new operation takes the first free place: the places are all the same.
Begins(rec) ==
    \E i \in Op :
        /\ op[i].kind = "free"
        /\ \A j \in 1 .. (i - 1) : op[j].kind # "free"
        /\ op' = [op EXCEPT ![i] = rec]
Ends(i) == op' = [op EXCEPT ![i] = NoOp]

-----------------------------------------------------------------------------
(* A runtime's life: bootstrap, teardown, and the end of the process.      *)

\* session_start: the next runtime begins to bootstrap, and awaits the owner's
\* identity.  The one before it has been told to shut down.
Start(r) ==
    /\ rt[r].phase = "unstarted"
    /\ \A q \in 1 .. (r - 1) : rt[q].phase # "unstarted" /\ rt[q].torn
    /\ rt' = [rt EXCEPT ![r].phase = "identity"]
    /\ UNCHANGED <<scope, agent, nextAgent, object, live, rows, disk, stash, dying, op, cut>>

\* Mutant: closed rows are restored too.
RestorableEvenClosed(row) == row.status # "none" /\ row.file # None

\* The rows a bootstrap restores.
Restorable(row) == row.status \notin {"none", "closed"} /\ row.file # None

Adopted(s) == stash.of[s] # None
IsAdopted(o) == \E s \in Sessions : stash.of[s] = o

TakeStash == stash' = NoStash

\* Mutant: the previous instance's handler stays attached.
BothHear(r, a) == [agent[a] EXCEPT !.heardBy = @ \cup {r}]

\* The previous instance's handler is replaced by this one's.
Rewired(r, a) == [agent[a] EXCEPT !.heardBy = (@ \ {object[agent[a].of].unsub}) \cup {r}]

\* The identity is known: the registry is loaded, the parked sessions are
\* adopted, and the rest of the rows are to be restored.  Nothing here asks
\* whether this runtime was torn down while it waited.
Adopt(r) ==
    LET adoptedRow(s) ==
            LET a == object[stash.of[s]].agent
            IN  [status |-> IF agent[a].running THEN "running" ELSE "idle",
                 file |-> agent[a].file]
        loaded == [s \in Sessions |-> IF Adopted(s) THEN adoptedRow(s) ELSE disk[s]]
    IN  /\ rt[r].phase = "identity"
        /\ rt' = [rt EXCEPT ![r].phase = "restoring",
                            ![r].restore = {s \in Sessions : Restorable(loaded[s])}]
        /\ agent' = [a \in Agent |-> IF Alive(a) /\ IsAdopted(agent[a].of)
                                     THEN Rewired(r, a) ELSE agent[a]]
        /\ object' = [o \in Agent |->
                        IF IsAdopted(o)
                        THEN [object[o] EXCEPT !.working = agent[object[o].agent].running,
                                               !.submits = TRUE, !.unsub = r]
                        ELSE object[o]]
        /\ live' = [live EXCEPT ![r] = stash.of]
        /\ rows' = [rows EXCEPT ![r] = loaded]
        /\ disk' = loaded
        /\ TakeStash
        /\ UNCHANGED <<scope, nextAgent, dying, op, cut>>

\* Mutant: a session that was adopted is opened again.
RestoreEvenLive(r) ==
    /\ rt[r].phase \in {"restoring", "stalled"}
    /\ \A i \in Op : ~(op[i].kind = "restore" /\ op[i].rt = r)
    /\ \E s \in rt[r].restore :
          /\ rt' = [rt EXCEPT ![r].restore = @ \ {s}]
          /\ Begins([NoOp EXCEPT !.kind = "restore", !.rt = r, !.sid = s,
                                 !.file = rows[r][s].file,
                                 !.nudge = rows[r][s].status = "running"])
    /\ UNCHANGED <<scope, agent, nextAgent, object, live, rows, disk, stash, dying, cut>>

\* Mutant: a session that was adopted is waited for.
RestoreStuck(r) ==
    /\ rt[r].phase \in {"restoring", "stalled"}
    /\ \A i \in Op : ~(op[i].kind = "restore" /\ op[i].rt = r)
    /\ \E s \in rt[r].restore :
          /\ live[r][s] = None
          /\ rt' = [rt EXCEPT ![r].restore = @ \ {s}]
          /\ Begins([NoOp EXCEPT !.kind = "restore", !.rt = r, !.sid = s,
                                 !.file = rows[r][s].file,
                                 !.nudge = rows[r][s].status = "running"])
    /\ UNCHANGED <<scope, agent, nextAgent, object, live, rows, disk, stash, dying, cut>>

\* restorePersisted takes the rows one after the other, and passes over a
\* session that is live by now.
RestoreNext(r) ==
    /\ rt[r].phase \in {"restoring", "stalled"}
    /\ \A i \in Op : ~(op[i].kind = "restore" /\ op[i].rt = r)
    /\ \E s \in rt[r].restore :
          /\ rt' = [rt EXCEPT ![r].restore = @ \ {s}]
          /\ IF live[r][s] = None
             THEN Begins([NoOp EXCEPT !.kind = "restore", !.rt = r, !.sid = s,
                                      !.file = rows[r][s].file,
                                      !.nudge = rows[r][s].status = "running"])
             ELSE UNCHANGED op
    /\ UNCHANGED <<scope, agent, nextAgent, object, live, rows, disk, stash, dying, cut>>

\* Only then is the server started, and commands arrive.
RestoreEnds(r) ==
    /\ rt[r].phase = "restoring"
    /\ rt[r].restore = {}
    /\ \A i \in Op : ~(op[i].kind = "restore" /\ op[i].rt = r)
    /\ rt' = [rt EXCEPT ![r].phase = "serving"]
    /\ UNCHANGED <<scope, agent, nextAgent, object, live, rows, disk, stash, dying, op, cut>>

\* The restore took longer than BOOTSTRAP_DEADLINE_MS: the bootstrap fails, no
\* server starts, and the restore goes on.
BootstrapStalls(r) ==
    /\ "stall" \in scope.events
    /\ rt[r].phase = "restoring"
    /\ rt' = [rt EXCEPT ![r].phase = "stalled"]
    /\ UNCHANGED <<scope, agent, nextAgent, object, live, rows, disk, stash, dying, op, cut>>

\* Mutant: the parked sessions stay in the map too.
TeardownUncleared(r) ==
    /\ "reload" \in scope.events
    /\ Current(r)
    /\ r < MaxRuntimes
    /\ Busy(r) => "busy reload" \in scope.events
    /\ rt[r].phase = "identity" => "stall" \in scope.events
    /\ rt' = [rt EXCEPT ![r].torn = TRUE, ![r].restore = {},
                        ![r].phase = IF @ = "identity" THEN @ ELSE "dead"]
    /\ object' = [o \in Agent |-> IF \E s \in Sessions : live[r][s] = o
                                  THEN [object[o] EXCEPT !.submits = FALSE]
                                  ELSE object[o]]
    /\ stash' = IF live[r] = Nobody THEN stash ELSE [by |-> r, of |-> live[r]]
    /\ UNCHANGED <<scope, agent, nextAgent, live, rows, disk, dying, op, cut>>

\* session_shutdown for a reload: the live sessions are parked as they are.
\* A bootstrap that still awaits the identity is not told.
Teardown(r) ==
    /\ "reload" \in scope.events
    /\ Current(r)
    /\ r < MaxRuntimes
    /\ Busy(r) => "busy reload" \in scope.events
    /\ rt[r].phase = "identity" => "stall" \in scope.events
    /\ rt' = [rt EXCEPT ![r].torn = TRUE, ![r].restore = {},
                        ![r].phase = IF @ = "identity" THEN @ ELSE "dead"]
    /\ live' = [live EXCEPT ![r] = Nobody]
    /\ object' = [o \in Agent |-> IF \E s \in Sessions : live[r][s] = o
                                  THEN [object[o] EXCEPT !.submits = FALSE]
                                  ELSE object[o]]
    /\ stash' = IF live[r] = Nobody THEN stash ELSE [by |-> r, of |-> live[r]]
    /\ UNCHANGED <<scope, agent, nextAgent, rows, disk, dying, op, cut>>

\* ADOPT_DEADLINE_MS passed and nobody adopted the parked sessions.
AbandonStash ==
    /\ "deadline" \in scope.events
    /\ stash # NoStash
    /\ dying = NoStash
    /\ dying' = stash
    /\ stash' = NoStash
    /\ UNCHANGED <<scope, agent, nextAgent, object, rt, live, rows, disk, op, cut>>

\* One of them is aborted and disposed.  The abort ends its run, which the old
\* runtime's handler hears and writes to its registry; then its row goes idle.
AbandonOne(s) ==
    LET o == dying.of[s]
        a == object[o].agent
        r == dying.by
        row == IF agent[a].running /\ r \in agent[a].heardBy
               THEN RowOf(r, s, "idle") ELSE [rows[r][s] EXCEPT !.status = "idle"]
    IN  /\ o # None
        /\ agent' = Disposed(a, agent)
        /\ cut' = IF Asked(a) THEN cut \cup {s} ELSE cut
        /\ dying' = IF \A q \in Sessions \ {s} : dying.of[q] = None THEN NoStash
                    ELSE [dying EXCEPT !.of[s] = None]
        /\ Save(r, s, row)
        /\ UNCHANGED <<scope, nextAgent, object, rt, live, stash, op>>

\* The process is killed: the registry file is what is left.
Crash ==
    /\ "crash" \in scope.events
    /\ rt[1].phase # "unstarted" /\ rt[MaxRuntimes].phase = "unstarted"
    /\ cut' = cut \cup {agent[a].sid : a \in {b \in Agent : Asked(b)}}
                  \cup {op[i].sid : i \in {j \in Op : op[j].kind \in {"despawn", "delete", "clear"}}}
    /\ agent' = [a \in Agent |-> IF agent[a].state = "unused" THEN NoAgent
                                 ELSE [NoAgent EXCEPT !.state = "disposed"]]
    /\ object' = [a \in Agent |-> NoObject]
    /\ rt' = [r \in Runtime |-> IF rt[r].phase = "unstarted" THEN rt[r]
                                ELSE [phase |-> "dead", torn |-> TRUE, restore |-> {}]]
    /\ live' = [r \in Runtime |-> Nobody]
    /\ stash' = NoStash
    /\ dying' = NoStash
    /\ op' = [i \in Op |-> NoOp]
    /\ UNCHANGED <<scope, nextAgent, rows, disk>>

-----------------------------------------------------------------------------
(* Commands.  The lifecycle commands reserve the session's id while they   *)
(* run; the others only refuse to begin while it is reserved.              *)

Free(r, s) == rt[r].phase = "serving" /\ ~Held(r, s) /\ NoOverlap(r, s)
Command(kind, at, r, s) ==
    [NoOp EXCEPT !.kind = kind, !.at = at, !.rt = r, !.sid = s, !.obj = live[r][s]]

\* A closed session's id may be taken again; its row is retired first.
Spawn(r, s) ==
    /\ "spawn" \in scope.events
    /\ Free(r, s)
    /\ s \in scope.sessions
    /\ live[r][s] = None /\ rows[r][s].status \in {"none", "closed"}
    /\ Begins([Command("spawn", "create", r, s) EXCEPT !.held = TRUE])
    /\ IF rows[r][s].status = "closed" THEN Save(r, s, NoRow) ELSE UNCHANGED <<rows, disk>>
    /\ UNCHANGED <<scope, agent, nextAgent, object, rt, live, stash, dying, cut>>

Resume(r, s) ==
    /\ "resume" \in scope.events
    /\ Free(r, s)
    /\ live[r][s] = None /\ rows[r][s].status # "none" /\ rows[r][s].file # None
    /\ Begins([Command("resume", "create", r, s) EXCEPT !.held = TRUE, !.file = rows[r][s].file])
    /\ UNCHANGED <<scope, agent, nextAgent, object, rt, live, rows, disk, stash, dying, cut>>

\* createAgentSession returns: the session is in the map, and its model is set
\* before anything listens to it.
Created(i) ==
    LET r == op[i].rt
        s == op[i].sid
        a == nextAgent
        file == IF op[i].kind = "spawn" THEN a ELSE op[i].file
    IN  /\ op[i].kind \in {"spawn", "resume", "restore"} /\ op[i].at = "create"
        /\ a <= scope.agents
        /\ nextAgent' = a + 1
        /\ agent' = [agent EXCEPT ![a] = Born(file, s, a)]
        /\ object' = [object EXCEPT ![a] = [NoObject EXCEPT !.agent = a]]
        /\ live' = [live EXCEPT ![r][s] = a]
        /\ op' = [op EXCEPT ![i].at = "settle", ![i].obj = a]
        /\ UNCHANGED <<scope, rt, rows, disk, stash, dying, cut>>

\* The row is written and the session wired; a restored one whose row said it
\* was running is told to go on.
Settled(i) ==
    LET r == op[i].rt
        s == op[i].sid
        o == op[i].obj
        a == object[o].agent
        nudged == op[i].nudge /\ rt[r].phase # "dead" /\ live[r][s] = o
        given(u) == IF nudged THEN Prompted(u) ELSE u
    IN  /\ op[i].kind \in {"spawn", "resume", "restore"} /\ op[i].at = "settle"
        /\ agent' = IF Alive(a) THEN [Heard(a, r, agent) EXCEPT ![a] = given(@)] ELSE agent
        /\ object' = [Wired(o, r) EXCEPT ![o].working = @ \/ nudged]
        /\ Save(r, s, RowOf(r, s, "idle"))
        /\ Ends(i)
        /\ cut' = cut \ {s}
        /\ UNCHANGED <<scope, nextAgent, rt, live, stash, dying>>

\* Despawn, and delete, which removes the row afterwards.  The TUI and an
\* agent's tools call the supervisor without a reservation.
Despawn(r, s) ==
    /\ "despawn" \in scope.events
    /\ rt[r].phase = "serving" /\ live[r][s] # None /\ NoOverlap(r, s)
    /\ agent' = Unheard(live[r][s], agent)
    /\ \E kind \in {"despawn", "delete"}, held \in BOOLEAN :
          /\ held => ~Held(r, s)
          /\ ~held => "overlap" \in scope.events /\ kind = "despawn"
          /\ Begins([Command(kind, "stop", r, s) EXCEPT !.held = held])
    /\ UNCHANGED <<scope, nextAgent, object, rt, live, rows, disk, stash, dying, cut>>

\* The abort returned: the session's agent is disposed - the one it has now -
\* and whatever is in the map under the id leaves it.
Despawned(i) ==
    LET r == op[i].rt
        s == op[i].sid
    IN  /\ op[i].kind \in {"despawn", "delete"}
        /\ agent' = Disposed(object[op[i].obj].agent, agent)
        /\ live' = [live EXCEPT ![r][s] = None]
        /\ IF rows[r][s].status = "none" THEN UNCHANGED <<rows, disk>>
           ELSE Save(r, s, IF op[i].kind = "delete" THEN NoRow
                           ELSE [rows[r][s] EXCEPT !.status = "closed"])
        /\ Ends(i)
        /\ UNCHANGED <<scope, nextAgent, object, rt, stash, dying, cut>>

\* A session that is not live has only its row to close, or to remove.
CloseRow(r, s) ==
    /\ "despawn" \in scope.events
    /\ Free(r, s) /\ live[r][s] = None /\ rows[r][s].status # "none"
    /\ \E row \in {NoRow, [rows[r][s] EXCEPT !.status = "closed"]} : Save(r, s, row)
    /\ UNCHANGED <<scope, agent, nextAgent, object, rt, live, stash, dying, op, cut>>

\* session_new: the agent is stopped, and another put in its place.
Clear(r, s) ==
    /\ "clear" \in scope.events
    /\ Free(r, s) /\ live[r][s] # None
    /\ agent' = Unheard(live[r][s], agent)
    /\ Begins(Command("clear", "stop", r, s))
    /\ UNCHANGED <<scope, nextAgent, object, rt, live, rows, disk, stash, dying, cut>>

ClearStopped(i) ==
    /\ op[i].kind = "clear" /\ op[i].at = "stop"
    /\ agent' = Disposed(object[op[i].obj].agent, agent)
    /\ op' = [op EXCEPT ![i].at = "create"]
    /\ UNCHANGED <<scope, nextAgent, object, rt, live, rows, disk, stash, dying, cut>>

Cleared(i) ==
    LET r == op[i].rt
        s == op[i].sid
        o == op[i].obj
        a == nextAgent
        row == IF live[r][s] = o THEN [status |-> "idle", file |-> a] ELSE RowOf(r, s, "idle")
    IN  /\ op[i].kind = "clear" /\ op[i].at = "create"
        /\ a <= scope.agents
        /\ nextAgent' = a + 1
        /\ agent' = Heard(a, r, [agent EXCEPT ![a] = Born(a, s, o)])
        /\ object' = [Wired(o, r) EXCEPT ![o].agent = a, ![o].working = FALSE]
        /\ Save(r, s, row)
        /\ Ends(i)
        /\ UNCHANGED <<scope, rt, live, stash, dying, cut>>

\* createAgentSession refused.  A cleared session stays in the map with the
\* agent it had, which is disposed.
CreateFails(i) ==
    /\ "failure" \in scope.events
    /\ op[i].kind # "free" /\ op[i].at = "create"
    /\ Ends(i)
    /\ UNCHANGED <<scope, agent, nextAgent, object, rt, live, rows, disk, stash, dying, cut>>

\* model_set, and whatever else writes a session's row after an await.
SetModel(r, s) ==
    /\ "model" \in scope.events
    /\ Free(r, s) /\ live[r][s] # None
    /\ Begins(Command("model", "settle", r, s))
    /\ UNCHANGED <<scope, agent, nextAgent, object, rt, live, rows, disk, stash, dying, cut>>

ModelSet(i) ==
    LET r == op[i].rt
        s == op[i].sid
    IN  /\ op[i].kind = "model"
        /\ Save(r, s, RowOf(r, s, StatusOf(r, s)))
        /\ Ends(i)
        /\ UNCHANGED <<scope, agent, nextAgent, object, rt, live, stash, dying, cut>>

\* A user's message: the session is marked working at once, whether or not it has
\* a submitter, and before its agent begins to prepare.
Message(r, s) ==
    LET o == live[r][s]
        a == object[o].agent
    IN  /\ rt[r].phase = "serving" /\ o # None /\ ~Held(r, s)
        /\ "overlap" \in scope.events \/ \A i \in Op : op[i].kind # "clear" \/ op[i].obj # o
        /\ object' = [object EXCEPT ![o].working = TRUE]
        /\ agent' = IF object[o].submits /\ Alive(a) THEN [agent EXCEPT ![a] = Prompted(@)]
                    ELSE agent
        /\ UNCHANGED <<scope, nextAgent, rt, live, rows, disk, stash, dying, op, cut>>

\* message_start: the agent runs, which every handler that is attached hears.
TurnBegins(a) ==
    /\ agent[a].prompt = "preparing"
    /\ agent' = [agent EXCEPT ![a].running = TRUE, ![a].prompt = "none"]
    /\ object' = IF agent[a].heardBy = {} THEN object
                 ELSE [object EXCEPT ![agent[a].of].working = TRUE]
    /\ UNCHANGED <<scope, nextAgent, rt, live, rows, disk, stash, dying, op, cut>>

\* session.prompt rejects (no model, no key): an error is broadcast and nothing
\* else changes, so that a status "working" stays.  A message the submitter held
\* back meanwhile is tried next: the refusal here is the last one's.
PromptRefused(a) ==
    /\ "refusal" \in scope.events
    /\ agent[a].prompt = "preparing"
    /\ agent' = [agent EXCEPT ![a].prompt = "refused"]
    /\ UNCHANGED <<scope, nextAgent, object, rt, live, rows, disk, stash, dying, op, cut>>

\* agent_end, heard by every handler that is attached, whoever attached it.
TurnEnds(a) ==
    LET s == agent[a].sid
        hears == agent[a].heardBy
    IN  /\ agent[a].running
        /\ agent' = [agent EXCEPT ![a].running = FALSE]
        /\ object' = IF hears = {} THEN object ELSE [object EXCEPT ![agent[a].of].working = FALSE]
        /\ rows' = [r \in Runtime |->
                       IF r \in hears THEN [rows[r] EXCEPT ![s] = RowOf(r, s, "idle")]
                       ELSE rows[r]]
        /\ IF hears = {} THEN UNCHANGED disk ELSE \E last \in hears : disk' = rows'[last]
        /\ UNCHANGED <<scope, nextAgent, rt, live, stash, dying, op, cut>>

-----------------------------------------------------------------------------
BootstrapStep(r) == Adopt(r) \/ RestoreNext(r) \/ RestoreEnds(r)
OpStep(i) == Created(i) \/ Settled(i) \/ Despawned(i) \/ ClearStopped(i) \/ Cleared(i)
             \/ ModelSet(i)

Next ==
    \/ \E r \in Runtime : Start(r) \/ BootstrapStep(r) \/ BootstrapStalls(r) \/ Teardown(r)
    \/ \E r \in Runtime, s \in Sessions :
          \/ Spawn(r, s) \/ Resume(r, s) \/ Despawn(r, s) \/ CloseRow(r, s)
          \/ Clear(r, s) \/ SetModel(r, s) \/ Message(r, s)
    \/ \E i \in Op : OpStep(i) \/ CreateFails(i)
    \/ \E a \in Agent : TurnBegins(a) \/ PromptRefused(a) \/ TurnEnds(a)
    \/ AbandonStash
    \/ \E s \in Sessions : AbandonOne(s)
    \/ Crash

Spec == Init /\ [][Next]_vars

-----------------------------------------------------------------------------
(* Properties.                                                             *)

\* Whatever reloads, adoptions and deadlines do to each other, a session has
\* one holder: it is never both adopted and abandoned, parked twice, or in the
\* maps of two supervisors.
HeldOnce ==
    /\ \A q, r \in Runtime, s, t \in Sessions :
          live[r][s] # None /\ live[r][s] = live[q][t] => r = q /\ s = t
    /\ \A s, t \in Sessions :
          /\ stash.of[s] # None /\ stash.of[s] = stash.of[t] => s = t
          /\ dying.of[s] # None /\ dying.of[s] = dying.of[t] => s = t
          /\ stash.of[s] # None => stash.of[s] # dying.of[t]
    /\ \A r \in Runtime, s, t \in Sessions :
          live[r][s] # None => live[r][s] \notin {stash.of[t], dying.of[t]}

\* Two agents never write one transcript.
OneAgentPerTranscript ==
    \A a, b \in Agent : Alive(a) /\ Alive(b) /\ a # b => agent[a].file # agent[b].file

\* An agent that is alive can be found: in the map of a runtime that was not
\* torn down, parked, awaiting its abort, or in an operation's hands.
NoStrayAgent ==
    \A a \in Agent : Alive(a) =>
        LET o == agent[a].of
        IN  /\ object[o].agent = a
            /\ \/ \E r \in Runtime, s \in Sessions : live[r][s] = o /\ ~rt[r].torn
               \/ \E s \in Sessions : o \in {stash.of[s], dying.of[s]}
               \/ \E i \in Op : op[i].kind # "free" /\ op[i].obj = o /\ ~rt[op[i].rt].torn

\* A session the app is shown, with no operation on it under way, is one it can
\* use: its agent is alive, this runtime and no other hears it, messages reach
\* it, and it is shown working whenever it runs - after any number of reloads.
\* One that is shown working and does not run was asked to: its prompt is being
\* prepared, or was refused, and then it is shown working for good.
ShownIsUsable ==
    \A r \in Runtime, s \in Sessions :
        LET o == live[r][s]
            a == object[o].agent
        IN  (rt[r].phase = "serving" /\ o # None /\ \A i \in Op : op[i].obj # o) =>
                /\ Alive(a) /\ agent[a].heardBy = {r} /\ object[o].submits
                /\ agent[a].running => object[o].working
                /\ object[o].working => Asked(a)

\* The registry file can bring back what is live now: whenever the process dies,
\* the row of a served session names its transcript and is not closed.
LiveRowRestorable ==
    \A r \in Runtime, s \in Sessions :
        (rt[r].phase = "serving" /\ live[r][s] # None /\ \A i \in Op : op[i].obj # live[r][s]) =>
            /\ disk[s].status \in {"idle", "running"}
            /\ disk[s].file = agent[object[live[r][s]].agent].file

\* Operations on one session do not overlap, no reload or deadline catches one,
\* and none fails.
Orderly ==
    scope.events \cap {"overlap", "busy reload", "deadline", "stall", "failure"} = {}

\* A session its user closed comes back only because a user asks for it: a row
\* is opened again by the end of a spawn or a resume of that session.
ClosedStaysClosed ==
    [][\A s \in Sessions :
          (Orderly /\ disk[s].status = "closed" /\ disk'[s].status \in {"idle", "running"}) =>
              \E i \in Op : op[i].kind \in {"spawn", "resume"} /\ op[i].sid = s
                            /\ op'[i].kind = "free"]_vars

\* Only a session that was asked to work is nudged: a row says "running" only
\* of one whose agent runs, prepares or was refused, or did so until the process
\* died, or is being stopped.
RunningRowIsTrue ==
    \A s \in Sessions : disk[s].status = "running" =>
        \/ s \in cut
        \/ \E a \in Agent : agent[a].sid = s /\ Asked(a)
        \/ \E i \in Op : op[i].sid = s

\* Sessions are parked only while a runtime that will take them is still to
\* come: none that has loaded the registry leaves them to the deadline.
ParkedIsAwaited ==
    stash # NoStash => \E r \in Runtime : rt[r].phase \in {"unstarted", "identity"}

\* A bootstrap on its way can always go on: no session, adopted or closed or
\* opened meanwhile, keeps it from the next row or from serving.  (The bounds on
\* agents and operations may stop one here, and nothing else.)
BootstrapGoesOn ==
    \A r \in Runtime :
        (rt[r].phase \in {"identity", "restoring"} /\ ~rt[r].torn) =>
            \/ ENABLED BootstrapStep(r)
            \/ \E i \in Op : op[i].kind = "restore" /\ op[i].rt = r
                             /\ (op[i].at = "create" => nextAgent > scope.agents \/ ENABLED Created(i))
            \/ \A i \in Op : op[i].kind # "free"

-----------------------------------------------------------------------------
(* The invariants as TLC checks them.                                      *)

\* Whatever reloads, crashes, deadlines and overlapping operations do to each
\* other, a session has one holder (stashForReload, adoptStashedSessions,
\* abandonStash), and the state keeps its types.
SessionsAreHeldOnce == TypeOK /\ HeldOnce

\* Parked sessions are awaited, and a bootstrap can go on.
NothingStranded == ParkedIsAwaited /\ BootstrapGoesOn

\* What the app is shown can be used, and the registry file tells the truth of
\* it: it can bring back what is live, and says "running" of what was asked to run.
RowsAreTrue == Orderly => ShownIsUsable /\ LiveRowRestorable /\ RunningRowIsTrue

\* No transcript has two agents, and no agent is lost sight of.
OneAgent == Orderly => OneAgentPerTranscript /\ NoStrayAgent

-----------------------------------------------------------------------------
(* What the code's own comments and tests say of it, and it does not do:   *)
(* TLC refutes each of these (the README names the instance).              *)

\* An agent that is torn down stays down.
TornDownStaysDown == \A r \in Runtime : rt[r].torn => live[r] = Nobody /\ rt[r].phase # "serving"

\* Work that was cut off is nudged when its session is restored.
CutOffIsNudged ==
    [][\A i \in Op :
          (op[i].kind = "restore" /\ op[i].at = "settle" /\ op'[i].kind = "free"
             /\ op[i].sid \in cut /\ rt'[op[i].rt].phase # "dead")
              => LET u == agent'[object[op[i].obj].agent]
                 IN  u.running \/ u.prompt = "preparing"]_vars

\* Nothing is shown working for good of which nothing works (adoption: "a run that
\* ended during the handoff would otherwise leave the app showing "working"
\* forever"): a prompt that was refused leaves it so.
WorkingMeansWork ==
    \A r \in Runtime, s \in Sessions :
        LET o == live[r][s]
            a == object[o].agent
        IN  (Orderly /\ rt[r].phase = "serving" /\ o # None /\ \A i \in Op : op[i].obj # o) =>
                (object[o].working => agent[a].running \/ agent[a].prompt = "preparing")

\* A row says "running" of work in flight only, so that a restore nudges what was
\* cut off ("the previous host went away mid-run"): the row of a session whose
\* prompt was refused says it too, once anything writes it.
RunningRowMeansWork ==
    \A s \in Sessions : (Orderly /\ disk[s].status = "running") =>
        \/ s \in cut
        \/ \E a \in Agent : agent[a].sid = s /\ (agent[a].running \/ agent[a].prompt = "preparing")
        \/ \E i \in Op : op[i].sid = s

\* A closed row still names its transcript.
ClosedKeepsHistory ==
    [][\A s \in Sessions : disk[s].file # None => (disk'[s].file # None \/ disk'[s] = NoRow)]_vars

\* The row of a parked session names its transcript.
ParkedRowRestorable ==
    \A s \in Sessions : stash.of[s] # None => disk[s].file # None

\* The row of an abandoned session does too: "the registry rows go back to idle,
\* so the next bootstrap resumes them from disk".
AbandonedRowRestorable ==
    [][\A s \in Sessions : (dying.of[s] # None /\ dying'.of[s] = None) => disk'[s].file # None]_vars
=============================================================================
