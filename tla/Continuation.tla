---------------------------- MODULE Continuation ----------------------------
(***************************************************************************)
(* What ends a session's turn, and what gives it another: the commands it  *)
(* left in the background, the subagents its turns wait for (subagent.ts,  *)
(* subagent-run.ts, subagent-tree.ts), its goal (goal-keeper.ts,           *)
(* goal-continuation.ts) and the user, with a stop, a despawn and a reload *)
(* in between (supervisor.ts, session-command-handler.ts).                 *)
(***************************************************************************)
EXTENDS BackgroundTasks

CONSTANTS
    Root,       \* the session that is there from the beginning
    MaxLevel,   \* MAX_SUBAGENT_LEVEL
    MaxStops,   \* bound: stops by the user, and goals set
    Events      \* bound: which of the events below an instance has

ASSUME RootIsASession == Root \in Sessions
ASSUME LevelBound == MaxLevel \in Nat \ {0}
ASSUME StopBound  == MaxStops \in Nat
ASSUME EventsKnown == Events \subseteq
    {"tasks", "subagents", "prompt", "stop", "despawn", "reload", "goal"}

VARIABLES
    turn,       \* each session: whether it is there, at work, and for whom it waits
    run,        \* subagent: the state of a child's run on its LiveSession
    row,        \* the registry row of a child
    shown,      \* publisher: the sessions the clients are shown
    goal,       \* the sessions with an objective
    reloads,    \* reloads so far: none, in the gap of one, or one
    stops       \* stops so far

own  == <<turn, run, row, shown, goal, reloads, stops>>
vars == <<task, live, up, own>>

Stages == {"none", "spawning", "briefing", "waiting", "stopping"}
Turn == [state : {"none", "idle", "working", "gone"},
         prompt : {"none", "brief", "preparing", "failed"},   \* words on their way to pi
         call : Tasks \cup Sessions \cup {None},   \* the tool call the turn waits in
         stage : Stages,                           \* how far a subagent call is
         aborted : BOOLEAN,                        \* the signal of the turn
         cancelled : BOOLEAN,                      \* turnCancelled
         old : BOOLEAN,                            \* the call was made before a reload
         level : 1 .. MaxLevel,
         stop : SUBSET {"user", "parent"}]         \* despawns of it in progress
Runs == {"none", "running", "settled", "stopped"}
Row  == [status : {"none", "open", "closed"}, anchor : BOOLEAN]   \* piSessionPath

NoTurn == [state |-> "none", prompt |-> "none", call |-> None, stage |-> "none",
           aborted |-> FALSE, cancelled |-> FALSE, old |-> FALSE, level |-> 1, stop |-> {}]
NoRow  == [status |-> "none", anchor |-> FALSE]
Open   == [status |-> "open", anchor |-> TRUE]

TypeOK ==
    /\ task \in [Tasks -> TaskRecord]
    /\ live \in SUBSET Sessions /\ up \in BOOLEAN
    /\ turn \in [Sessions -> Turn]
    /\ run \in [Sessions -> Runs]
    /\ row \in [Sessions -> Row]
    /\ shown \in SUBSET Sessions
    /\ goal \in SUBSET Sessions
    /\ reloads \in {"none", "gap", "done"}
    /\ stops \in 0 .. MaxStops

Init ==
    /\ task = [t \in Tasks |-> Unused]
    /\ live = {Root} /\ up = TRUE
    /\ turn = [s \in Sessions |-> IF s = Root THEN [NoTurn EXCEPT !.state = "idle"] ELSE NoTurn]
    /\ run = [s \in Sessions |-> "none"]
    /\ row = [s \in Sessions |-> IF s = Root THEN Open ELSE NoRow]
    /\ shown = {Root}
    /\ goal = {} /\ reloads = "none" /\ stops = 0

-----------------------------------------------------------------------------
(* Turns.                                                                  *)

There(s)    == turn[s].state \in {"idle", "working"} /\ turn[s].stop = {}
Working(s)  == turn[s].state = "working"
Between(s)  == Working(s) /\ turn[s].call = None /\ ~turn[s].aborted   \* the model decides
Waiter(c)   == {p \in Sessions : turn[p].call = c /\ turn[p].stage = "waiting" /\ ~turn[p].aborted}
Child(s)    == s # Root

StartsTurn(s) == [turn EXCEPT ![s].state = "working", ![s].cancelled = FALSE, ![s].aborted = FALSE,
                              ![s].prompt = IF @ = "failed" THEN "none" ELSE @]

\* submitUserMessage: the session says that it works and, of new work for a
\* child that had finished, that its run runs; then pi is handed the words.  An
\* agent at work queues them; for an idle one pi prepares a turn.
Submits(s) ==
    /\ turn' = IF Working(s) THEN turn ELSE [turn EXCEPT ![s].prompt = "preparing"]
    /\ run' = IF Child(s) THEN [run EXCEPT ![s] = "running"] ELSE run

\* The user's words.  Bound: one prompt of a session is prepared at a time.
UserPrompt(s) ==
    /\ "prompt" \in Events
    /\ There(s) /\ up
    /\ \/ ~Working(s) /\ turn[s].prompt # "preparing"
       \/ Child(s) /\ run[s] # "running"
    /\ Submits(s)
    /\ UNCHANGED <<task, live, up, row, shown, goal, reloads, stops>>

\* message_start: the turn that was prepared begins.
Begins(s) ==
    /\ turn[s].prompt = "preparing" /\ turn[s].state = "idle"
    /\ turn' = [StartsTurn(s) EXCEPT ![s].prompt = "none"]
    /\ UNCHANGED <<task, live, up, run, row, shown, goal, reloads, stops>>

\* session.prompt rejects (no key, no model, another turn at work): the clients
\* are told of an error.  No turn ends, for none began: what the session and its
\* run say stays, and nobody who waits is answered.
Refused(s) ==
    /\ turn[s].prompt = "preparing" /\ turn[s].state \in {"idle", "working"}
    /\ turn' = [turn EXCEPT ![s].prompt = IF Working(s) THEN "none" ELSE "failed"]
    /\ UNCHANGED <<task, live, up, run, row, shown, goal, reloads, stops>>

\* pi takes up the reports that wait for the session, in this turn or a new one.
TakeUp(s) ==
    /\ There(s) /\ QueuedFor(s) # {}
    /\ task' = [t \in Tasks |-> IF t \in QueuedFor(s) THEN [task[t] EXCEPT !.told = "read"] ELSE task[t]]
    /\ turn' = IF Working(s) THEN turn ELSE StartsTurn(s)
    /\ UNCHANGED <<live, up, run, row, shown, goal, reloads, stops>>

Return(s) == [turn EXCEPT ![s].call = None, ![s].stage = "none", ![s].old = FALSE]

-----------------------------------------------------------------------------
(* Commands.                                                               *)

BgRun(s, t) ==
    /\ "tasks" \in Events /\ Between(s)
    /\ StartTask(s, t)
    /\ UNCHANGED <<live, up, own>>

StartRefused(s, t) ==
    /\ "tasks" \in Events /\ Between(s)
    /\ StartFails(s, t)
    /\ UNCHANGED <<live, up, own>>

Bash(s, t) ==
    /\ "tasks" \in Events /\ Between(s)
    /\ ExecuteCommand(s, t)
    /\ turn' = [turn EXCEPT ![s].call = t]
    /\ UNCHANGED <<live, up, run, row, shown, goal, reloads, stops>>

\* A turn waits for its command no longer than the command is at it.
TurnsAfter(t) == IF task'[t].at = "turn" THEN turn
                 ELSE [s \in Sessions |-> IF turn[s].call = t THEN [turn[s] EXCEPT !.call = None]
                                          ELSE turn[s]]

TaskStep(t) ==
    /\ \/ MoveToBackground(t) \/ ChildEnds(t) \/ ChildCloses(t)
       \/ LimitFires(t) \/ ShortLimitFires(t)
    /\ turn' = TurnsAfter(t)
    /\ UNCHANGED <<live, up, run, row, shown, goal, reloads, stops>>

UserKills(t) ==
    /\ "stop" \in Events /\ up /\ stops < MaxStops
    /\ KillTask(t)
    /\ stops' = stops + 1
    /\ UNCHANGED <<live, up, turn, run, row, shown, goal, reloads>>

\* The agent stops a command of its own session by bg_kill.
AgentKills(s, t) ==
    /\ "stop" \in Events /\ stops < MaxStops
    /\ Between(s) /\ t \in Scope(s)
    /\ KillTask(t)
    /\ stops' = stops + 1
    /\ UNCHANGED <<live, up, turn, run, row, shown, goal, reloads>>

-----------------------------------------------------------------------------
(* Subagents.                                                              *)

\* How deep in the tree a session is; a child is one deeper than its parent.
LevelOf(p)  == turn[p].level
MaySpawn(p) == LevelOf(p) < MaxLevel

\* SubagentService.run up to its await: a session of the last level has none.
CallSubagent(p, c) ==
    /\ "subagents" \in Events /\ up
    /\ Between(p) /\ turn[c].state = "none" /\ \A q \in Sessions : turn[q].call # c
    /\ MaySpawn(p)
    /\ turn' = [turn EXCEPT ![p].call = c, ![p].stage = "spawning"]
    /\ UNCHANGED <<task, live, up, run, row, shown, goal, reloads, stops>>

\* The child is created; its run says at once that it runs.
Spawned(p) ==
    LET c == turn[p].call IN
    /\ turn[p].stage = "spawning"
    /\ live' = live \cup {c} /\ shown' = shown \cup {c}
    /\ row' = [row EXCEPT ![c] = Open]
    /\ run' = [run EXCEPT ![c] = "running"]
    /\ turn' = [turn EXCEPT ![p].stage = "briefing",
          ![c] = [NoTurn EXCEPT !.state = "idle", !.prompt = "brief", !.level = LevelOf(p) + 1]]
    /\ UNCHANGED <<task, up, goal, reloads, stops>>

\* spawnChild rejects (no such directory, no session): the call throws.
SpawnFails(p) ==
    /\ turn[p].stage = "spawning"
    /\ turn' = Return(p)
    /\ UNCHANGED <<task, live, up, run, row, shown, goal, reloads, stops>>

\* The child is handed its brief, and its turn is waited for; or the call was
\* aborted meanwhile, and the child is stopped at once.
Briefed(p) ==
    LET c == turn[p].call IN
    /\ turn[p].stage = "briefing" /\ turn[c].state # "gone"
    /\ turn' = [turn EXCEPT
          ![p].stage = IF turn[p].aborted THEN "stopping" ELSE "waiting",
          ![c].prompt = IF Working(c) THEN "none" ELSE "preparing",
          ![c].stop = IF turn[p].aborted THEN @ \cup {"parent"} ELSE @]
    /\ run' = [run EXCEPT ![c] = "running"]
    /\ UNCHANGED <<task, live, up, row, shown, goal, reloads, stops>>

\* startChild throws, for the child was despawned meanwhile: so does the call.
BriefFails(p) ==
    /\ turn[p].stage = "briefing" /\ turn[turn[p].call].state = "gone"
    /\ turn' = Return(p)
    /\ UNCHANGED <<task, live, up, run, row, shown, goal, reloads, stops>>

\* runAfterTurn, and the mark of the waiting call, which says the same.  The
\* handler of before a reload finds no session to mark in its emptied map.
RunAfter(s) == IF Child(s) /\ run[s] = "running" /\ up THEN [run EXCEPT ![s] = "settled"] ELSE run

\* Mutant of AgentEnds: the waiters are not answered.
AgentEndsAlone(s) ==
    /\ Working(s) /\ turn[s].call = None /\ turn[s].stop = {}
    /\ QueuedFor(s) = {} \/ turn[s].aborted
    /\ run' = RunAfter(s)
    /\ turn' = [turn EXCEPT ![s].state = "idle", ![s].aborted = FALSE]
    /\ UNCHANGED <<task, live, up, row, shown, goal, reloads, stops>>

\* What the goal keeper is given for a session is its LiveSession, which has no
\* sendCustomMessage: a re-prompt throws.
AgentFor(s)      == "LiveSession"
MayBePrompted(a) == a = "AgentSession"
Reprompts(s)     == s \in goal /\ ~turn[s].cancelled /\ MayBePrompted(AgentFor(s))

\* The end of a turn: whoever waits for it is answered, and the goal speaks.
\* pi has taken up what waited for the session before, unless it was stopped.
AgentEnds(s) ==
    /\ Working(s) /\ turn[s].call = None /\ turn[s].stop = {}
    /\ QueuedFor(s) = {} \/ turn[s].aborted
    /\ run' = RunAfter(s)
    /\ turn' = [q \in Sessions |->
          IF q = s THEN [turn[s] EXCEPT !.state = IF Reprompts(s) THEN "working" ELSE "idle",
                                        !.aborted = FALSE]
          ELSE IF q \in Waiter(s)
               THEN [turn[q] EXCEPT !.call = None, !.stage = "none", !.old = FALSE]
          ELSE turn[q]]
    /\ UNCHANGED <<task, live, up, row, shown, goal, reloads, stops>>

-----------------------------------------------------------------------------
(* Stopping.                                                               *)

\* The signal of a turn reaches the call it waits in: a command is killed, and
\* a subagent call goes on to stop its child.  A call of before a reload asks a
\* supervisor that has no session any more.
Stopped(s) ==
    LET c == turn[s].call IN
    [q \in Sessions |->
        IF q = s THEN [turn[s] EXCEPT !.aborted = TRUE,
                          !.call  = IF c \in Tasks THEN None ELSE @,
                          !.stage = IF turn[s].stage = "waiting" THEN "stopping" ELSE @]
        ELSE IF q = c /\ turn[s].stage = "waiting" /\ ~turn[s].old /\ turn[c].state # "gone"
             THEN [turn[q] EXCEPT !.stop = @ \cup {"parent"}]
        ELSE turn[q]]

TaskAfterAbort(s) == [t \in Tasks |->
    CASE turn[s].call = t                             -> Aborted(t)
      [] OTHER                                        -> task[t]]

Dropped(f, s) == [t \in Tasks |-> IF f[t].told = "queued" /\ f[t].owner = s
                                  THEN [f[t] EXCEPT !.told = "dropped"] ELSE f[t]]

\* The user's stop: what waits for the session is cleared, and its turn aborted.
Stop(s) ==
    /\ "stop" \in Events /\ up /\ stops < MaxStops
    /\ There(s) /\ Working(s) /\ ~turn[s].aborted
    /\ stops' = stops + 1
    /\ task' = Dropped(TaskAfterAbort(s), s)
    /\ turn' = [Stopped(s) EXCEPT ![s].cancelled = TRUE]
    /\ UNCHANGED <<live, up, run, row, shown, goal, reloads>>

\* A despawn ends a session's handlers first; then it waits for its turn.
Despawn(s) ==
    /\ "despawn" \in Events /\ up
    /\ There(s)
    /\ turn' = [turn EXCEPT ![s].stop = {"user"}]
    /\ UNCHANGED <<task, live, up, run, row, shown, goal, reloads, stops>>

AbortForDespawn(s) ==
    /\ turn[s].stop # {} /\ Working(s) /\ ~turn[s].aborted
    /\ task' = TaskAfterAbort(s)
    /\ turn' = Stopped(s)
    /\ UNCHANGED <<live, up, run, row, shown, goal, reloads, stops>>

\* The mark of a stopped child is written to a session nobody has any more: the
\* row is opened again without its file, and the clients are shown it again.
MarkStopped(c) ==
    /\ run' = [run EXCEPT ![c] = "stopped"]
    /\ row' = [row EXCEPT ![c] = [status |-> "open", anchor |-> FALSE]]
    /\ shown' = shown \cup {c}

FinishDespawn(c) ==
    /\ turn[c].stop # {} /\ turn[c].call = None /\ (Working(c) => turn[c].aborted)
    /\ live' = live \ {c}
    /\ turn' = [q \in Sessions |->
          IF q = c THEN [turn[c] EXCEPT !.state = "gone", !.prompt = "none", !.stop = {}]
          ELSE IF turn[q].call = c /\ turn[q].stage = "stopping"
               THEN [turn[q] EXCEPT !.call = None, !.stage = "none", !.old = FALSE]
          ELSE turn[q]]
    /\ IF "parent" \in turn[c].stop
       THEN MarkStopped(c)
       ELSE /\ row' = [row EXCEPT ![c].status = "closed"]
            /\ shown' = shown \ {c}
            /\ UNCHANGED run
    /\ UNCHANGED <<task, up, goal, reloads, stops>>

\* There was nothing to stop: the child is gone, or the supervisor asked is one
\* of before a reload.
StopFindsNobody(p) ==
    LET c == turn[p].call IN
    /\ turn[p].stage = "stopping" /\ (turn[c].state = "gone" \/ turn[p].old)
    /\ turn' = Return(p)
    /\ IF turn[p].old THEN UNCHANGED <<run, row, shown>>
       ELSE /\ run' = [run EXCEPT ![c] = "stopped"]
            /\ row' = [row EXCEPT ![c] = [status |-> "open", anchor |-> FALSE]]
            /\ shown' = shown \cup {c}
    /\ UNCHANGED <<task, live, up, goal, reloads, stops>>

-----------------------------------------------------------------------------
(* Goals and reloads.                                                      *)

\* The bound of the model: goals are set and cleared before a reload.
GoalsMayChange == "goal" \in Events /\ up /\ reloads = "none"

\* Setting a goal tells the session so, which starts a turn if pi takes it.
GoalSet(s) ==
    /\ GoalsMayChange /\ There(s) /\ stops < MaxStops
    /\ s \notin goal
    /\ goal' = goal \cup {s} /\ stops' = stops + 1
    /\ \/ turn' = turn
       \/ ~Working(s) /\ turn' = StartsTurn(s)
    /\ UNCHANGED <<task, live, up, run, row, shown, reloads>>

GoalCleared(s) ==
    /\ GoalsMayChange /\ There(s)
    /\ s \in goal
    /\ goal' = goal \ {s}
    /\ UNCHANGED <<task, live, up, turn, run, row, shown, reloads, stops>>

\* The bound of the model: no session is created or despawned across a reload.
Quiet == \A s \in Sessions : turn[s].stage \notin {"spawning", "briefing", "stopping"} /\ turn[s].stop = {}

Teardown ==
    /\ "reload" \in Events /\ reloads = "none" /\ Quiet
    /\ reloads' = "gap" /\ up' = FALSE
    /\ task' = Dispose
    /\ turn' = [s \in Sessions |-> [turn[s] EXCEPT !.old = turn[s].stage = "waiting"]]
    /\ shown' = {}
    /\ UNCHANGED <<live, run, row, goal, stops>>

\* Mutant of Load: a parked session keeps the run it was parked with.
LoadAsParked ==
    /\ reloads = "gap"
    /\ reloads' = "done" /\ up' = TRUE
    /\ shown' = live
    /\ UNCHANGED <<task, live, turn, run, row, goal, stops>>

\* The parked sessions are adopted: a run that is over reads as stopped.
Load ==
    /\ reloads = "gap"
    /\ reloads' = "done" /\ up' = TRUE
    /\ run' = [s \in Sessions |-> IF run[s] = "running" /\ turn[s].state = "idle" THEN "stopped" ELSE run[s]]
    /\ shown' = live
    /\ UNCHANGED <<task, live, turn, row, goal, stops>>

-----------------------------------------------------------------------------
Next ==
    \/ \E s \in Sessions :
          \/ UserPrompt(s) \/ Begins(s) \/ Refused(s) \/ TakeUp(s) \/ AgentEnds(s)
          \/ Spawned(s) \/ SpawnFails(s) \/ Briefed(s) \/ BriefFails(s)
          \/ Stop(s) \/ Despawn(s) \/ AbortForDespawn(s) \/ FinishDespawn(s) \/ StopFindsNobody(s)
          \/ GoalSet(s) \/ GoalCleared(s)
          \/ \E t \in Tasks : BgRun(s, t) \/ StartRefused(s, t) \/ Bash(s, t) \/ AgentKills(s, t)
          \/ \E c \in Sessions : CallSubagent(s, c)
    \/ \E t \in Tasks : TaskStep(t) \/ UserKills(t)
    \/ Teardown \/ Load

Spec == Init /\ [][Next]_vars

\* What the code is owed: a process that was signalled ends, a timer fires, a
\* turn of the model ends, and what was begun by await is resumed.  Nothing is
\* owed of the user, and a command that is not stopped may run for ever.
Fairness ==
    /\ \A t \in Tasks : /\ WF_vars(TaskStep(t) /\ task[t].child = "ending")
                       /\ WF_vars(TaskStep(t) /\ task[t].at = "turn")
    /\ \A s \in Sessions : /\ WF_vars(TakeUp(s)) /\ WF_vars(AgentEnds(s))
                          /\ WF_vars(Begins(s) \/ Refused(s))
                          /\ WF_vars(Spawned(s) \/ SpawnFails(s))
                          /\ WF_vars(Briefed(s) \/ BriefFails(s))
                          /\ WF_vars(AbortForDespawn(s)) /\ WF_vars(FinishDespawn(s))
                          /\ WF_vars(StopFindsNobody(s))
    /\ WF_vars(Load)

FairSpec == Spec /\ Fairness

-----------------------------------------------------------------------------
(* Properties.                                                             *)

\* notifyTaskOnce: what a session is told of its commands.  However the close
\* handler, the timers, a kill, an abort and a reload fall, each command comes
\* to one end, is reported at most once, not before its end, and not when
\* somebody stopped it.
Promise == INSTANCE TaskPromise WITH
    running <- {t \in Tasks : Running(task[t])},
    stopped <- {t \in Tasks : task[t].byUser},
    unread  <- {t \in Tasks : task[t].told = "queued"},
    heard   <- {t \in Tasks : task[t].told \in {"read", "dropped", "nobody"}}
ReportsKeepThePromise == Promise!Spec

\* The first end of a command is the one its record keeps (killTask, the
\* timers and the close handler each write it).
EndIsFinal == [][\A t \in Tasks :
    task[t].status \in {"completed", "failed", "cancelled"}
        => task'[t].status = task[t].status]_vars

\* subagent-run.ts, reload-adoption.ts: a run reads as running only while its
\* session works on it or is about to, across turns nobody asked for, new work
\* and reloads; or if the turn it was to be worked on in was refused, which
\* nothing but new work or a reload repairs (RunReadsTrue below).
AboutTo(c) == turn[c].prompt \in {"brief", "preparing"}
NotStarted(c) == turn[c].prompt = "failed"
RunningIsWorking == \A c \in live :
    up /\ run[c] = "running" => Working(c) \/ AboutTo(c) \/ NotStarted(c)

\* The state keeps its types, and what runs works, is about to or was refused.
RunsAreSound == TypeOK /\ RunningIsWorking

\* What the runs rest on: a session that is there has a turn or none, and only
\* one that is there is being stopped; the root has no run; a turn in a call of
\* a subagent goes on; a child that is waited for was there, and one that is
\* being spawned is not there yet and is spawned by one call only, below the
\* last level.
Tied ==
    /\ \A c \in live : turn[c].state \in {"idle", "working"}
    /\ run[Root] # "running" /\ turn[Root].state # "none"
    /\ \A s \in Sessions : turn[s].stop # {} => turn[s].state \in {"idle", "working"}
    /\ \A p \in Sessions : turn[p].stage # "none" =>
          Working(p) /\ turn[p].call \in Sessions \ {p, Root}
    /\ \A p \in Sessions : turn[p].stage \in {"briefing", "waiting", "stopping"} =>
          turn[turn[p].call].state # "none"
    /\ \A p \in Sessions : turn[p].stage = "spawning" =>
          /\ up /\ MaySpawn(p) /\ turn[turn[p].call].state = "none"
          /\ \A q \in Sessions \ {p} : turn[q].call # turn[p].call

\* The inductive invariant behind RunsAreSound.
Inductive == RunsAreSound /\ Tied

\* SubagentService.run: a turn that waits for a subagent goes on, whether the
\* child is created or not, is briefed, ends or is stopped, the turn is stopped
\* or the extension is reloaded.  Two children answer nobody: one that somebody
\* despawns, and one whose turn pi refused to start (OutcomeReported below); the
\* latter answers when it is prompted again.
CallReturns == \A p, c \in Sessions :
    turn[p].call = c ~> turn[p].call # c \/ turn[c].state = "gone" \/ NotStarted(c)

\* A command that ends in the background and was not stopped is reported, and
\* the report is taken up, unless its session is stopped or gone; a reload
\* forgets the commands.
EndReported == \A t \in Tasks :
    (/\ Listed(t) /\ ~Running(task[t]) /\ task[t].status # "unused"
     /\ task[t].notify /\ ~task[t].byUser)
        ~> \/ task[t].told \in {"read", "dropped", "nobody"}
           \/ \E s \in Sessions : task[t].owner = s /\ turn[s].state = "gone"
           \/ reloads # "none"

\* Whoever is owed a word gets it: a turn its subagent's, a session its report.
EveryoneIsAnswered == CallReturns /\ EndReported

-----------------------------------------------------------------------------
(* What the code's own comments and tests say of it, and it does not do:   *)
(* TLC refutes each of these (the README names the instance).              *)

\* "Everything after the child exists is reported as an outcome, including a
\* child that failed or was stopped" (subagent.ts:247): whoever calls a subagent
\* hears of it.  A refused first turn (supervisor.ts:707) ends in an error on
\* the wire only, and the parent waits on.
OutcomeReported == \A p, c \in Sessions :
    turn[p].call = c ~> turn[p].call # c \/ turn[c].state = "gone"

\* A run left open is a badge that "reads running for an agent that finished an
\* hour ago" (subagent-run.ts:13): a run that reads as running has a session
\* that works on it or is about to.
RunReadsTrue == \A c \in live :
    up /\ run[c] = "running" => Working(c) \/ AboutTo(c)

\* despawn keeps a session's row "listable/resumable" (supervisor.ts:559): a
\* child that was stopped is not shown as a session that is there, and its row
\* still names the file it can be resumed from.
StoppedChildResumable == \A c \in Sessions :
    turn[c].state = "gone" => row[c].anchor /\ (up => c \notin shown)

\* "No agent stops until its goal is achieved" (goal-continuation.ts:34): a
\* session with a goal that is not stopped does not stay idle.
GoalKeepsGoing == \A s \in Sessions :
    (s \in goal /\ turn[s].state = "idle")
        ~> Working(s) \/ s \notin goal \/ turn[s].cancelled \/ turn[s].state = "gone"
=============================================================================
