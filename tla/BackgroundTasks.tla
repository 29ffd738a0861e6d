-------------------------- MODULE BackgroundTasks ---------------------------
(***************************************************************************)
(* Commands run for a session (server/src/bash-tool.ts,                    *)
(* background-tools.ts): one record per child process, written by the      *)
(* close handler of the process, two timers, a kill, an abort and the      *)
(* disposal of the manager, in whatever order these happen.                *)
(*                                                                         *)
(* A task is started by the bg_run tool, which returns at once, or by the  *)
(* bash tool, which holds its session's turn until the command ends or is  *)
(* moved to the background.  The report of a finished task goes to the     *)
(* session that owns it, as a message for its next turn.                   *)
(***************************************************************************)
EXTENDS Integers, FiniteSets

CONSTANTS Sessions, Tasks, None

ASSUME NamesApart == None \notin Sessions \cup Tasks /\ Sessions \cap Tasks = {}

VARIABLES
    task,   \* every command, as its record and its process stand
    live,   \* the supervisor's map: the sessions a report can be delivered to
    up      \* whether a supervisor is there (not between teardown and load)

TaskRecord == [owner : Sessions \cup {None},
               tool : {"bg_run", "bash"},
               status : {"unused", "running", "completed", "failed", "cancelled"},
               at : {"turn", "map", "off", "forgotten"},  \* held by a turn, listed, or neither
               child : {"none", "alive", "ending", "closed"},
               limited : BOOLEAN,                    \* a time limit of its own is armed
               notify : BOOLEAN,                     \* notifyOnCompletion
               byUser : BOOLEAN,                     \* settledBy = "cancel"
               notified : BOOLEAN,                   \* notifiedCompletion
               told : {"no", "queued", "read", "dropped", "nobody"}]

Unused == [owner |-> None, tool |-> "bash", status |-> "unused", at |-> "off",
           child |-> "none", limited |-> FALSE, notify |-> FALSE, byUser |-> FALSE,
           notified |-> FALSE, told |-> "no"]

Running(r)    == r.status = "running"
Listed(t)     == task[t].at = "map"
QueuedFor(s)  == {t \in Tasks : task[t].told = "queued" /\ task[t].owner = s}

-----------------------------------------------------------------------------
(* What every end of a task goes through.                                  *)

\* Where a report of a task ends up, given who is there to hear it.
Hearer(r) == IF up /\ r.owner \in live THEN "queued" ELSE "nobody"

\* Mutant of NotifyTaskOnce: a deliberate stop is reported as a completion.
ReportsStops(r) ==
    IF ~r.notify \/ r.notified THEN r
    ELSE [r EXCEPT !.notified = TRUE, !.told = Hearer(r)]

\* A report is marked made before it is delivered, so that one nobody hears is
\* not made again.
NotifyTaskOnce(r) ==
    IF ~r.notify \/ r.byUser \/ r.notified THEN r
    ELSE [r EXCEPT !.notified = TRUE, !.told = Hearer(r)]

\* The first end a task comes to is the one it keeps.
Ended(r, status) == IF Running(r) THEN [r EXCEPT !.status = status] ELSE r

\* Signalling a process starts its end; the handlers hear of it later.
Killed(r) == IF r.child = "alive" THEN [r EXCEPT !.child = "ending"] ELSE r

-----------------------------------------------------------------------------
(* Starting.                                                               *)

\* A timer of bg_run is armed when it starts; the limit of a bash command
\* counts once it runs in the background.
NewTask(s, tool, limited, notify) ==
    [Unused EXCEPT !.owner = s, !.tool = tool, !.status = "running", !.child = "alive",
                   !.at = IF tool = "bg_run" THEN "map" ELSE "turn",
                   !.limited = limited, !.notify = notify]

StartTask(s, t) ==
    /\ task[t] = Unused
    /\ \E limited, notify \in BOOLEAN :
          task' = [task EXCEPT ![t] = NewTask(s, "bg_run", limited, notify)]

ExecuteCommand(s, t) ==
    /\ task[t] = Unused
    /\ \E limited, notify \in BOOLEAN :
          task' = [task EXCEPT ![t] = NewTask(s, "bash", limited, notify)]

\* The shell cannot be started, which the process reports before anything else.
StartFails(s, t) ==
    /\ task[t] = Unused
    /\ \E notify \in BOOLEAN, tool \in {"bg_run", "bash"} :
          LET r == [NewTask(s, tool, FALSE, notify) EXCEPT !.status = "failed", !.child = "closed"] IN
          task' = [task EXCEPT ![t] = IF tool = "bg_run" THEN NotifyTaskOnce(r)
                                      ELSE [r EXCEPT !.at = "off"]]

\* The command outlasts the foreground: it is listed, and its turn goes on.
MoveToBackground(t) ==
    /\ task[t].at = "turn" /\ Running(task[t])
    /\ task' = [task EXCEPT ![t].at = "map"]

-----------------------------------------------------------------------------
(* Ending.                                                                 *)

ChildEnds(t) ==
    /\ task[t].child = "alive"
    /\ task' = [task EXCEPT ![t].child = "ending"]

\* bg_run: an end that was recorded before is left as it is.
CloseStarted(t, status) ==
    LET r == [task[t] EXCEPT !.child = "closed"] IN
    IF Running(r) THEN NotifyTaskOnce([Ended(r, status) EXCEPT !.limited = FALSE]) ELSE r

\* Mutant of CloseExecuted: the close handler records its own end over another.
CloseOverwrites(t, status) ==
    LET r == [task[t] EXCEPT !.child = "closed", !.limited = FALSE, !.status = status] IN
    CASE task[t].at = "turn" -> [r EXCEPT !.at = "off"]
      [] task[t].at = "off"  -> r
      [] OTHER               -> NotifyTaskOnce(r)

\* bash: answers its turn while it holds one, says nothing when the turn was
\* told already, and reports once it is in the background, listed or not.
CloseExecuted(t, status) ==
    LET r == Ended([task[t] EXCEPT !.child = "closed", !.limited = FALSE], status) IN
    CASE task[t].at = "turn" -> [r EXCEPT !.at = "off"]
      [] task[t].at = "off"  -> r
      [] OTHER               -> NotifyTaskOnce(r)

ChildCloses(t) ==
    /\ task[t].child = "ending"
    /\ \E status \in {"completed", "failed"} :
          task' = [task EXCEPT ![t] = IF task[t].tool = "bg_run"
                                      THEN CloseStarted(t, status) ELSE CloseExecuted(t, status)]

\* The limit of the command's own.  bg_run reports it here, because its close
\* handler will not; bash leaves the report to its close handler.
LimitFires(t) ==
    /\ task[t].limited /\ task[t].at = "map"
    /\ task' = [task EXCEPT ![t] =
          LET r == [@ EXCEPT !.limited = FALSE] IN
          IF ~Running(r) THEN r
          ELSE IF r.tool = "bg_run" THEN NotifyTaskOnce(Killed(Ended(r, "failed")))
          ELSE Killed(Ended(r, "failed"))]

\* A limit shorter than the foreground's ends the command in its turn.
ShortLimitFires(t) ==
    /\ task[t].at = "turn" /\ task[t].limited /\ Running(task[t])
    /\ task' = [task EXCEPT ![t] = [Killed(Ended(@, "failed")) EXCEPT !.at = "off", !.limited = FALSE]]

\* SessionTasks: the commands the tools of a session may name.
Scope(s) == {t \in Tasks : Listed(t) /\ task[t].owner = s}

\* The kill of the jobs panel and of bg_kill.
KillTask(t) ==
    /\ Listed(t) /\ Running(task[t])
    /\ task' = [task EXCEPT ![t] = [Killed(Ended(@, "cancelled")) EXCEPT !.byUser = TRUE]]

\* The turn that holds the command is aborted.
Aborted(t) == [Killed(Ended(task[t], "cancelled")) EXCEPT !.at = "off"]

\* Every listed task is killed and forgotten; one a turn holds goes on.
Dispose ==
    [t \in Tasks |-> IF Listed(t)
                     THEN [Killed(Ended(task[t], "cancelled")) EXCEPT
                                       !.at = "forgotten", !.limited = FALSE]
                     ELSE task[t]]
=============================================================================
