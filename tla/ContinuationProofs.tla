------------------------- MODULE ContinuationProofs -------------------------
(***************************************************************************)
(* Proofs about Continuation, for any number of sessions and commands: the *)
(* commands of a session implement TaskPromise, and a command keeps the    *)
(* end it came to first.  Each step writes one record or several; what it  *)
(* makes of a record is one of the moves below, and each move is a step of *)
(* the promise.                                                            *)
(***************************************************************************)
EXTENDS Continuation, TLAPS

\* What the writers of a record rely on: a report is marked made when it is
\* delivered, and there is none while the command runs, nor of a stopped one.
RecordIsSound(r) ==
    /\ r \in TaskRecord
    /\ r.told # "no" => r.notified /\ ~r.byUser /\ r.status \notin {"unused", "running"}
    /\ r.byUser => r.status \notin {"unused", "running"}
    /\ r.child # "none" => r.status # "unused"

TasksAreSound ==
    /\ task \in [Tasks -> TaskRecord]
    /\ \A t \in Tasks : RecordIsSound(task[t])

\* The moves of a record, x becoming y.
Heard(r)   == r.told \in {"read", "dropped", "nobody"}
KeepsEnd(x, y) == x.status \in {"completed", "failed", "cancelled"} => y.status = x.status
Settles(x, y) ==
    /\ RecordIsSound(y) /\ KeepsEnd(x, y)
    /\ y.byUser = x.byUser
    /\ Running(y) => Running(x)
    /\ \/ y.told = x.told
       \/ x.told = "queued" /\ Heard(y)
Starts(x, y) ==
    /\ RecordIsSound(y) /\ x.status = "unused"
    /\ Running(y) /\ ~x.byUser /\ ~y.byUser /\ x.told = "no" /\ y.told = "no"
Stops(x, y) ==
    /\ RecordIsSound(y) /\ Running(x) /\ ~Running(y) /\ ~x.byUser /\ y.byUser
    /\ x.told = "no" /\ y.told = "no"
Reports(x, y) ==
    /\ RecordIsSound(y) /\ KeepsEnd(x, y)
    /\ ~Running(y) /\ ~x.byUser /\ ~y.byUser
    /\ x.told = "no" /\ y.told \in {"queued", "nobody"}

\* What a step gives.
Kept == /\ TasksAreSound'
        /\ [Promise!Next]_(Promise!vars)
        /\ \A t \in Tasks : KeepsEnd(task[t], task'[t])

-----------------------------------------------------------------------------
(* The moves are steps of the promise.                                     *)

\* Several records settle, in one step.
LEMMA SettlingKeeps ==
    ASSUME TasksAreSound, task' \in [Tasks -> TaskRecord],
           \A t \in Tasks : Settles(task[t], task'[t])
    PROVE  Kept
  <1>. DEFINE going(f) == {t \in Tasks : Running(f[t])}
              waiting(f) == {t \in Tasks : f[t].told = "queued"}
              had(f) == {t \in Tasks : Heard(f[t])}
              S == going(task) \ going(task')
              R == waiting(task) \ waiting(task')
  <1>1. S \in SUBSET Tasks /\ R \in SUBSET Tasks /\ S \subseteq going(task) /\ R \subseteq waiting(task)
    OBVIOUS
  <1>2. going(task') = going(task) \ S
    BY DEF Settles
  <1>3. waiting(task') = waiting(task) \ R
    BY DEF Settles, Heard
  <1>4. had(task') = had(task) \cup R
    BY DEF Settles, Heard
  <1>5. {t \in Tasks : task'[t].byUser} = {t \in Tasks : task[t].byUser}
    BY DEF Settles
  <1>6. PICK A \in SUBSET Tasks, B \in SUBSET Tasks : A = S /\ B = R
    BY <1>1
  <1>. HIDE DEF S, R
  <1>7. Promise!Settle(A, B)
    BY <1>1, <1>2, <1>3, <1>4, <1>5, <1>6 DEF Promise!Settle, Heard
  <1>8. Promise!Next
    BY <1>7, Zenon DEF Promise!Next
  <1>. QED
    BY <1>8, Zenon DEF Kept, TasksAreSound, Settles

\* One record moves.
LEMMA MovingKeeps ==
    ASSUME TasksAreSound, NEW t \in Tasks, NEW r, task' = [task EXCEPT ![t] = r],
           Settles(task[t], r) \/ Starts(task[t], r) \/ Stops(task[t], r) \/ Reports(task[t], r)
    PROVE  Kept
  <1>. DEFINE x == task[t]
  <1>1. /\ RecordIsSound(x) /\ RecordIsSound(r) /\ r \in TaskRecord
        /\ \A u \in Tasks : RecordIsSound(task[u])
    BY DEF TasksAreSound, Settles, Starts, Stops, Reports, RecordIsSound
  <1>2. /\ task' \in [Tasks -> TaskRecord] /\ task'[t] = r
        /\ \A u \in Tasks : u # t => task'[u] = task[u]
    BY <1>1 DEF TasksAreSound
  <1>3. CASE Settles(x, r)
    <2>1. \A u \in Tasks : Settles(task[u], task[u])
      BY <1>1 DEF Settles, KeepsEnd
    <2>2. \A u \in Tasks : Settles(task[u], task'[u])
      BY <1>2, <1>3, <2>1
    <2>. QED
      BY <1>2, <2>2, SettlingKeeps, Zenon
  <1>4. ASSUME Starts(x, r) \/ Stops(x, r) \/ Reports(x, r)
        PROVE  Kept
    <2>1. KeepsEnd(x, r)
      BY <1>4 DEF Starts, Stops, Reports, KeepsEnd, Running
    <2>2. TasksAreSound' /\ \A u \in Tasks : KeepsEnd(task[u], task'[u])
      BY <1>1, <1>2, <2>1, Zenon DEF TasksAreSound, KeepsEnd
    <2>3. x.told = "no" /\ (x.byUser => ~Running(x)) /\ (Starts(x, r) => ~Running(x))
      BY <1>1, <1>4 DEF Starts, Stops, Reports, Running, RecordIsSound
    <2>4. CASE Starts(x, r)
      <3>1. Promise!Start(t)
        BY <1>2, <2>3, <2>4 DEF Promise!Start, Promise!Fresh, Starts
      <3>. QED
        BY <2>2, <3>1, Zenon DEF Kept, Promise!Next
    <2>5. CASE Stops(x, r)
      <3>1. Promise!Stop(t)
        BY <1>2, <2>3, <2>5 DEF Promise!Stop, Stops
      <3>. QED
        BY <2>2, <3>1, Zenon DEF Kept, Promise!Next
    <2>6. CASE Reports(x, r)
      <3>1. Promise!Report(t)
        BY <1>2, <2>3, <2>6 DEF Promise!Report, Promise!Reportable, Reports
      <3>. QED
        BY <2>2, <3>1, Zenon DEF Kept, Promise!Next
    <2>. QED
      BY <1>4, <2>4, <2>5, <2>6, Zenon
  <1>. QED
    BY <1>3, <1>4, Zenon

-----------------------------------------------------------------------------
(* What the helpers make of a record.                                      *)

\* An end is recorded once, and the process signalled.
LEMMA EndedIs ==
    ASSUME NEW x, RecordIsSound(x), NEW status \in {"completed", "failed", "cancelled"}
    PROVE  /\ Settles(x, Ended(x, status)) /\ Settles(x, Killed(Ended(x, status)))
           /\ x.status # "unused" => /\ Ended(x, status).status \notin {"unused", "running"}
                                     /\ Killed(Ended(x, status)).status \notin {"unused", "running"}
           /\ Ended(x, status).told = x.told /\ Killed(Ended(x, status)).told = x.told
           /\ Ended(x, status).at = x.at /\ Killed(Ended(x, status)).at = x.at
  <1>. DEFINE e == Ended(x, status)
              k == Killed(e)
  <1>1. x \in TaskRecord
    BY DEF RecordIsSound
  <1>2. /\ e \in TaskRecord /\ e.told = x.told /\ e.notified = x.notified
        /\ e.byUser = x.byUser /\ e.at = x.at /\ e.child = x.child
        /\ e.status = IF x.status = "running" THEN status ELSE x.status
    BY <1>1 DEF Ended, Running, TaskRecord
  <1>. HIDE DEF e
  <1>3. /\ k \in TaskRecord /\ k.told = e.told /\ k.notified = e.notified
        /\ k.byUser = e.byUser /\ k.status = e.status /\ k.at = e.at
        /\ k.child # "none" => e.child # "none"
    BY <1>2 DEF Killed, TaskRecord
  <1>. HIDE DEF k
  <1>4. RecordIsSound(e) /\ RecordIsSound(k)
    BY <1>2, <1>3 DEF RecordIsSound
  <1>5. Settles(x, e) /\ Settles(x, k)
    BY <1>2, <1>3, <1>4 DEF Settles, KeepsEnd, Running
  <1>. QED
    BY <1>2, <1>3, <1>5 DEF e, k

\* An end is reported, unless it was, or somebody asked for it.
LEMMA NotifyIs ==
    ASSUME NEW x, NEW y, Settles(x, y), y.status \notin {"unused", "running"}, y.told = x.told
    PROVE  Settles(x, NotifyTaskOnce(y)) \/ Reports(x, NotifyTaskOnce(y))
  <1>1. CASE ~y.notify \/ y.byUser \/ y.notified
    BY <1>1 DEF NotifyTaskOnce
  <1>2. CASE ~(~y.notify \/ y.byUser \/ y.notified)
    <2>. DEFINE h == Hearer(y)
                n == [y EXCEPT !.notified = TRUE, !.told = h]
    <2>1. h \in {"queued", "nobody"}
      BY DEF Hearer
    <2>2. n = NotifyTaskOnce(y)
      BY <1>2 DEF NotifyTaskOnce
    <2>3. /\ y \in TaskRecord /\ y.told = "no" /\ y.byUser = FALSE /\ x.byUser = y.byUser
          /\ KeepsEnd(x, y)
      BY <1>2 DEF Settles, RecordIsSound, TaskRecord
    <2>. HIDE DEF h
    <2>4. /\ n \in TaskRecord /\ n.told = h /\ n.notified = TRUE /\ n.byUser = y.byUser
          /\ n.status = y.status /\ n.child = y.child
      BY <2>1, <2>3 DEF TaskRecord
    <2>. HIDE DEF n
    <2>5. Reports(x, n)
      BY <2>1, <2>3, <2>4 DEF Reports, RecordIsSound, KeepsEnd, Running
    <2>. QED
      BY <2>2, <2>5
  <1>. QED
    BY <1>1, <1>2, Zenon

\* A record in which nothing changes that the promise is about settles.
LEMMA SameSettles ==
    ASSUME NEW x, RecordIsSound(x), NEW y \in TaskRecord, y.told = x.told,
           y.notified = x.notified, y.byUser = x.byUser, y.status = x.status,
           y.child # "none" => x.child # "none"
    PROVE  Settles(x, y)
  BY DEF RecordIsSound, Settles, KeepsEnd, Running

\* Moves that follow one another without a report.
LEMMA ThenSame ==
    ASSUME NEW x, NEW y, Settles(x, y), NEW z \in TaskRecord, z.told = y.told,
           z.notified = y.notified, z.byUser = y.byUser, z.status = y.status,
           z.child # "none" => y.child # "none"
    PROVE  Settles(x, z)
  BY DEF RecordIsSound, Settles, KeepsEnd, Running, Heard

\* A record that is not used yet.
LEMMA UnusedIs ==
    /\ RecordIsSound(Unused) /\ Unused \in TaskRecord
    /\ Unused.status = "unused" /\ Unused.told = "no" /\ Unused.byUser = FALSE
    /\ Unused.notified = FALSE /\ Unused.child = "none"
  <1>1. Unused \in TaskRecord
    BY Zenon DEF Unused, TaskRecord
  <1>2. /\ Unused.status = "unused" /\ Unused.told = "no" /\ Unused.byUser = FALSE
        /\ Unused.notified = FALSE /\ Unused.child = "none"
    BY DEF Unused
  <1>. QED
    BY <1>1, <1>2 DEF RecordIsSound

\* A command that has been started.
LEMMA NewTaskIs ==
    ASSUME NEW s \in Sessions, NEW tool \in {"bg_run", "bash"},
           NEW limited \in BOOLEAN, NEW notify \in BOOLEAN
    PROVE  /\ Starts(Unused, NewTask(s, tool, limited, notify))
           /\ NewTask(s, tool, limited, notify) \in TaskRecord
           /\ NewTask(s, tool, limited, notify).told = "no"
           /\ NewTask(s, tool, limited, notify).byUser = FALSE
           /\ NewTask(s, tool, limited, notify).notified = FALSE
  <1>. DEFINE at == IF tool = "bg_run" THEN "map" ELSE "turn"
              n == [Unused EXCEPT !.owner = s, !.tool = tool, !.status = "running",
                      !.child = "alive", !.at = at, !.limited = limited, !.notify = notify]
  <1>1. n = NewTask(s, tool, limited, notify)
    BY DEF NewTask
  <1>2. at \in {"map", "turn"}
    OBVIOUS
  <1>. HIDE DEF at
  <1>3. /\ n \in TaskRecord /\ n.status = "running" /\ n.told = Unused.told
        /\ n.byUser = Unused.byUser /\ n.notified = Unused.notified
    BY <1>2, UnusedIs DEF TaskRecord
  <1>. HIDE DEF n
  <1>4. Starts(Unused, n)
    BY <1>3, UnusedIs DEF Starts, RecordIsSound, Running
  <1>. QED
    BY <1>1, <1>3, <1>4, UnusedIs

-----------------------------------------------------------------------------
(* What the steps make of the records.                                     *)

\* bg_run and bash start a command.
LEMMA StartingKeeps ==
    ASSUME TasksAreSound, NEW s \in Sessions, NEW t \in Tasks,
           StartTask(s, t) \/ ExecuteCommand(s, t)
    PROVE  Kept
  <1>1. PICK tool \in {"bg_run", "bash"}, limited \in BOOLEAN, notify \in BOOLEAN :
             /\ task[t] = Unused
             /\ task' = [task EXCEPT ![t] = NewTask(s, tool, limited, notify)]
    BY DEF StartTask, ExecuteCommand
  <1>2. Starts(task[t], NewTask(s, tool, limited, notify))
    BY <1>1, NewTaskIs
  <1>. QED
    BY <1>1, <1>2, MovingKeeps

\* The shell cannot be started.
LEMMA StartFailsKeeps ==
    ASSUME TasksAreSound, NEW s \in Sessions, NEW t \in Tasks, StartFails(s, t)
    PROVE  Kept
  <1>1. PICK notify \in BOOLEAN, tool \in {"bg_run", "bash"} :
             /\ task[t] = Unused
             /\ LET r == [NewTask(s, tool, FALSE, notify) EXCEPT !.status = "failed", !.child = "closed"]
                IN  task' = [task EXCEPT ![t] = IF tool = "bg_run" THEN NotifyTaskOnce(r)
                                                ELSE [r EXCEPT !.at = "off"]]
    BY DEF StartFails
  <1>. DEFINE n == NewTask(s, tool, FALSE, notify)
              r == [n EXCEPT !.status = "failed", !.child = "closed"]
              o == [r EXCEPT !.at = "off"]
  <1>2. n \in TaskRecord /\ n.told = "no" /\ n.byUser = FALSE /\ n.notified = FALSE
    BY NewTaskIs
  <1>3. /\ task' = [task EXCEPT ![t] = IF tool = "bg_run" THEN NotifyTaskOnce(r) ELSE o]
        /\ task[t] = Unused
    BY <1>1
  <1>. HIDE DEF n
  <1>4. /\ r \in TaskRecord /\ r.told = n.told /\ r.byUser = n.byUser
        /\ r.notified = n.notified /\ r.status = "failed"
    BY <1>2 DEF TaskRecord
  <1>. HIDE DEF r
  <1>5. /\ o \in TaskRecord /\ o.told = r.told /\ o.byUser = r.byUser
        /\ o.notified = r.notified /\ o.status = r.status
    BY <1>4 DEF TaskRecord
  <1>. HIDE DEF o
  <1>6. Settles(Unused, r) /\ Settles(Unused, o)
    BY <1>2, <1>4, <1>5, UnusedIs DEF Settles, RecordIsSound, KeepsEnd, Running
  <1>7. Settles(Unused, NotifyTaskOnce(r)) \/ Reports(Unused, NotifyTaskOnce(r))
    BY <1>2, <1>4, <1>6, UnusedIs, NotifyIs
  <1>. QED
    BY <1>3, <1>6, <1>7, MovingKeeps

\* A command is killed by the user or by its agent.
LEMMA KillTaskKeeps ==
    ASSUME TasksAreSound, NEW t \in Tasks, KillTask(t)
    PROVE  Kept
  <1>. DEFINE x == task[t]
              k == Killed(Ended(x, "cancelled"))
              r == [k EXCEPT !.byUser = TRUE]
  <1>1. RecordIsSound(x) /\ Running(x) /\ task' = [task EXCEPT ![t] = r]
    BY DEF KillTask, TasksAreSound
  <1>2. /\ x \in TaskRecord /\ x.status = "running" /\ x.told = "no" /\ ~x.byUser
    BY <1>1 DEF RecordIsSound, Running
  <1>3. /\ Settles(x, k) /\ k.status \notin {"unused", "running"} /\ k.told = x.told
    BY <1>1, <1>2, EndedIs
  <1>4. k \in TaskRecord
    BY <1>3 DEF Settles, RecordIsSound
  <1>. HIDE DEF k, x
  <1>5. /\ r \in TaskRecord /\ r.byUser = TRUE /\ r.told = k.told /\ r.status = k.status
    BY <1>4 DEF TaskRecord
  <1>. HIDE DEF r
  <1>6. Stops(x, r)
    BY <1>1, <1>2, <1>3, <1>5 DEF Stops, RecordIsSound, Running
  <1>. QED
    BY <1>1, <1>6, MovingKeeps DEF x

\* The close handler of the process, whichever tool started it.
LEMMA ChildClosesKeeps ==
    ASSUME TasksAreSound, NEW t \in Tasks, ChildCloses(t)
    PROVE  Kept
  <1>1. PICK status \in {"completed", "failed"} :
             task' = [task EXCEPT ![t] = IF task[t].tool = "bg_run" THEN CloseStarted(t, status)
                                         ELSE CloseExecuted(t, status)]
    BY DEF ChildCloses
  <1>. DEFINE x == task[t]
  <1>2. RecordIsSound(x) /\ x \in TaskRecord /\ x.child = "ending"
    BY DEF ChildCloses, TasksAreSound, RecordIsSound
  <1>3. Settles(x, CloseStarted(t, status)) \/ Reports(x, CloseStarted(t, status))
    <2>. DEFINE r == [x EXCEPT !.child = "closed"]
                e == Ended(r, status)
                l == [e EXCEPT !.limited = FALSE]
    <2>1. /\ r \in TaskRecord /\ r.told = x.told /\ r.byUser = x.byUser
          /\ r.notified = x.notified /\ r.status = x.status
          /\ x.child # "none" /\ x.status # "unused"
      BY <1>2 DEF TaskRecord, RecordIsSound
    <2>2. CloseStarted(t, status) = IF Running(r) THEN NotifyTaskOnce(l) ELSE r
      BY DEF CloseStarted
    <2>. HIDE DEF r, x
    <2>3. Settles(x, r) /\ RecordIsSound(r)
      BY <1>2, <2>1, SameSettles DEF Settles
    <2>4. Settles(r, e) /\ e \in TaskRecord /\ e.told = r.told
      BY <2>3, EndedIs DEF Settles, RecordIsSound
    <2>. HIDE DEF e
    <2>5. /\ l \in TaskRecord /\ l.told = e.told /\ l.byUser = e.byUser
          /\ l.notified = e.notified /\ l.status = e.status /\ l.child = e.child
      BY <2>4 DEF TaskRecord
    <2>. HIDE DEF l
    <2>6. Running(r) => e.status \notin {"unused", "running"}
      BY <2>3, EndedIs DEF Running, e
    <2>7. Settles(x, l) /\ l.told = x.told
      BY <2>1, <2>3, <2>4, <2>5 DEF Settles, RecordIsSound, KeepsEnd, Running
    <2>. QED
      BY <2>2, <2>3, <2>5, <2>6, <2>7, NotifyIs
  <1>4. Settles(x, CloseExecuted(t, status)) \/ Reports(x, CloseExecuted(t, status))
    <2>. DEFINE r == [x EXCEPT !.child = "closed", !.limited = FALSE]
                e == Ended(r, status)
                o == [e EXCEPT !.at = "off"]
    <2>1. /\ r \in TaskRecord /\ r.told = x.told /\ r.byUser = x.byUser
          /\ r.notified = x.notified /\ r.status = x.status
          /\ x.child # "none" /\ x.status # "unused"
      BY <1>2 DEF TaskRecord, RecordIsSound
    <2>2. \/ CloseExecuted(t, status) = o
          \/ CloseExecuted(t, status) = e
          \/ CloseExecuted(t, status) = NotifyTaskOnce(e) /\ x.at \notin {"turn", "off"}
      BY DEF CloseExecuted
    <2>. HIDE DEF r, x
    <2>3. Settles(x, r) /\ RecordIsSound(r)
      BY <1>2, <2>1, SameSettles DEF Settles
    <2>4. Settles(r, e) /\ e \in TaskRecord /\ e.told = r.told
      BY <2>3, EndedIs DEF Settles, RecordIsSound
    <2>5. x.status # "unused" => e.status \notin {"unused", "running"}
      BY <2>1, <2>3, EndedIs
    <2>. HIDE DEF e
    <2>6. Settles(x, e) /\ e.told = x.told
      BY <2>1, <2>3, <2>4 DEF Settles, RecordIsSound, KeepsEnd, Running
    <2>7. /\ o \in TaskRecord /\ o.told = e.told /\ o.byUser = e.byUser
          /\ o.notified = e.notified /\ o.status = e.status /\ o.child = e.child
      BY <2>4 DEF TaskRecord
    <2>. HIDE DEF o
    <2>8. Settles(x, o)
      BY <2>6, <2>7, ThenSame
    <2>. QED
      BY <2>1, <2>2, <2>5, <2>6, <2>8, NotifyIs
  <1>. QED
    BY <1>1, <1>3, <1>4, MovingKeeps

\* The limit of a command in the background.
LEMMA LimitFiresKeeps ==
    ASSUME TasksAreSound, NEW t \in Tasks, LimitFires(t)
    PROVE  Kept
  <1>. DEFINE x == task[t]
              r == [x EXCEPT !.limited = FALSE]
              k == Killed(Ended(r, "failed"))
  <1>1. RecordIsSound(x) /\ x \in TaskRecord
    BY DEF TasksAreSound, RecordIsSound
  <1>2. /\ r \in TaskRecord /\ r.told = x.told /\ r.byUser = x.byUser
        /\ r.notified = x.notified /\ r.status = x.status /\ r.child = x.child
    BY <1>1 DEF TaskRecord
  <1>3. \E y \in {r, k, NotifyTaskOnce(k)} :
           task' = [task EXCEPT ![t] = y] /\ (y # r => Running(r))
    BY DEF LimitFires
  <1>. HIDE DEF r, x
  <1>4. Settles(x, r) /\ RecordIsSound(r)
    BY <1>1, <1>2, SameSettles DEF Settles
  <1>5. /\ Settles(r, k) /\ k.told = r.told
        /\ Running(r) => k.status \notin {"unused", "running"}
    BY <1>4, EndedIs DEF Running
  <1>. HIDE DEF k
  <1>6. Settles(x, k) /\ k.told = x.told
    BY <1>2, <1>4, <1>5 DEF Settles, KeepsEnd, Running
  <1>7. Running(r) => Settles(x, NotifyTaskOnce(k)) \/ Reports(x, NotifyTaskOnce(k))
    BY <1>5, <1>6, NotifyIs
  <1>8. PICK y : /\ task' = [task EXCEPT ![t] = y]
                 /\ Settles(x, y) \/ Reports(x, y)
    BY <1>3, <1>4, <1>6, <1>7
  <1>. QED
    BY <1>8, MovingKeeps DEF x

\* What a turn that waits for a command is told, without a report.
LEMMA TaskStepKeeps ==
    ASSUME TasksAreSound, NEW t \in Tasks, TaskStep(t)
    PROVE  Kept
  <1>. DEFINE x == task[t]
  <1>1. RecordIsSound(x) /\ x \in TaskRecord
    BY DEF TasksAreSound, RecordIsSound
  <1>2. CASE MoveToBackground(t)
    <2>. DEFINE r == [x EXCEPT !.at = "map"]
    <2>1. task' = [task EXCEPT ![t] = r]
      BY <1>2 DEF MoveToBackground
    <2>2. /\ r \in TaskRecord /\ r.told = x.told /\ r.byUser = x.byUser
          /\ r.notified = x.notified /\ r.status = x.status /\ r.child = x.child
      BY <1>1 DEF TaskRecord
    <2>. HIDE DEF r, x
    <2>3. Settles(x, r)
      BY <1>1, <2>2, SameSettles
    <2>. QED
      BY <2>1, <2>3, MovingKeeps DEF x
  <1>3. CASE ChildEnds(t)
    <2>. DEFINE r == [x EXCEPT !.child = "ending"]
    <2>1. task' = [task EXCEPT ![t] = r] /\ x.child = "alive"
      BY <1>3 DEF ChildEnds
    <2>2. /\ r \in TaskRecord /\ r.told = x.told /\ r.byUser = x.byUser
          /\ r.notified = x.notified /\ r.status = x.status
      BY <1>1 DEF TaskRecord
    <2>. HIDE DEF r, x
    <2>3. Settles(x, r)
      BY <1>1, <2>1, <2>2, SameSettles
    <2>. QED
      BY <2>1, <2>3, MovingKeeps DEF x
  <1>4. CASE ShortLimitFires(t)
    <2>. DEFINE k == Killed(Ended(x, "failed"))
                r == [k EXCEPT !.at = "off", !.limited = FALSE]
    <2>1. task' = [task EXCEPT ![t] = r]
      BY <1>4 DEF ShortLimitFires
    <2>2. Settles(x, k) /\ k \in TaskRecord
      BY <1>1, EndedIs DEF Settles, RecordIsSound
    <2>. HIDE DEF k, x
    <2>3. /\ r \in TaskRecord /\ r.told = k.told /\ r.byUser = k.byUser
          /\ r.notified = k.notified /\ r.status = k.status /\ r.child = k.child
      BY <2>2 DEF TaskRecord
    <2>. HIDE DEF r
    <2>4. Settles(x, r)
      BY <2>2, <2>3, ThenSame
    <2>. QED
      BY <2>1, <2>4, MovingKeeps DEF x
  <1>. QED
    BY <1>2, <1>3, <1>4, ChildClosesKeeps, LimitFiresKeeps, Zenon DEF TaskStep

\* The signal of a turn ends the command it waits for.
LEMMA AbortSettles ==
    ASSUME TasksAreSound, NEW s \in Sessions, NEW t \in Tasks
    PROVE  Settles(task[t], TaskAfterAbort(s)[t])
  <1>. DEFINE x == task[t]
              k == Killed(Ended(x, "cancelled"))
              r == [k EXCEPT !.at = "off"]
  <1>1. RecordIsSound(x)
    BY DEF TasksAreSound
  <1>2. Settles(x, k) /\ k \in TaskRecord
    BY <1>1, EndedIs DEF Settles, RecordIsSound
  <1>3. TaskAfterAbort(s)[t] \in {x, r}
    BY DEF TaskAfterAbort, Aborted
  <1>4. Settles(x, x)
    BY <1>1 DEF Settles, KeepsEnd
  <1>. HIDE DEF k, x
  <1>5. /\ r \in TaskRecord /\ r.told = k.told /\ r.byUser = k.byUser
        /\ r.notified = k.notified /\ r.status = k.status /\ r.child = k.child
    BY <1>2 DEF TaskRecord
  <1>. HIDE DEF r
  <1>6. Settles(x, r)
    BY <1>2, <1>5, ThenSame
  <1>. QED
    BY <1>3, <1>4, <1>6 DEF x

\* A report that waits is heard, or discarded.
LEMMA HearingSettles ==
    ASSUME NEW x, NEW y, Settles(x, y), y.told = "queued", x.told = "queued",
           NEW told \in {"read", "dropped"}
    PROVE  Settles(x, [y EXCEPT !.told = told])
  <1>. DEFINE z == [y EXCEPT !.told = told]
  <1>1. y \in TaskRecord /\ RecordIsSound(y)
    BY DEF Settles, RecordIsSound
  <1>2. /\ z \in TaskRecord /\ z.told = told /\ z.byUser = y.byUser
        /\ z.notified = y.notified /\ z.status = y.status /\ z.child = y.child
    BY <1>1 DEF TaskRecord
  <1>. HIDE DEF z
  <1>3. Settles(x, z)
    BY <1>1, <1>2 DEF Settles, RecordIsSound, KeepsEnd, Running, Heard
  <1>. QED
    BY <1>3 DEF z

\* A stop of the user: the command ends and the reports are discarded at once.
LEMMA StopKeeps ==
    ASSUME TasksAreSound, NEW s \in Sessions, Stop(s)
    PROVE  Kept
  <1>. DEFINE f == TaskAfterAbort(s)
  <1>1. task' = Dropped(f, s)
    BY DEF Stop
  <1>2. ASSUME NEW t \in Tasks
        PROVE  Settles(task[t], task'[t]) /\ task'[t] \in TaskRecord
    <2>1. Settles(task[t], f[t])
      BY AbortSettles
    <2>. HIDE DEF f
    <2>2. CASE f[t].told = "queued" /\ f[t].owner = s
      <3>1. task'[t] = [f[t] EXCEPT !.told = "dropped"]
        BY <1>1, <2>2 DEF Dropped
      <3>2. task[t].told = "queued"
        BY <2>1, <2>2 DEF Settles, Heard
      <3>3. Settles(task[t], [f[t] EXCEPT !.told = "dropped"])
        BY <2>1, <2>2, <3>2, HearingSettles
      <3>. QED
        BY <3>1, <3>3, Zenon DEF Settles, RecordIsSound
    <2>3. CASE ~(f[t].told = "queued" /\ f[t].owner = s)
      <3>1. task'[t] = f[t]
        BY <1>1, <2>3 DEF Dropped
      <3>. QED
        BY <2>1, <3>1 DEF Settles, RecordIsSound
    <2>. QED
      BY <2>2, <2>3
  <1>. HIDE DEF f
  <1>3. task' \in [Tasks -> TaskRecord]
    BY <1>1, <1>2 DEF Dropped
  <1>. QED
    BY <1>2, <1>3, SettlingKeeps

\* A despawn aborts the turn.
LEMMA AbortForDespawnKeeps ==
    ASSUME TasksAreSound, NEW s \in Sessions, AbortForDespawn(s)
    PROVE  Kept
  <1>1. task' = TaskAfterAbort(s)
    BY DEF AbortForDespawn
  <1>2. \A t \in Tasks : Settles(task[t], task'[t]) /\ task'[t] \in TaskRecord
    BY <1>1, AbortSettles DEF Settles, RecordIsSound
  <1>3. task' \in [Tasks -> TaskRecord]
    BY <1>1, <1>2 DEF TaskAfterAbort
  <1>. QED
    BY <1>2, <1>3, SettlingKeeps

\* pi takes up the reports that wait.
LEMMA TakeUpKeeps ==
    ASSUME TasksAreSound, NEW s \in Sessions, TakeUp(s)
    PROVE  Kept
  <1>1. task' = [t \in Tasks |-> IF t \in QueuedFor(s) THEN [task[t] EXCEPT !.told = "read"] ELSE task[t]]
    BY DEF TakeUp
  <1>2. ASSUME NEW t \in Tasks
        PROVE  Settles(task[t], task'[t]) /\ task'[t] \in TaskRecord
    <2>1. Settles(task[t], task[t])
      BY DEF TasksAreSound, Settles, KeepsEnd
    <2>2. CASE t \in QueuedFor(s)
      <3>1. task'[t] = [task[t] EXCEPT !.told = "read"] /\ task[t].told = "queued"
        BY <1>1, <2>2 DEF QueuedFor
      <3>2. Settles(task[t], [task[t] EXCEPT !.told = "read"])
        BY <2>1, <3>1, HearingSettles
      <3>. QED
        BY <3>1, <3>2, Zenon DEF Settles, RecordIsSound
    <2>3. CASE t \notin QueuedFor(s)
      BY <1>1, <2>1, <2>3 DEF Settles, RecordIsSound
    <2>. QED
      BY <2>2, <2>3
  <1>3. task' \in [Tasks -> TaskRecord]
    BY <1>1, <1>2
  <1>. QED
    BY <1>2, <1>3, SettlingKeeps

\* A reload kills and forgets every listed command.
LEMMA TeardownKeeps ==
    ASSUME TasksAreSound, Teardown
    PROVE  Kept
  <1>1. task' = Dispose
    BY DEF Teardown
  <1>2. ASSUME NEW t \in Tasks
        PROVE  Settles(task[t], task'[t]) /\ task'[t] \in TaskRecord
    <2>. DEFINE x == task[t]
                k == Killed(Ended(x, "cancelled"))
                r == [k EXCEPT !.at = "forgotten", !.limited = FALSE]
    <2>1. RecordIsSound(x)
      BY DEF TasksAreSound
    <2>2. Settles(x, k) /\ k \in TaskRecord
      BY <2>1, EndedIs DEF Settles, RecordIsSound
    <2>3. task'[t] \in {x, r}
      BY <1>1 DEF Dispose
    <2>4. Settles(x, x)
      BY <2>1 DEF Settles, KeepsEnd
    <2>. HIDE DEF k, x
    <2>5. /\ r \in TaskRecord /\ r.told = k.told /\ r.byUser = k.byUser
          /\ r.notified = k.notified /\ r.status = k.status /\ r.child = k.child
      BY <2>2 DEF TaskRecord
    <2>. HIDE DEF r
    <2>6. Settles(x, r)
      BY <2>2, <2>5, ThenSame
    <2>. QED
      BY <2>3, <2>4, <2>6 DEF x, Settles, RecordIsSound
  <1>3. task' \in [Tasks -> TaskRecord]
    BY <1>1, <1>2 DEF Dispose
  <1>. QED
    BY <1>2, <1>3, SettlingKeeps

\* The steps that touch no command.
LEMMA UntouchedKeeps ==
    ASSUME TasksAreSound, task' = task
    PROVE  Kept
  <1>1. \A t \in Tasks : Settles(task[t], task'[t])
    BY DEF TasksAreSound, Settles, KeepsEnd
  <1>. QED
    BY <1>1, SettlingKeeps DEF TasksAreSound

-----------------------------------------------------------------------------
(* Theorems.                                                               *)

\* Every step of the system is one of the promise, or none.
LEMMA StepKeeps ==
    ASSUME TasksAreSound, [Next]_vars
    PROVE  Kept
  <1>1. CASE Next
    <2>1. ASSUME NEW s \in Sessions,
                 \/ UserPrompt(s) \/ Begins(s) \/ Refused(s) \/ AgentEnds(s) \/ Despawn(s)
                 \/ Spawned(s) \/ SpawnFails(s) \/ Briefed(s) \/ BriefFails(s)
                 \/ FinishDespawn(s) \/ StopFindsNobody(s) \/ GoalSet(s) \/ GoalCleared(s)
                 \/ \E c \in Sessions : CallSubagent(s, c)
          PROVE  Kept
      <3>1. task' = task
        BY <2>1 DEF UserPrompt, Begins, Refused, Spawned, SpawnFails, Briefed, BriefFails,
                    AgentEnds, Despawn, FinishDespawn, StopFindsNobody, GoalSet, GoalCleared,
                    CallSubagent
      <3>. QED
        BY <3>1, UntouchedKeeps
    <2>2. ASSUME NEW s \in Sessions, TakeUp(s) \/ Stop(s) \/ AbortForDespawn(s)
          PROVE  Kept
      BY <2>2, TakeUpKeeps, StopKeeps, AbortForDespawnKeeps, Zenon
    <2>3. ASSUME NEW s \in Sessions, NEW t \in Tasks,
                 BgRun(s, t) \/ StartRefused(s, t) \/ Bash(s, t) \/ AgentKills(s, t)
          PROVE  Kept
      BY <2>3, StartingKeeps, StartFailsKeeps, KillTaskKeeps, Zenon
         DEF BgRun, StartRefused, Bash, AgentKills
    <2>4. ASSUME NEW t \in Tasks, TaskStep(t) \/ UserKills(t)
          PROVE  Kept
      BY <2>4, TaskStepKeeps, KillTaskKeeps, Zenon DEF UserKills
    <2>5. CASE Load
      BY <2>5, UntouchedKeeps, Zenon DEF Load
    <2>. QED
      BY <1>1, <2>1, <2>2, <2>3, <2>4, <2>5, TeardownKeeps, Zenon DEF Next
  <1>2. CASE UNCHANGED vars
    BY <1>2, UntouchedKeeps DEF vars
  <1>. QED
    BY <1>1, <1>2, Zenon

\* At the start there is no command.
LEMMA InitIsSound ==
    Init => TasksAreSound /\ Promise!Init
  <1>. SUFFICES ASSUME Init PROVE TasksAreSound /\ Promise!Init
    OBVIOUS
  <1>1. task = [t \in Tasks |-> Unused]
    BY DEF Init
  <1>2. TasksAreSound
    BY <1>1, UnusedIs DEF TasksAreSound
  <1>3. Promise!Init
    BY <1>1, UnusedIs DEF Promise!Init, Running
  <1>. QED
    BY <1>2, <1>3

\* However the handlers of a command fall, its session is told what TaskPromise
\* promises: of an end once, and of none that somebody asked for.
THEOREM TasksKeepThePromise == Spec => ReportsKeepThePromise
  <1>1. Init => TasksAreSound /\ Promise!Init
    BY InitIsSound
  <1>2. TasksAreSound /\ [Next]_vars => TasksAreSound' /\ [Promise!Next]_(Promise!vars)
    BY StepKeeps DEF Kept
  <1>. QED
    BY <1>1, <1>2, PTL DEF Spec, ReportsKeepThePromise, Promise!Spec

\* The end a command came to first is the one that stays.
THEOREM FirstEndStays == Spec => EndIsFinal
  <1>1. Init => TasksAreSound
    BY InitIsSound
  <1>2. TasksAreSound /\ [Next]_vars => TasksAreSound'
    BY StepKeeps DEF Kept
  <1>3. TasksAreSound /\ [Next]_vars =>
          [\A t \in Tasks :
             task[t].status \in {"completed", "failed", "cancelled"}
                 => task'[t].status = task[t].status]_vars
    BY StepKeeps, Zenon DEF Kept, KeepsEnd
  <1>. QED
    BY <1>1, <1>2, <1>3, PTL DEF Spec, EndIsFinal

-----------------------------------------------------------------------------
(* Turns.  Most steps leave the tree of sessions as it is: what they make  *)
(* of a turn is calm.                                                      *)

\* A turn x becomes y: nobody appears, and no call is made of a subagent.
Calm(x, y) ==
    /\ y \in Turn /\ y.level = x.level
    /\ y.state = "none" <=> x.state = "none"
    /\ y.stop # {} => y.state \in {"idle", "working"}
    /\ y.call \in {x.call, None} \cup Tasks
    /\ y.stage # "none" => /\ y.call = x.call /\ y.state = x.state
                           /\ \/ y.stage = x.stage
                              \/ x.stage \in {"briefing", "waiting"}
                                    /\ y.stage \in {"waiting", "stopping"}

\* A session that works, is about to, or was refused its turn.
AtIt(x) == x.state = "working" \/ x.prompt \in {"brief", "preparing"} \/ x.prompt = "failed"

\* Whether it is there and at it is as it was.
Same(x, y) == y.state = x.state /\ y.prompt = x.prompt

\* What the step owes besides.
RunsHold ==
    /\ task' \in [Tasks -> TaskRecord]
    /\ live' \in SUBSET live /\ up' \in BOOLEAN
    /\ run' \in [Sessions -> Runs] /\ row' \in [Sessions -> Row]
    /\ shown' \in SUBSET Sessions /\ goal' \in SUBSET Sessions
    /\ reloads' \in {"none", "gap", "done"} /\ stops' \in 0 .. MaxStops
    /\ run'[Root] # "running"
    /\ \A c \in live' : /\ turn'[c].state \in {"idle", "working"}
                        /\ up' /\ run'[c] = "running" => AtIt(turn'[c])
    /\ up' = up \/ \A s \in Sessions : turn[s].stage # "spawning"

\* The calm steps keep the invariant.
LEMMA CalmKeeps ==
    ASSUME Inductive, RunsHold, turn' \in [Sessions -> Turn],
           \A s \in Sessions : Calm(turn[s], turn'[s])
    PROVE  Inductive'
  <1>1. TypeOK'
    BY DEF Inductive, RunsAreSound, TypeOK, RunsHold
  <1>2. RunningIsWorking'
    BY DEF RunsHold, RunningIsWorking, AboutTo, NotStarted, AtIt, Working
  <1>3. live' \subseteq Sessions /\ Root \in Sessions
    BY RootIsASession DEF Inductive, RunsAreSound, TypeOK, RunsHold
  <1>4. \A p \in Sessions : turn'[p].stage # "none" =>
           /\ turn'[p].call = turn[p].call /\ turn[p].call \in Sessions \ {p, Root}
           /\ Working(p)'
    BY DEF Calm, Inductive, Tied, Working
  <1>5. ASSUME NEW p \in Sessions, turn'[p].stage \in {"briefing", "waiting", "stopping"}
        PROVE  turn'[turn'[p].call].state # "none"
    <2>1. turn[p].stage \in {"briefing", "waiting", "stopping"}
      BY <1>5 DEF Calm
    <2>2. turn[turn[p].call].state # "none"
      BY <2>1 DEF Inductive, Tied
    <2>. QED
      BY <1>4, <1>5, <2>2 DEF Calm
  <1>6. ASSUME NEW p \in Sessions, turn'[p].stage = "spawning"
        PROVE  /\ up' /\ MaySpawn(p)' /\ turn'[turn'[p].call].state = "none"
               /\ \A q \in Sessions \ {p} : turn'[q].call # turn'[p].call
    <2>1. turn[p].stage = "spawning" /\ turn[p].call \in Sessions
      BY <1>4, <1>6 DEF Calm
    <2>2. /\ up /\ turn[turn[p].call].state = "none" /\ MaySpawn(p)
          /\ \A q \in Sessions \ {p} : turn[q].call # turn[p].call
      BY <2>1 DEF Inductive, Tied
    <2>3. up'
      BY <2>1, <2>2 DEF RunsHold
    <2>4. turn'[turn'[p].call].state = "none"
      BY <1>4, <1>6, <2>1, <2>2 DEF Calm
    <2>5. MaySpawn(p)'
      BY <2>2 DEF Calm, MaySpawn, LevelOf
    <2>6. ASSUME NEW q \in Sessions \ {p}
          PROVE  turn'[q].call # turn'[p].call
      <3>1. turn'[q].call \in {turn[q].call, None} \cup Tasks
        BY DEF Calm
      <3>. QED
        BY <1>4, <1>6, <2>1, <2>2, <3>1, NamesApart
    <2>. QED
      BY <2>3, <2>4, <2>5, <2>6
  <1>7. Tied'
    <2>1. \A c \in live' : turn'[c].state \in {"idle", "working"}
      BY DEF RunsHold
    <2>2. run'[Root] # "running" /\ turn'[Root].state # "none"
      BY <1>3 DEF RunsHold, Calm, Inductive, Tied
    <2>3. \A s \in Sessions : turn'[s].stop # {} => turn'[s].state \in {"idle", "working"}
      BY DEF Calm
    <2>. QED
      BY <1>4, <1>5, <1>6, <2>1, <2>2, <2>3, Zenon DEF Tied
  <1>. QED
    BY <1>1, <1>2, <1>7 DEF Inductive, RunsAreSound

\* A turn as it stands, and what the steps make of it.
LEMMA CalmTurns ==
    ASSUME Inductive, NEW s \in Sessions
    PROVE  LET x == turn[s] IN
           /\ x \in Turn /\ Calm(x, x)
           /\ x.call = None => x.stage = "none"
           /\ x.call \in Tasks => x.stage = "none"
           /\ \A w \in {"none", "brief", "preparing", "failed"} :
                 /\ Calm(x, [x EXCEPT !.prompt = w])
                 /\ x.state = "idle" =>
                      Calm(x, [x EXCEPT !.state = "working", !.cancelled = FALSE,
                                        !.aborted = FALSE, !.prompt = w])
           /\ Calm(x, [x EXCEPT !.call = None, !.stage = "none", !.old = FALSE])
           /\ x.call \in Tasks => Calm(x, [x EXCEPT !.call = None])
           /\ x.call = None => \A t \in Tasks : Calm(x, [x EXCEPT !.call = t])
           /\ x.state \in {"idle", "working"} =>
                 /\ Calm(x, [x EXCEPT !.stop = {"user"}])
                 /\ Calm(x, [x EXCEPT !.stop = @ \cup {"parent"}])
           /\ \A old \in BOOLEAN : Calm(x, [x EXCEPT !.old = old])
           /\ x.call = None /\ x.state \in {"idle", "working"} =>
                 /\ Calm(x, [x EXCEPT !.state = "gone", !.prompt = "none", !.stop = {}])
                 /\ \A w \in {"idle", "working"} :
                      Calm(x, [x EXCEPT !.state = w, !.aborted = FALSE])
  <1>. DEFINE x == turn[s]
  <1>1. /\ x \in Turn
        /\ x.stop # {} => x.state \in {"idle", "working"}
        /\ x.stage # "none" => x.state = "working" /\ x.call \in Sessions
    BY DEF Inductive, RunsAreSound, TypeOK, Tied, Working
  <1>. HIDE DEF x
  <1>2. Calm(x, x)
    BY <1>1 DEF Calm
  <1>3. (x.call = None => x.stage = "none") /\ (x.call \in Tasks => x.stage = "none")
    BY <1>1, NamesApart
  <1>4. ASSUME x.state = "idle", NEW w \in {"none", "brief", "preparing", "failed"}
        PROVE  Calm(x, [x EXCEPT !.state = "working", !.cancelled = FALSE,
                                 !.aborted = FALSE, !.prompt = w])
    <2>. DEFINE y == [x EXCEPT !.state = "working", !.cancelled = FALSE,
                               !.aborted = FALSE, !.prompt = w]
    <2>1. /\ y \in Turn /\ y.state = "working" /\ y.level = x.level /\ y.stop = x.stop
          /\ y.call = x.call /\ y.stage = x.stage
      BY <1>1 DEF Turn
    <2>. HIDE DEF y
    <2>2. Calm(x, y)
      BY <1>1, <1>4, <2>1 DEF Calm
    <2>. QED
      BY <2>2 DEF y
  <1>12. ASSUME NEW w \in {"none", "brief", "preparing", "failed"}
         PROVE  Calm(x, [x EXCEPT !.prompt = w])
    <2>. DEFINE y == [x EXCEPT !.prompt = w]
    <2>1. /\ y \in Turn /\ y.state = x.state /\ y.level = x.level /\ y.stop = x.stop
          /\ y.call = x.call /\ y.stage = x.stage
      BY <1>1 DEF Turn
    <2>. HIDE DEF y
    <2>2. Calm(x, y)
      BY <1>1, <2>1 DEF Calm
    <2>. QED
      BY <2>2 DEF y
  <1>5. Calm(x, [x EXCEPT !.call = None, !.stage = "none", !.old = FALSE])
    <2>. DEFINE y == [x EXCEPT !.call = None, !.stage = "none", !.old = FALSE]
    <2>1. /\ y \in Turn /\ y.state = x.state /\ y.level = x.level /\ y.stop = x.stop
          /\ y.call = None /\ y.stage = "none"
      BY <1>1 DEF Turn, Stages
    <2>. HIDE DEF y
    <2>2. Calm(x, y)
      BY <1>1, <2>1 DEF Calm
    <2>. QED
      BY <2>2 DEF y
  <1>6. ASSUME NEW c \in Tasks \cup {None}, x.call \in Tasks \cup {None}
        PROVE  Calm(x, [x EXCEPT !.call = c])
    <2>. DEFINE y == [x EXCEPT !.call = c]
    <2>1. /\ y \in Turn /\ y.state = x.state /\ y.level = x.level /\ y.stop = x.stop
          /\ y.call = c /\ y.stage = x.stage
      BY <1>1 DEF Turn
    <2>. HIDE DEF y
    <2>2. Calm(x, y)
      BY <1>1, <1>3, <1>6, <2>1 DEF Calm
    <2>. QED
      BY <2>2 DEF y
  <1>7. ASSUME NEW by \in SUBSET {"user", "parent"}, x.state \in {"idle", "working"}
        PROVE  Calm(x, [x EXCEPT !.stop = by])
    <2>. DEFINE y == [x EXCEPT !.stop = by]
    <2>1. /\ y \in Turn /\ y.state = x.state /\ y.level = x.level
          /\ y.call = x.call /\ y.stage = x.stage
      BY <1>1 DEF Turn
    <2>. HIDE DEF y
    <2>2. Calm(x, y)
      BY <1>1, <1>7, <2>1 DEF Calm
    <2>. QED
      BY <2>2 DEF y
  <1>8. ASSUME NEW old \in BOOLEAN
        PROVE  Calm(x, [x EXCEPT !.old = old])
    <2>. DEFINE y == [x EXCEPT !.old = old]
    <2>1. /\ y \in Turn /\ y.state = x.state /\ y.level = x.level /\ y.stop = x.stop
          /\ y.call = x.call /\ y.stage = x.stage
      BY <1>1 DEF Turn
    <2>. HIDE DEF y
    <2>2. Calm(x, y)
      BY <1>1, <2>1 DEF Calm
    <2>. QED
      BY <2>2 DEF y
  <1>9. ASSUME x.call = None, x.state \in {"idle", "working"}
        PROVE  Calm(x, [x EXCEPT !.state = "gone", !.prompt = "none", !.stop = {}])
    <2>. DEFINE y == [x EXCEPT !.state = "gone", !.prompt = "none", !.stop = {}]
    <2>1. /\ y \in Turn /\ y.state = "gone" /\ y.level = x.level /\ y.stop = {}
          /\ y.call = x.call /\ y.stage = x.stage
      BY <1>1 DEF Turn
    <2>. HIDE DEF y
    <2>2. Calm(x, y)
      BY <1>1, <1>3, <1>9, <2>1 DEF Calm
    <2>. QED
      BY <2>2 DEF y
  <1>10. ASSUME x.call = None, x.state \in {"idle", "working"}, NEW w \in {"idle", "working"}
         PROVE  Calm(x, [x EXCEPT !.state = w, !.aborted = FALSE])
    <2>. DEFINE y == [x EXCEPT !.state = w, !.aborted = FALSE]
    <2>1. /\ y \in Turn /\ y.state = w /\ y.level = x.level /\ y.stop = x.stop
          /\ y.call = x.call /\ y.stage = x.stage
      BY <1>1 DEF Turn
    <2>. HIDE DEF y
    <2>2. Calm(x, y)
      BY <1>1, <1>3, <1>10, <2>1 DEF Calm
    <2>. QED
      BY <2>2 DEF y
  <1>11. ASSUME x.state \in {"idle", "working"}
         PROVE  /\ Calm(x, [x EXCEPT !.stop = {"user"}])
                /\ Calm(x, [x EXCEPT !.stop = @ \cup {"parent"}])
    <2>1. x.stop \cup {"parent"} \in SUBSET {"user", "parent"}
      BY <1>1 DEF Turn
    <2>. QED
      BY <1>7, <1>11, <2>1
  <1>. QED
    BY <1>1, <1>2, <1>3, <1>4, <1>5, <1>6, <1>8, <1>9, <1>10, <1>11, <1>12 DEF x

\* What only takes a turn out of its call leaves it otherwise the same.
LEMMA SameTurns ==
    ASSUME NEW x \in Turn
    PROVE  /\ Same(x, x) /\ Same(x, [x EXCEPT !.call = None])
           /\ Same(x, [x EXCEPT !.call = None, !.stage = "none", !.old = FALSE])
  BY DEF Turn, Same

\* A step that writes the turn of one session.
LEMMA OneTurnKeeps ==
    ASSUME Inductive, RunsHold, NEW s \in Sessions, NEW y, Calm(turn[s], y),
           turn' = [turn EXCEPT ![s] = y]
    PROVE  Inductive'
  <1>1. turn \in [Sessions -> Turn] /\ y \in Turn
    BY DEF Inductive, RunsAreSound, TypeOK, Calm
  <1>2. turn' \in [Sessions -> Turn]
    BY <1>1
  <1>3. \A q \in Sessions : Calm(turn[q], turn'[q])
    BY <1>1, CalmTurns
  <1>. QED
    BY <1>2, <1>3, CalmKeeps

\* A step that writes no turn.
LEMMA NoTurnKeeps ==
    ASSUME Inductive, RunsHold, turn' = turn
    PROVE  Inductive'
  BY CalmTurns, CalmKeeps DEF Inductive, RunsAreSound, TypeOK

\* What most steps leave as it is.
LEMMA NoRunHolds ==
    ASSUME Inductive, task' \in [Tasks -> TaskRecord], stops' \in 0 .. MaxStops,
           goal' \in SUBSET Sessions, UNCHANGED <<live, up, run, row, shown, reloads>>,
           \A c \in live : turn'[c].state \in {"idle", "working"}
                           /\ (AtIt(turn[c]) => AtIt(turn'[c]))
    PROVE  RunsHold
  BY DEF Inductive, RunsAreSound, TypeOK, Tied, RunsHold, RunningIsWorking, AboutTo, NotStarted, AtIt, Working

\* One more turn that starts, and what is left of a prompt.
LEMMA StartsTurnIs ==
    ASSUME Inductive, NEW s \in Sessions, turn[s].state = "idle", NEW z,
           z = StartsTurn(s) \/ z = [StartsTurn(s) EXCEPT ![s].prompt = "none"]
    PROVE  \E y : Calm(turn[s], y) /\ y.state = "working" /\ z = [turn EXCEPT ![s] = y]
  <1>1. turn \in [Sessions -> Turn] /\ turn[s] \in Turn
    BY DEF Inductive, RunsAreSound, TypeOK
  <1>. DEFINE w == IF turn[s].prompt = "failed" THEN "none" ELSE turn[s].prompt
              y(v) == [turn[s] EXCEPT !.state = "working", !.cancelled = FALSE,
                                      !.aborted = FALSE, !.prompt = v]
  <1>2. w \in {"none", "brief", "preparing", "failed"}
    BY <1>1 DEF Turn
  <1>3. StartsTurn(s) = [turn EXCEPT ![s] = y(w)]
    BY <1>1 DEF StartsTurn
  <1>. HIDE DEF w
  <1>4. [StartsTurn(s) EXCEPT ![s].prompt = "none"] = [turn EXCEPT ![s] = y("none")]
    BY <1>1, <1>3
  <1>5. /\ Calm(turn[s], y(w)) /\ y(w).state = "working"
        /\ Calm(turn[s], y("none")) /\ y("none").state = "working"
    <2>1. Calm(turn[s], y(w)) /\ Calm(turn[s], y("none"))
      BY <1>2, CalmTurns
    <2>2. y(w).state = "working" /\ y("none").state = "working"
      BY <1>1 DEF Turn
    <2>. QED
      BY <2>1, <2>2
  <1>. QED
    BY <1>3, <1>4, <1>5

\* A step on one turn that leaves the tree as it is, and at most starts a run
\* of the session whose turn it is, which is at it then.
LEMMA AtItKeeps ==
    ASSUME Inductive, task' \in [Tasks -> TaskRecord], NEW s \in Sessions, NEW y,
           Calm(turn[s], y), turn' = [turn EXCEPT ![s] = y],
           AtIt(turn[s]) => AtIt(y), turn[s].state \in {"idle", "working"},
           y.state \in {"idle", "working"},
           UNCHANGED <<live, up, row, shown, reloads>>,
           stops' \in 0 .. MaxStops, goal' \in SUBSET Sessions,
           run' = run \/ (s # Root /\ AtIt(y) /\ run' = [run EXCEPT ![s] = "running"])
    PROVE  Inductive'
  <1>1. /\ turn \in [Sessions -> Turn] /\ run \in [Sessions -> Runs]
        /\ live \subseteq Sessions
    BY DEF Inductive, RunsAreSound, TypeOK
  <1>2. turn'[s] = y /\ \A c \in Sessions : c # s => turn'[c] = turn[c]
    BY <1>1
  <1>3. /\ run' \in [Sessions -> Runs] /\ run'[Root] # "running"
        /\ \A c \in Sessions : c # s => run'[c] = run[c]
        /\ run'[s] = run[s] \/ AtIt(y)
    BY <1>1, RootIsASession DEF Runs, Inductive, Tied
  <1>4. \A c \in live : /\ turn[c].state \in {"idle", "working"}
                        /\ up /\ run[c] = "running" => AtIt(turn[c])
    BY DEF Inductive, RunsAreSound, RunningIsWorking, AboutTo, NotStarted, AtIt, Tied, Working
  <1>5. \A c \in live' : /\ turn'[c].state \in {"idle", "working"}
                         /\ up' /\ run'[c] = "running" => AtIt(turn'[c])
    BY <1>1, <1>2, <1>3, <1>4
  <1>6. /\ live' = live /\ live' \in SUBSET live /\ up' = up /\ up' \in BOOLEAN
        /\ row' \in [Sessions -> Row]
        /\ shown' \in SUBSET Sessions /\ reloads' \in {"none", "gap", "done"}
    BY DEF Inductive, RunsAreSound, TypeOK
  <1>7. RunsHold
    BY <1>3, <1>5, <1>6, Zenon DEF RunsHold
  <1>. QED
    BY <1>7, OneTurnKeeps

\* The user prompts, and the turn begins or is refused; pi takes reports up, or
\* a goal is set.
LEMMA PromptKeeps ==
    ASSUME Inductive, task' \in [Tasks -> TaskRecord], NEW s \in Sessions,
           UserPrompt(s) \/ Begins(s) \/ Refused(s) \/ TakeUp(s) \/ GoalSet(s)
    PROVE  Inductive'
  <1>1. /\ UNCHANGED <<live, up, row, shown, reloads>>
        /\ stops' \in 0 .. MaxStops /\ goal' \in SUBSET Sessions
        /\ turn[s].state \in {"idle", "working"}
    BY StopBound DEF UserPrompt, Begins, Refused, TakeUp, GoalSet, There,
                     Inductive, RunsAreSound, TypeOK
  <1>2. turn \in [Sessions -> Turn] /\ turn[s] \in Turn
    BY DEF Inductive, RunsAreSound, TypeOK
  <1>3. turn = [turn EXCEPT ![s] = turn[s]] /\ Calm(turn[s], turn[s])
    BY <1>2, CalmTurns
  <1>4. CASE turn' = turn /\ run' = run
    BY <1>1, <1>3, <1>4, AtItKeeps
  <1>5. ASSUME turn[s].state = "idle", run' = run,
               turn' = StartsTurn(s) \/ turn' = [StartsTurn(s) EXCEPT ![s].prompt = "none"]
        PROVE  Inductive'
    <2>1. PICK y : Calm(turn[s], y) /\ y.state = "working" /\ turn' = [turn EXCEPT ![s] = y]
      BY <1>5, StartsTurnIs
    <2>2. AtIt(y)
      BY <2>1 DEF AtIt
    <2>. QED
      BY <1>1, <1>5, <2>1, <2>2, AtItKeeps
  <1>6. ASSUME NEW w \in {"none", "brief", "preparing", "failed"},
               turn' = [turn EXCEPT ![s].prompt = w], turn[s].state = "working" \/ w # "none",
               run' = run \/ (s # Root /\ run' = [run EXCEPT ![s] = "running"])
        PROVE  Inductive'
    <2>. DEFINE y == [turn[s] EXCEPT !.prompt = w]
    <2>1. turn' = [turn EXCEPT ![s] = y] /\ y.state = turn[s].state /\ y.prompt = w
      BY <1>2, <1>6 DEF Turn
    <2>2. Calm(turn[s], y)
      BY CalmTurns
    <2>. HIDE DEF y
    <2>3. AtIt(y)
      BY <1>6, <2>1 DEF AtIt
    <2>. QED
      BY <1>1, <1>6, <2>1, <2>2, <2>3, AtItKeeps
  <1>7. CASE UserPrompt(s)
    <2>1. run' = run \/ (s # Root /\ run' = [run EXCEPT ![s] = "running"])
      BY <1>7 DEF UserPrompt, Submits, Child
    <2>2. CASE Working(s)
      <3>1. turn' = turn /\ AtIt(turn[s])
        BY <1>7, <2>2 DEF UserPrompt, Submits, Working, AtIt
      <3>. QED
        BY <1>1, <1>3, <2>1, <3>1, AtItKeeps
    <2>3. CASE ~Working(s)
      <3>1. turn' = [turn EXCEPT ![s].prompt = "preparing"]
        BY <1>7, <2>3 DEF UserPrompt, Submits
      <3>. QED
        BY <1>6, <2>1, <3>1
    <2>. QED
      BY <2>2, <2>3
  <1>8. CASE Begins(s)
    BY <1>5, <1>8 DEF Begins
  <1>9. CASE Refused(s)
    <2>. DEFINE w == IF Working(s) THEN "none" ELSE "failed"
    <2>1. turn' = [turn EXCEPT ![s].prompt = w] /\ run' = run
      BY <1>9 DEF Refused
    <2>2. w \in {"none", "brief", "preparing", "failed"} /\ (turn[s].state = "working" \/ w # "none")
      BY DEF Working
    <2>. HIDE DEF w
    <2>. QED
      BY <1>6, <2>1, <2>2
  <1>10. CASE TakeUp(s)
    BY <1>1, <1>4, <1>5, <1>10 DEF TakeUp, Working
  <1>11. CASE GoalSet(s)
    BY <1>1, <1>4, <1>5, <1>11 DEF GoalSet, Working
  <1>. QED
    BY <1>7, <1>8, <1>9, <1>10, <1>11

\* A command is started, answered, ended or stopped by hand: at most the turn
\* that waits for it goes on.
LEMMA CommandKeeps ==
    ASSUME Inductive, task' \in [Tasks -> TaskRecord], NEW t \in Tasks,
           \/ TaskStep(t) \/ UserKills(t)
           \/ \E s \in Sessions :
                BgRun(s, t) \/ StartRefused(s, t) \/ Bash(s, t) \/ AgentKills(s, t)
    PROVE  Inductive'
  <1>1. /\ UNCHANGED <<live, up, run, row, shown, goal, reloads>>
        /\ stops' \in 0 .. MaxStops /\ goal' \in SUBSET Sessions
    BY StopBound DEF TaskStep, UserKills, BgRun, StartRefused, Bash, AgentKills, own,
                     Inductive, RunsAreSound, TypeOK
  <1>2. turn \in [Sessions -> Turn] /\ live \subseteq Sessions
    BY DEF Inductive, RunsAreSound, TypeOK
  <1>3. \A s \in Sessions : Calm(turn[s], turn'[s]) /\ Same(turn[s], turn'[s])
    <2>1. CASE turn' = turn
      BY <2>1, CalmTurns DEF Same
    <2>2. CASE turn' = [s \in Sessions |-> IF turn[s].call = t
                           THEN [turn[s] EXCEPT !.call = None] ELSE turn[s]]
      BY <1>2, <2>2, CalmTurns, SameTurns
    <2>3. ASSUME NEW s \in Sessions, Bash(s, t)
          PROVE  \A q \in Sessions : Calm(turn[q], turn'[q]) /\ Same(turn[q], turn'[q])
      <3>1. turn[s].call = None /\ turn' = [turn EXCEPT ![s] = [turn[s] EXCEPT !.call = t]]
        BY <1>2, <2>3 DEF Bash, Between
      <3>2. Calm(turn[s], [turn[s] EXCEPT !.call = t])
            /\ Same(turn[s], [turn[s] EXCEPT !.call = t])
        BY <1>2, <3>1, CalmTurns DEF Turn, Same
      <3>. QED
        BY <1>2, <3>1, <3>2, CalmTurns DEF Same
    <2>. QED
      BY <2>1, <2>2, <2>3
         DEF TaskStep, TurnsAfter, UserKills, BgRun, StartRefused, AgentKills, own
  <1>4. turn' \in [Sessions -> Turn]
    <2>1. \A s \in Sessions : turn'[s] \in Turn
      BY <1>3 DEF Calm
    <2>2. turn' = [s \in Sessions |-> turn'[s]]
      BY <1>2 DEF TaskStep, TurnsAfter, UserKills, BgRun, StartRefused, Bash, AgentKills, own
    <2>. QED
      BY <2>1, <2>2
  <1>5. RunsHold
    BY <1>1, <1>2, <1>3, NoRunHolds DEF Inductive, Tied, Same, AtIt
  <1>. QED
    BY <1>3, <1>4, <1>5, CalmKeeps

\* A turn ends: its run is settled and its waiters go on.
LEMMA AgentEndsKeeps ==
    ASSUME Inductive, task' \in [Tasks -> TaskRecord], NEW s \in Sessions, AgentEnds(s)
    PROVE  Inductive'
  <1>. DEFINE w == IF Reprompts(s) THEN "working" ELSE "idle"
  <1>1. /\ turn[s].state = "working" /\ turn[s].call = None
        /\ run' = RunAfter(s)
        /\ UNCHANGED <<live, up, row, shown, goal, reloads, stops>>
        /\ turn' = [q \in Sessions |->
              IF q = s THEN [turn[s] EXCEPT !.state = w, !.aborted = FALSE]
              ELSE IF q \in Waiter(s)
                   THEN [turn[q] EXCEPT !.call = None, !.stage = "none", !.old = FALSE]
              ELSE turn[q]]
    BY Zenon DEF AgentEnds, Working
  <1>2. w \in {"idle", "working"}
    OBVIOUS
  <1>. HIDE DEF w
  <1>3. /\ turn \in [Sessions -> Turn] /\ live \subseteq Sessions
        /\ live' = live /\ live' \in SUBSET live /\ up' = up /\ up' \in BOOLEAN
        /\ row' \in [Sessions -> Row] /\ shown' \in SUBSET Sessions
        /\ goal' \in SUBSET Sessions /\ reloads' \in {"none", "gap", "done"}
        /\ stops' \in 0 .. MaxStops /\ task' \in [Tasks -> TaskRecord]
    BY <1>1 DEF Inductive, RunsAreSound, TypeOK
  <1>4. \A q \in Sessions : Calm(turn[q], turn'[q])
    BY <1>1, <1>2, CalmTurns
  <1>5. /\ turn'[s].state = w
        /\ \A q \in Sessions : q # s => Same(turn[q], turn'[q])
    <2>1. turn'[s].state = w
      BY <1>1, <1>2, <1>3 DEF Turn
    <2>2. \A q \in Sessions : q # s => Same(turn[q], turn'[q])
      BY <1>1, <1>3, SameTurns
    <2>. QED
      BY <2>1, <2>2
  <1>6. run' \in [Sessions -> Runs] /\ run'[Root] # "running"
        /\ ~(up /\ run'[s] = "running")
        /\ \A c \in Sessions : c # s => run'[c] = run[c]
    BY <1>1, RootIsASession DEF RunAfter, Child, Inductive, RunsAreSound, TypeOK, Runs, Tied
  <1>7. \A c \in live' : /\ turn'[c].state \in {"idle", "working"}
                         /\ up' /\ run'[c] = "running" => AtIt(turn'[c])
    <2>1. \A c \in live : /\ turn[c].state \in {"idle", "working"}
                          /\ up /\ run[c] = "running" => AtIt(turn[c])
      BY DEF Inductive, RunsAreSound, RunningIsWorking, AboutTo, NotStarted, AtIt, Tied, Working
    <2>2. live' = live /\ live \subseteq Sessions /\ up' = up
      BY <1>3
    <2>. QED
      BY <1>2, <1>5, <1>6, <2>1, <2>2 DEF Same, AtIt
  <1>8. RunsHold
    BY <1>3, <1>6, <1>7, Zenon DEF RunsHold
  <1>9. turn' \in [Sessions -> Turn]
    BY <1>1, <1>4 DEF Calm
  <1>. QED
    BY <1>4, <1>8, <1>9, CalmKeeps

\* The signal of a turn leaves everybody where they are.
LEMMA StoppedIsCalm ==
    ASSUME Inductive, NEW s \in Sessions
    PROVE  \A q \in Sessions : /\ Calm(turn[q], Stopped(s)[q])
                               /\ Same(turn[q], Stopped(s)[q])
  <1>1. turn \in [Sessions -> Turn]
    BY DEF Inductive, RunsAreSound, TypeOK
  <1>. DEFINE x == turn[s]
              call  == IF x.call \in Tasks THEN None ELSE x.call
              stage == IF x.stage = "waiting" THEN "stopping" ELSE x.stage
              y == [x EXCEPT !.aborted = TRUE, !.call = call, !.stage = stage]
  <1>2. Calm(x, y) /\ Same(x, y)
    <2>1. x \in Turn /\ Calm(x, x) /\ (x.call \in Tasks => x.stage = "none")
      BY CalmTurns
    <2>2. call \in {x.call, None} /\ call \in Tasks \cup Sessions \cup {None} /\ stage \in Stages
      BY <2>1 DEF Turn, Stages
    <2>3. stage # "none" => /\ call = x.call
                            /\ \/ stage = x.stage
                               \/ x.stage = "waiting" /\ stage = "stopping"
      BY <2>1
    <2>. HIDE DEF x, call, stage
    <2>4. /\ y \in Turn /\ y.state = x.state /\ y.level = x.level /\ y.stop = x.stop
          /\ y.call = call /\ y.stage = stage /\ y.prompt = x.prompt
      BY <2>1, <2>2 DEF Turn
    <2>. HIDE DEF y
    <2>5. Calm(x, y)
      BY <2>1, <2>2, <2>3, <2>4 DEF Calm
    <2>. QED
      BY <2>4, <2>5 DEF Same
  <1>3. Stopped(s)[s] = y
    BY DEF Stopped
  <1>4. ASSUME NEW q \in Sessions, q # s
        PROVE  /\ Calm(turn[q], Stopped(s)[q])
               /\ Same(turn[q], Stopped(s)[q])
    <2>1. CASE q = turn[s].call /\ turn[s].stage = "waiting" /\ turn[q].state # "gone"
      <3>1. turn[q].state \in {"idle", "working"}
        BY <1>1, <2>1 DEF Inductive, Tied, Turn
      <3>2. Calm(turn[q], [turn[q] EXCEPT !.stop = @ \cup {"parent"}])
            /\ Same(turn[q], [turn[q] EXCEPT !.stop = @ \cup {"parent"}])
        BY <1>1, <3>1, CalmTurns DEF Turn, Same
      <3>3. Stopped(s)[q] \in {[turn[q] EXCEPT !.stop = @ \cup {"parent"}], turn[q]}
        BY <1>4 DEF Stopped
      <3>. QED
        BY <3>2, <3>3, CalmTurns DEF Same
    <2>2. CASE ~(q = turn[s].call /\ turn[s].stage = "waiting" /\ turn[q].state # "gone")
      <3>1. Stopped(s)[q] = turn[q]
        BY <1>4, <2>2 DEF Stopped
      <3>. QED
        BY <3>1, CalmTurns DEF Same
    <2>. QED
      BY <2>1, <2>2
  <1>. QED
    BY <1>2, <1>3, <1>4

\* The user's stop, or a despawn, aborts a turn.
LEMMA AbortKeeps ==
    ASSUME Inductive, task' \in [Tasks -> TaskRecord], NEW s \in Sessions,
           Stop(s) \/ AbortForDespawn(s)
    PROVE  Inductive'
  <1>. DEFINE f == Stopped(s)
              y == [f[s] EXCEPT !.cancelled = TRUE]
  <1>1. /\ \A q \in Sessions : Calm(turn[q], f[q]) /\ Same(turn[q], f[q])
        /\ f \in [Sessions -> Turn]
    <2>1. \A q \in Sessions : Calm(turn[q], f[q]) /\ Same(turn[q], f[q])
      BY StoppedIsCalm
    <2>2. f = [q \in Sessions |-> f[q]]
      BY DEF Stopped
    <2>. QED
      BY <2>1, <2>2 DEF Calm
  <1>2. /\ turn' = f \/ turn' = [f EXCEPT ![s].cancelled = TRUE]
        /\ UNCHANGED <<live, up, run, row, shown, goal, reloads>>
        /\ stops' \in 0 .. MaxStops /\ goal' \in SUBSET Sessions
    BY StopBound DEF Stop, AbortForDespawn, Inductive, RunsAreSound, TypeOK
  <1>. HIDE DEF f
  <1>3. Calm(turn[s], y) /\ Same(turn[s], y) /\ y \in Turn
    <2>1. /\ y \in Turn /\ y.state = f[s].state /\ y.prompt = f[s].prompt /\ y.level = f[s].level /\ y.stop = f[s].stop
          /\ y.call = f[s].call /\ y.stage = f[s].stage
      BY <1>1 DEF Turn
    <2>. HIDE DEF y
    <2>. QED
      BY <1>1, <2>1 DEF Calm, Same
  <1>4. \A q \in Sessions : Calm(turn[q], turn'[q]) /\ Same(turn[q], turn'[q])
    BY <1>1, <1>2, <1>3
  <1>5. turn' \in [Sessions -> Turn]
    BY <1>1, <1>2, <1>3
  <1>6. RunsHold
    BY <1>2, <1>4, NoRunHolds DEF Inductive, RunsAreSound, TypeOK, Tied, Same, AtIt
  <1>. QED
    BY <1>4, <1>5, <1>6, CalmKeeps

\* A despawn begins, or a goal is cleared.
LEMMA DespawnKeeps ==
    ASSUME Inductive, task' \in [Tasks -> TaskRecord], NEW s \in Sessions,
           Despawn(s) \/ GoalCleared(s)
    PROVE  Inductive'
  <1>1. turn \in [Sessions -> Turn] /\ live \subseteq Sessions
    BY DEF Inductive, RunsAreSound, TypeOK
  <1>2. CASE Despawn(s)
    <2>. DEFINE y == [turn[s] EXCEPT !.stop = {"user"}]
    <2>1. turn' = [turn EXCEPT ![s] = y] /\ turn[s].state \in {"idle", "working"}
      BY <1>2 DEF Despawn, There
    <2>2. Calm(turn[s], y) /\ Same(turn[s], y)
      BY <1>1, <2>1, CalmTurns DEF Turn, Same
    <2>3. \A c \in live : Same(turn[c], turn'[c])
      BY <1>1, <2>1, <2>2 DEF Same
    <2>4. RunsHold
      BY <1>2, <2>3, NoRunHolds DEF Despawn, Inductive, RunsAreSound, TypeOK, Tied, Same, AtIt
    <2>. QED
      BY <2>1, <2>2, <2>4, OneTurnKeeps
  <1>3. CASE GoalCleared(s)
    <2>1. /\ turn' = turn /\ stops' \in 0 .. MaxStops /\ goal' \in SUBSET Sessions
          /\ UNCHANGED <<live, up, run, row, shown, reloads>>
      BY <1>3, StopBound DEF GoalCleared, Inductive, RunsAreSound, TypeOK
    <2>2. RunsHold
      BY <2>1, NoRunHolds DEF Inductive, Tied
    <2>. QED
      BY <2>1, <2>2, NoTurnKeeps
  <1>. QED
    BY <1>2, <1>3

\* A session is gone, and whoever stops it goes on.
LEMMA FinishDespawnKeeps ==
    ASSUME Inductive, task' \in [Tasks -> TaskRecord], NEW c \in Sessions, FinishDespawn(c)
    PROVE  Inductive'
  <1>1. /\ turn[c].stop # {} /\ turn[c].call = None
        /\ live' = live \ {c} /\ UNCHANGED <<up, goal, reloads, stops>>
        /\ turn' = [q \in Sessions |->
              IF q = c THEN [turn[c] EXCEPT !.state = "gone", !.prompt = "none", !.stop = {}]
              ELSE IF turn[q].call = c /\ turn[q].stage = "stopping"
                   THEN [turn[q] EXCEPT !.call = None, !.stage = "none", !.old = FALSE]
              ELSE turn[q]]
    BY Zenon DEF FinishDespawn
  <1>2. turn[c].state \in {"idle", "working"}
    BY <1>1 DEF Inductive, Tied
  <1>3. /\ turn \in [Sessions -> Turn] /\ live \subseteq Sessions
        /\ live' \in SUBSET live /\ up' = up /\ up' \in BOOLEAN
        /\ goal' \in SUBSET Sessions /\ reloads' \in {"none", "gap", "done"}
        /\ stops' \in 0 .. MaxStops /\ task' \in [Tasks -> TaskRecord]
    BY <1>1 DEF Inductive, RunsAreSound, TypeOK
  <1>4. /\ run' \in [Sessions -> Runs] /\ row' \in [Sessions -> Row]
        /\ shown' \in SUBSET Sessions
        /\ run' = run \/ run' = [run EXCEPT ![c] = "stopped"]
    <2>1. /\ run \in [Sessions -> Runs] /\ row \in [Sessions -> Row]
          /\ shown \in SUBSET Sessions
      BY DEF Inductive, RunsAreSound, TypeOK
    <2>2. CASE "parent" \in turn[c].stop
      <3>1. [status |-> "open", anchor |-> FALSE] \in Row /\ "stopped" \in Runs
        BY DEF Row, Runs
      <3>2. /\ run' = [run EXCEPT ![c] = "stopped"]
            /\ row' = [row EXCEPT ![c] = [status |-> "open", anchor |-> FALSE]]
            /\ shown' = shown \cup {c}
        BY <2>2, Zenon DEF FinishDespawn, MarkStopped
      <3>. QED
        BY <2>1, <3>1, <3>2
    <2>3. CASE "parent" \notin turn[c].stop
      <3>1. row[c] \in Row /\ [row[c] EXCEPT !.status = "closed"] \in Row
        BY <2>1 DEF Row
      <3>2. /\ run' = run /\ shown' = shown \ {c}
            /\ row' = [row EXCEPT ![c] = [row[c] EXCEPT !.status = "closed"]]
        BY <2>1, <2>3 DEF FinishDespawn
      <3>. QED
        BY <2>1, <3>1, <3>2
    <2>. QED
      BY <2>2, <2>3
  <1>5. \A q \in Sessions : Calm(turn[q], turn'[q])
    BY <1>1, <1>2, CalmTurns
  <1>6. turn' \in [Sessions -> Turn]
    BY <1>1, <1>5 DEF Calm
  <1>7. \A q \in Sessions : q # c => Same(turn[q], turn'[q])
    BY <1>1, <1>3, SameTurns
  <1>8. /\ run'[Root] # "running"
        /\ \A q \in Sessions : run'[q] = "running" => run[q] = "running"
    BY <1>4, RootIsASession DEF Inductive, RunsAreSound, TypeOK, Tied
  <1>9. \A q \in live' : /\ turn'[q].state \in {"idle", "working"}
                         /\ up' /\ run'[q] = "running" => AtIt(turn'[q])
    <2>1. \A q \in live : /\ turn[q].state \in {"idle", "working"}
                          /\ up /\ run[q] = "running" => AtIt(turn[q])
      BY DEF Inductive, RunsAreSound, RunningIsWorking, AboutTo, NotStarted, AtIt, Tied, Working
    <2>2. \A q \in live' : q \in live /\ q \in Sessions /\ q # c
      BY <1>1, <1>3
    <2>. QED
      BY <1>3, <1>7, <1>8, <2>1, <2>2 DEF Same, AtIt
  <1>10. RunsHold
    BY <1>3, <1>4, <1>8, <1>9, Zenon DEF RunsHold
  <1>. QED
    BY <1>5, <1>6, <1>10, CalmKeeps

\* There was nobody to stop.
LEMMA StopFindsNobodyKeeps ==
    ASSUME Inductive, task' \in [Tasks -> TaskRecord], NEW p \in Sessions, StopFindsNobody(p)
    PROVE  Inductive'
  <1>. DEFINE c == turn[p].call
              y == [turn[p] EXCEPT !.call = None, !.stage = "none", !.old = FALSE]
  <1>1. /\ turn \in [Sessions -> Turn] /\ live \subseteq Sessions
        /\ c \in Sessions
    BY DEF StopFindsNobody, Inductive, RunsAreSound, TypeOK, Tied
  <1>2. /\ turn' = [turn EXCEPT ![p] = y] /\ Calm(turn[p], y)
    BY <1>1, CalmTurns DEF StopFindsNobody, Return
  <1>3. /\ live' = live /\ live' \in SUBSET live /\ up' = up /\ up' \in BOOLEAN
        /\ goal' \in SUBSET Sessions /\ reloads' \in {"none", "gap", "done"}
        /\ stops' \in 0 .. MaxStops /\ task' \in [Tasks -> TaskRecord]
    BY DEF StopFindsNobody, Inductive, RunsAreSound, TypeOK
  <1>4. /\ run' \in [Sessions -> Runs] /\ row' \in [Sessions -> Row]
        /\ shown' \in SUBSET Sessions
        /\ run' = run \/ run' = [run EXCEPT ![c] = "stopped"]
    <2>1. /\ run \in [Sessions -> Runs] /\ row \in [Sessions -> Row]
          /\ shown \in SUBSET Sessions
      BY DEF Inductive, RunsAreSound, TypeOK
    <2>2. [status |-> "open", anchor |-> FALSE] \in Row
      BY DEF Row
    <2>3. CASE turn[p].old
      BY <2>1, <2>3 DEF StopFindsNobody
    <2>4. CASE ~turn[p].old
      BY <1>1, <2>1, <2>2, <2>4 DEF StopFindsNobody, Runs
    <2>. QED
      BY <2>3, <2>4
  <1>5. \A q \in Sessions : Same(turn[q], turn'[q])
    BY <1>1, <1>2 DEF Turn, Same
  <1>. HIDE DEF c
  <1>6. /\ run'[Root] # "running"
        /\ \A q \in Sessions : run'[q] = "running" => run[q] = "running"
    BY <1>1, <1>4, RootIsASession DEF Inductive, RunsAreSound, TypeOK, Tied
  <1>7. \A q \in live' : /\ turn'[q].state \in {"idle", "working"}
                         /\ up' /\ run'[q] = "running" => AtIt(turn'[q])
    <2>1. \A q \in live : /\ turn[q].state \in {"idle", "working"}
                          /\ up /\ run[q] = "running" => AtIt(turn[q])
      BY DEF Inductive, RunsAreSound, RunningIsWorking, AboutTo, NotStarted, AtIt, Tied, Working
    <2>. QED
      BY <1>1, <1>3, <1>5, <1>6, <2>1 DEF Same, AtIt
  <1>8. RunsHold
    BY <1>3, <1>4, <1>6, <1>7, Zenon DEF RunsHold
  <1>. QED
    BY <1>2, <1>8, OneTurnKeeps

\* The supervisor of before a reload is torn down.
LEMMA TeardownHolds ==
    ASSUME Inductive, task' \in [Tasks -> TaskRecord], Teardown
    PROVE  Inductive'
  <1>1. /\ turn \in [Sessions -> Turn] /\ live \subseteq Sessions
        /\ live' = live /\ live' \in SUBSET live /\ up' = FALSE /\ run' = run
        /\ run' \in [Sessions -> Runs] /\ row' \in [Sessions -> Row]
        /\ shown' \in SUBSET Sessions /\ goal' \in SUBSET Sessions
        /\ reloads' \in {"none", "gap", "done"} /\ stops' \in 0 .. MaxStops
    BY DEF Teardown, Inductive, RunsAreSound, TypeOK
  <1>2. turn' = [s \in Sessions |-> [turn[s] EXCEPT !.old = (turn[s].stage = "waiting")]]
    BY DEF Teardown
  <1>3. \A s \in Sessions : Calm(turn[s], turn'[s]) /\ turn'[s].state = turn[s].state
    BY <1>1, <1>2, CalmTurns DEF Turn
  <1>4. turn' \in [Sessions -> Turn]
    BY <1>2, <1>3 DEF Calm
  <1>5. \A s \in Sessions : turn[s].stage # "spawning"
    BY DEF Teardown, Quiet
  <1>6. run'[Root] # "running" /\ \A c \in live' : turn'[c].state \in {"idle", "working"}
    BY <1>1, <1>3 DEF Inductive, Tied
  <1>7. RunsHold
    BY <1>1, <1>5, <1>6 DEF RunsHold
  <1>. QED
    BY <1>3, <1>4, <1>7, CalmKeeps

\* The one of after it adopts the sessions.
LEMMA LoadKeeps ==
    ASSUME Inductive, task' \in [Tasks -> TaskRecord], Load
    PROVE  Inductive'
  <1>1. /\ live \subseteq Sessions
        /\ live' = live /\ live' \in SUBSET live /\ up' = TRUE /\ turn' = turn
        /\ row' \in [Sessions -> Row]
        /\ shown' \in SUBSET Sessions /\ goal' \in SUBSET Sessions
        /\ reloads' \in {"none", "gap", "done"} /\ stops' \in 0 .. MaxStops
    BY DEF Load, Inductive, RunsAreSound, TypeOK
  <1>2. /\ run' \in [Sessions -> Runs] /\ run'[Root] # "running"
        /\ \A s \in Sessions : run'[s] = "running" => turn[s].state # "idle"
    BY RootIsASession DEF Load, Inductive, RunsAreSound, TypeOK, Tied, Runs
  <1>3. \A c \in live' : /\ turn'[c].state \in {"idle", "working"}
                         /\ run'[c] = "running" => AtIt(turn'[c])
    BY <1>1, <1>2 DEF Inductive, Tied, AtIt
  <1>4. up' = up \/ \A s \in Sessions : turn[s].stage # "spawning"
    BY <1>1 DEF Inductive, RunsAreSound, TypeOK, Tied
  <1>5. RunsHold
    BY <1>1, <1>2, <1>3, <1>4 DEF RunsHold
  <1>. QED
    BY <1>1, <1>5, NoTurnKeeps

\* A call of a subagent begins: the child is picked, and not there yet.
LEMMA CallSubagentKeeps ==
    ASSUME Inductive, task' \in [Tasks -> TaskRecord],
           NEW p \in Sessions, NEW c \in Sessions, CallSubagent(p, c)
    PROVE  Inductive'
  <1>. DEFINE y == [turn[p] EXCEPT !.call = c, !.stage = "spawning"]
  <1>1. /\ turn \in [Sessions -> Turn] /\ up /\ MaySpawn(p)
        /\ turn[p].state = "working" /\ turn[c].state = "none"
        /\ \A q \in Sessions : turn[q].call # c
        /\ UNCHANGED <<task, live, up, run, row, shown, goal, reloads, stops>>
        /\ turn' = [turn EXCEPT ![p] = y]
    BY DEF CallSubagent, Between, Working, Inductive, RunsAreSound, TypeOK
  <1>2. /\ y \in Turn /\ y.state = "working" /\ y.prompt = turn[p].prompt
        /\ y.level = turn[p].level
        /\ y.stop = turn[p].stop /\ y.call = c /\ y.stage = "spawning"
    BY <1>1 DEF Turn, Stages
  <1>. HIDE DEF y
  <1>3. /\ turn' \in [Sessions -> Turn] /\ turn'[p] = y
        /\ \A q \in Sessions : q # p => turn'[q] = turn[q]
        /\ \A q \in Sessions : Same(turn[q], turn'[q]) /\ turn'[q].stop = turn[q].stop
    BY <1>1, <1>2 DEF Same
  <1>4. TypeOK'
    BY <1>1, <1>3 DEF TypeOK, Inductive, RunsAreSound
  <1>5. live' = live /\ live \subseteq Sessions /\ run' = run /\ up' = up
    BY <1>1 DEF TypeOK, Inductive, RunsAreSound
  <1>6. RunningIsWorking'
    BY <1>3, <1>5 DEF Same, RunningIsWorking, AboutTo, NotStarted, Working, Inductive, RunsAreSound
  <1>7. /\ \A s \in live' : turn'[s].state \in {"idle", "working"}
        /\ run'[Root] # "running" /\ turn'[Root].state # "none"
        /\ \A s \in Sessions : turn'[s].stop # {} => turn'[s].state \in {"idle", "working"}
    BY <1>3, <1>5, RootIsASession DEF Same, Inductive, Tied
  <1>8. \A q \in Sessions : turn'[q].stage # "none" =>
           Working(q)' /\ turn'[q].call \in Sessions \ {q, Root}
    BY <1>1, <1>2, <1>3 DEF Inductive, Tied, Working
  <1>9. \A q \in Sessions : turn'[q].stage \in {"briefing", "waiting", "stopping"} =>
           turn'[turn'[q].call].state # "none"
    BY <1>2, <1>3 DEF Inductive, Tied, Same
  <1>10. ASSUME NEW q \in Sessions, turn'[q].stage = "spawning"
         PROVE  /\ up' /\ MaySpawn(q)' /\ turn'[turn'[q].call].state = "none"
                /\ \A r \in Sessions \ {q} : turn'[r].call # turn'[q].call
    <2>1. CASE q = p
      BY <1>1, <1>2, <1>3, <2>1 DEF MaySpawn, LevelOf, Same
    <2>2. CASE q # p
      <3>1. /\ turn[q].stage = "spawning" /\ turn'[q] = turn[q] /\ turn[q].call # c
            /\ turn[q].call \in Sessions
        BY <1>1, <1>3, <1>10, <2>2 DEF Inductive, Tied
      <3>2. /\ up /\ MaySpawn(q) /\ turn[turn[q].call].state = "none"
            /\ \A r \in Sessions \ {q} : turn[r].call # turn[q].call
        BY <3>1 DEF Inductive, Tied
      <3>. QED
        BY <1>2, <1>3, <1>5, <3>1, <3>2 DEF MaySpawn, LevelOf, Same
    <2>. QED
      BY <2>1, <2>2
  <1>11. Tied'
    BY <1>7, <1>8, <1>9, <1>10, Zenon DEF Tied
  <1>. QED
    BY <1>4, <1>6, <1>11 DEF Inductive, RunsAreSound

\* The child is there and has its brief.
LEMMA SpawnedKeeps ==
    ASSUME Inductive, task' \in [Tasks -> TaskRecord], NEW p \in Sessions, Spawned(p)
    PROVE  Inductive'
  <1>. DEFINE c == turn[p].call
              x == [turn[p] EXCEPT !.stage = "briefing"]
              y == [NoTurn EXCEPT !.state = "idle", !.prompt = "brief", !.level = LevelOf(p) + 1]
  <1>1. /\ turn \in [Sessions -> Turn] /\ live \subseteq Sessions
        /\ run \in [Sessions -> Runs] /\ row \in [Sessions -> Row]
    BY DEF Inductive, RunsAreSound, TypeOK
  <1>2. /\ turn[p].stage = "spawning" /\ turn[p].state = "working" /\ c \in Sessions
        /\ up /\ MaySpawn(p) /\ turn[c].state = "none" /\ c # p /\ c # Root
        /\ \A q \in Sessions \ {p} : turn[q].call # c
    BY DEF Spawned, Inductive, Tied, Working
  <1>3. /\ live' = live \cup {c} /\ shown' = shown \cup {c}
        /\ row' = [row EXCEPT ![c] = Open]
        /\ run' = [run EXCEPT ![c] = "running"]
        /\ UNCHANGED <<task, up, goal, reloads, stops>>
    BY DEF Spawned
  <1>4. turn' = [turn EXCEPT ![p].stage = "briefing", ![c] = y]
    BY DEF Spawned
  <1>6. LevelOf(p) + 1 \in 1 .. MaxLevel /\ 1 \in 1 .. MaxLevel
    BY <1>1, <1>2, LevelBound DEF MaySpawn, LevelOf, Turn
  <1>7. /\ turn' = [turn EXCEPT ![p] = x, ![c] = y]
    BY <1>1, <1>4
  <1>8. /\ x \in Turn /\ x.state = "working" /\ x.level = turn[p].level
        /\ x.stop = turn[p].stop /\ x.call = c /\ x.stage = "briefing"
        /\ x.prompt = turn[p].prompt
    BY <1>1, <1>2 DEF Turn, Stages
  <1>9. /\ y \in Turn /\ y.state = "idle" /\ y.prompt = "brief" /\ y.call = None
        /\ y.stage = "none"
    BY <1>6 DEF Turn, Stages, NoTurn
  <1>. HIDE DEF x, y, c
  <1>10. /\ turn' \in [Sessions -> Turn] /\ turn'[p] = x /\ turn'[c] = y
         /\ \A q \in Sessions : q # p /\ q # c => turn'[q] = turn[q]
    BY <1>1, <1>2, <1>7, <1>8, <1>9
  <1>11. \A q \in Sessions : /\ q # c => Same(turn[q], turn'[q])
                             /\ q # c => turn'[q].stop = turn[q].stop
                             /\ turn'[q].state = "none" => turn[q].state = "none"
                             /\ q # c => turn'[q].call = turn[q].call
    BY <1>2, <1>8, <1>9, <1>10 DEF c, Same
  <1>12. TypeOK'
    <2>1. Open \in Row /\ "running" \in Runs
      BY DEF Open, Row, Runs
    <2>. QED
      BY <1>1, <1>2, <1>3, <1>10, <2>1 DEF TypeOK, Inductive, RunsAreSound
  <1>13. /\ run'[c] = "running" /\ turn'[c].state = "idle" /\ turn'[c].prompt = "brief"
         /\ \A q \in Sessions : q # c => run'[q] = run[q]
         /\ up' = up
    BY <1>1, <1>2, <1>3, <1>9, <1>10
  <1>14. RunningIsWorking'
    BY <1>1, <1>3, <1>11, <1>13 DEF Same, RunningIsWorking, AboutTo, NotStarted, Working,
                                    Inductive, RunsAreSound
  <1>15. /\ \A s \in live' : turn'[s].state \in {"idle", "working"}
         /\ run'[Root] # "running" /\ turn'[Root].state # "none"
         /\ \A s \in Sessions : turn'[s].stop # {} => turn'[s].state \in {"idle", "working"}
    BY <1>1, <1>2, <1>3, <1>11, <1>13, RootIsASession DEF Same, Inductive, Tied
  <1>16. \A q \in Sessions : turn'[q].stage # "none" =>
            Working(q)' /\ turn'[q].call \in Sessions \ {q, Root}
    BY <1>2, <1>8, <1>9, <1>10 DEF Inductive, Tied, Working
  <1>17. ASSUME NEW q \in Sessions, turn'[q].stage \in {"briefing", "waiting", "stopping"}
         PROVE  turn'[turn'[q].call].state # "none"
    <2>1. CASE q = p
      BY <1>2, <1>8, <1>10, <1>13, <2>1
    <2>2. CASE q # p
      <3>1. turn'[q] = turn[q] /\ turn[q].call \in Sessions /\ turn[turn[q].call].state # "none"
        BY <1>9, <1>10, <1>17, <2>2 DEF Inductive, Tied
      <3>. QED
        BY <1>11, <3>1 DEF Same
    <2>. QED
      BY <2>1, <2>2
  <1>18. ASSUME NEW q \in Sessions, turn'[q].stage = "spawning"
         PROVE  /\ up' /\ MaySpawn(q)' /\ turn'[turn'[q].call].state = "none"
                /\ \A r \in Sessions \ {q} : turn'[r].call # turn'[q].call
    <2>1. q # p /\ q # c /\ turn'[q] = turn[q] /\ turn[q].stage = "spawning"
      BY <1>8, <1>9, <1>10, <1>18
    <2>2. /\ up /\ MaySpawn(q) /\ turn[turn[q].call].state = "none"
          /\ turn[q].call \in Sessions
          /\ \A r \in Sessions \ {q} : turn[r].call # turn[q].call
      BY <2>1 DEF Inductive, Tied
    <2>3. turn[q].call # c
      BY <1>2, <2>1
    <2>4. \A r \in Sessions \ {q} : turn'[r].call # turn'[q].call
      BY <1>9, <1>11, <2>1, <2>2, <1>10, NamesApart
    <2>. QED
      BY <1>11, <1>13, <2>1, <2>2, <2>3, <2>4 DEF MaySpawn, LevelOf, Same
  <1>19. Tied'
    BY <1>15, <1>16, <1>17, <1>18, Zenon DEF Tied
  <1>. QED
    BY <1>12, <1>14, <1>19 DEF Inductive, RunsAreSound

\* A call that comes to nothing returns.
LEMMA ReturnKeeps ==
    ASSUME Inductive, task' \in [Tasks -> TaskRecord], NEW p \in Sessions,
           SpawnFails(p) \/ BriefFails(p)
    PROVE  Inductive'
  <1>. DEFINE y == [turn[p] EXCEPT !.call = None, !.stage = "none", !.old = FALSE]
  <1>1. /\ turn \in [Sessions -> Turn] /\ turn' = Return(p)
        /\ UNCHANGED <<live, up, run, row, shown, goal, reloads, stops>>
        /\ stops' \in 0 .. MaxStops /\ goal' \in SUBSET Sessions
    BY DEF SpawnFails, BriefFails, Inductive, RunsAreSound, TypeOK
  <1>2. turn' = [turn EXCEPT ![p] = y] /\ Calm(turn[p], y) /\ Same(turn[p], y)
    BY <1>1, CalmTurns DEF Return, Same, Turn
  <1>3. turn[p].state \in {"idle", "working"}
    BY DEF SpawnFails, BriefFails, Inductive, Tied, Working
  <1>. HIDE DEF y
  <1>4. y.state \in {"idle", "working"} /\ (AtIt(turn[p]) => AtIt(y))
    BY <1>2, <1>3 DEF Same, AtIt
  <1>. QED
    BY <1>1, <1>2, <1>3, <1>4, AtItKeeps

\* The child is handed its brief.
LEMMA BriefedKeeps ==
    ASSUME Inductive, task' \in [Tasks -> TaskRecord], NEW p \in Sessions, Briefed(p)
    PROVE  Inductive'
  <1>. DEFINE c == turn[p].call
              stage == IF turn[p].aborted THEN "stopping" ELSE "waiting"
              w == IF Working(c) THEN "none" ELSE "preparing"
              by == IF turn[p].aborted THEN turn[c].stop \cup {"parent"} ELSE turn[c].stop
              x == [turn[p] EXCEPT !.stage = stage]
              y == [turn[c] EXCEPT !.prompt = w, !.stop = by]
  <1>1. /\ turn \in [Sessions -> Turn] /\ live \subseteq Sessions /\ run \in [Sessions -> Runs]
    BY DEF Inductive, RunsAreSound, TypeOK
  <1>2. /\ turn[p].stage = "briefing" /\ turn[p].state = "working" /\ c \in Sessions
        /\ turn[c].state \in {"idle", "working"}
    BY <1>1 DEF Briefed, Inductive, Tied, Working, Turn
  <1>3. turn' = [turn EXCEPT ![p].stage = stage, ![c].prompt = w, ![c].stop = by]
    BY <1>1 DEF Briefed
  <1>4. /\ run' = [run EXCEPT ![c] = "running"]
        /\ UNCHANGED <<live, up, row, shown, goal, reloads, stops>>
    BY DEF Briefed
  <1>5. c # p /\ c # Root
    BY <1>2 DEF Inductive, Tied
  <1>6. stage \in {"waiting", "stopping"} /\ w \in {"none", "preparing"}
        /\ (turn[c].state = "working" \/ w # "none")
    BY DEF Working
  <1>7. by \in SUBSET {"user", "parent"}
    BY <1>1, <1>2 DEF Turn
  <1>8. turn' = [turn EXCEPT ![p] = x, ![c] = y]
    BY <1>1, <1>2, <1>3, <1>5
  <1>. HIDE DEF stage, w, by
  <1>9. Calm(turn[p], x) /\ Same(turn[p], x)
    <2>1. turn[p] \in Turn /\ Calm(turn[p], turn[p])
      BY CalmTurns
    <2>2. /\ x \in Turn /\ Same(turn[p], x) /\ x.level = turn[p].level
          /\ x.stop = turn[p].stop /\ x.call = turn[p].call /\ x.stage = stage
      BY <1>6, <2>1 DEF Turn, Stages, Same
    <2>. QED
      BY <1>2, <1>6, <2>1, <2>2, Zenon DEF Calm, Same
  <1>10. /\ Calm(turn[c], y) /\ y.state \in {"idle", "working"} /\ AtIt(y)
    <2>1. turn[c] \in Turn /\ Calm(turn[c], turn[c])
      BY <1>2, CalmTurns
    <2>2. /\ y \in Turn /\ y.state = turn[c].state /\ y.level = turn[c].level
          /\ y.call = turn[c].call /\ y.stage = turn[c].stage /\ y.prompt = w
      BY <1>6, <1>7, <2>1 DEF Turn
    <2>. HIDE DEF y
    <2>. QED
      BY <1>2, <1>6, <2>1, <2>2 DEF Calm, AtIt
  <1>. HIDE DEF x, y, c
  <1>11. /\ turn'[p] = x /\ turn'[c] = y
         /\ \A q \in Sessions : q # p /\ q # c => turn'[q] = turn[q]
    BY <1>1, <1>2, <1>5, <1>8
  <1>12. turn' \in [Sessions -> Turn]
    BY <1>1, <1>2, <1>8, <1>9, <1>10 DEF Calm
  <1>13. \A q \in Sessions : Calm(turn[q], turn'[q])
    BY <1>9, <1>10, <1>11, CalmTurns
  <1>14. /\ run' \in [Sessions -> Runs] /\ run'[Root] # "running"
         /\ \A q \in Sessions : q # c => run'[q] = run[q]
    BY <1>1, <1>2, <1>4, <1>5, RootIsASession DEF Runs, Inductive, Tied
  <1>15. \A q \in live' : /\ turn'[q].state \in {"idle", "working"}
                          /\ up' /\ run'[q] = "running" => AtIt(turn'[q])
    <2>1. \A q \in live : /\ turn[q].state \in {"idle", "working"}
                          /\ up /\ run[q] = "running" => AtIt(turn[q])
      BY DEF Inductive, RunsAreSound, RunningIsWorking, AboutTo, NotStarted, AtIt, Tied, Working
    <2>2. ASSUME NEW q \in live, q # c
          PROVE  Same(turn[q], turn'[q])
      BY <1>1, <1>9, <1>11, <2>2 DEF Same
    <2>. QED
      BY <1>1, <1>4, <1>10, <1>11, <1>14, <2>1, <2>2 DEF Same, AtIt
  <1>16. /\ live' = live /\ live' \in SUBSET live /\ up' = up /\ up' \in BOOLEAN
         /\ row' \in [Sessions -> Row] /\ shown' \in SUBSET Sessions
         /\ goal' \in SUBSET Sessions /\ reloads' \in {"none", "gap", "done"}
         /\ stops' \in 0 .. MaxStops
    BY <1>4 DEF Inductive, RunsAreSound, TypeOK
  <1>17. RunsHold
    BY <1>14, <1>15, <1>16, Zenon DEF RunsHold
  <1>. QED
    BY <1>12, <1>13, <1>17, CalmKeeps

\* Every step keeps the invariant.
LEMMA StepIsSound ==
    ASSUME Inductive, TasksAreSound, [Next]_vars
    PROVE  Inductive'
  <1>1. task' \in [Tasks -> TaskRecord]
    BY StepKeeps DEF Kept, TasksAreSound
  <1>2. CASE Next
    <2>1. ASSUME NEW s \in Sessions,
                 \/ UserPrompt(s) \/ Begins(s) \/ Refused(s) \/ TakeUp(s) \/ AgentEnds(s)
                 \/ Spawned(s) \/ SpawnFails(s) \/ Briefed(s) \/ BriefFails(s)
                 \/ Stop(s) \/ Despawn(s) \/ AbortForDespawn(s) \/ FinishDespawn(s)
                 \/ StopFindsNobody(s) \/ GoalSet(s) \/ GoalCleared(s)
                 \/ \E c \in Sessions : CallSubagent(s, c)
          PROVE  Inductive'
      BY <1>1, <2>1, PromptKeeps, SpawnedKeeps, ReturnKeeps, BriefedKeeps, AgentEndsKeeps, AbortKeeps, DespawnKeeps,
         FinishDespawnKeeps, StopFindsNobodyKeeps, CallSubagentKeeps, Zenon
    <2>2. ASSUME NEW s \in Sessions, NEW t \in Tasks,
                 BgRun(s, t) \/ StartRefused(s, t) \/ Bash(s, t) \/ AgentKills(s, t)
          PROVE  Inductive'
      BY <1>1, <2>2, CommandKeeps, Zenon
    <2>3. ASSUME NEW t \in Tasks, TaskStep(t) \/ UserKills(t)
          PROVE  Inductive'
      BY <1>1, <2>3, CommandKeeps, Zenon
    <2>. QED
      BY <1>1, <1>2, <2>1, <2>2, <2>3, TeardownHolds, LoadKeeps, Zenon DEF Next
  <1>3. CASE UNCHANGED vars
    <2>1. UNCHANGED <<task, live, up, turn, run, row, shown, goal, reloads, stops>>
      BY <1>3 DEF vars, own
    <2>. QED
      BY <2>1 DEF Inductive, RunsAreSound, TypeOK, RunningIsWorking, AboutTo, NotStarted, AtIt, Working, Tied, MaySpawn, LevelOf
  <1>. QED
    BY <1>2, <1>3

\* At the start there is the root, and nothing runs.
LEMMA InitIsInductive ==
    Init => Inductive
  <1>. SUFFICES ASSUME Init PROVE Inductive
    OBVIOUS
  <1>. DEFINE r == [NoTurn EXCEPT !.state = "idle"]
  <1>1. /\ NoTurn \in Turn /\ r \in Turn /\ r.state = "idle" /\ r.stage = "none" /\ r.stop = {}
        /\ NoTurn.stage = "none" /\ NoTurn.stop = {}
    <2>1. {} \in SUBSET {"user", "parent"} /\ 1 \in 1 .. MaxLevel
      BY LevelBound
    <2>2. NoTurn \in Turn
      BY <2>1 DEF NoTurn, Turn, Stages
    <2>3. NoTurn.stage = "none" /\ NoTurn.stop = {}
      BY DEF NoTurn
    <2>. QED
      BY <2>2, <2>3 DEF Turn
  <1>2. NoRow \in Row /\ Open \in Row
    BY DEF NoRow, Open, Row
  <1>. HIDE DEF r
  <1>3. turn = [s \in Sessions |-> IF s = Root THEN r ELSE NoTurn] /\ live = {Root} /\ up = TRUE
    BY DEF Init, r
  <1>4. run = [s \in Sessions |-> "none"]
    BY DEF Init
  <1>5. TypeOK
    <2>1. /\ task = [t \in Tasks |-> Unused] /\ shown = {Root} /\ goal = {}
          /\ row = [s \in Sessions |-> IF s = Root THEN Open ELSE NoRow]
          /\ reloads = "none" /\ stops = 0
      BY DEF Init
    <2>2. task \in [Tasks -> TaskRecord] /\ row \in [Sessions -> Row]
      BY <1>2, <2>1, UnusedIs
    <2>3. turn \in [Sessions -> Turn] /\ run \in [Sessions -> Runs]
      BY <1>1, <1>3, <1>4 DEF Runs
    <2>. QED
      BY <1>3, <2>1, <2>2, <2>3, RootIsASession, StopBound DEF TypeOK
  <1>6. RunningIsWorking
    BY <1>3, <1>4, RootIsASession DEF RunningIsWorking
  <1>7. Tied
    BY <1>1, <1>3, <1>4, RootIsASession DEF Tied
  <1>. QED
    BY <1>5, <1>6, <1>7 DEF Inductive, RunsAreSound

\* A run reads as running only while its session works on it, whoever stops,
\* despawns or prompts it, and across a reload.
THEOREM RunningWorks == Spec => []RunsAreSound
  <1>1. Init => Inductive /\ TasksAreSound
    BY InitIsInductive, InitIsSound
  <1>2. Inductive /\ TasksAreSound /\ [Next]_vars => Inductive' /\ TasksAreSound'
    BY StepIsSound, StepKeeps DEF Kept
  <1>3. Inductive => RunsAreSound
    BY DEF Inductive
  <1>. QED
    BY <1>1, <1>2, <1>3, PTL DEF Spec
=============================================================================
