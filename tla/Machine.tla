------------------------------ MODULE Machine -------------------------------
(***************************************************************************)
(* What the hosts of one machine keep in its state directory: the registry *)
(* of sessions and the deletion of a history as a transaction              *)
(* (registry.ts), the record of the running host (runtime-record.ts) and   *)
(* the socket local agents connect to (local-agents.ts, wsserver.ts).      *)
(*                                                                         *)
(* A host reads the registry once and writes the whole of it from then on. *)
(* Every call of the file system may fail, and the process may be killed   *)
(* between two of them.                                                    *)
(***************************************************************************)
EXTENDS Naturals, FiniteSets

CONSTANTS
    Hosts,      \* host processes that may run at once: "several hosts can run at once"
    Ids,        \* sessions
    None,       \* no record, no socket file, no removal, no report
    MaxLoads    \* bound: times a host loads, by a start or a reload

VARIABLES
    host,       \* each host's process and what its last load came to
    mem,        \* each host's rows
    file,       \* the rows on disk
    history,    \* where each session's history is
    removal,    \* the step a removal is at
    report,     \* what the last removal told its caller
    record,     \* runtime.json
    socket,     \* the instance whose server made the socket file, None for no file
    claims,     \* serveLocalAgents of each instance, from the probe on
    loads       \* bound: instances so far; an instance's number stands for its port

vars == <<host, mem, file, history, removal, report, record, socket, claims, loads>>
registry == <<mem, file, history, removal, report>>

Instances == 1..MaxLoads
Down == [pid |-> 0, instance |-> 0, phase |-> "down", url |-> 0]

Rows == {"none", "live", "closed"}
Places == {"none", "there", "quarantined", "gone"}

\* How far a removal is, and what it tells; runtime.json.
Removals == [id : Ids, step : {"secure", "save", "unlink"}, moved : BOOLEAN, row : Rows, onDisk : BOOLEAN]
Reports == [id : Ids, how : {"deleted", "restored", "incomplete"}, place : Places]
Records == [pid : 1..MaxLoads, load : {"pending", "skipped", "ok", "failed"}, port : 0..MaxLoads, url : 0..2]

Init ==
    /\ host = [h \in Hosts |-> Down]
    /\ file \in [Ids -> {"none", "live"}]
    /\ mem = [h \in Hosts |-> file]
    /\ history = [i \in Ids |-> IF file[i] = "none" THEN "none" ELSE "there"]
    /\ removal = [h \in Hosts |-> None] /\ report = [h \in Hosts |-> None]
    /\ record = None /\ socket = None /\ claims = {} /\ loads = 0

-----------------------------------------------------------------------------
(* The runtime record.                                                     *)

\* A record; port and url are 0 when it says nothing of them.
Says(pid, load, port, url) == [pid |-> pid, load |-> load, port |-> port, url |-> url]

\* recordFactoryEntry of an instance that will run: a new record, with nothing of the last one.
Entered(pid) == Says(pid, "pending", 0, 0)

\* Mutant of Declined: an entry that declines writes a new record.
DeclinedAnew(pid) == IF record = None THEN Says(pid, "skipped", 0, 0) ELSE Entered(pid)

\* recordFactoryEntry of an entry that declines, as every child session's does: merged.
Declined(pid) == IF record = None THEN Says(pid, "skipped", 0, 0) ELSE record

\* recordLoadOutcome, over whatever record is there.
Outcome(pid, load, port, url) ==
    LET had == IF record = None THEN Entered(pid) ELSE record
    IN Says(pid, load, IF load = "ok" THEN port ELSE had.port, IF load = "ok" THEN url ELSE had.url)

\* recordTunnelUrl: only on a record of this process.
Moved(pid, url) == IF record # None /\ record.pid = pid THEN [record EXCEPT !.url = url] ELSE record

-----------------------------------------------------------------------------
(* A host starts, reloads and stops.                                       *)

Serving(c) == c.step \in {"bound", "serving"}

\* ws.stop of h's instance: a server that listens is closed and the file at its path is removed,
\* whoever made it.  A claim that is still on its way is not found, and goes on.
Stopped(h) ==
    LET done == {c \in claims : c.instance = host[h].instance /\ c.step \in {"serving", "declined"}}
    IN /\ claims' = claims \ done
       /\ socket' = IF \E c \in done : c.step = "serving" THEN None ELSE socket

Enters(h, pid) ==
    /\ loads < MaxLoads /\ loads' = loads + 1
    /\ host' = [host EXCEPT ![h] = [pid |-> pid, instance |-> loads + 1, phase |-> "entered", url |-> 0]]
    /\ record' = Entered(pid)

\* A process starts; its first instance gives it its pid.
Start(h) ==
    /\ host[h].phase = "down"
    /\ Enters(h, loads + 1)
    /\ UNCHANGED <<registry, socket, claims>>

Reload(h) ==
    /\ host[h].phase # "down" /\ removal[h] = None
    /\ Stopped(h)
    /\ Enters(h, host[h].pid)
    /\ UNCHANGED registry

\* An orderly end; a kill leaves the socket file and whatever a removal had moved.
End(h) ==
    /\ host[h].phase # "down" /\ removal[h] = None
    /\ Stopped(h)
    /\ host' = [host EXCEPT ![h] = Down]
    /\ UNCHANGED <<registry, record, loads>>

Kill(h) ==
    /\ host[h].phase # "down"
    /\ host' = [host EXCEPT ![h] = Down]
    /\ claims' = {c \in claims : c.host # h}
    /\ removal' = [removal EXCEPT ![h] = None] /\ report' = [report EXCEPT ![h] = None]
    /\ UNCHANGED <<mem, file, history, record, socket, loads>>

\* The bootstrap reads the registry.
Boots(h) ==
    /\ host[h].phase = "entered"
    /\ host' = [host EXCEPT ![h].phase = "booting"]
    /\ mem' = [mem EXCEPT ![h] = file]
    /\ UNCHANGED <<file, history, removal, report, record, socket, claims, loads>>

\* It ends.
Loaded(h) ==
    /\ host[h].phase = "booting"
    /\ \E c \in claims : c.instance = host[h].instance /\ c.step \in {"serving", "declined"}
    /\ host' = [host EXCEPT ![h].phase = "ok"]
    /\ record' = Outcome(host[h].pid, "ok", host[h].instance, host[h].url)
    /\ UNCHANGED <<registry, socket, claims, loads>>

LoadFails(h) ==
    /\ host[h].phase \in {"entered", "booting"}
    /\ host' = [host EXCEPT ![h].phase = "failed"]
    /\ record' = Outcome(host[h].pid, "failed", 0, 0)
    /\ UNCHANGED <<registry, socket, claims, loads>>

\* The factory is entered again for a child session of this process.
Child(h) ==
    /\ host[h].phase \in {"booting", "ok"}
    /\ record' = Declined(host[h].pid)
    /\ UNCHANGED <<registry, host, socket, claims, loads>>

\* The tunnel comes up, or has another address, and announce() records it.
TunnelMoves(h) ==
    /\ host[h].phase \in {"booting", "ok"} /\ host[h].url < 2
    /\ host' = [host EXCEPT ![h].url = @ + 1]
    /\ record' = Moved(host[h].pid, host[h].url + 1)
    /\ UNCHANGED <<registry, socket, claims, loads>>

-----------------------------------------------------------------------------
(* The socket of the local agents.                                         *)

\* Nobody in a set of claims asks or listens.
Quiet(some) == \A c \in some : c.step = "declined"

\* "first" is history: it has bound the socket while nobody else asked or listened.
Claim(h, step) == [host |-> h, instance |-> host[h].instance, step |-> step,
                   first |-> step = "bound" /\ Quiet(claims)]

\* Mutant of Probe: whoever made the file is taken for dead.
ProbeBlind(h) == IF socket = None THEN "bound" ELSE "probed"

\* claimSocketPath: no file, and the socket is bound at once; a listener that answers keeps it; a
\* file nobody answers at will be removed when the refusal arrives.
Probe(h) ==
    IF socket = None THEN "bound"
    ELSE IF \E c \in claims : c.instance = socket /\ Serving(c) THEN "declined"
    ELSE "probed"

\* startLocalAgents begins.
ServeLocalAgents(h) ==
    /\ host[h].phase = "booting"
    /\ \A c \in claims : c.instance # host[h].instance
    /\ claims' = claims \cup {Claim(h, Probe(h))}
    /\ socket' = IF Probe(h) = "bound" THEN host[h].instance ELSE socket
    /\ UNCHANGED <<registry, host, record, loads>>

\* The file is removed, whosever it is by now, and the socket bound.
Takes(c) ==
    /\ c.step = "probed"
    /\ claims' = (claims \ {c}) \cup {[c EXCEPT !.step = "bound", !.first = Quiet(claims \ {c})]}
    /\ socket' = c.instance
    /\ UNCHANGED <<registry, host, record, loads>>

\* "listening": the server is the instance's own from here on, also when that has been stopped.
Listens(c) ==
    /\ c.step = "bound"
    /\ claims' = (claims \ {c}) \cup {[c EXCEPT !.step = "serving"]}
    /\ UNCHANGED <<registry, host, record, socket, loads>>

-----------------------------------------------------------------------------
(* The registry.                                                           *)

Ready(h) == host[h].phase = "ok" /\ removal[h] = None
Without(rows, i) == [rows EXCEPT ![i] = "none"]

\* A row is set in memory, and the whole registry written; the write may fail.
Upsert(h, i, row) ==
    /\ Ready(h) /\ mem[h][i] # row
    /\ \/ mem[h][i] # "none" /\ UNCHANGED history
       \/ mem[h][i] = "none" /\ history[i] = "none" /\ row = "live" /\ history' = [history EXCEPT ![i] = "there"]
    /\ mem' = [mem EXCEPT ![h][i] = row]
    /\ file' \in {mem'[h], file}
    /\ UNCHANGED <<host, removal, report, record, socket, claims, loads>>

Tells(h, i, how, place) ==
    /\ removal' = [removal EXCEPT ![h] = None]
    /\ report' = [report EXCEPT ![h] = [id |-> i, how |-> how, place |-> place]]

At(h, i, step, moved, row) == [id |-> i, step |-> step, moved |-> moved, row |-> row, onDisk |-> file[i] # "none"]

\* remove begins: with the history moved aside, if it is to go and is there.
Removes(h, i) ==
    /\ Ready(h) /\ mem[h][i] # "none"
    /\ \/ /\ removal' = [removal EXCEPT ![h] = At(h, i, "save", FALSE, mem[h][i])]
          /\ UNCHANGED <<history, report>>
       \/ /\ history[i] = "there"
          /\ history' = [history EXCEPT ![i] = "quarantined"]
          /\ removal' = [removal EXCEPT ![h] = At(h, i, "secure", TRUE, mem[h][i])]
          /\ UNCHANGED report
       \/ history[i] = "there" /\ Tells(h, i, "restored", "there") /\ UNCHANGED history
    /\ UNCHANGED <<mem, file, host, record, socket, claims, loads>>

\* The file moved aside is put back, or that fails too and the caller is told where it is.
PutsBack(h, i) ==
    \/ history' = [history EXCEPT ![i] = "there"] /\ Tells(h, i, "restored", "there")
    \/ UNCHANGED history /\ Tells(h, i, "incomplete", "quarantined")

\* Its permissions are narrowed.
Secures(h) ==
    /\ removal[h] # None /\ removal[h].step = "secure"
    /\ \/ removal' = [removal EXCEPT ![h].step = "save"] /\ UNCHANGED <<history, report>>
       \/ PutsBack(h, removal[h].id)
    /\ UNCHANGED <<mem, file, host, record, socket, claims, loads>>

\* Mutant of Unsaved: a save that fails is thrown as it is.
UnsavedThrows(h, i, moved) == Tells(h, i, "restored", "there") /\ UNCHANGED history

\* The row's removal could not be saved: the row is back, and the history with it.
Unsaved(h, i, moved) ==
    IF moved THEN PutsBack(h, i) ELSE Tells(h, i, "restored", history[i]) /\ UNCHANGED history

Saves(h) ==
    /\ removal[h] # None /\ removal[h].step = "save"
    /\ LET i == removal[h].id
       IN \/ /\ file' = Without(mem[h], i) /\ mem' = [mem EXCEPT ![h][i] = "none"]
             /\ IF removal[h].moved
                THEN removal' = [removal EXCEPT ![h].step = "unlink"] /\ UNCHANGED report
                ELSE Tells(h, i, "deleted", history[i])
             /\ UNCHANGED history
          \/ Unsaved(h, i, removal[h].moved) /\ UNCHANGED <<mem, file>>
    /\ UNCHANGED <<host, record, socket, claims, loads>>

\* The history is deleted; if it cannot be, it and the row are put back, each as far as it can.
Unlinks(h) ==
    /\ removal[h] # None /\ removal[h].step = "unlink"
    /\ LET i == removal[h].id
           back == [mem[h] EXCEPT ![i] = removal[h].row]
       IN \/ /\ history' = [history EXCEPT ![i] = "gone"]
             /\ Tells(h, i, "deleted", "gone")
             /\ UNCHANGED <<mem, file>>
          \/ /\ mem' = [mem EXCEPT ![h] = back]
             /\ \E restored, saved \in BOOLEAN :
                   /\ history' = [history EXCEPT ![i] = IF restored THEN "there" ELSE "quarantined"]
                   /\ file' = IF saved THEN back ELSE file
                   /\ Tells(h, i, IF restored /\ saved THEN "restored" ELSE "incomplete", history'[i])
    /\ UNCHANGED <<host, record, socket, claims, loads>>

-----------------------------------------------------------------------------
Next ==
    \/ \E h \in Hosts : Start(h) \/ Reload(h) \/ End(h) \/ Kill(h) \/ Boots(h) \/ Loaded(h) \/ LoadFails(h)
    \/ \E h \in Hosts : Child(h) \/ TunnelMoves(h) \/ ServeLocalAgents(h)
    \/ \E c \in claims : Takes(c) \/ Listens(c)
    \/ \E h \in Hosts, i \in Ids, row \in {"live", "closed"} : Upsert(h, i, row)
    \/ \E h \in Hosts, i \in Ids : Removes(h, i)
    \/ \E h \in Hosts : Secures(h) \/ Saves(h) \/ Unlinks(h)

Spec == Init /\ [][Next]_vars

-----------------------------------------------------------------------------
(* Properties.                                                             *)

TypeOK ==
    /\ host \in [Hosts -> [pid : 0..MaxLoads, instance : 0..MaxLoads, url : 0..2,
                           phase : {"down", "entered", "booting", "ok", "failed"}]]
    /\ mem \in [Hosts -> [Ids -> Rows]] /\ file \in [Ids -> Rows] /\ history \in [Ids -> Places]
    /\ removal \in [Hosts -> Removals \cup {None}] /\ report \in [Hosts -> Reports \cup {None}]
    /\ record \in Records \cup {None}
    /\ socket \in Instances \cup {None}
    /\ claims \subseteq [host : Hosts, instance : Instances, first : BOOLEAN,
                   step : {"probed", "bound", "serving", "declined"}]

\* What a removal tells its caller is so: deleted means that the row is off the disk and a history
\* moved aside is gone; restored, that both are where they were; incomplete, that the history is at
\* the path it names, and the row in memory ("every failure either restores both authorities or
\* reports the exact surviving recovery path", registry.ts).
ReportIsTrue ==
    [][\A h \in Hosts : removal[h] # None /\ removal'[h] = None /\ report'[h] # None =>
          LET i == removal[h].id
              said == report'[h]
          IN CASE said.how = "deleted" -> file'[i] = "none" /\ (removal[h].moved => history'[i] = "gone")
               [] said.how = "restored" -> /\ mem'[h][i] = removal[h].row
                                           /\ removal[h].onDisk => file'[i] # "none"
                                           /\ removal[h].moved => history'[i] = "there"
               [] OTHER -> mem'[h][i] = removal[h].row /\ history'[i] = said.place]_vars

\* A history is deleted only after its row is off the disk, wherever the process is killed: a row
\* that is restored at the next start still has its history.
DeletedAfterItsRow ==
    [][\A i \in Ids : history[i] # "gone" /\ history'[i] = "gone" => file[i] = "none"]_vars

\* A removal is a transaction.
RemovalIsSound == ReportIsTrue /\ DeletedAfterItsRow

\* While a host is up the record names it and where it can be reached, however many child sessions
\* enter the factory and whatever a process before it left there.
RecordKnowsTheHost ==
    \A h \in Hosts : host[h].phase = "ok" => record = Says(host[h].pid, "ok", host[h].instance, host[h].url)

\* The state is of its type and the record true.
StateIsSound == TypeOK /\ RecordKnowsTheHost

\* "The first to bind serves local agents" (local-agents.ts), of any number of hosts: a server
\* that bound the socket while no other host asked for it or listened keeps the file as long as it
\* listens, and whoever asks later is declined - whatever loads, ends and kills come in between, and
\* whatever file a dead host left.  The condition is needed: the file a probe found dead may be
\* another's by the time it is removed (LiveSocketLeftAlone, below).
FirstKeepsItsSocket ==
    \A c \in claims : Serving(c) /\ c.first => socket = c.instance /\ Quiet(claims \ {c})

-----------------------------------------------------------------------------
(* What the code's own comments and tests say of it, and it does not do:   *)
(* TLC refutes each of these (the README names the instance).              *)

\* The file of a server that listens is removed by nobody else: "a stale file left by a host that
\* died is removed, a live one is left alone" (local-agents.ts).  It does not hold of two hosts: both
\* find a stale file dead, and the second removes what the first has bound.
LiveSocketLeftAlone ==
    [][socket # None /\ socket' # socket => ~\E c \in claims : c.instance = socket /\ Serving(c) /\ c \in claims']_vars

\* A row leaves the disk only by a removal: "every mutation is persisted immediately" (registry.ts).
\* It does not hold of two hosts: the rows of one are not among those the other writes.
RowsPersist ==
    [][\A i \in Ids : file[i] # "none" /\ file'[i] = "none" => \E h \in Hosts : removal[h] # None /\ removal[h].id = i]_vars
=============================================================================
