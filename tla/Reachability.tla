---------------------------- MODULE Reachability ----------------------------
(***************************************************************************)
(* How a machine stays findable (server/src/index.ts, presence.ts,         *)
(* auth.ts): who starts a tunnel - the bootstrap, the heartbeat and the    *)
(* user who picks a provider, sharing the flag _tunnelStarting - and the   *)
(* presence each of them writes into the discovery document, by requests   *)
(* that nobody serialises.                                                 *)
(***************************************************************************)
EXTENDS Tunnel

CONSTANTS
    Scopes,         \* bound: the starts, providers and failed writes of a behaviour
    MaxPicks        \* bound: providers the user picks

ASSUME ScopeBound ==
    Scopes \subseteq [starts : 1 .. MaxStarts, providers : SUBSET Providers, failures : Nat]
ASSUME PickBound == MaxPicks \in Nat

VARIABLES
    phase,      \* of the host: before the first start, up, closing, stopped, exited
    starting,   \* _tunnelStarting
    pref,       \* config: tunnelProvider
    picking,    \* the provider dialog is open; it holds the server it began with
    writes,     \* presence writes under way, each with what it ends when it settles
    late,       \* writes given up at their deadline that may still land
    doc,        \* the discovery document: the name and whether the host is online
    picks, failures,
    scope       \* bound: the scope of this behaviour; it never changes

hostVars == <<phase, starting, pref, picking, writes, late, doc, picks, failures, scope>>
vars == <<tunnelVars, hostVars>>

Phases   == {"booting", "up", "closing", "reloaded", "stopped", "exited"}
Presence == [url : Names, online : BOOLEAN]
Write    == [url : Names, online : BOOLEAN, ends : {"nothing", "starting", "process"}]

TypeOK ==
    /\ TunnelTypeOK
    /\ phase \in Phases
    /\ starting \in BOOLEAN /\ picking \in BOOLEAN
    /\ pref \in Providers
    /\ writes \in SUBSET Write
    /\ late \in SUBSET Presence
    /\ doc \in Presence
    /\ picks \in 0 .. MaxPicks /\ failures \in Nat
    /\ scope \in Scopes

Init ==
    /\ TunnelInit
    /\ scope \in Scopes
    /\ phase = "booting"
    /\ starting = FALSE /\ picking = FALSE
    /\ pref \in scope.providers
    /\ writes = {} /\ late = {}
    /\ doc = [url |-> None, online |-> FALSE]
    /\ picks = 0 /\ failures = 0

Running == phase \in {"booting", "up", "closing"}     \* _ws is there

(***************************************************************************)
(* Presence.  A write carries the name the server has when it is made.     *)
(***************************************************************************)
PublishPresence(online, ends) ==
    writes' = writes \cup {[url |-> tunnelUrl', online |-> online, ends |-> ends]}

\* What waits for the write goes on, however it went: publishCurrentPresence
\* never rejects.  A signal's last write ends the process, and every tunnel
\* with it, by the exit hooks of makeProcKill.
Settle(w) ==
    /\ writes' = IF w.ends = "process" THEN {} ELSE writes \ {w}
    /\ starting' = IF w.ends = "starting" THEN FALSE ELSE starting
    /\ phase' = IF w.ends = "process" THEN "exited" ELSE phase
    /\ start' = IF w.ends = "process" THEN Kill(start, Starts) ELSE start
    /\ UNCHANGED <<tracked, tunnel, tunnelUrl, stopped, pref, picking, picks, scope>>

Lands(w) ==
    /\ w \in writes /\ phase # "exited"
    /\ Settle(w)
    /\ doc' = [url |-> w.url, online |-> w.online]
    /\ UNCHANGED <<late, failures>>

Fails(w) ==
    /\ w \in writes /\ phase # "exited"
    /\ failures < scope.failures /\ failures' = failures + 1
    /\ Settle(w)
    /\ UNCHANGED <<late, doc>>

\* The deadline of a write passes, and the request goes on without its caller.
Overdue(w) ==
    /\ w \in writes /\ phase # "exited"
    /\ failures < scope.failures /\ failures' = failures + 1
    /\ Settle(w)
    /\ late' = late \cup {[url |-> w.url, online |-> w.online]}
    /\ UNCHANGED doc

LandsLate(w) ==
    /\ w \in late
    /\ late' = late \ {w}
    /\ doc' = w
    /\ UNCHANGED <<tunnelVars, phase, starting, pref, picking, writes, picks, failures, scope>>

(***************************************************************************)
(* Who starts a tunnel, and what each does when its start has settled.     *)
(***************************************************************************)
\* Mutant of Settled: the first start leaves the flag to its write.
SettledKeepsFlag(by) ==
    /\ UNCHANGED starting
    /\ PublishPresence(TRUE, IF by = "first" THEN "nothing" ELSE "starting")

\* The first start clears the flag at once, the others with their write.
Settled(by) ==
    /\ starting' = IF by = "first" THEN FALSE ELSE starting
    /\ PublishPresence(TRUE, IF by = "first" THEN "nothing" ELSE "starting")

\* The flag is set before the call; a start without a process settles at once.
Started(by, flag) ==
    LET i == Next1
    IN  IF start'[i].stage = "done"
          THEN /\ starting' = IF by = "first" THEN FALSE ELSE flag
               /\ PublishPresence(TRUE, IF by = "first" THEN "nothing" ELSE "starting")
          ELSE starting' = flag /\ UNCHANGED writes

\* The instance allows another start.
Startable == Cardinality(Starts \ Unused) < scope.starts

FirstStart ==
    /\ phase = "booting" /\ Startable
    /\ phase' = "up"
    /\ StartTunnel("first", pref)
    /\ Started("first", pref # "off")
    /\ UNCHANGED <<pref, picking, late, doc, picks, failures, scope>>

\* Mutant of Heartbeat: the presence is written when the name changes only.
HeartbeatOnlyStarts ==
    /\ phase = "up"
    /\ pref # "off" /\ tunnelUrl = None /\ ~starting /\ Startable
    /\ StartTunnel("heartbeat", pref) /\ Started("heartbeat", TRUE)
    /\ UNCHANGED <<phase, pref, picking, late, doc, picks, failures, scope>>

\* Every 40 seconds: a tunnel if there is none, or the presence again.
Heartbeat ==
    /\ phase = "up"
    /\ UNCHANGED <<phase, pref, picking, late, doc, picks, failures, scope>>
    /\ IF pref # "off" /\ tunnelUrl = None /\ ~starting
         THEN Startable /\ StartTunnel("heartbeat", pref) /\ Started("heartbeat", TRUE)
         ELSE UNCHANGED <<tunnelVars, starting>> /\ PublishPresence(TRUE, "nothing")

\* /pinest-provider: the server is taken before the dialog opens.
OpenPicker ==
    /\ Running /\ ~picking /\ picks < MaxPicks
    /\ picking' = TRUE /\ picks' = picks + 1
    /\ UNCHANGED <<tunnelVars, phase, starting, pref, writes, late, doc, failures, scope>>

PickProvider(p) ==
    /\ picking /\ phase # "exited" /\ Startable
    /\ p \in scope.providers
    /\ picking' = FALSE
    /\ pref' = p
    /\ StartTunnel("user", p)
    /\ Started("user", p # "off")
    /\ UNCHANGED <<phase, late, doc, picks, failures, scope>>

StartStep(i) ==
    /\ phase # "exited"
    /\ UNCHANGED <<phase, pref, picking, late, doc, picks, failures, scope>>
    /\ \/ Banner(i) /\ UNCHANGED <<starting, writes>>
       \/ NgrokAccepts(i) /\ Settled(start[i].by)
       \/ Proved(i) /\ Settled(start[i].by)
       \/ GivesUp(i) /\ Settled(start[i].by)

ProcessStep(i) ==
    /\ phase # "exited"
    /\ Dies(i) \/ Renamed(i)
    /\ UNCHANGED hostVars

(***************************************************************************)
(* The end: a reload keeps the process, a signal ends it.                  *)
(***************************************************************************)
\* teardownRemote ends the heartbeat, then waits for the sessions.
TearDown ==
    /\ phase = "up"
    /\ phase' = "closing"
    /\ UNCHANGED <<tunnelVars, starting, pref, picking, writes, late, doc, picks, failures, scope>>

CloseServer(reason) ==
    /\ phase = "closing"
    /\ StopServer
    /\ starting' = FALSE
    /\ phase' = reason
    /\ IF reason = "stopped" THEN PublishPresence(FALSE, "process") ELSE UNCHANGED writes
    /\ UNCHANGED <<pref, picking, late, doc, picks, failures, scope>>

Next ==
    \/ FirstStart \/ Heartbeat \/ OpenPicker \/ TearDown
    \/ \E p \in Providers : PickProvider(p)
    \/ \E i \in Starts : StartStep(i) \/ ProcessStep(i)
    \/ \E w \in writes : Lands(w) \/ Fails(w) \/ Overdue(w)
    \/ \E w \in late : LandsLate(w)
    \/ \E reason \in {"reloaded", "stopped"} : CloseServer(reason)

Spec == Init /\ [][Next]_vars

\* The heartbeat fires while the host runs, every start ends by its timer, and
\* a write lands or is given up; what was given up is not owed anything.
Fairness ==
    /\ WF_vars(FirstStart)
    /\ WF_vars(Heartbeat)
    /\ \A i \in Starts : WF_vars(StartStep(i) /\ start'[i].stage = "done")
    /\ \A w \in Write : WF_vars(Lands(w) \/ Fails(w) \/ Overdue(w))

FairSpec == Spec /\ Fairness

(***************************************************************************)
(* Properties.                                                             *)
(***************************************************************************)
\* A live tunnel process is one whose start is under way or the tunnel of a
\* running server, so that something will end it ("one orphaned cloudflared per
\* reload", tunnel.ts:640) - unless the user picked a provider: a pick does not
\* wait for the start it overlaps, and the second result overwrites the first.
LiveTunnelIsOwned ==
    \A i \in Starts : start[i].alive =>
        \/ i \in Pending
        \/ tunnel = i /\ ~stopped
        \/ \E j \in Starts : start[j].by = "user"

\* The state keeps its types, and no tunnel is without an owner.
TunnelsAreOwned == TypeOK /\ LiveTunnelIsOwned

\* What it rests on.  A slot not used yet is nobody's, and what is being proved
\* has a name.  While the host alone starts tunnels it has one start at a time: no
\* settled tunnel lives beside a start under way, and while the host is up the
\* flag is set from the start to the write its result ends with.
SlotsAreSound ==
    \A i \in Starts : /\ start[i].stage = "none" => start[i].by = "nobody" /\ ~start[i].alive
                      /\ start[i].stage = "proving" => start[i].url # None

HostAlone == \A i \in Starts : start[i].by # "user"
Flagging  == {w \in writes : w.ends = "starting"}

OneAtATime ==
    /\ \A i, j \in Pending : i = j
    /\ \A i \in Starts : start[i].alive /\ start[i].stage = "done" =>
          tunnel = i /\ ~stopped /\ Pending = {}
    /\ phase = "booting" => Unused = Starts /\ ~starting /\ Flagging = {}
    /\ phase = "up" => /\ Pending # {} => starting /\ Flagging = {}
                       /\ Flagging # {} => starting
                       /\ \A v, w \in Flagging : v = w

\* The inductive invariant behind TunnelsAreOwned.
Inductive ==
    /\ TypeOK /\ SlotsAreSound
    /\ HostAlone => OneAtATime

\* A host without a public name keeps trying to get one, whoever shared the
\* flag that holds the heartbeat back, until the user turns the tunnel off.
NoUrlIsRetried ==
    (phase = "up" /\ tunnelUrl = None /\ pref # "off") ~>
        \/ tunnelUrl # None \/ Pending # {}
        \/ phase # "up" \/ pref = "off"
        \/ ~Startable                      \* the instance's starts are spent

\* The discovery document comes to tell the name the server has, also when
\* older writes fail, or land after newer ones.
PresenceCatchesUp ==
    \A u \in Names \ {None} :
        <>[](phase = "up" /\ tunnelUrl = u) => <>[](doc = [url |-> u, online |-> TRUE])

-----------------------------------------------------------------------------
(* What the code's own comments and tests say of it, and it does not do:   *)
(* TLC refutes each of these (the README names the instance).              *)

\* "Quick tunnels die eventually - surface it so the server can
\* restart automatically instead of publishing a dead URL forever"
\* (tunnel.ts:418): the server's hooks are on another object.
DeadTunnelReplaced ==
    \A i \in Starts :
        (phase = "up" /\ tunnel = i /\ ~start[i].alive) ~> (tunnel # i \/ phase # "up")

=============================================================================
