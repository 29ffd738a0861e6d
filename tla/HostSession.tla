---------------------------- MODULE HostSession ----------------------------
(***************************************************************************)
(* The machine's own session: pi's turns and compactions, the requests to  *)
(* reload the extension, and the turn the host is owed after a reload      *)
(* (reload-manager.ts, host-context.ts, index.ts).                         *)
(*                                                                         *)
(* pi refuses a reload while it is busy, so a request made then is kept    *)
(* (deferred) until an agent_settled that finds pi idle.  A request of the *)
(* agent leaves a record on globalThis, the one place that outlives the    *)
(* re-import; the runtime that comes up next takes it and nudges the host. *)
(***************************************************************************)
EXTENDS Naturals, FiniteSets

CONSTANTS
    MaxTurns,       \* bound: turns begun by the user, a goal or a queue
    MaxAsks,        \* bound: requests to reload and compactions asked for
    MaxReloads,     \* bound: reloads and new sessions of pi that nobody asked us for
    MaxEdits        \* bound: times the sources become broken or whole

VARIABLES
    pi,         \* what pi is doing: it is not part of the repository
    host,       \* the variables of the loaded extension
    record,     \* HOST_RELOAD_RESUME_KEY on globalThis
    commands,   \* "/pinest-reload" messages pi has not run yet
    nudges,     \* timers that will nudge the host
    broken,     \* whether a watched source has a syntax error
    tokens,     \* the context's size, 0 when under the threshold
    used,       \* what the bounds count
    owed        \* what the properties ask for: see Owed

vars == <<pi, host, record, commands, nudges, broken, tokens, used, owed>>

Sizes == 0..2
Loads == {"booting", "online", "offline", "unloaded"}

\* pi: a turn runs; its first message has begun; agent_end is out and agent_settled is not;
\* how many compactions run.
Pi == [turn : BOOLEAN, spoke : BOOLEAN, settling : BOOLEAN, compacting : 0..3]

\* The extension's module variables: _status, _deferredReload, and the compaction guard's
\* compacting and uncompactedAtTokens (0 for undefined).
Host == [load : Loads, status : {"idle", "working"}, deferred : BOOLEAN, compacting : BOOLEAN, tried : Sizes]

NoRecord == [reason |-> "none", old |-> FALSE]
Record == {NoRecord} \cup [reason : {"reload_runtime", "working_interrupted"}, old : BOOLEAN]

\* owed.turn: the host was promised a turn, by an accepted request of the agent or because a
\* reload cut one off; owed.debts and owed.paid count the promises and the nudges; owed.reload: a
\* reload was accepted; owed.blocked: a compaction was in the way when it was put off.
Owed == [turn : BOOLEAN, debts : Nat, paid : Nat, reload : BOOLEAN, blocked : BOOLEAN]

Idle == ~pi.turn /\ pi.compacting = 0
Loaded == host.load # "unloaded"

Fresh(load) == [load |-> load, status |-> "idle", deferred |-> FALSE, compacting |-> FALSE, tried |-> 0]

Init ==
    /\ pi = [turn |-> FALSE, spoke |-> FALSE, settling |-> FALSE, compacting |-> 0]
    /\ host = Fresh("booting")
    /\ record = NoRecord
    /\ commands = 0 /\ nudges = 0 /\ tokens = 0
    /\ broken = FALSE
    /\ used = [turns |-> 0, asks |-> 0, reloads |-> 0, edits |-> 0]
    /\ owed = [turn |-> FALSE, debts |-> 0, paid |-> 0, reload |-> FALSE, blocked |-> FALSE]

-----------------------------------------------------------------------------
(* Compaction.                                                             *)

\* maybeAutoCompact, for a context of n tokens, in the handler's state h: whether to try.
WouldCompact(h, n) == ~h.compacting /\ n > h.tried

\* What it leaves of h; the attempt may throw before it starts.
AutoCompacted(h, n, starts) ==
    IF ~WouldCompact(h, n) THEN h
    ELSE IF starts THEN [h EXCEPT !.compacting = TRUE]
    ELSE [h EXCEPT !.tried = n]

\* How many compactions it starts.
Starts(h, n, starts) == IF WouldCompact(h, n) /\ starts THEN 1 ELSE 0

\* The app asks for a compaction (session_compact): pi aborts the turn that runs.
CompactAsked ==
    /\ host.load = "online" /\ pi.compacting < 2
    /\ used.asks < MaxAsks
    /\ used' = [used EXCEPT !.asks = @ + 1]
    /\ pi' = [pi EXCEPT !.compacting = @ + 1]
    /\ UNCHANGED <<host, record, commands, nudges, broken, tokens, owed>>

\* session_compact and session_compact_failed.
CompactionEnds ==
    /\ pi.compacting > 0 /\ ~pi.turn
    /\ pi' = [pi EXCEPT !.compacting = @ - 1]
    /\ \E outcome \in {"compacted", "nothing", "cancelled"} :
         /\ tokens' = IF outcome = "compacted" THEN 0 ELSE tokens
         /\ host' = IF ~Loaded THEN host
                    ELSE [host EXCEPT !.compacting = FALSE,
                                      !.tried = CASE outcome = "compacted" -> 0
                                                  [] outcome = "nothing" /\ tokens > 0 -> tokens
                                                  [] OTHER -> @]
    /\ UNCHANGED <<record, commands, nudges, broken, used, owed>>

-----------------------------------------------------------------------------
(* Turns.                                                                  *)

\* A prompt, a follow-up or a goal's message starts a run, also between agent_end and
\* agent_settled.
TurnStarts ==
    /\ Idle /\ used.turns < MaxTurns
    /\ used' = [used EXCEPT !.turns = @ + 1]
    /\ pi' = [pi EXCEPT !.turn = TRUE, !.spoke = FALSE]
    /\ UNCHANGED <<host, record, commands, nudges, broken, tokens, owed>>

\* The handler of message_start.
MessageStart ==
    /\ pi.turn /\ ~pi.spoke
    /\ pi' = [pi EXCEPT !.spoke = TRUE]
    /\ host' = IF Loaded THEN [host EXCEPT !.status = "working"] ELSE host
    /\ UNCHANGED <<record, commands, nudges, broken, tokens, used, owed>>

\* The handler of agent_end; the context may have grown.
AgentEnd ==
    /\ pi.turn
    /\ \E n \in {tokens, tokens + 1} \cap Sizes, starts \in BOOLEAN :
         /\ tokens' = n
         /\ host' = IF Loaded THEN AutoCompacted([host EXCEPT !.status = "idle"], n, starts) ELSE host
         /\ pi' = [pi EXCEPT !.turn = FALSE, !.settling = TRUE,
                             !.compacting = @ + (IF Loaded THEN Starts(host, n, starts) ELSE 0)]
    /\ UNCHANGED <<record, commands, nudges, broken, used, owed>>

\* Mutant of FlushDeferred: the request is spent and nothing is sent.
FlushSpends ==
    /\ host' = [host EXCEPT !.deferred = FALSE]
    /\ commands' = commands
    /\ pi' = [pi EXCEPT !.settling = FALSE]
    /\ owed' = [owed EXCEPT !.blocked = FALSE]

\* flushDeferredReload finds pi idle and sends the command.
FlushDeferred ==
    /\ host' = [host EXCEPT !.deferred = FALSE]
    /\ commands' = commands + 1
    /\ pi' = [pi EXCEPT !.settling = FALSE]
    /\ owed' = [owed EXCEPT !.blocked = FALSE]

\* No reload is waiting, or this is no moment for one: the context is looked at instead.
SettleOnly ==
    /\ \E starts \in BOOLEAN :
         /\ host' = AutoCompacted(host, tokens, starts)
         /\ pi' = [pi EXCEPT !.settling = FALSE, !.compacting = @ + Starts(host, tokens, starts)]
    /\ owed' = [owed EXCEPT !.blocked = @ \/ (host.deferred /\ pi.compacting > 0)]
    /\ UNCHANGED commands

\* The handler of agent_settled.
AgentSettled ==
    /\ pi.settling /\ pi.compacting < 3
    /\ IF Loaded /\ host.deferred /\ Idle THEN FlushDeferred
       ELSE IF Loaded THEN SettleOnly
       ELSE pi' = [pi EXCEPT !.settling = FALSE] /\ UNCHANGED <<host, commands, owed>>
    /\ UNCHANGED <<record, nudges, broken, tokens, used>>

-----------------------------------------------------------------------------
(* Requests to reload.                                                     *)

\* A refused request takes back what an earlier one left.
Refuse(left) ==
    /\ host' = [host EXCEPT !.deferred = FALSE]
    /\ record' = NoRecord
    /\ owed' = [owed EXCEPT !.turn = FALSE, !.reload = FALSE, !.blocked = FALSE]
    /\ commands' = left

\* Mutant of Accept: the agent's request leaves no record.
AcceptUnrecorded(byAgent, left) ==
    /\ host' = [host EXCEPT !.deferred = ~Idle]
    /\ commands' = left + (IF Idle THEN 1 ELSE 0)
    /\ record' = record
    /\ owed' = [owed EXCEPT !.turn = @ \/ byAgent, !.reload = TRUE, !.blocked = pi.compacting > 0,
                            !.debts = @ + (IF byAgent /\ record = NoRecord THEN 1 ELSE 0)]

\* An accepted request waits while pi is busy and is sent on at once when it is not.
Accept(byAgent, left) ==
    /\ host' = [host EXCEPT !.deferred = ~Idle]
    /\ commands' = left + (IF Idle THEN 1 ELSE 0)
    /\ record' = IF byAgent THEN [reason |-> "reload_runtime", old |-> FALSE] ELSE record
    /\ owed' = [owed EXCEPT !.turn = @ \/ byAgent, !.reload = TRUE, !.blocked = pi.compacting > 0,
                            !.debts = @ + (IF byAgent /\ record = NoRecord THEN 1 ELSE 0)]

\* queueReload; left are the commands pi has yet to run besides this one.
QueueReload(byAgent, left) == IF broken THEN Refuse(left) ELSE Accept(byAgent, left)

\* The agent's tool reload_runtime, in its turn, or the app's reload.
Ask ==
    /\ used.asks < MaxAsks
    /\ used' = [used EXCEPT !.asks = @ + 1]
    /\ \/ pi.turn /\ pi.spoke /\ Loaded /\ QueueReload(TRUE, commands)
       \/ host.load = "online" /\ QueueReload(FALSE, commands)
    /\ UNCHANGED <<pi, nudges, broken, tokens>>

\* The user types /pinest-reload.
Typed ==
    /\ used.asks < MaxAsks /\ Loaded
    /\ used' = [used EXCEPT !.asks = @ + 1]
    /\ commands' = commands + 1
    /\ owed' = [owed EXCEPT !.reload = TRUE]
    /\ UNCHANGED <<pi, host, record, nudges, broken, tokens>>

-----------------------------------------------------------------------------
(* The reload and what follows it.                                         *)

\* teardownRemote("reload"): a record is stamped, or made when a turn is cut off.
Stamped ==
    IF record # NoRecord THEN [record EXCEPT !.old = FALSE]
    ELSE IF host.status = "working" THEN [reason |-> "working_interrupted", old |-> FALSE]
    ELSE record

\* pi tears the runtime down and imports the sources again; broken ones do not load, and then
\* there is nothing of ours to tear down the next time.
Reload ==
    /\ record' = IF Loaded THEN Stamped ELSE record
    /\ owed' = LET cut == Loaded /\ record = NoRecord /\ pi.spoke /\ pi.turn
               IN  [owed EXCEPT !.debts = @ + (IF cut THEN 1 ELSE 0), !.turn = ~broken /\ (@ \/ cut),
                                !.reload = FALSE, !.blocked = FALSE]
    /\ host' = Fresh(IF broken THEN "unloaded" ELSE "booting")
    /\ pi' = [turn |-> FALSE, spoke |-> FALSE, settling |-> FALSE, compacting |-> 0]
    /\ UNCHANGED <<nudges, broken, tokens>>

\* The handler of /pinest-reload: a bad moment is handed back to the settle path.
RunCommand ==
    /\ commands > 0 /\ Loaded
    /\ \/ Idle /\ Reload /\ commands' = commands - 1
       \/ ~Idle /\ QueueReload(FALSE, commands - 1) /\ UNCHANGED <<pi, nudges, broken, tokens>>
    /\ UNCHANGED used

\* pi reloads or replaces its session without asking us: /new, /resume and its own /reload.
PiReloads ==
    /\ used.reloads < MaxReloads
    /\ used' = [used EXCEPT !.reloads = @ + 1]
    /\ Reload /\ UNCHANGED commands

\* Mutant of TakeRecord: the record stays.
TakeRecordUncleared ==
    /\ record' = record
    /\ nudges' = nudges + (IF record # NoRecord /\ ~record.old THEN 1 ELSE 0)
    /\ owed' = [owed EXCEPT !.turn = @ /\ ~record.old,
                            !.paid = @ + (IF record # NoRecord /\ ~record.old THEN 1 ELSE 0)]

\* triggerHostReloadResumeIfPending: the record is cleared before the nudge is sent.
TakeRecord ==
    /\ record' = NoRecord
    /\ nudges' = nudges + (IF record # NoRecord /\ ~record.old THEN 1 ELSE 0)
    /\ owed' = [owed EXCEPT !.turn = @ /\ ~record.old,
                            !.paid = @ + (IF record # NoRecord /\ ~record.old THEN 1 ELSE 0)]

\* The bootstrap of a load succeeds.
Boots ==
    /\ host.load = "booting"
    /\ host' = [host EXCEPT !.load = "online"]
    /\ TakeRecord
    /\ UNCHANGED <<pi, commands, broken, tokens, used>>

\* It fails: the host says it is offline, and the record stays where it is.
BootFails ==
    /\ host.load = "booting"
    /\ host' = [host EXCEPT !.load = "offline"]
    /\ owed' = [owed EXCEPT !.turn = FALSE]
    /\ UNCHANGED <<pi, record, commands, nudges, broken, tokens, used>>

\* /pinest-auth bootstraps by itself; nothing looks at the record.
SignedIn ==
    /\ host.load = "offline"
    /\ host' = [host EXCEPT !.load = "online"]
    /\ UNCHANGED <<pi, record, commands, nudges, broken, tokens, used, owed>>

\* The timer's message starts a turn, or joins the one that runs.
Nudge ==
    /\ nudges > 0
    /\ nudges' = nudges - 1
    /\ pi' = IF Idle THEN [pi EXCEPT !.turn = TRUE, !.spoke = FALSE] ELSE pi
    /\ owed' = [owed EXCEPT !.turn = FALSE]
    /\ UNCHANGED <<host, record, commands, broken, tokens, used>>

\* Two minutes pass.
RecordAges ==
    /\ record # NoRecord /\ ~record.old
    /\ record' = [record EXCEPT !.old = TRUE]
    /\ UNCHANGED <<pi, host, commands, nudges, broken, tokens, used, owed>>

\* /pinest-restart, at an idle moment: nothing here tells whether other sessions work,
\* which only a forced restart overrides.
\* The relauncher waits for the process to go and starts another, which knows nothing of a record.
Restart ==
    /\ used.reloads < MaxReloads /\ Loaded /\ Idle
    /\ used' = [used EXCEPT !.reloads = @ + 1]
    /\ host' = Fresh(IF broken THEN "unloaded" ELSE "booting")
    /\ pi' = [turn |-> FALSE, spoke |-> FALSE, settling |-> FALSE, compacting |-> 0]
    /\ record' = NoRecord /\ commands' = 0 /\ nudges' = 0
    /\ owed' = [owed EXCEPT !.turn = FALSE, !.reload = FALSE, !.blocked = FALSE]
    /\ UNCHANGED <<broken, tokens>>

\* Somebody writes the sources: firstSyntaxError finds an error in them, or none.
Edit ==
    /\ used.edits < MaxEdits
    /\ used' = [used EXCEPT !.edits = @ + 1]
    /\ broken' = ~broken
    /\ UNCHANGED <<pi, host, record, commands, nudges, tokens, owed>>

Next ==
    \/ TurnStarts \/ MessageStart \/ AgentEnd \/ AgentSettled
    \/ CompactAsked \/ CompactionEnds
    \/ Ask \/ Typed \/ RunCommand \/ PiReloads
    \/ Boots \/ BootFails \/ SignedIn \/ Nudge \/ RecordAges \/ Restart \/ Edit

Spec == Init /\ [][Next]_vars

\* pi ends what it runs and tells of it, runs the commands it is sent, and timers fire.
FairSpec ==
    /\ Spec
    /\ WF_vars(MessageStart) /\ WF_vars(AgentEnd) /\ WF_vars(AgentSettled) /\ WF_vars(CompactionEnds)
    /\ WF_vars(RunCommand) /\ WF_vars(Boots \/ BootFails) /\ WF_vars(Nudge)

-----------------------------------------------------------------------------
(* Properties.                                                             *)

TypeOK ==
    /\ pi \in Pi /\ host \in Host /\ record \in Record /\ owed \in Owed
    /\ commands \in Nat /\ nudges \in Nat /\ tokens \in Sizes /\ broken \in BOOLEAN

\* A record starts one turn at most, however many runtimes come and go, fail or are put off in
\* between (triggerHostReloadResumeIfPending: "Consumed exactly once").
NudgedOnce == owed.paid <= owed.debts

\* The state keeps its types, and a record starts one turn.
RecordIsSound == TypeOK /\ NudgedOnce

\* A reload that was accepted, put off or sent at a bad moment happens or is refused in the end,
\* whatever turns get in between - unless a compaction was in the way when it was put off.
ReloadSettles == owed.reload ~> (~owed.reload \/ owed.blocked)

\* An agent that was told its reload is coming, or whose turn a reload cut off, is given another
\* turn - unless the reload was refused, came too late, or the runtime it brought did not come up.
AskIsAnswered == owed.turn ~> (~owed.turn \/ owed.blocked)

-----------------------------------------------------------------------------
(* What the code's own comments and tests say of it, and it does not do:   *)
(* TLC refutes each of these (the README names the instance).              *)

\* "It will reload as soon as this turn settles" (reload-manager.ts:269).
NeverBlocked == owed.reload ~> ~owed.reload

\* "A broken file must NOT be reloaded" (watch.ts:102): the reload command does not reload sources that
\* do not parse.
BrokenIsNotReloaded == [][RunCommand /\ broken => host'.load = host.load]_vars
=============================================================================
