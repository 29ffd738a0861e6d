# PiNest, specified and proved

PiNest lets a phone or a browser drive `pi` coding agents that run on a
developer's machine.  A TypeScript extension (`server/src`) runs inside the host
`pi` process; a Flutter app (`app/lib`) is the client; a discovery document
in Firestore is how they find each other.  This directory holds TLA+ modules
that model the parts of it where interleaving, failure and order decide whether
it works, TLC configurations that check them on small instances, and TLAPS
proofs of the most important safety properties for every instance.

Paths below are relative to the repository root.

Contents: [the system](#the-system) - [modules](#the-modules) -
[what the runs check](#what-the-runs-check-and-show) -
[bounds](#bounds-and-why-they-are-enough) - [fairness](#fairness) -
[proofs](#what-is-proved) - [promises the code does not keep](#promises-the-code-does-not-keep) -
[what is not modelled](#what-is-not-modelled) - [plan](#plan) - [commands](#running-it)

## The system

Everything on the host is one Node.js process: its concurrency is that of
promises and callbacks, and a handler runs undisturbed from one `await` to the
next.  The modules take exactly these stretches as their steps.  Three things
break that picture.  A *reload* loads the extension a second time into the same
process, where the promises and handlers of the first load go on; a kill may
come between two calls of the file system; and every client, the document
service, the child processes and the network are processes of their own.

### Parts, state and operations

| part | source | state it keeps | operations | how it meets the others | module |
| --- | --- | --- | --- | --- | --- |
| direct transport | `server/src/direct-transport.ts` | lanes (one exchange per client), admission queue, closed flag | ensureLane, refreshIfStale, releaseExpiredLanes, close | drives exchanges; publishes through the signaling; bridges a channel to the control server's port | DirectTransport |
| P2P signaling | `p2p-signaling.ts` | live offer per lane, what was delivered, whether it watches | publishOffer, retractOffer, delivery of the document, stop | writes the discovery document, and calls the transport for answers and reports | P2PSignaling |
| exchange, framing, bridge | `p2p.ts`, `p2p-bridge.ts`, `p2p-framing.ts` | peer connection, two data channels, frames held until a socket opens | offer, acceptAnswer, close, attach, end | its callbacks are steps of the transport | DirectLink, Framing |
| discovery document | `auth.ts`, `discovery-watch.ts`, `firestore-listen.ts`, `presence.ts` | fields of one document per user | whole-field patches, polls or a stream of changes | shared by host and app | DiscoveryWatch, Reachability |
| tunnel | `tunnel.ts`, `wsserver.ts`, `index.ts` | one tunnel, the attempts under way, a flag that one is starting | start, restart, pick, heartbeat, stop | its name is published as presence | Tunnel, Reachability |
| control server: who may talk | `wsserver.ts`, `local-agents.ts` | sockets, unauthenticated and authenticated, verification slots | connect, authenticate, sweep, expire, send all away, stop | hands commands to the supervisor | Admission |
| control server: what is sent | `wsserver.ts` | outbound queues of each client, two timers | enqueue, flush, hold, give up | broadcasts the supervisor's frames | OutboundBox, SessionFeed |
| session supervisor | `supervisor.ts`, `session-*.ts` | the live sessions and their rows | spawn, resume, submit, despawn, clear, model, stash and adopt over a reload | subscribes to pi's agent sessions; writes the registry; broadcasts | Supervisor |
| message queue | `submit.ts`, `session-submit.ts` | the chain of submissions, the mirror of pi's queues | submit, stop, delete one | between the handler of commands and pi | HostQueue |
| background tasks, subagents, goals | `bash-tool.ts`, `background-tools.ts`, `subagent*.ts`, `goal-*.ts` | child processes, parents that wait, goal per session | start, kill, notify, wait, settle, continue | react to the end of a session's turn, and start turns | BackgroundTasks, Continuation |
| host session, reload, restart | `reload-manager.ts`, `host-context.ts`, `host-restart.ts`, `index.ts` | deferred reload, resume record, compaction | queueReload, flush, nudge | asks pi for a reload, which tears everything down | HostSession |
| sign-in and owner | `auth.ts`, `auth-cache.ts`, `browser-login.ts`, `host-identity.ts`, `owner-runtime.ts` | auth.json, tokens in memory, the owner | bootstrap, browser sign-in, renew, refuse, /pinest-auth | decides who may authenticate | SignIn |
| registry, runtime record, socket | `registry.ts`, `runtime-record.ts`, `local-agents.ts` | session rows in memory and in a file, runtime.json, the agents' socket | load, upsert, remove a session with its history, declare, claim | each load of the extension has a copy of its own | Machine |
| terminal views | `sessions-view.ts`, `attach-view.ts`, `session-transcript.ts`, `host-commands.ts` | the list, the open pane, whom it listens to | open, filter, kill, run a command, draw | acts on the supervisor's sessions | TerminalViews, SessionTranscript |
| app: session view | `app/lib/services/session_store.dart`, `session_cache.dart` | status, transcript and stream per session | applyState, applyHistory, applyStream | fed by the control server's frames and HTTP | SessionFeed |
| app: delivery | `app/lib/services/agent_service.dart`, `outgoing_queue.dart` | outgoing messages, outbox, reconnect timer | send, reconcile, re-send, redial | commands to the control server | Delivery |
| app: finding and linking | `app/lib/services/direct_link.dart`, `direct_channel_web.dart`, `app/lib/logic` | chosen endpoint, an exchange of its own | report, answer, choose | discovery document, exchange | DirectLink (its end of an exchange) |

`PROJECT.json` lists these and the smaller parts, each with its status, and the
hazards of the code by line with the properties that cover them.

### What makes it hard, and what makes it correct

* **Lanes.**  Admitting, gathering, writing the document and punching are awaits
  of seconds, during which the client may go, its channel may open, a newcomer
  may need the place, or the extension may be torn down.  Correct: a bounded
  number of lanes; a bridge only on the exchange that is its client's lane; an
  answer given to an exchange once; a connected client not displaced; nothing
  served after the teardown; what failed is tried again.
* **The link itself.**  Two channels open in any order, the app may speak before
  the bridge is there and the bridge before its socket; the watch may be a poll
  whose reads overlap.  Correct: what is carried is whole and in order, an answer
  reaches its own offer, and a link that ended is replaced.
* **Sessions over reloads.**  The agents survive a reload, their supervisor does
  not; operations in flight finish under the old one.  Correct: one agent per
  transcript, one holder per session, no agent that nobody can reach, a registry
  that can bring back what was live, and nothing brought back that was closed.
* **The feed.**  State, history and tool frames must all arrive in order; stream
  frames supersede each other and may be dropped; the link fills up and breaks.
  Correct: in the end the app shows what the host has, and a client that takes
  nothing is not held for ever.
* **Delivery.**  A message may be sent again because its arrival is not known; a
  stop hands the queue back while the link may drop.  Correct: no message
  vanishes, and each is shown, handed back or reported in the end.
* **What goes on without the user.**  A child process is settled by a close
  handler, two timers, a kill, an abort or a disposal; a parent waits for a turn
  that may be stopped, despawned or end in the gap of a reload.  Correct: an end
  is recorded once and reported at most once; nobody waits for ever.
* **Admission.**  Verifying a token is an await during which the socket may
  close, time out or be sent away.  Correct: only verified open sockets are
  clients, places and slots come back, nobody who speaks is cut off, nobody who
  is gone stays.
* **Being found.**  Starts of a tunnel overlap, presence writes overtake each
  other, a reload may come in the middle.  Correct: no process without an owner,
  a host without a name tries again, the document comes to tell the name.
* **One state directory.**  Two clients of one account share a file; every file
  operation may fail; several hosts may run.  Correct: whoever is served owns the
  registry; a row never outlives or is outlived by its history unnoticed; the
  record names the host that is up; the first host to bind the agents' socket keeps it.
* **Reloading the machine's own session.**  pi takes a reload only when idle, and
  only a record on globalThis survives it.  Correct: an accepted reload comes or
  is refused aloud; the agent it cut off is told to go on, once.
* **Terminal views.**  Sessions are replaced, rewritten and ended under an open
  list or pane.  Correct: a view listens to, draws and acts on the session it names.

## The modules

| module | what it models |
| --- | --- |
| `P2PSignaling` | the lane map of `p2p-signaling.ts`, the `p2pOffers` field and the watch's delivery of answers |
| `DirectTransport` | EXTENDS it: lanes, exchanges, the admission queue, refresh, lease, eviction, the bridge, the teardown |
| `DirectTransportProofs` | theorems of `DirectTransport` |
| `DiscoveryWatch` | the push listener and its rebuilding, or the poll and its overlapping reads |
| `Framing` | a payload as frames, and what a reader makes of frames |
| `DirectLink` | EXTENDS both: one client's exchange, channels, bridge and app, and the exchange that replaces it |
| `Supervisor` | sessions, agents, supervisors, registry copies and file, operations in flight, reload and crash |
| `SupervisorProofs` | one holder, one agent, true rows, for any number of sessions and reloads |
| `OutboundBox` | the outbound schedule of one client, as operators on its connection record |
| `OrderedFeed` | what the schedule promises of discrete frames (abstract specification) |
| `SessionFeed` | EXTENDS `OutboundBox`: a turn's events, its frames, the link, the app's view; implements `OrderedFeed` |
| `HostQueue` | the submitter, the agent's queues, their mirror and the transcript |
| `Delivery` | EXTENDS it: the app's outgoing queue, outbox, replay after a redial |
| `DeliveryProofs` | that no word vanishes and every copy is accounted for, for any messages |
| `TaskPromise` | what a session is promised about its background commands (abstract specification) |
| `BackgroundTasks` | the record and the process of each command, and its report |
| `Continuation` | EXTENDS it: turns, subagents and their parents, goals, stop, despawn, reload; implements `TaskPromise` |
| `ContinuationProofs` | that it does, for any number of sessions and commands, and that what reads as running works |
| `Tunnel` | the calls of startTunnel, the processes they spawn, the server's one tunnel |
| `Reachability` | EXTENDS it: who starts one, the shared flag, presence writes, the end of a load |
| `ReachabilityProofs` | of `Reachability`, `DirectLink` and `Admission`: live tunnels have owners, a link carries what is said whole and in order, the server's sets agree with the sockets, for any number of starts, exchanges, payloads and sockets |
| `Admission` | sockets, their chains of frames, verification, sweep, expiry, new sign-in, stop |
| `HostSession` | pi's turns and compactions, requests to reload, the resume record and its nudge |
| `SessionProofs` | of `HostSession` and `SessionFeed`: a promised turn is paid once, the feed keeps its order and comes out right, for any number of reloads, sessions and frames |
| `SignIn` | the cached sign-in, the bootstrap's ways to an owner, the browser, renewals and refusals |
| `Machine` | registry, deletion of a history, runtime record and agents' socket of the hosts of a machine |
| `StateDirectoryProofs` | of `SignIn`, of `Machine` with one host, and of the socket of any number, for any accounts, sessions and loads |
| `SessionTranscript` | what the terminal draws of messages, from events and from scratch, as operators |
| `TerminalViews` | EXTENDS it: the list, the pane, commands in flight, sessions that change under them |
| `TerminalViewsProofs` | that the views listen to, draw and act on the session they name, for any sessions, panes, messages and commands |
| `MC*` | what TLC needs beside a cfg: symmetry sets, scopes of instances, and the pairing of `SignIn` and `Machine` |

Definitions called *mutant of X* precede the definition X they vary: each is a
plausible mistake in the code X stands for, and is used nowhere.  With it in the
place of X the property named for it in `PROJECT.json` fails.

### DirectTransport and the code

`laneOf` is the `lanes` map, from client to exchange.  An element of `ex` is the
object `beginExchange` builds; `stage` is how far that function (and `refresh`
around it) has come, one value per await.  `replaces` is the lane a refresh will
displace.  `channel` is what has become of the `channels` promise and of the
callbacks on it, `open`, `bridged`, `dead`, `refreshing` are the fields of those
names.  `admission` and `queue` are the promise chain of `ensureLane`.

| actions | code |
| --- | --- |
| WriteReport, EnsureLane | a client's report in the document; `onReport` and the head of `ensureLane` |
| AdmitKnown, AdmitFresh, AdmitEvicting, AdmitNobody | `admitLane`, up to its first await, by what it finds |
| EvictionWritten, EvictionFailed | what follows the eviction's document write |
| PublishIfLive | candidates gathered: publish, or withdraw if the lane is gone |
| OfferReturnedAdmission, OfferReturnedReplacing, OfferReturnedDisplaced, Restored | what follows the offer's write, for a new lane, a replacement, a replacement that has been displaced itself, and the old offer written back |
| OfferThrew | a gather or a write that fails |
| Answer, ChannelsOpen, ChannelLost, ChannelEnds | the answer delivered and applied; the channels opened or never do; the bridge ended |
| OfferAges, ClientSilent | the clock passes OFFER_LIFETIME_MS, LANE_LEASE_MS |
| RefreshIfStale, ReleaseExpired, ReleaseNext, ReleaseGone | the two passes of the maintenance timer, the second one lane per write |
| Teardown | `teardownRemote`: signaling stopped, then the transport closed |

### Supervisor and the code

A runtime is a load of the extension: `rt[r].phase` is how far its bootstrap has
come, `torn` that its teardown ran, `live[r]` its supervisor's map, `rows[r]` its
copy of the registry; `disk` is the file, which any of them overwrites whole.
`agent` is pi's view of an agent session, with the runtimes that hear its events;
`prompt` tells of the last prompt it was given while idle, which pi prepares before
the agent runs, and may refuse.
`object` is the supervisor's record of it.  `stash` and `dying` are the parked
sessions before and after their adoption deadline.  An element of `op` is an
operation suspended in an await: creating an agent, letting it settle, or
stopping one.  `cut` remembers whose work the end of a process interrupted and
decides nothing.  `scope` says which sessions, how many agents and which events
an instance has.

| actions | code |
| --- | --- |
| Start, Adopt, RestoreNext, RestoreEnds, BootstrapStalls | a bootstrap: identity, adoption of the parked, one restore after another, serving, or its deadline |
| Teardown, AbandonStash, AbandonOne, Crash | `teardownRemote` and `stashForReload`; the adoption deadline and the abort of each session; the end of the process |
| Spawn, Resume, Created, Settled, CreateFails | opening a session, with its two awaits |
| Despawn, Despawned, CloseRow | stopping one; closing the row of one that is not live |
| Clear, ClearStopped, Cleared | `session_new`: stop, create, replace |
| SetModel, ModelSet | the row written behind an await |
| Message, TurnBegins, PromptRefused, TurnEnds | a submitted message; `message_start`, or the rejected `session.prompt`, which changes nothing but what pi does; `agent_end` under every handler that hears it |

### SessionFeed and the code

`session` is the host's side of a session: whether it works, how much of what it
said is in the transcript (`saved`), the segments before its tool calls (`segs`)
and the text being said (`text`); `untold` counts what is being said in a turn
without an id (`currentTurnId`), which is not streamed.  `conn` is the client's outbound box together
with what the socket holds (`wire`).  `view` is what the app's store holds,
`asked` and `reply` a history request under way, `late` the history push
scheduled 100 ms after a user message.  The actions are pi's turn events
(UserMessage, AssistantStarts, TextDelta, UntoldDelta, ToolStarts, ToolEnds, AgentEnds,
LateHistory), the server's timers (TimerFires, StallRunsOut), and the link and
the app (Deliver, ServeHistory, ReplyArrives, LinkBreaks, Redial).  A frame takes
one place in the socket's buffer whatever its size, so that *when* a frame fails
to fit is arbitrary within Room, as it is in the code for frames of any size.

### DirectLink, DiscoveryWatch and Framing and the code

`watch` is what `createDiscoveryWatch` returned: `on` until stop, the listener or
the timer of its rebuilding with its back-off, and the version seen last; `reads`
are polls in flight, each with the version it read.  `chan` and `ready` are p2p.ts's
two data channels and those that have been open; `wait` is the promise of both,
resolved by the second to open and rejected by one that closes before; `ears` are
the transport's handlers on it and on a disconnect, which it attaches only when the
write of the offer is acknowledged (`OfferWritten`).  A wait resolved before that is
"early", one rejected before that has "escaped": nobody takes the rejection, and the
process ends.  `up` and `down` are frames between the ends with the reader's partial
message.  "broken" is a bridge whose construction threw.

| actions | code |
| --- | --- |
| StartDirectTransport, RefreshIfStale | an exchange, and the one that replaces an ended or unanswered one |
| TryConnect, ChannelOpens, AppConnects, AppLoses, AppGivesUp | the app takes the offer and answers; its end of the channels |
| Delivered, WatchFails, WatchGoesOn | a document reaches `deliver`; a listener or read fails; it is rebuilt, or the next poll |
| OfferWritten, SocketOpens, SocketCloses, Disconnected, PeerSees | the transport attaches, with ChannelOpens the bridge is built, its socket, and the ends of the three |
| AppSays, FrameArrives, ServerSays, AppReads | payloads framed, carried and assembled, both ways |

### HostQueue and Delivery and the code

`chain` and `gate` are `createSubmitter`'s promise chain and the evidence it waits
for; `pi` is the agent, external: preparing, running or idle, its two queues.
`mirror` is the session's `pending`.  Messages are accepted in copies, because
the app may offer one again; `voided`, `returned`, `deleted` and `transcript` say
what became of them.  `hidden` remembers which messages the agent had queued while
the mirror did not show them, and decides nothing.  `ReportFirst` is pi's order:
a shorter queue is reported before the message that left it is announced.  In `Delivery`, `tracked`, `seen` and `failed` are the
outgoing queue, `outbox` the commands kept while the link is down, `resync` the
flag that makes the next state frame offer unconfirmed messages again; `parked` is what a
stop handed back, and `composer` what the chat on the screen has taken of it.
Only that chat stops a run, so the composer takes what an earlier stop handed
back before the next one.

| actions | code |
| --- | --- |
| Send, GateOpens, GateExpires, StartFails | one turn of the submitter's chain and what ends its wait |
| MessageStart, Dequeue, MessageEnd, RunEnds | pi's events and their handlers |
| Cancel, QueueParked, TakeParked, Deletion | a stop (the mirror emptied at once, its texts returned after the abort, then put in the composer) and `queue_delete` (`queue_clear`, which deletes all, is left out).  The command brings an index and the handler compares words (`session-command-handler.ts:210`), so a deletion takes every message out and prompts it again: a working agent queues them as they were, an idle one begins the first, and a second throws, which ends the process |
| SendMessage, ResendOutgoing, Arrives, Refused | a message sent by POST or frame, its arrival or refusal |
| ApplyState, ApplyHistory | the mirror and the transcript reach the app and settle what it tracks |
| LinkDrops, Reconnect | the socket ends; the redial and what it flushes |

### BackgroundTasks and Continuation and the code

`task` holds each command's record with the state of its child process and of the
report; `turn` each session's turn, the prompt on its way to pi, whether its user
stopped it and the subagent call it waits in; `run` is the child's `subagent` record,
`row` its registry row.  A prompt is one step of the handlers, which say that the
session works and its run runs, and a later one of pi's, which begins a turn or
refuses it; a refusal reaches only the clients, as an error.

| actions | code |
| --- | --- |
| BgRun, StartRefused, Bash, AgentKills, UserKills, TaskStep | starting a command, a kill, and every writer of its record (close handler, timers, abort, report) |
| CallSubagent, Spawned, SpawnFails, Briefed, BriefFails | the tool from the spawn to the wait, and its two failures |
| UserPrompt, Begins, Refused, TakeUp, AgentEnds | the user's words, the turn pi makes of them or its refusal, the queued report that begins a turn, `agent_end` under every handler |
| Stop, StopFindsNobody, Despawn, AbortForDespawn, FinishDespawn | a stop and a despawn with their awaits |
| GoalSet, GoalCleared | the goal keeper |
| Teardown, Load | a reload: the manager disposed, sessions parked; adoption |

### Tunnel and Reachability and the code

A `start` is a call of `startTunnel` with its process, from the spawn to the proof
of the name; `tracked`, `tunnel`, `tunnelUrl` are the server's fields,
`starting` is `_tunnelStarting`.  `writes` and `late` are presence writes under
way and those given up at their deadline that may still land.

| actions | code |
| --- | --- |
| FirstStart, Heartbeat, OpenPicker, PickProvider | who starts one |
| StartStep (Banner, NgrokAccepts, Proved, GivesUp), ProcessStep (Dies, Renamed) | what becomes of a start and of its process |
| Lands, Fails, Overdue, LandsLate | a presence write |
| TearDown, CloseServer | a reload or a signal |

### Admission and the code

`socket` holds for each socket its `AuthedSocket` with its chain of frames; `unauthenticated`, `clients`,
`inFlight`, `attempts` are the server's fields of those names.  The actions are
onConnection (Connect), one frame queued and handled (EnqueueFrame,
HandleMessage), the verifier's answer (Verdict), the timers (AuthDeadline,
ExpiryTimer, PingClients, WindowPasses) and the ends (PeerCloses, PeerVanishes,
CloseAuthenticatedClients, Stop).

### HostSession and the code

`pi` is external: idle, running or compacting, and what it is about to tell;
`host` holds the variables of the loaded extension, `record` what is on
globalThis.  TurnStarts, MessageStart, AgentEnd, AgentSettled, CompactAsked and
CompactionEnds are pi's events with their handlers; Ask, Typed and RunCommand a
request to reload by the agent, by the user and when pi runs it; PiReloads,
Boots, BootFails, SignedIn, Nudge, RecordAges and Restart the next runtime;
Edit breaks or mends the sources.

### SignIn and Machine and the code

`cache` is auth.json, `machine` the token of the bootstrap's client, `calls` the
requests to Google by their callers, `login` the loopback server.  Bootstrap,
PinestAuth, NotSignedIn, Found, Posted, Read, SignedIn follow `resolveIdentity`,
`browserLogin` and `/pinest-auth`; Renew, Exchanged, Refused, Renewed, Unanswered
the token exchange; Revoke is Google's.  In `Machine` a load of a host is an
*instance*: Start, Reload, Boots, Loaded, LoadFails, End, Kill; Upsert; a removal
in its steps Removes, Secures, Saves, Unlinks, each of which may fail; Child and
TunnelMoves write the record; ServeLocalAgents, Takes, Listens claim the socket.

### TerminalViews and the code

`live` names the agent session in each slot, `objects` their messages; `list`,
`pane` and `flow` are the views, `subs` who listens to which session.  The
actions are the user's keys (OpenFlow, MoveCursor, Filter, Ask, ConfirmKill,
OpenSelected, RunCommand...), what a run says (UserSays ... AgentEnds, each with
what `onEvent` draws), commands that end (CommandDone, CommandFails,
CommandReturns), what others do (the *Elsewhere* actions), and Render, which
adopts the session that now stands in the slot.

## What the runs check and show

TLC reports no error in any run.  Each property is broken by the mutant listed
for it.  Properties that say several things of one component are conjunctions of
named parts, each with its own comment in the module.

| run | instance | what it shows |
| --- | --- | --- |
| `Direct_safety` | 2 clients, 1 lane, 2 exchanges, 2 reports; failures, unreadable reports, teardown | `Inductive` (the invariant of the proofs: types, the cap, bridges on their clients' lanes, and what they rest on), AnswerNotReapplied, NoBridgeAfterTeardown, ConnectedLaneKept |
| `Direct_progress` | 2 clients, 2 lanes, 2 exchanges; failures, teardown; fair | NobodyLeftWaiting: a lane whose gather or write failed is replaced when it ages; a refusal or a failed write does not hold up the admissions behind it; channels that open during their offer's write are served |
| `DirectLink` | 1 client, 3 exchanges, a push or a polled document, 2 reads at once, 3 failures; fair | LinkIsSound (frames held and carried whole, in order; an open lane has its bridge), AnswerMatches (an answer is only handed to the offer it answers), LinkServes (the answer is heard, an ended link is renewed, and what is said arrives) |
| `Supervisor` | *custody*: 1 session, every event; *hosting*: 2 sessions, reload and crash, no overlap; *setting*: 1 session whose model changes; in the last two a prompt may be refused | SessionsAreHeldOnce, NothingStranded (parked sessions have a deadline or a bootstrap that will take them, and a bootstrap that waits can go on), RowsAreTrue (what is shown can be used, its row can bring it back; it is shown working whenever it runs, and shown so, or said to run by its row, only if it runs, prepares a prompt, or was refused one), OneAgent, ClosedStaysClosed |
| `Feed` | 2 sessions, 1 open chat, 2 turns, a buffer of 1 frame; the link may break; timers fair | FeedInOrder (`SessionFeed` implements `OrderedFeed`), FeedIsSound (once all has arrived the app shows what the host has), StalledIsClosed |
| `Delivery` | a steer and a follow-up, by POST or frame, 2 mishaps of any kind, any number of deletions; the agent reports its queue first; fair | MessagesAreSound (accepted copies are accounted for - never doubled, and lost only if the mirror did not show what the agent had queued, or with the process - and no prompt of the submitter's clashes with one being prepared unless its start outlasted the gate), NothingVanishes, EverythingSettles |
| `Continuation` | 2 sessions, one the other's possible subagent, 1 command, prompts pi may refuse, 1 stop or goal, 1 reload; fair | ReportsKeepThePromise (`Continuation` implements `TaskPromise`), EndIsFinal, RunsAreSound (a run that says it runs has an agent at work or about to be, or one that refused its prompt), EveryoneIsAnswered (whoever waits gets an answer, unless the child was despawned or refused its prompt) |
| `Admission` | a client of the network and one of this machine, all caps 1, 1 new sign-in, stop; fair | ServerIsSound, NobodyCutOff, NobodyLingers |
| `Reachability` | 2 starts and any provider, 3 starts and ngrok, tailscale or off; 1 pick, 1 failed write, reload or signal; fair | TunnelsAreOwned, NoUrlIsRetried, PresenceCatchesUp |
| `StateDirectory` | SignIn: 2 accounts, 2 browser sign-ins, 2 renewals at once, 1 restart; Machine: 1 host, 2 sessions, 3 loads, kills, every file operation failing; the socket: 2 hosts, 3 loads, kills | OwnerIsSound, SignInSettles; StateIsSound, RemovalIsSound (one host); FirstKeepsItsSocket (who bound the socket while no other host was asking or listening keeps it; not more: see LiveSocketLeftAlone below) |
| `HostSession` | 2 turns, 2 requests, 2 reloads of pi's own, 1 edit that breaks the sources; fair | RecordIsSound (a record starts one turn), ReloadSettles, AskIsAnswered |
| `Views` | 2 sessions, 2 agent sessions built, 2 messages, 2 panes, 1 command, 1 rewrite, 1 step of others | ViewsAreSound (the pane listens to its session and has drawn its messages, except the results of calls that an abort or an error cut off), NoticeStays, ListActsOnItsRow |

Three runs take several instances at once, chosen by the initial state: `Supervisor`
and `Reachability` by a scope, `StateDirectory` by which of three parts it follows: the
sign-in, the registry and record of one host, the socket of two.

Some properties name an exception, and the comment says so: each is behaviour
the code has, found when TLC refuted the property without it, and is listed in
the [table below](#promises-the-code-does-not-keep) where a text promises
otherwise.

## Bounds, and why they are enough

Every bound is a constant, named in its module with what it bounds, and guards
the action that would exceed it.  When the bounds are used up nothing more can
happen, so the runs do not check for deadlock; the progress properties do.

* *Two clients, one lane* is the smallest instance in which a client must be
  evicted for another; *two exchanges* let a lane be replaced, or evicted and its
  place retaken.  A third exchange only matters to a lane replaced twice, and
  the theorems cover any number.  In `DirectLink`, whose safety is proved for any number too, the third is the one that
  replaces the replacement of a link that ended.
* *Two runtimes* (all safety of `Supervisor` but BootstrapGoesOn is proved for any
  number of runtimes, sessions, agents and operations) are one reload or one crash; *three agents* let a session be
  cleared or reopened while another lives; *two operations* overlap once.
  Custody, where everything may overlap, takes one session: what its operations
  do touches no other session's state except through the registry file, which
  the hosting scope covers.
* *Two turns of one piece* let frames of an older turn meet a newer one.  A
  *buffer of one frame* makes every second frame wait.  *One held frame* bounds
  how far sessions work ahead of a blocked client: the schedule treats all held
  frames alike.  *One redial*: the app keeps nothing of a link but its view.  The safety of the
  feed is proved for any of these.
* *Two messages* are the one being prepared and the one behind it; *three copies*
  and *two mishaps* allow a message to be sent again after a loss and then
  stopped or deleted.  Both safety properties are proved for any numbers; their
  invariant was checked on three messages with two copies too.
* *One command, two sessions* suffice because a command's record is written by
  its own handlers only, and a call involves one parent and one child; the
  theorems cover any number of both.  A *goal* takes the place of the stop, and is
  set and cleared before the reload: it begins a turn as any other prompt does.
* *Caps of one* put every cap of `Admission` at its limit with the second socket;
  its two safety properties are proved for any caps.
* *Two starts* overlap: the bootstrap's or the heartbeat's, and the user's.  The *third*
  is the retry that NoUrlIsRetried is about: one start cleared the shared flag while
  the other went on, both left nothing, and the heartbeat has to try again.  What
  cloudflared adds, a name that must answer before it counts, is checked with two;
  TunnelsAreOwned is proved for any number.
* *Three loads* of a host are a start, a reload, and a restart or another reload;
  `Machine` with one host, `SignIn` and RecordIsSound are proved for any number.  *Two hosts*
  are enough for one to take the socket of the other, and FirstKeepsItsSocket is proved
  for any number.
* *Two panes* are one that stays behind and its successor.

`Events`, `Scopes` and the Max* counters name the rarer things the environment or
the program may do in an instance.  An instance without an event is the claim
that the property holds as long as it does not happen: the hosting properties are
stated for instances without overlap because with it OneAgentPerTranscript and
others are violated.

## Fairness

Only what the process itself guarantees while it lives is fair, and weakly: an
await ends one way or another (every one has a timeout, or fails), a promise that
settled runs its continuation, an armed timer fires, a process that was signalled
ends, an extension torn down for a reload is loaded again, pi ends a run it began
and tells of it.  The app redials and applies what it receives, which its own
timers ensure.  Nothing is assumed of users, of a command nobody stopped, of the
network beyond what has been asked of it, or that a teardown or crash ever comes;
a presence write given up at its deadline is owed nothing.  In `SessionFeed` only
the server's two timers are fair.  `Supervisor`, `Machine` and `TerminalViews`
state no fairness: NothingStranded says as an invariant that what would have to
happen next is possible and armed.

## What is proved

Eight modules hold proofs.  Each rests on the assumptions that the modules it
EXTENDS declare about their constants, and TLC evaluates these in every run.  The
pattern is the same in all: an inductive invariant that TLC has checked, a lemma
for each action, a temporal step at the end.

| theorem | says |
| --- | --- |
| *DirectTransportProofs*, for any finite set of clients and any bounds | |
| `TypeCorrect` | the type invariant |
| `CapHolds` | no more than MaxLanes clients hold a lane |
| `BridgesServeTheirLanes` | a bridge is on the exchange that is its client's lane, with its peer open |
| `AnswersAreNotReapplied` | an answer reaches an exchange a second time only after its channels opened |
| `ConnectedClientsStay` | ConnectedLaneKept: a connected client is displaced by nobody's report and no refresh |
| `NothingServedAfterTeardown` | no bridge once the transport is closed |
| `InductiveHolds` | the invariant they follow from |
| *ContinuationProofs*, for any number of sessions, commands and levels | |
| `TasksKeepThePromise` | `Continuation` implements `TaskPromise` |
| `FirstEndStays` | EndIsFinal: the first end of a command is the one its record keeps |
| `RunningWorks` | RunsAreSound: types, and a run reads as running only while its session works, is about to, or had its prompt refused |
| *SupervisorProofs*, for any number of sessions, runtimes, agents and operations | |
| `OneHolder` | SessionsAreHeldOnce: types, and a session has one holder, whatever overlaps |
| `SomebodyWillAdopt` | what is parked is parked for a runtime still to come, whatever overlaps |
| `OneAgentEach` | OneAgent: one agent per transcript, and none lost sight of, where operations are in order |
| `RowsTellTheTruth` | RowsAreTrue: what is shown can be used, its row can bring it back; who runs is shown working; shown working, or "running" in its row, is only what runs, prepares or was refused its prompt |
| `ClosedComesBackWhenAsked` | ClosedStaysClosed: only a spawn or resume opens a closed row |
| *DeliveryProofs*, for any messages and any number of copies and mishaps | |
| `WordsNeverVanish` | NothingVanishes: every word is on its way, shown, handed back or in the composer |
| `EveryCopyAccounted` | MessagesAreSound: every copy accepted is found once, and no prompt of the submitter's meets one being prepared unless its start was slow, in either order of the agent's reports |
| *SessionProofs*, for any number of turns, requests and reloads | |
| `RecordIsPaidOnce` | RecordIsSound: types, and no record starts a second turn |
| and for any sessions, open chats, messages, pieces and room in the socket | |
| `FeedTypesHold` | FeedTypeOK: types, and what waits for the client is bounded |
| `FeedKeepsOrder` | FeedInOrder: `SessionFeed` implements `OrderedFeed` |
| `FeedSound` | FeedIsSound: once everything on the way has arrived, the app shows what the host has |
| *StateDirectoryProofs*, for any accounts, sign-ins, sessions and loads | |
| `OneOwnerAlways` | OwnerIsSound: registry, cache and token are of the owner that is served |
| `RecordTellsTheTruth` | StateIsSound: runtime.json names the host that is up (one host) |
| `RemovalIsATransaction` | RemovalIsSound: what a removal reports is so, and a history goes after its row (one host) |
| `TheFirstIsKept` | FirstKeepsItsSocket: who bound the socket while nobody else asked or listened keeps it (any number of hosts) |
| *ReachabilityProofs*, for any number of starts, names and failed writes | |
| `TunnelsHaveOwners` | TunnelsAreOwned: types, and a live process is a start under way or the tunnel of a running server, until the user picks a provider |
| and for any number of exchanges, of payloads and of frames a payload takes | |
| `LinkSound` | LinkIsSound: types, each end has got, whole and in order, a first part of what the other said, and an open lane has its bridge, unless both channels opened and one closed during the offer's write |
| `AnswersMatch` | AnswerMatches: an answer is handed on by a watch that is on, for the offer it answers |
| and for any number of sockets, any caps, any frames | |
| `Soundness` | ServerIsSound: types, and the server's sets and counter agree with the sockets |
| `NobodyIsCutOff` | NobodyCutOff: a client that pipelines or speaks is not closed for haste or silence |
| *TerminalViewsProofs*, for any sessions, panes, messages, commands and steps of others | |
| `ViewsSound` | ViewsAreSound: types, the open pane listens once, to what it shows, and has drawn its messages, except the results of cut calls; the cursor is on a row that is shown |
| `NoticesStay` | NoticeStays: a failed command's return does not wipe the notice of its failure |
| `ListActsRight` | ListActsOnItsRow: every session once and under its parent; the cursor stays on its session; what is killed or opened is what was asked about |

The constants are assumed to be what the code makes them: bounds are naturals, and
positive where one thing must be possible; `None` is none of the things it stands
beside, and sessions are not commands (`ClientBound` in `P2PSignaling`,
`NamesApart` in `BackgroundTasks`); clients are finitely many; the providers are
among the four the code knows (`ProvidersKnown`); the open chats are of sessions
(`OpenAreSessions`), a socket has room for a frame (`RoomBound`) and a payload takes
at least one (`PartsAssumption`); the terminal's own session is no agent session and
one agent session can be built (`ViewsAssumption`); who renews a token for a request is not the bootstrap (`SignInAssumption`); and `MCStateDirectory` looks at the
registry and the record with one host (`Hosts`, `MachineAssumption`), because with two
the rows of one are not among those the other writes (RowsPersist), and runtime.json
names the last that loaded; at the socket with any number (`Peers`).  No theorem has a hypothesis of its own.

### DirectTransport

None of the theorems is inductive alone.  `Inductive` adds what the code relies on:

* `LaneIsItsClients` - a lane, a published offer and a replacement belong to one
  client each; without it a bridge could be on another client's exchange.
* `EvictionKeepsRoom` - from finding a victim to inserting the newcomer there is
  room, and the newcomer has no lane.  Only an admission inserts a lane, and
  admissions take turns: this is why the cap survives the await in between.
* `OpenNeedsPeer` - open channels are on an open peer, and a bridge implies open.
* `ReplacedReturnsLanded` - an exchange under replacement becomes the lane again
  only by landing, so that a replaced exchange's answer is not due again.
* `UnpublishedUnanswered` and `AnsweredIsDelivered` - an exchange that gathers
  has neither offer nor answer; a lane that has had its answer and still waits is
  in `delivered`, so that a redelivered document does not answer it twice.

The proof goes by *shape*.  One group of lemmas says what each helper makes of an
exchange (`ClosePeerIs`, `BeginIs`, `AdoptIs`, ...), the next what each action
makes of the whole state (`...Shape`); `StepShape` collects them: a step leaves
the exchanges alone, begins one, or moves some by one of a few moves.  Then there
is one lemma for each part of the invariant, over the few shapes in place of the
actions.  `InductiveStep` puts them together.  That a connected lane is kept follows
from the invariant step by step (`ConnectedGivesWay`): a bridge implies open
channels, and whoever evicts, refreshes or admits takes a lane without them.

### Admission

The sets could disagree with the sockets if a verdict came to a socket that was
gone, or if two verdicts came to one.  `ServerInd` therefore says of each socket
(`SocketIsSound`) that a frame stays at the head of its chain while its token is
verified, so that no second verification of it can begin, and that an open socket
that has attempted and is not in is waiting for its verdict; and that after stop
no socket is open, whatever is still being verified.  A step gives one socket a
new record or several at once without touching a verification; in the first case
the number of verifications changes by what that record says.

### Continuation

For the promise, what must be known of each command is local
(`TasksAreSound`): what was reported had ended, was not stopped by anybody, and is
marked as notified, which is what holds the next report back.  Each action
moves the commands by one step of `TaskPromise`, or by its Settle, which lets a
turn that ends and a reload end several commands and discard several reports at
once.

That a run says it runs is true until the turn ends or the prompt is refused; a
refused one leaves `NotStarted` behind, which new work or a reload takes away, and
which is the exception RunningIsWorking makes.
RunsAreSound needs `Tied`: an existing child has a turn, idle or working; who
waits in a call waits for a child that was there; and a child that is being
spawned is spawned by one call.  Without the last, two calls could bring the same
session up, and the second would reset a run whose turn goes on.  Most actions
are *calm* - no session comes or goes, and no run starts - and share one lemma; the
rest of the proof is about a spawn, a stop, a despawn, and a reload.

### Reachability

A tunnel has an owner because the host starts one at a time, and that holds through
three steps that are seconds apart: the flag is set from the start to the write
that its result ends with.  `OneAtATime` says it: at most one start is under way,
no settled tunnel lives beside it, and while the host is up a start under way, or
the one write that will clear the flag, means the flag is set.  It is claimed
only while the host alone starts tunnels (`HostAlone`), since a pick does not wait;
after a pick `TunnelsAreOwned` promises nothing, because then the code does not
(see below).  A step begins a start, settles one, or is calm, and there is one
lemma of each kind.

### Supervisor

*Custody* holds in every scope, and for one reason: an object enters a map when it
is made, or moves there from where it was parked, into a map that is empty until
then.  `InCustody` says so: what is held has been made; a runtime that has not
adopted yet holds nothing and has no operation (`EarlyHoldsNothing`,
`OpsAreUnderWay`); an agent that runs lives, and one that lives is of a session;
runtimes come one after the other, each after the teardown of the last
(`InTurn`).  A step that moves no session shares one lemma with all others of
its kind.

*Order* is claimed where operations on one session do not overlap, fail or meet a
reload (`Orderly`), because otherwise the code does not keep it.  `InOrder` says
that one runtime hosts at most and has the registry file's contents in memory;
that a session has one operation at most, which is about the object in the map;
and, by that operation, what the agent is like - usable, fresh, being stopped,
disposed - and what the row says (`HostedAt`).  A usable one is shown working
whenever it runs, and if shown so runs or was asked to; a session that is being
stopped is asked for nothing.  A refused prompt is kept in the state for this:
the invariant says of what the app is shown just what the code makes true.  While nobody hosts, whatever lives
is parked and heard by who parked it (`ParkedAt`).  `FilesApart` is what makes
*one agent per transcript* of *one agent per session*: a transcript is mentioned
by one session, be it in its row, by its agent or by the operation that opens it;
and transcripts not created yet are mentioned by none.  Most steps
concern one session (`AwayFrom`); for these one lemma restores the invariant from
what holds of that session afterwards.  The action property needs two things
more: that whoever lives or is about to be restored has a transcript
(`NamesKnown`), and what a step may write into a row (`Written`).

### Delivery

The machine's part counts.  The copies of a message in a queue are the number of
places it has there, and each step moves one place or all of them: each copy
accepted is found once (`CopiesAccounted`); the mirror has as many as the agent's
queues, unless the message is one of `hidden`; and an agent that is not
running shows nothing as queued (`Calm`), so that a message that starts does not
leave a queue it was never in.  What a stop takes out is what the mirror shows, so
it loses at most what is hidden; two ways lead there, an aborted run that leaves
its queue to the next, and popPending, which takes the oldest message off the
mirror when the one that begins was reported gone before.  A deletion moves the
queue as it is, or its one message, or ends the process.  The
app's part, `WordsKept`, needs only that what the app has seen of the transcript
is in it and that two stops do not hand back at once.

### HostSession

The record stands for one promise not yet paid: `Accounted` counts it with the
nudges sent.  It is stamped anew only if none is there, or for a turn that really
runs, and so the extension must not believe that it works when pi does not:
`WorkingIsTrue`.  That needs `GuardHolds`, because a compaction inside a turn that
the extension did not start would end it unnoticed.

### SessionFeed

`FeedIsSound` speaks of the moment when nothing is under way, and so the invariant
reads the frames under way as a promise of what the app will show.  `Coming` is
what the socket holds, then the urgent frames, then the waiting stream frames: the
order in which the app gets them if nothing more happens.  While the first link
is up (`FirstLink`), the last status in it is the session's status or, if there is
none, what the app shows is (`StatusOK`); likewise the last page of its history,
unless a request for it is under way or will be (`HistoryOK`).  Segments are harder
(`SegsOK`): a stream frame with them waits, or was dropped and will be made again, or
the last one on the wire has them; and because a page wipes the segments of a session
that the app takes to be idle, the app must have been told by then that it works.
`BoxIsNewest` is what makes superseding right:
the stream frame that waits has the segments the session has now, so it may stand
for all before it.  Nothing is claimed of a later link, as the code promises
nothing (RedialCatchesUp below).

That the feed keeps its order is a refinement of `OrderedFeed` through `Discrete`,
which takes the stream frames out of a sequence.  It is a recursive function on the
length, and what it makes of a longer or a joined sequence is proved over the set of
lengths for which it holds (`UpTo`: a set of numbers with 0 and with n + 1 beside
each n has them all), because the library's induction takes an operator.

### DirectLink

What is said is numbered, so the frames under way can be told from what was said:
they follow each other, part by part and payload by payload, and the last one ends
what was said last (`Chain`).  What has been read ends where they begin (`At`): the
reader holds the parts before it (`Assembling`), what waits for the socket and what
the server has got are the payloads before that (`Words`).  `Uplinked` says this of
the way to the host, where the frames a channel holds for a bridge to come stand
before those on their way, and `Downlinked` of the way back.  Each step moves the
place by one frame (`CarriesNext`), adds frames at the end (`ChainGrows`), or moves a
frame or a payload from one store to the next; attaching a bridge reads all that was
held, as if it came then (`AttachedReads`).  A frame out of turn would be refused and
end the link: `UplinkCarries` shows that it never comes.

`AppInStep` and `BridgeInStep` are what keeps exchanges apart: an app says nothing
on an exchange it has not answered, a bridge holds nothing back, and with an open
socket nothing waits.  Without the last a payload could overtake one that waits.
`WaitInStep` is why an open lane has its bridge: while the wait for both channels is
on, every channel that has opened is open still.

### State directory

For the sign-in `Owned` follows the account through the awaits: a request made for
the bootstrap asks about the account on disk, one made for a discovery request
about the owner (`CallsKnowTheOwner`, `BootAsksForTheCache`); a browser sign-in
insists on the owner known when it began, or on the account a bootstrap is asking
about (`LoginInsists`); the token in memory is of the owner (`TokenOfTheOwner`).
For a removal the invariant is what its step has done so far (`Removing`): the
row is in memory and on disk as it was until the save, the history where it was
moved, and at the unlink the row is off the disk.  For the socket the
property is its own invariant, but for the types: who asks while the first listens
finds its file, which answers, and so nobody is left who could remove it.

### TerminalViews

`ViewsInd` joins six parts: the supervisor's map and its agent sessions (`HostOK`), the
list (`ListOK`), the commands in flight, and the pane: its type (`PaneTyped`), whom it
listens to (`PaneListens`) and what it has drawn (`PaneFollows`).

What the pane has drawn out of events is compared with a rebuild from the messages,
and that is not inductive: the next event finds the component it is about by
what the view keeps beside the components, the message being streamed and the calls
that wait for a result.  `InStep` says what these must be in each phase of a run, and
there is one lemma for each event (`UserStep` ... `FinishStep`) and one for a view
that is rebuilt in the middle of a run (`RebuiltInStep`), which missed the events
before.  A rewrite of the messages leaves the pane behind; `Follows` lets it be behind
only while others did it or one of its own commands has yet to return, which then
refreshes it (`ReturnsKeeps`).  An agent session that another takes the place of is
dealt with by `AdoptIs`: whatever a render finds in the slot, afterwards the pane
listens to one session and is in step with it.

The order of the list is a recursion over a tree that is not known to be a tree.  The
model runs it as a loop with the calls still to be made (`Emit`), and `Walking` is the
invariant of that loop: rows are placed once; the next calls are of roots and
of rows whose parent is placed, and all such rows are among them (`Ahead`), until every
row that hangs from a root is there; what was placed after a row is under
it, until all that is under it is placed (`Grouped`); and each call leaves fewer
(`Left`), so that the loop ends within `Calls`.  `OrderIs` is what follows for the
list.  That a session is under another is said by closure (`Under`: it is in every
set that holds the subagents of the other and of its own members), and so nothing is
proved by induction over a tree.

### What is only model-checked

TLC checks `Inductive` of `DirectTransport` in the run `Direct_safety`; those of the
other modules hold on their runs' instances as well, and are not listed
there because the runs' own invariants follow from them.

Only model-checked are NothingStranded, half of which says that a bootstrap can go
on (it is about ENABLED), and all liveness, which the prover cannot do under fairness.

## Promises the code does not keep

These properties stand in the modules' last sections, each under a comment that
quotes what the source says.  TLC refutes each on the instance given, as an
INVARIANT or PROPERTY added to the module's configuration.

| property | what happens | refuted with |
| --- | --- | --- |
| OfferHasLane (DirectTransport) | a refresh whose replacement is not the lane when its write returns takes the old exchange to be the lane and publishes its offer again, also when the client was released or evicted meanwhile: an offer nobody refreshes or withdraws (`direct-transport.ts:483`) | 1 client, 3 exchanges, 1 lane, 1 report, no events |
| TeardownWithdraws | the teardown stops the signaling before it closes the transport that withdraws through it (`index.ts:422`) | 1 exchange, teardown, fair |
| ConnectedLaneNotReleased | a release pass acts on a list made before a channel opened | 2 clients, 3 exchanges, 2 lanes, no events |
| ReplacedPeerReleased | a replacement whose gather or write fails leaves the peer it replaced open | 2 exchanges, 1 lane, failure |
| ReportHonouredOnce | an admission of the same report, queued behind the one that opened the lane, opens the next one after the release | 2 exchanges, 1 lane, no events |
| OpenLaneIsBridged | channels that close before the bridge attaches | 1 exchange, 1 lane, no events |
| TeardownReleasesPeers, WatchEndsWithTeardown | what a suspended step does after the teardown | 2 exchanges, 1 lane, teardown (the first fair) |
| OneAgentPerTranscript (Supervisor) | a session being opened when a reload comes is not parked; the opening completes under the old supervisor while the new one opens the same transcript (`supervisor.ts:523`) | resume, reload, busy reload |
| AbandonedRowRestorable | aborting an abandoned run ends its turn, and the old handler writes its row without the transcript (`supervisor.ts:1099`) | reload, deadline |
| TornDownStaysDown | a bootstrap that was suspended goes on after its teardown | reload, stall |
| WorkingMeansWork | "a run that ended during the handoff would otherwise leave the app showing "working" forever" (`supervisor.ts:1136`): the status is set before the prompt is given, and a prompt that is refused takes nothing back (`supervisor.ts:707`, `session-submit.ts:54`) | refusal |
| RunningRowMeansWork | ""running" means the previous host went away mid-run" (`session-lifecycle.ts:117`): the row of a session whose prompt was refused says so too, once anything writes it | refusal, model |
| CutOffIsNudged | the start of a turn is not written to the row, so after a crash the row says idle and nobody is told to go on; neither is one whose stop was cut off | crash |
| ClosedKeepsHistory | a model change writes the row of a session despawned meanwhile | despawn, model, overlap |
| ParkedRowRestorable | the turn of a parked session ends, and the old handler writes its row from an empty map | reload |
| StreamsHaveTimer (SessionFeed) | when the stream frame of one session does not fit, those of the others are left without a timer (`wsserver.ts:739`) | 2 sessions, buffer of 2, 1 turn |
| AnswerStaysShown | the end of a turn broadcasts the idle state before the history; in between the answer is not on the screen (`supervisor.ts:895`) | 1 session, buffer of 2, 1 turn, no loss |
| RedialCatchesUp | a turn that ends while the link is down is asked for by nobody (no text promises it) | 1 session, buffer of 2, loss |
| RunReadsTrue (Continuation) | "Left open, the badge reads "running" for an agent that finished an hour ago" (`subagent-run.ts:13`): when pi refuses the prompt no turn ends, and nothing takes back what the run says (`supervisor.ts:699`) | subagents, prompt, fair |
| OutcomeReported | "Everything after the child exists is reported as an outcome" (`subagent.ts:247`): a child whose first prompt is refused never ends a turn, and its parent waits until somebody stops it (`subagent.ts:92`) | subagents, prompt, fair |
| StoppedChildResumable | a child's run is marked after the await that despawned it: the row loses the transcript it could be resumed from and the child is shown again (`subagent.ts:327`) | subagents, prompt, stop |
| GoalKeepsGoing | the goal keeper is handed the supervisor's record, which has no sendCustomMessage (`supervisor.ts:302`): a spawned session's goal is never prompted again | goal, stop, fair |
| LinkIsAlwaysRenewed (DirectLink) | both channels open, and one closes, before the write of the offer is acknowledged: the bridge's close callback reads the name of the bridge being built and throws, and the lane stays "open" without one (`direct-transport.ts:376`, `:398`); LinkServes excepts "broken" | the run's |
| NothingEscapes | a channel opens and closes before the write of the offer is acknowledged: the wait for both is rejected before anybody has attached to it, and the crash reporter ends the process (`p2p.ts:313`) | the run's |
| DeadTunnelReplaced (Reachability) | the hooks that would restart a dead tunnel are on an object that has no process of its own (`tunnel.ts:706`, `wsserver.ts:861`) | cloudflared, no failure, no pick |
| DeletionTakesOne (Delivery) | "an index is the only identity that names one entry" (`command-validation.ts:330`), and the handler of a spawned session's queue looks for words: nothing is deleted, all is prompted again, without its images, and if the agent is idle or preparing a prompt the process may end.  The terminal's own session deletes by the index (`host-interactive-commands.ts:204`) | the run's |
| SentOnce | a message whose confirmation was lost is sent again, and the machine does not know it by its id (`agent_service.dart:598`) | 1 mishap |
| StopReturnsAll | a stop returns the texts the mirror shows, and the mirror lacks what an aborted run left in the agent's queue, and a message popPending took off in place of the one that began, which the agent had reported gone already (`session-command-handler.ts:72`, `supervisor.ts:835`) | the run's |
| NeverBlocked (HostSession) | a compaction during the settle leaves the deferred request standing in the way of the next (`reload-manager.ts:317`) | the run's |
| BrokenIsNotReloaded | the sources are checked when a reload is asked for, not when it happens (`host-commands.ts:460`) | the run's |
| RefusedIsForgotten (SignIn) | the running client keeps the old refresh token; its refusal deletes the sign-in /pinest-auth wrote (`auth.ts:408`) | the run's |
| OwnerMaySignIn | `_ownerUid` is set before the registry accepts the owner, and every later sign-in must be that account (`index.ts:472`) | the run's |
| LiveSocketLeftAlone (Machine) | "a stale file left by a host that died is removed, a live one is left alone" (`local-agents.ts:68`): a probe finds the file dead, another host or the next load takes it and listens, and the file removed is the new one's (`local-agents.ts:74`); so does the end of a host whose own was removed thus (`releaseSocket`) | the run's |
| EventsAndRebuildAgree (TerminalViews) | "a session viewed from here and the same session viewed in its own terminal cannot disagree" (`session-transcript.ts:18`): a pane that was open when a call was cut off shows why, one built afterwards shows the call without a result (`session-transcript.ts:145`, `:311`) | the run's |
| RowsPersist | two hosts write the whole registry each (`registry.ts:193`) | 2 hosts |

Where no number of clients is given there is one, with 2 reports.  The Supervisor
instances have one session, two runtimes, three agents and two operations.

Seen while modelling and in the models as the code has it, without a property of
their own:

* *Links.*  An ICE flicker after one of the two channels opened closes it and gives
  the exchange up, though the other may open later.  The watch's fallback to polling
  (`discovery-watch.ts:134`) never triggers.  A reader checks a frame's id and
  that part 0 came, not the order of parts.  A report's or offer's write that is
  awaited during stop() starts the watch again.
* *Delivery.*  `restoreOutgoing` (`agent_service.dart:964`) is never called, so a
  reload of the page loses unconfirmed messages.  Messages flushed from the
  outbox are requests side by side, so their order is not kept.  A failed
  prompt's error names no message.  The texts a stop returns are lost if the link
  drops during the abort.  An HTTP message is answered 202 though its command failed.
* *Continuation.*  A reload disposes the manager of background tasks: their
  commands are killed and those of bg_run never reported.  A child the user stops
  reports "completed"; a despawned child's waiters are answered only when the
  parent is stopped; an abort after a reload asks the old supervisor's empty map.
* *Reachability.*  A pick that overlaps a start leaves a process without an owner.
  A restart by the heartbeat does not announce the endpoint.
* *Admission.*  A verification in flight at a new sign-in is admitted with the old
  account's token.  A client counts as not answering when its ping is still held.
* *State directory.*  A host relaunched while another holds the agents' socket never
  claims it later.  A kill between quarantine and unlink
  leaves a history in quarantine that nothing reports.  A failed save leaves
  memory ahead of the file.  A transient error of the token service clears the
  cached sign-in.
* *Terminal views.*  A session rewound or compacted from elsewhere leaves the open
  pane showing the old transcript; overlapping commands clear each other's
  failure; a failed /new leaves a stopped session in its slot; a list's row that
  failed to be killed does not come back.  Sessions can be their own ancestors:
  `subagent-tree.ts:74` says "the walk cannot cycle" and `sessions-view.ts:538` that a
  cycle is what "no run can produce", but the id of a closed session may be taken by
  a new one (`registry.ts:233`), also under its own former subagent.  The list shows
  each of them once all the same; a place under its parent is claimed of rows that
  hang from a root.

## What is not modelled

Assumed of what is not in the repository: pi runs a turn to its end and announces
it once, refuses a prompt while it prepares another, and reloads only when idle;
the document service applies a write whole; Google answers a token request with
yes, no or not at all; a child that was signalled ends.

Of the modelled parts: traffic counters and logs; mDNS rewriting and the ICE
state machine of the vendored WebRTC stack (channels open, fail or end
arbitrarily); wall-clock arithmetic (a deadline passes at any time); the writes
of the lanes' field that overtake each other (those of presence are in
`Reachability`); thinking, images, paging, tool cards, retries and compaction in
the feed; renaming and thinking levels in the supervisor; the limits on running
children and what a child inherits; how long a goal goes on; file formats and
permissions; the terminal's layout, editor and scrolling.

Of the rest: the validation of command fields, diagnostics, budgets, screens,
scripts and platform shells are checks or renderings of a single value.  Paging
of history (`logic.ts` with the app's `history_merge.dart`) and the app's choice
between direct link and tunnel are pure functions of lists, planned as operators.

Out of the prover's reach, and left to TLC: liveness under fairness, ENABLED, and
what the library's operators defined by recursion or as folds compute for every
input.  Where a proof needs such a computation it is written as a recursive function
over numbers (`Discrete`, `Attached`, `Among`, `Rebuilt`, `OrderedByParent`);
of these facts can be proved through the set of numbers for which they hold, by
well-foundedness.  No module declares a RECURSIVE operator.

## Plan

What is left, in this order:

1. *HistoryPages* - `pageHistory` with the app's `mergeHistoryPage`, as operators
   checked against a reference definition over all bounded transcripts.
2. *Links* - the app's choice of an endpoint over `DirectLink` and `Reachability`.

## Running it

    tlc -workers 2 -config Direct_safety.cfg MCDirectTransport     # likewise the others
    tlapm DirectTransportProofs.tla            # likewise the other modules named ...Proofs

`PROJECT.json` gives each run's module, configuration and properties, and maps
each definition to the lines it models.
