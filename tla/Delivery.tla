----------------------------- MODULE Delivery ------------------------------
(***************************************************************************)
(* A user message from the app to the session (app/lib/services:           *)
(* agent_service.dart, outgoing_queue.dart, session_store.dart,            *)
(* server_http.dart; server/src/http-api.ts): tracked until the machine    *)
(* shows it in the transcript or hands it back, sent by HTTP or over a     *)
(* direct channel, kept while the link is down and offered again after it  *)
(* returned.  The machine's side is HostQueue.                             *)
(*                                                                         *)
(* The app has been connected once, so it holds the machine's access key.  *)
(* Messages have different words, so a text names a message.               *)
(***************************************************************************)
EXTENDS HostQueue

CONSTANTS
    MaxEvents    \* bound: losses of the link, failed or slow starts, stops and resends,
                 \* in all

ASSUME EventBound == MaxEvents \in Nat

VARIABLES
    direct,      \* the channel is direct; otherwise a message is a POST
    up,          \* the socket is there and the machine sent its state
    resync,      \* _resyncNeeded
    tracked,     \* OutgoingQueue: the messages not confirmed
    seen,        \* queuedSeen: those the machine showed as queued
    failed,      \* those with a failure
    outbox,      \* commands that wait for the link, in order
    posts,       \* how many requests with a message are under way
    news,        \* a history frame is on its way
    parking,     \* the queue_parked frame of a stop that waits for its abort
    parked,      \* the texts a stop handed back, until the chat screen takes them
    composer,    \* those its composer got back
    known,       \* user messages in the app's history
    sent,        \* messages the user sent
    events,      \* how many of these so far
    resent       \* messages the user sent again

app  == <<direct, up, resync, tracked, seen, failed, outbox, posts, news, parking,
          parked, composer, known, sent, events, resent>>
vars == <<host, app>>

TypeOK ==
    /\ HostTypeOK
    /\ {direct, up, resync, news} \subseteq BOOLEAN
    /\ {tracked, seen, failed, parked, composer, known, sent} \subseteq SUBSET Msgs
    /\ outbox \in Seq(Msgs) /\ parking \in Seq(Msgs)
    /\ posts \in [Msgs -> 0 .. MaxCopies]
    /\ events \in 0 .. MaxEvents /\ resent \in SUBSET Msgs

Init ==
    /\ HostInit
    /\ direct \in BOOLEAN
    /\ up = TRUE /\ resync = FALSE /\ news = FALSE
    /\ tracked = {} /\ seen = {} /\ failed = {} /\ known = {} /\ sent = {}
    /\ parked = {} /\ composer = {}
    /\ outbox = <<>> /\ parking = <<>>
    /\ posts = NoCopies /\ events = 0 /\ resent = {}

Event == events < MaxEvents /\ events' = events + 1
Once(S) == [m \in Msgs |-> IF m \in S THEN 1 ELSE 0]
Plus(f, g) == [m \in Msgs |-> f[m] + g[m]]
Room(f) == \A m \in Msgs : f[m] + accepted[m] <= MaxCopies

-----------------------------------------------------------------------------
(* Sending.                                                                *)

\* _send: a request, a frame, or the outbox while there is no link.
Goes(m) ==
    IF up THEN /\ posts' = Add(posts, m)
               /\ Room(posts')
               /\ UNCHANGED outbox
          ELSE outbox' = Append(outbox, m) /\ UNCHANGED posts

SendMessage(m) ==
    /\ m \notin sent
    /\ sent' = sent \cup {m} /\ tracked' = tracked \cup {m}
    /\ Goes(m)
    /\ UNCHANGED <<host, direct, up, resync, seen, failed, news, parking, parked, composer, known, events, resent>>

\* resendOutgoing: the user retries what was refused.
ResendOutgoing(m) ==
    /\ m \in tracked \cap failed
    /\ Event /\ resent' = resent \cup {m}
    /\ failed' = failed \ {m}
    /\ Goes(m)
    /\ UNCHANGED <<host, direct, up, resync, tracked, seen, news, parking, parked, composer, known, sent>>

Answered(m) == posts' = [posts EXCEPT ![m] = @ - 1]

\* The machine takes the message; over HTTP its 202 may be lost.
Arrives(m) ==
    /\ posts[m] > 0 /\ Answered(m)
    /\ Submit(m)
    /\ \/ UNCHANGED failed
       \/ ~direct /\ failed' = failed \cup ({m} \cap tracked)
    /\ UNCHANGED <<direct, up, resync, tracked, seen, outbox, news, parking, parked, composer, known, sent, events, resent>>

\* A request that does not arrive, or is refused, fails the message it names.
Refused(m) ==
    /\ posts[m] > 0 /\ ~direct /\ Answered(m)
    /\ failed' = failed \cup ({m} \cap tracked)
    /\ UNCHANGED <<host, direct, up, resync, tracked, seen, outbox, news, parking, parked, composer, known, sent, events, resent>>

-----------------------------------------------------------------------------
(* What the machine shows.                                                 *)

\* Mutant of MarkQueued: a message that is queued counts as confirmed.
QueuedIsConfirmed(S) == seen' = seen /\ tracked' = tracked \ S

\* markQueued, on every state frame.
MarkQueued(S) == seen' = seen \cup (S \cap tracked) /\ tracked' = tracked

ApplyState ==
    /\ up /\ (ToSet(mirror) \cap tracked) \ seen # {}
    /\ MarkQueued(ToSet(mirror))
    /\ UNCHANGED <<host, direct, up, resync, failed, outbox, posts, news, parking, parked, composer, known, sent, events, resent>>

\* reconcile: what the transcript shows, or the composer got back, is settled.
Reconcile(S) ==
    /\ tracked' = tracked \ S
    /\ seen' = seen \ S /\ failed' = failed \ S

ApplyHistory ==
    /\ up /\ news
    /\ news' = FALSE
    /\ known' = ToSet(transcript)
    /\ Reconcile(ToSet(transcript) \cup parked)
    /\ UNCHANGED <<host, direct, up, resync, outbox, posts, parking, parked, composer, sent, events, resent>>

\* cancel, and what it hands back when the run has ended.  The stop is on the chat
\* screen, which has taken what an earlier one handed back.
Cancel ==
    /\ up /\ parking = <<>> /\ parked = {}
    /\ Event
    /\ pi.state = "running"
    /\ parking' = mirror
    /\ Stop
    /\ UNCHANGED <<direct, up, resync, tracked, seen, failed, outbox, posts, news, parked, composer, known, sent, resent>>

QueueParked ==
    /\ parking # <<>> /\ pi.state \notin {"aborting", "ended"}
    /\ parking' = <<>>
    /\ IF up THEN /\ parked' = ToSet(parking)
                  /\ Reconcile(ToSet(parking))
             ELSE UNCHANGED <<parked, tracked, seen, failed>>
    /\ UNCHANGED <<host, direct, up, resync, outbox, posts, news, composer, known, sent, events, resent>>

\* The chat screen is built: what was handed back goes into its composer, once.
TakeParked ==
    /\ parked # {}
    /\ parked' = {} /\ composer' = composer \cup parked
    /\ UNCHANGED <<host, direct, up, resync, tracked, seen, failed, outbox, posts, news, parking, known, sent, events, resent>>

-----------------------------------------------------------------------------
(* The link.                                                               *)

\* Frames are gone with the socket; requests by HTTP have their own fate.
LinkDrops ==
    /\ up /\ Event
    /\ up' = FALSE /\ resync' = TRUE /\ news' = FALSE
    /\ posts' = IF direct THEN NoCopies ELSE posts
    /\ UNCHANGED <<host, direct, tracked, seen, failed, outbox, parking, parked, composer, known, sent, resent>>

\* Mutant of Unconfirmed: nothing is offered again.
NothingUnconfirmed(now) == {}

\* _reflushUnconfirmed: what is neither shown as queued nor refused.
Unconfirmed(now) == IF resync THEN tracked \ (now \cup failed) ELSE {}

\* authed sends what waited, and the state frame after it offers again.
Reconnect ==
    LET now == seen \cup (ToSet(mirror) \cap tracked)
    IN  /\ ~up /\ pi.state # "ended"
        /\ up' = TRUE /\ resync' = FALSE
        /\ outbox' = <<>>
        /\ posts' = Plus(AddAll(posts, outbox), Once(Unconfirmed(now)))
        /\ Room(posts')
        /\ seen' = now
        /\ UNCHANGED <<host, direct, tracked, failed, news, parking, parked, composer, known, sent, events, resent>>

-----------------------------------------------------------------------------
\* The machine pushes the history when a message is recorded and when a run ends.
Pushes == news' = up /\ UNCHANGED <<direct, up, resync, tracked, seen, failed, outbox, posts,
                                    parking, parked, composer, known, sent, events, resent>>

Quiet == UNCHANGED <<direct, up, resync, tracked, seen, failed, outbox, posts, news, parking,
                     parked, composer, known, sent, resent>>

Machine ==
    \/ (Send \/ GateOpens \/ MessageStart \/ Dequeue) /\ UNCHANGED app
    \/ GateExpires /\ slow' = slow /\ UNCHANGED app
    \/ RestartFails /\ UNCHANGED app
    \/ (StartFails \/ (GateExpires /\ slow' # slow)) /\ Event /\ Quiet
    \/ (MessageEnd \/ RunEnds) /\ Pushes

\* The user takes a message out of the queue that is shown, or was when they asked.
Deletion == up /\ QueueDelete /\ UNCHANGED app

Next ==
    \/ \E m \in Msgs : SendMessage(m) \/ ResendOutgoing(m) \/ Arrives(m) \/ Refused(m)
    \/ ApplyState \/ ApplyHistory \/ Cancel \/ QueueParked \/ TakeParked
    \/ LinkDrops \/ Reconnect \/ Machine \/ Deletion

Spec == Init /\ [][Next]_vars

\* The app redials, requests end, and the machine works.
Fairness ==
    /\ HostFairness
    /\ WF_vars(Dequeue /\ UNCHANGED app)
    /\ WF_vars((MessageEnd \/ RunEnds) /\ Pushes)
    /\ WF_vars(Reconnect) /\ WF_vars(ApplyState) /\ WF_vars(ApplyHistory) /\ WF_vars(QueueParked)
    /\ \A m \in Msgs : WF_vars(Arrives(m) \/ Refused(m))

FairSpec == Spec /\ Fairness

-----------------------------------------------------------------------------
(* Properties.                                                             *)

\* The user's words are always before the user's eyes: as a bubble on its way,
\* in the transcript, or back in the composer.  A message the agent takes up
\* leaves the queue before the transcript has it, and must not be gone between.
NothingVanishes == sent \subseteq tracked \cup known \cup parked \cup composer

\* The state keeps its types, every copy of a message is somewhere, and the
\* host's next prompt waits for the one that starts (session-submit.ts).
MessagesAreSound == TypeOK /\ CopiesAccounted /\ QuickIsSafe

\* No bubble claims for ever to be on its way: it is confirmed, refused or shown
\* as queued, unless the agent failed to begin it (the session's error does not
\* name it), keeps it for its next run after a stop, or lost it to one
\* (CopiesAccounted says which), or the machine is gone.
Sending(m) == m \in tracked \ (seen \cup failed)
Excused(m) ==
    \/ voided[m] > 0 \/ Found(m) < accepted[m] \/ pi.state = "ended"
    \/ pi.state = "idle" /\ m \in ToSet(Queue(pi))
SendingSettles == \A m \in Msgs : Sending(m) ~> (~Sending(m) \/ Excused(m))

\* Every submission is tried in its turn, and every bubble settles.
EverythingSettles == ChainDrains /\ SendingSettles

-----------------------------------------------------------------------------
(* What the code's own comments and tests say of it, and it does not do:   *)
(* TLC refutes each of these (the README names the instance).              *)

\* A message the user sent once is submitted once ("keeps a message that did
\* arrive from being sent twice", agent_service.dart:563).
SentOnce == \A m \in Msgs : accepted[m] > 1 => m \in resent

\* A stop loses nothing ("the user's text comes back to the composer via
\* queue_parked rather than vanishing", session-command-handler.ts:73).
StopReturnsAll == \A m \in Msgs : pi.state # "ended" => Found(m) = accepted[m]

\* A deletion takes one message out ("an index is the only identity that names one
\* entry", command-validation.ts:330).
DeletionTakesOne ==
    [][Deletion /\ Queue(pi) # <<>> => Len(Queue(pi')) = Len(Queue(pi)) - 1]_vars

=============================================================================
