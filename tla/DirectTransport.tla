-------------------------- MODULE DirectTransport ---------------------------
(***************************************************************************)
(* The direct transport (server/src/direct-transport.ts), composed with    *)
(* the signaling it publishes through, the exchange it drives              *)
(* (server/src/p2p.ts) and the teardown that ends it (server/src/index.ts).*)
(*                                                                         *)
(* A lane is one client's place: the exchange (peer connection) that       *)
(* serves it now.  An exchange gathers candidates, publishes its offer,    *)
(* and then waits for the client's answer and for its two data channels;   *)
(* each of those is an await, and a step here runs from one await to the   *)
(* next.  A lane is opened by a client's report, through a queue; replaced *)
(* when its offer is stale or its channel died; given up when its lease    *)
(* ends, when a newcomer needs its place, or at teardown.                  *)
(*                                                                         *)
(* Time is abstracted to two facts that may become true at any moment:     *)
(* an exchange has outlived OFFER_LIFETIME_MS (aged) and a client has      *)
(* been silent for longer than LANE_LEASE_MS (silent).                     *)
(***************************************************************************)
EXTENDS P2PSignaling, Integers, Sequences, FiniteSets

CONSTANTS
    MaxLanes,       \* MAX_LANES
    MaxReports,     \* bound: reports one client writes
    MaxQueue,       \* bound: admissions waiting at once
    Events          \* bound: which of the rarer events below an instance has

ASSUME LaneBound   == MaxLanes \in Nat \ {0}
ASSUME ReportBound == MaxReports \in Nat \ {0}
ASSUME QueueBound  == MaxQueue \in Nat \ {0}
ASSUME EventBound  == Events \subseteq {"unreadable report", "failure", "teardown"}

VARIABLES
    laneOf,         \* the lanes map: each client's exchange, or None
    ex,             \* every exchange ever begun
    nextOffer,      \* the timestamp the next exchange gets
    closed,
    report,         \* the report each client has in the document
    queue,          \* ensureLane calls behind the admission in progress
    admission,      \* the admission in progress
    silent,         \* clients whose lease has run out
    releasing       \* lanes the release pass has still to close

vars == <<sigVars, laneOf, ex, nextOffer, closed,
          report, queue, admission, silent, releasing>>

Stages == {"unused", "gathering", "writing", "ready", "restoring", "failed"}

\* A report's own timestamp; 0 is a report with none (a "problem").
ReportAt == 0 .. MaxReports
NoReport == -1

Exchange == [
    client     : Clients \cup {None},
    stage      : Stages,
    replaces   : Offer \cup {None},  \* the exchange a refresh is replacing
    peerOpen   : BOOLEAN,            \* the peer connection has not been closed
    channel    : {"waiting", "open", "closed", "adopted"},
    open       : BOOLEAN,            \* channelOpen
    bridged    : BOOLEAN,            \* bridge # null
    dead       : BOOLEAN,
    refreshing : BOOLEAN,
    aged       : BOOLEAN,
    applied    : 0 .. 2,             \* acceptAnswer calls (saturates)
    lastReport : ReportAt ]

Unused == [client |-> None, stage |-> "unused", replaces |-> None,
           peerOpen |-> FALSE, channel |-> "waiting", open |-> FALSE,
           bridged |-> FALSE, dead |-> FALSE, refreshing |-> FALSE,
           aged |-> FALSE, applied |-> 0, lastReport |-> 0]

Idle == [phase |-> "idle", client |-> None, at |-> 0]

TypeOK ==
    /\ SigTypeOK
    /\ laneOf \in [Clients -> Offer \cup {None}]
    /\ ex \in [Offer -> Exchange]
    /\ nextOffer \in 1 .. (MaxOffers + 1)
    /\ closed \in BOOLEAN
    /\ report \in [Clients -> ReportAt \cup {NoReport}]
    /\ queue \in Seq([client : Clients, at : ReportAt])
    /\ admission \in [phase  : {"idle", "evicting", "exchanging"},
                      client : Clients \cup {None}, at : ReportAt]
    /\ silent \in SUBSET Clients
    /\ releasing \in SUBSET Clients
    /\ \A e \in Offer : /\ ex[e].client \in Clients <=> e < nextOffer
                        /\ ex[e].stage # "unused"   <=> e < nextOffer

Init ==
    /\ SigInit
    /\ laneOf = [c \in Clients |-> None]
    /\ ex = [e \in Offer |-> Unused]
    /\ nextOffer = 1
    /\ closed = FALSE
    /\ report = [c \in Clients |-> NoReport]
    /\ queue = <<>>
    /\ admission = Idle
    /\ silent = {}
    /\ releasing = {}

-----------------------------------------------------------------------------
(* Exchanges and lanes, as functions of the state they change.             *)

Lanes == {c \in Clients : laneOf[c] # None}

\* e serves its client: lanes.get(id) === lane.
IsLane(e) == ex[e].client \in Clients /\ laneOf[ex[e].client] = e

CanBegin == nextOffer <= MaxOffers

\* beginExchange, up to its first await: a new exchange for c in the place of
\* old (None when the lane is new), inheriting what is known of the client.
Begin(x, e, c, old) ==
    [x EXCEPT ![e] = [Unused EXCEPT
        !.client = c, !.stage = "gathering", !.replaces = old, !.peerOpen = TRUE,
        !.lastReport = IF old = None THEN 0 ELSE x[old].lastReport]]

\* The refresh of lane l begins replacement e.
BeginRefresh(x, e, l) ==
    [Begin(x, e, x[l].client, l) EXCEPT ![l].refreshing = TRUE]

\* peer.close(): its channels close, and with them a bridge that is on them.
ClosePeer(x, e) ==
    [x EXCEPT ![e].peerOpen = FALSE, ![e].bridged = FALSE,
              ![e].channel = IF @ = "open" THEN "closed" ELSE @]

\* The direct channel of a lane ended: its exchange is spent.
Spend(x, e) ==
    [ClosePeer(x, e) EXCEPT ![e].open = FALSE, ![e].dead = TRUE]

\* What refreshIfStale, called at once, does about a lane that has just died.
RefreshesNow(x, e) == ~closed /\ ~x[e].refreshing

\* Spending a lane's exchange, with the refresh the code starts in the same step.
SpendAndRefresh(x, e) ==
    IF RefreshesNow(x, e) THEN BeginRefresh(Spend(x, e), nextOffer, e)
                          ELSE Spend(x, e)

\* Mutant of Adoptable: a punch that lands is served whatever has become of
\* its lane and of the transport.
AdoptableAlways(e) == e \in Offer

\* A punch that lands is used if its client still has a lane.
Adoptable(e) == ~closed /\ laneOf[ex[e].client] # None

\* Mutant of Adopt: the replacement holding the lane keeps its peer.
AdoptBeside(x, e) ==
    IF Adoptable(e)
      THEN [x EXCEPT ![e].open = TRUE, ![e].channel = "adopted",
                     ![e].bridged = (x[e].channel = "open")]
      ELSE ClosePeer(x, e)

\* Both channels of e are open and the offer has returned: the handler that
\* builds the bridge runs.  A replacement that holds the lane is abandoned for
\* e.  A channel that closed in between is reported to the bridge while it is
\* being built, which leaves none.
Adopt(x, e) ==
    LET held == laneOf[x[e].client]
        rest == IF held \in {e, None} THEN x ELSE ClosePeer(x, held)
    IN  IF Adoptable(e)
          THEN [rest EXCEPT ![e].open = TRUE, ![e].channel = "adopted",
                            ![e].bridged = (x[e].channel = "open")]
          ELSE ClosePeer(x, e)
AdoptLane(e) ==
    IF Adoptable(e) THEN [laneOf EXCEPT ![ex[e].client] = e] ELSE laneOf
AdoptRenews(e) ==
    IF Adoptable(e) THEN silent \ {ex[e].client} ELSE silent
\* The client answered e's offer, so e's offer goes back into the document.
AdoptPublishes(e) == Adoptable(e) /\ laneOf[ex[e].client] # e

\* closeLane, up to the withdrawal it awaits.  Closing a lane whose channel is
\* open ends that channel first, and the refresh this starts has put a
\* replacement in the map by the time the lane is deleted from it.
CloseRefreshes(c) == ex[laneOf[c]].open /\ RefreshesNow(ex, laneOf[c])
CloseLane(c) ==
    /\ CloseRefreshes(c) => CanBegin
    /\ ex' = ClosePeer(IF ex[laneOf[c]].open THEN SpendAndRefresh(ex, laneOf[c]) ELSE ex,
                       laneOf[c])
    /\ nextOffer' = IF CloseRefreshes(c) THEN nextOffer + 1 ELSE nextOffer
    /\ laneOf' = [laneOf EXCEPT ![c] = None]
    /\ RetractOffer(c)
-----------------------------------------------------------------------------
(* Clients and their reports.                                              *)

\* A client writes a report, or a newer one, into the document.  Its first
\* may be one this machine cannot read.
WriteReport(c) ==
    /\ report[c] < MaxReports
    /\ \E r \in ReportAt : /\ report[c] < r
                           /\ report[c] = NoReport => r \in {0, 1}
                           /\ r = 0 => "unreadable report" \in Events
                           /\ report' = [report EXCEPT ![c] = r]
    /\ UNCHANGED <<sigVars, laneOf, ex, nextOffer, closed, queue, admission, silent, releasing>>

\* A delivery of the document calls ensureLane for every report it holds, those
\* delivered before included.  The call takes its place in the admission queue.
EnsureLane(c) ==
    /\ ~closed
    /\ report[c] # NoReport
    /\ Len(queue) < MaxQueue
    /\ \A i \in 1 .. Len(queue) : queue[i].client # c
    /\ queue' = Append(queue, [client |-> c, at |-> report[c]])
    /\ UNCHANGED <<sigVars, laneOf, ex, nextOffer, closed, report, admission, silent, releasing>>

Dequeue == /\ admission.phase = "idle"
           /\ queue # <<>>
           /\ queue' = Tail(queue)

\* The lane is there: a report newer than the last renews its lease.  One
\* without a timestamp always does, and takes this machine's clock for it,
\* which stands in no fixed relation to the client's.
AdmitKnown ==
    /\ Dequeue
    /\ LET c == Head(queue).client
           r == Head(queue).at
           e == laneOf[c]
       IN  /\ e # None
           /\ \/ /\ r = 0
                 /\ \E k \in ReportAt : ex' = [ex EXCEPT ![e].lastReport = k]
                 /\ silent' = silent \ {c}
              \/ /\ r > ex[e].lastReport
                 /\ ex' = [ex EXCEPT ![e].lastReport = r]
                 /\ silent' = silent \ {c}
              \/ /\ r # 0
                 /\ r <= ex[e].lastReport
                 /\ UNCHANGED <<ex, silent>>
    /\ UNCHANGED <<sigVars, laneOf, nextOffer, closed, report, admission, releasing>>

\* Mutant of Evictable: a connected lane is evicted like any other.
EvictableAll == Lanes

\* Lanes whose channel is not open, oldest offer first, are what the cap evicts.
Evictable == {c \in Lanes : ~ex[laneOf[c]].open}
Victim(c) == /\ c \in Evictable
             /\ \A d \in Evictable : laneOf[c] <= laneOf[d]

\* Insert a lane for c and start its first exchange.
OpenLane(c, r) ==
    /\ CanBegin
    /\ ex' = Begin(ex, nextOffer, c, laneOf[c])
    /\ nextOffer' = nextOffer + 1
    /\ laneOf' = [laneOf EXCEPT ![c] = nextOffer]
    /\ silent' = silent \ {c}
    /\ admission' = [phase |-> "exchanging", client |-> c, at |-> r]

AdmitFresh ==
    /\ Dequeue
    /\ laneOf[Head(queue).client] = None
    /\ Cardinality(Lanes) < MaxLanes
    /\ OpenLane(Head(queue).client, Head(queue).at)
    /\ UNCHANGED <<sigVars, closed, report, releasing>>

\* At the cap: the victim's lane is closed, and the newcomer waits for its
\* offer to be withdrawn.
AdmitEvicting ==
    /\ Dequeue
    /\ laneOf[Head(queue).client] = None
    /\ Cardinality(Lanes) >= MaxLanes
    /\ \E v \in Lanes :
          /\ Victim(v)
          /\ CloseLane(v)
          /\ silent' = silent \ {v}
    /\ admission' = [phase  |-> "evicting", client |-> Head(queue).client,
                     at |-> Head(queue).at]
    /\ UNCHANGED <<closed, report, releasing>>

\* At the cap and every lane connected: the newcomer is not admitted.
AdmitNobody ==
    /\ Dequeue
    /\ laneOf[Head(queue).client] = None
    /\ Cardinality(Lanes) >= MaxLanes
    /\ Evictable = {}
    /\ UNCHANGED <<sigVars, laneOf, ex, nextOffer, closed, report, admission, silent, releasing>>

EvictionWritten ==
    /\ admission.phase = "evicting"
    /\ OpenLane(admission.client, admission.at)
    /\ UNCHANGED <<sigVars, closed, report, queue, releasing>>

\* The withdrawal failed: this admission fails, and the next one goes ahead.
EvictionFailed ==
    /\ "failure" \in Events
    /\ admission.phase = "evicting"
    /\ admission' = Idle
    /\ UNCHANGED <<sigVars, laneOf, ex, nextOffer, closed, report, queue, silent, releasing>>

-----------------------------------------------------------------------------
(* One exchange: gathering, publishing, and what its caller does then.     *)

\* Gathering is over.  The offer is published if its lane is still this one;
\* otherwise the CLIENT's offer is withdrawn, whichever exchange made it.
PublishIfLive(e) ==
    /\ ex[e].stage = "gathering"
    /\ IF closed \/ laneOf[ex[e].client] # e THEN RetractOffer(ex[e].client)
                                             ELSE PublishOffer(ex[e].client, e)
    /\ ex' = [ex EXCEPT ![e].stage = "writing"]
    /\ UNCHANGED <<laneOf, nextOffer, closed, report, queue, admission, silent, releasing>>

\* The lane an admission opened remembers the report that opened it.
Admitted(x, l) ==
    IF l # None /\ admission.at # 0 THEN [x EXCEPT ![l].lastReport = admission.at] ELSE x

\* The offer is in the document, and e's handlers are attached: channels that
\* opened while the write was under way are adopted now.  An admission ends.
OfferReturnedAdmission(e) ==
    /\ ex[e].stage = "writing"
    /\ ex[e].replaces = None
    /\ LET landed == ex[e].channel # "waiting"
           ready  == [ex EXCEPT ![e].stage = "ready"]
       IN  IF landed
             THEN /\ ex' = Admitted(Adopt(ready, e), AdoptLane(e)[ex[e].client])
                  /\ laneOf' = AdoptLane(e)
                  /\ silent' = AdoptRenews(e)
                  /\ IF AdoptPublishes(e) THEN PublishOffer(ex[e].client, e)
                                          ELSE UNCHANGED sigVars
             ELSE /\ ex' = Admitted(ready, laneOf[ex[e].client])
                  /\ UNCHANGED <<sigVars, laneOf, silent>>
    /\ admission' = Idle
    /\ UNCHANGED <<nextOffer, closed, report, queue, releasing>>

\* The replacement e of a refresh is published and is the lane, or becomes it
\* now because its channels are already open: the peer it replaces is closed.
OfferReturnedReplacing(e) ==
    LET l      == ex[e].replaces
        landed == ex[e].channel # "waiting"
        ready  == [ex EXCEPT ![e].stage = "ready"]
        after  == IF landed THEN Adopt(ready, e) ELSE ready
    IN  /\ ex[e].stage = "writing"
        /\ l # None
        /\ (IF landed THEN AdoptLane(e) ELSE laneOf)[ex[e].client] = e
        /\ ex' = [ClosePeer(after, l) EXCEPT ![l].refreshing = FALSE]
        /\ IF landed THEN laneOf' = AdoptLane(e) /\ silent' = AdoptRenews(e)
                     ELSE UNCHANGED <<laneOf, silent>>
        /\ IF landed /\ AdoptPublishes(e)
             THEN PublishOffer(ex[e].client, e)
             ELSE UNCHANGED sigVars
        /\ UNCHANGED <<nextOffer, closed, report, queue, admission, releasing>>

\* The lane is not the replacement when it is ready: it is taken for granted
\* that the replaced exchange l is the lane again, and l's offer is published.
OfferReturnedDisplaced(e) ==
    LET l == ex[e].replaces
        c == ex[e].client
    IN  /\ ex[e].stage = "writing"
        /\ l # None
        /\ laneOf[c] # e
        /\ ex[e].channel = "waiting" \/ ~Adoptable(e)
        /\ IF ex[l].stage = "ready"       \* l has a description to publish
             THEN /\ PublishOffer(c, l)
                  /\ ex' = [ClosePeer(ex, e) EXCEPT ![e].stage = "restoring"]
             ELSE /\ UNCHANGED sigVars
                  /\ ex' = [ClosePeer(ex, e) EXCEPT ![e].stage = "ready", ![l].refreshing = FALSE]
        /\ UNCHANGED <<laneOf, nextOffer, closed, report, queue, admission, silent, releasing>>

\* The write of l's offer returned, or threw; either way the refresh is over.
Restored(e) ==
    /\ ex[e].stage = "restoring"
    /\ ex' = [ex EXCEPT ![e].stage = "ready", ![ex[e].replaces].refreshing = FALSE]
    /\ UNCHANGED <<sigVars, laneOf, nextOffer, closed, report, queue, admission, silent, releasing>>

\* Gathering failed, or the write was refused or outlived its deadline.  The
\* exchange stays where it is, with no handler on its channels; its caller
\* only clears its own flag.
OfferThrew(e) ==
    /\ "failure" \in Events
    /\ ex[e].stage \in {"gathering", "writing"}
    /\ IF ex[e].replaces = None
         THEN /\ ex' = [ex EXCEPT ![e].stage = "failed"]
              /\ admission' = Idle
         ELSE /\ ex' = [ex EXCEPT ![e].stage = "failed", ![ex[e].replaces].refreshing = FALSE]
              /\ UNCHANGED admission
    /\ UNCHANGED <<sigVars, laneOf, nextOffer, closed, report, queue, silent, releasing>>

-----------------------------------------------------------------------------
(* The client's answer and the channels.                                   *)

\* An answer that names the lane's live offer is delivered.  It is applied if
\* the lane's exchange is the one it names; the exchange's clock restarts.
Answer(c) ==
    /\ offers[c] # None
    /\ Deliver(c, offers[c])
    /\ ex' = IF laneOf[c] = offers[c]
                THEN [ex EXCEPT ![offers[c]].applied = IF @ = 2 THEN 2 ELSE @ + 1,
                                ![offers[c]].aged = FALSE]
                ELSE ex
    /\ UNCHANGED <<laneOf, nextOffer, closed, report, queue, admission, silent, releasing>>

\* The punch landed: both channels of an answered exchange are open.
ChannelsOpen(e) ==
    /\ ex[e].applied > 0
    /\ ex[e].peerOpen
    /\ ex[e].channel = "waiting"
    /\ LET opened == [ex EXCEPT ![e].channel = "open"]
       IN  IF ex[e].stage \in {"ready", "restoring"}
             THEN /\ ex' = Adopt(opened, e)
                  /\ laneOf' = AdoptLane(e)
                  /\ silent' = AdoptRenews(e)
                  /\ IF AdoptPublishes(e) THEN PublishOffer(ex[e].client, e)
                                          ELSE UNCHANGED sigVars
             ELSE /\ ex' = opened
                  /\ UNCHANGED <<sigVars, laneOf, silent>>
    /\ UNCHANGED <<nextOffer, closed, report, queue, admission, releasing>>

\* A channel closes, or the peer connection fails, before anything adopted it.
ChannelLost(e) ==
    /\ ex[e].channel = "open"
    /\ ex' = [ex EXCEPT ![e].channel = "closed"]
    /\ UNCHANGED <<sigVars, laneOf, nextOffer, closed, report, queue, admission, silent, releasing>>

\* The channel of a lane ends: the bridge reports it, or the peer connection
\* does for a lane with no bridge.  A fresh exchange begins at once, unless a
\* refresh of this lane is already under way.
ChannelEnds(e) ==
    /\ ex[e].open
    /\ ex[e].peerOpen
    /\ IsLane(e)
    /\ RefreshesNow(ex, e) => CanBegin
    /\ ex' = SpendAndRefresh(ex, e)
    /\ IF RefreshesNow(ex, e)
         THEN /\ laneOf' = [laneOf EXCEPT ![ex[e].client] = nextOffer]
              /\ nextOffer' = nextOffer + 1
         ELSE UNCHANGED <<laneOf, nextOffer>>
    /\ UNCHANGED <<sigVars, closed, report, queue, admission, silent, releasing>>
-----------------------------------------------------------------------------
(* Time, the tick, and the end.                                            *)

\* OFFER_LIFETIME_MS has passed since the lane's last activity.
OfferAges(e) ==
    /\ IsLane(e)
    /\ ~ex[e].open
    /\ ~ex[e].aged
    /\ ex' = [ex EXCEPT ![e].aged = TRUE]
    /\ UNCHANGED <<sigVars, laneOf, nextOffer, closed, report, queue, admission, silent, releasing>>

\* LANE_LEASE_MS has passed since c was last heard from.
ClientSilent(c) ==
    /\ c \in Lanes \ silent
    /\ silent' = silent \cup {c}
    /\ UNCHANGED <<sigVars, laneOf, ex, nextOffer, closed, report, queue, admission, releasing>>

\* Mutant of RefreshIfStale: only a channel that died is replaced.
RefreshIfDead(c) ==
    LET l == laneOf[c]
    IN  /\ ~closed
        /\ l # None
        /\ ~ex[l].refreshing
        /\ ~ex[l].open
        /\ ex[l].dead
        /\ CanBegin
        /\ ex' = BeginRefresh(ex, nextOffer, l)
        /\ laneOf' = [laneOf EXCEPT ![c] = nextOffer]
        /\ nextOffer' = nextOffer + 1
        /\ UNCHANGED <<sigVars, closed, report, queue, admission, silent, releasing>>

\* The tick finds a lane whose exchange is spent or has outlived its lifetime.
\* The lanes of one pass do not touch each other, so each is a step of its own.
RefreshIfStale(c) ==
    LET l == laneOf[c]
    IN  /\ ~closed
        /\ l # None
        /\ ~ex[l].refreshing
        /\ ~ex[l].open
        /\ ex[l].dead \/ ex[l].aged
        /\ CanBegin
        /\ ex' = BeginRefresh(ex, nextOffer, l)
        /\ laneOf' = [laneOf EXCEPT ![c] = nextOffer]
        /\ nextOffer' = nextOffer + 1
        /\ UNCHANGED <<sigVars, closed, report, queue, admission, silent, releasing>>

\* The tick decides which lanes have expired and closes the first of them.
Expired == {c \in Lanes : ~ex[laneOf[c]].open /\ c \in silent}
ReleaseExpired(c) ==
    /\ ~closed
    /\ releasing = {}
    /\ c \in Expired
    /\ CloseLane(c)
    /\ releasing' = Expired \ {c} \/ ("failure" \in Events /\ releasing' = {})
    /\ silent' = silent \ {c}
    /\ UNCHANGED <<closed, report, queue, admission>>

\* Behind the write, the next lane of the list is closed as it was decided.
\* A write that throws ends the pass.
ReleaseNext(c) ==
    /\ c \in releasing
    /\ laneOf[c] # None
    /\ CloseLane(c)
    /\ releasing' = releasing \ {c} \/ ("failure" \in Events /\ releasing' = {})
    /\ silent' = silent \ {c}
    /\ UNCHANGED <<closed, report, queue, admission>>

\* A lane of the list that has gone meanwhile is passed over.
ReleaseGone(c) ==
    /\ c \in releasing
    /\ laneOf[c] = None
    /\ releasing' = releasing \ {c}
    /\ UNCHANGED <<sigVars, laneOf, ex, nextOffer, closed, report, queue, admission, silent>>

\* close(): every lane's offer is to be withdrawn, then every lane's peer is
\* closed and the lanes are forgotten.  Its caller has stopped the signaling,
\* so each withdrawal finds nothing to withdraw and none of them waits.
CloseTransport ==
    /\ closed' = TRUE
    /\ ex' = [e \in Offer |-> IF IsLane(e)
                                THEN IF ex[e].open THEN Spend(ex, e)[e] ELSE ClosePeer(ex, e)[e]
                                ELSE ex[e]]
    /\ laneOf' = [c \in Clients |-> None]
    /\ silent' = {}

\* The extension's teardown: the signaling first, then the transport.  (An
\* admission that need not wait starts where it is called: only those behind
\* another one are still queued when some other event is handled.)
Teardown ==
    /\ "teardown" \in Events
    /\ ~closed
    /\ queue # <<>> => admission.phase # "idle"
    /\ StopSignaling
    /\ CloseTransport
    /\ UNCHANGED <<nextOffer, report, queue, admission, releasing>>

-----------------------------------------------------------------------------
AdmissionStep == \/ AdmitKnown \/ AdmitFresh \/ AdmitEvicting \/ AdmitNobody
                 \/ EvictionWritten \/ EvictionFailed

ExchangeStep(e) == \/ PublishIfLive(e) \/ OfferThrew(e) \/ Restored(e)
                   \/ OfferReturnedAdmission(e) \/ OfferReturnedReplacing(e)
                   \/ OfferReturnedDisplaced(e)

ReleaseStep(c) == ReleaseNext(c) \/ ReleaseGone(c)

Next ==
    \/ \E c \in Clients :
          \/ WriteReport(c) \/ EnsureLane(c) \/ Answer(c) \/ ClientSilent(c)
          \/ RefreshIfStale(c) \/ ReleaseExpired(c) \/ ReleaseStep(c)
    \/ \E e \in Offer :
          \/ ExchangeStep(e) \/ OfferAges(e)
          \/ ChannelsOpen(e) \/ ChannelLost(e) \/ ChannelEnds(e)
    \/ AdmissionStep
    \/ Teardown

Spec == Init /\ [][Next]_vars

\* What the program's own scheduling ensures: a gather and a write end, one way
\* or the other (STUN and the document write have their timeouts), a promise
\* that has settled runs its continuation, and the interval timer fires.
\* Nothing is assumed of clients, channels or the teardown.
Fairness ==
    /\ \A c \in Clients : WF_vars(RefreshIfStale(c)) /\ WF_vars(ReleaseStep(c))
    /\ \A e \in Offer : WF_vars(ExchangeStep(e))
    /\ WF_vars(AdmissionStep)

FairSpec == Spec /\ Fairness

-----------------------------------------------------------------------------
(* Properties.                                                             *)

\* The cap is a count: however many clients report at once, and whatever is
\* awaited between finding room and taking it, no more than MAX_LANES clients
\* hold a lane.
LaneCap == Cardinality(Lanes) <= MaxLanes

\* A bridge carries the traffic of the exchange its client's lane is now: no
\* bridge is stranded on an exchange that was replaced, evicted or released,
\* and a client never has two of them.
BridgeServesItsLane ==
    \A e \in Offer : ex[e].bridged => IsLane(e) /\ ex[e].peerOpen

\* acceptAnswer is not safe against a second call while the first is under way
\* (its flag is set behind two awaits): an offer is put back in the document,
\* which lets its answer be delivered again, only once its channels are open.
AnswerNotReapplied ==
    \A e \in Offer : ex[e].applied = 2 => ex[e].channel # "waiting"

\* A lane whose exchange nobody will ever wire up - its gathering or its write
\* failed - keeps no client from a connection for longer than its lifetime:
\* a stale exchange that is still the lane is replaced.
StaleOfferReplaced ==
    \A c \in Clients, e \in Offer :
        (laneOf[c] = e /\ ex[e].aged /\ ~ex[e].open)
            ~> (laneOf[c] # e \/ ~ex[e].aged \/ ex[e].open \/ closed \/ ~CanBegin)

\* One client's refusal, or a write that fails, does not keep the next client
\* from being admitted: every admission that waits gets its turn.
Waiting(c) == \E i \in 1 .. Len(queue) : queue[i].client = c
AdmissionProgress ==
    \A c \in Clients : Waiting(c) ~> (~Waiting(c) \/ ~CanBegin)
Connected(c) == laneOf[c] # None /\ ex[laneOf[c]].bridged

\* A working session is never disconnected to make room for another client, nor
\* to publish a fresher offer: a connected lane gives way only to the end of its
\* own channel, to another punch of the same client that landed, and to the
\* teardown.  (A release pass that decided before the channel opened also takes
\* it: ConnectedLaneNotReleased is about that.)
ConnectedLaneKept ==
    [][\A c \in Clients :
          (Connected(c) /\ laneOf'[c] # laneOf[c]) =>
              \/ laneOf'[c] # None /\ (ex'[laneOf[c]].dead \/ ex'[laneOf'[c]].open)
              \/ closed'
              \/ c \in releasing]_vars

\* A punch that lands after the teardown began is never served: nothing is
\* listening behind it.
NoBridgeAfterTeardown == closed => \A e \in Offer : ~ex[e].bridged

\* Channels that opened while their offer's write was still under way are
\* served once it returns - not left open, carrying nothing - unless the client
\* or its lane has gone by then, or the write failed (StaleOfferReplaced says
\* what becomes of that lane).
OpenChannelServed ==
    \A e \in Offer :
        ex[e].channel = "open"
            ~> (ex[e].bridged \/ ~ex[e].peerOpen \/ ex[e].channel = "closed" \/ ex[e].stage = "failed")

\* Nobody waits for ever: neither for a lane to be replaced, nor for a place in
\* the queue, nor for a channel that opened to be served.
NobodyLeftWaiting == StaleOfferReplaced /\ AdmissionProgress /\ OpenChannelServed

-----------------------------------------------------------------------------
(* The inductive invariant behind the safety properties, named part by part. *)

\* A lane, an offer in the map and a replacement are of one client each.
LaneIsItsClients ==
    /\ \A c \in Clients : /\ laneOf[c] # None => ex[laneOf[c]].client = c
                          /\ offers[c] # None => ex[offers[c]].client = c
    /\ \A e \in Offer : ex[e].replaces # None =>
          ex[e].client \in Clients /\ ex[ex[e].replaces].client = ex[e].client

\* Room made for a newcomer stays free, and the newcomer stays without a lane,
\* for as long as the eviction's write takes: only an admission inserts a lane.
EvictionKeepsRoom ==
    admission.phase = "evicting" =>
        /\ Cardinality(Lanes) < MaxLanes
        /\ admission.client \in Clients
        /\ laneOf[admission.client] = None

\* Open channels are on an open peer, and what is bridged is open.
OpenNeedsPeer ==
    \A e \in Offer : /\ ex[e].channel = "open" => ex[e].peerOpen
                     /\ ex[e].bridged => ex[e].open

\* An exchange that is being replaced is the lane again only by landing.
ReplacedReturnsLanded ==
    \A r \in Offer : LET e == ex[r].replaces
                     IN  e # None /\ IsLane(e) => ex[e].channel # "waiting"

\* Nothing is in the map of, or applied to, an exchange still gathering.
UnpublishedUnanswered ==
    \A e \in Offer : ex[e].stage \in {"unused", "gathering"} =>
        /\ ex[e].applied = 0
        /\ \A c \in Clients : offers[c] # e

\* A lane waiting to be punched that has had its answer is not due another.
AnsweredIsDelivered ==
    \A c \in Clients :
        LET e == laneOf[c]
        IN  (e # None /\ ex[e].channel = "waiting" /\ ex[e].applied # 0 /\ offers[c] = e)
                => c \in delivered

\* Every one of the above together with the properties it supports.  It rests on
\* the code serialising admissions and deciding in one step, with no await,
\* what becomes of a channel that opened.
Inductive ==
    /\ TypeOK
    /\ LaneIsItsClients
    /\ LaneCap /\ EvictionKeepsRoom
    /\ OpenNeedsPeer /\ BridgeServesItsLane /\ NoBridgeAfterTeardown
    /\ ReplacedReturnsLanded /\ UnpublishedUnanswered
    /\ AnsweredIsDelivered /\ AnswerNotReapplied

-----------------------------------------------------------------------------
(* What the code's own comments and tests say of it, and it does not do:   *)
(* TLC refutes each of these (the README names the instance).              *)

\* "Publishing is BOUND to this lane's life": no offer is in the map for a
\* client that has no lane, where nothing would refresh or withdraw it.
OfferHasLane == \A c \in Clients : offers[c] # None => laneOf[c] # None

\* "A lane whose channel is OPEN is never released, however stale its report".
ConnectedLaneNotReleased ==
    [][\A c \in Clients : (Connected(c) /\ laneOf'[c] = None) => closed']_vars

\* "the replacement is the lane now, and the old peer is released": a peer
\* connection that is open belongs to a lane, or to an exchange whose refresh or
\* whose own gathering is still under way.
ReplacedPeerReleased ==
    \A e \in Offer : ex[e].peerOpen =>
        \/ IsLane(e)
        \/ ex[e].stage \in {"gathering", "writing"}
        \/ \E r \in Offer : ex[r].replaces = e /\ ex[r].stage \in {"gathering", "writing"}

\* "A report is a heartbeat only while it is advancing": the report that opened
\* one lane of a client does not open its next one too.
ReportHonouredOnce ==
    \A e, f \in Offer :
        /\ ex[e].client = ex[f].client /\ f < e
        /\ ex[e].replaces = None /\ ex[f].replaces = None
        /\ ex[e].lastReport # 0
        => ex[f].lastReport < ex[e].lastReport

\* "A channel that has already closed is reported to the attacher rather than
\* lost": a lane that counts as connected has a bridge to report the end of it.
OpenLaneIsBridged ==
    \A c \in Clients : laneOf[c] # None /\ ex[laneOf[c]].open => ex[laneOf[c]].bridged

\* "Withdraw first, then release the peers": after a teardown the document
\* comes to hold no offer of this machine.
TeardownWithdraws == closed ~> (\A c \in Clients : doc[c] = None)

\* "The peers are released": after a teardown no peer connection stays open.
TeardownReleasesPeers == closed ~> (\A e \in Offer : ~ex[e].peerOpen)

\* "Everything long-lived this load started has to end with it", the discovery
\* watch by name.
WatchEndsWithTeardown == closed => ~watching
=============================================================================
