----------------------------- MODULE DirectLink -----------------------------
(***************************************************************************)
(* One client's direct link, end to end: its answer found in the document  *)
(* by the watch, the two channels of an exchange (p2p.ts), the bridge to   *)
(* the loopback server (p2p-bridge.ts) with its framing, the app's end of  *)
(* the link (direct_link.dart, direct_channel_web.dart), and the offer     *)
(* that replaces an ended exchange.  Which offer a lane ends up with when  *)
(* punches and replacements cross is the subject of DirectTransport; here  *)
(* a lane has one exchange at a time.                                      *)
(***************************************************************************)
EXTENDS DiscoveryWatch, Framing

CONSTANTS
    MaxOffers,  \* bound: exchanges
    MaxSaid     \* bound: payloads the app, or the server, says on one exchange

ASSUME LinkBounds ==
    /\ MaxOffers \in Nat \ {0} /\ MaxSaid \in Nat \ {0} /\ MaxErrors \in Nat
    /\ 1..MaxSaid \subseteq DOMAIN Parts

VARIABLES
    offer,      \* the host's live offer, 0 before the first
    handed,     \* the offer whose answer the watch handed to the transport
    lane,       \* [open, dead]: what the transport believes of the exchange
    chan,       \* the host's ends: "connecting", "open" or "closed"
    ready,      \* the channels that have been open
    ears,       \* the transport's listeners: "unset" until the offer is written, "set", or "spent"
    wait,       \* the wait for both channels: "waiting", "resolved", "early" (resolved with nobody
                \* listening yet), "rejected", or "escaped" (rejected with nobody listening)
    bridge,     \* "none", "up", "closed", or "broken": its construction threw
    sock,       \* the bridge's socket
    up,         \* frames on their way to the host, and those held or half read there
    server,     \* the payloads the server received, and how many it said
    app,        \* [answered, phase, said]
    down        \* frames on their way to the app, what it half read, what it got

linkVars == <<offer, handed, lane, chan, ready, ears, wait, bridge, sock, up, server, app, down>>
directVars == <<watchVars, linkVars>>

Channels == {"push", "actions"}

NewUp == [sent |-> <<>>, held |-> <<>>, reader |-> Idle, pending |-> <<>>]
NewDown == [sent |-> <<>>, reader |-> Idle, got |-> <<>>]

LinkInit ==
    /\ WatchInit
    /\ offer = 0 /\ handed = 0
    /\ lane = [open |-> FALSE, dead |-> FALSE]
    /\ chan = [c \in Channels |-> "closed"] /\ ready = {} /\ ears = "spent" /\ wait = "rejected"
    /\ bridge = "none" /\ sock = "none"
    /\ up = NewUp /\ down = NewDown /\ server = [got |-> <<>>, said |-> 0]
    /\ app = [answered |-> 0, phase |-> "idle", said |-> 0]

-----------------------------------------------------------------------------
(* An exchange begins, and its answer is heard.                            *)

\* beginExchange: a new peer, and its offer in the document.
Begins ==
    /\ offer' = offer + 1
    /\ lane' = [open |-> FALSE, dead |-> FALSE]
    /\ chan' = [c \in Channels |-> "connecting"] /\ ready' = {} /\ ears' = "unset"
    /\ wait' = "waiting" /\ bridge' = "none" /\ sock' = "none"
    /\ up' = NewUp /\ down' = NewDown /\ server' = [got |-> <<>>, said |-> 0]
    /\ app' = [app EXCEPT !.phase = IF @ = "up" THEN "lost" ELSE @, !.said = 0]
    /\ UNCHANGED handed

\* startDirectTransport: the watch first, then the first offer.
StartDirectTransport ==
    /\ offer = 0
    /\ WatchStarts /\ Begins

\* refreshIfStale: an ended exchange, or one that did not open for an offer's lifetime, which is
\* longer than the app waits for its channels and than the write of the offer takes.
RefreshIfStale ==
    /\ watch.on /\ offer \in 1..(MaxOffers - 1) /\ ears # "unset"
    /\ lane.dead \/ (~lane.open /\ app.phase # "trying")
    /\ Begins
    /\ UNCHANGED watchVars

\* tryConnect: an offer that has not been answered; the answer goes into the document.
TryConnect ==
    /\ watch.on /\ offer > app.answered /\ app.phase # "trying"
    /\ app.phase # "up"
    /\ app' = [answered |-> offer, phase |-> "trying", said |-> 0]
    /\ version' = offer + 1
    /\ UNCHANGED <<mode, watch, reads, errors>>
    /\ UNCHANGED <<offer, handed, lane, chan, ready, ears, wait, bridge, sock, up, server, down>>

\* Mutant of Heard: any answer is taken for the live offer's.
HeardAny(v) == handed' = IF v > 1 /\ watch.on THEN offer ELSE handed

\* onDiscovery: an answer is handed on once, and only the one that names the live offer; a
\* stopped signaling knows no lane.
Heard(v) == handed' = IF v - 1 = offer /\ watch.on THEN offer ELSE handed

Delivered ==
    /\ \E v \in 1..(MaxOffers + 1) : (Snapshot(v) \/ ReadArrives(v)) /\ Heard(v)
    /\ UNCHANGED <<offer, lane, chan, ready, ears, wait, bridge, sock, up, server, app, down>>

WatchFails == (ListenerDies \/ ReadFails) /\ UNCHANGED linkVars
WatchGoesOn == (Rebuild \/ Tick) /\ UNCHANGED linkVars

-----------------------------------------------------------------------------
(* The end of an exchange.                                                 *)

\* onClosed of a bridge, and what the transport does then: the lane is dead, the peer closed.
LaneEnds ==
    /\ lane' = [open |-> FALSE, dead |-> TRUE]
    /\ chan' = [c \in Channels |-> "closed"] /\ ears' = "spent"
    /\ bridge' = "closed"
    /\ sock' = IF sock = "none" THEN sock ELSE "closed"

\* The wait for both channels when those of cs, open until now, close: one that closes before both
\* have opened rejects it, and before the offer is written there is nobody to take that.
Waits(cs) ==
    IF wait = "waiting" /\ cs # {} THEN IF ears = "unset" THEN "escaped" ELSE "rejected"
    ELSE wait

\* A channel of the exchange ends at this end: a bridge closes its socket and says so.
ChannelEnds(c) ==
    /\ chan[c] = "open"
    /\ \/ bridge = "up" /\ LaneEnds /\ wait' = wait
       \/ /\ bridge # "up" /\ chan' = [chan EXCEPT ![c] = "closed"] /\ wait' = Waits({c})
          /\ UNCHANGED <<lane, ears, bridge, sock>>
    /\ UNCHANGED <<watchVars, offer, handed, ready, up, server, app, down>>

\* triggerDisconnect, when ICE reports "disconnected" or "failed".  It tells the transport once, if
\* that listens already, and closes the channels that have been open, which ends a bridge; a channel
\* that never opened is left as it is, and may open when ICE recovers.
Disconnected ==
    /\ handed = offer /\ offer > 0 /\ errors < MaxErrors /\ errors' = errors + 1
    /\ \/ (bridge = "up" \/ (ears = "set" /\ lane.open)) /\ LaneEnds /\ wait' = wait
       \/ /\ bridge # "up" /\ ~(ears = "set" /\ lane.open)
          /\ chan' = [c \in Channels |-> IF c \in ready THEN "closed" ELSE chan[c]]
          /\ ears' = IF ears = "set" THEN "spent" ELSE ears
          /\ wait' = Waits(ready)
          /\ UNCHANGED <<lane, bridge, sock>>
    /\ UNCHANGED <<mode, watch, reads, version, offer, handed, ready, up, server, app, down>>

\* The server ends the bridge's socket, or it could not be reached.
SocketCloses ==
    /\ bridge = "up" /\ errors < MaxErrors /\ errors' = errors + 1
    /\ LaneEnds
    /\ UNCHANGED <<mode, watch, reads, version, offer, handed, ready, wait, up, server, app, down>>

\* The app's end: its channel closes with the host's, or its own deadline passes.
AppLoses ==
    /\ \/ /\ app.phase = "up" /\ \E c \in Channels : chan[c] = "closed"
          /\ app' = [app EXCEPT !.phase = "lost"]
       \/ /\ app.phase = "trying" /\ (app.answered # offer \/ \E c \in Channels : chan[c] = "closed")
          /\ app' = [app EXCEPT !.phase = "failed"]
    /\ UNCHANGED <<watchVars, offer, handed, lane, chan, ready, ears, wait, bridge, sock, up, server, down>>

\* Either end of the app gives up: the page goes, or the punch never lands.
AppGivesUp ==
    /\ app.phase \in {"trying", "up"} /\ errors < MaxErrors /\ errors' = errors + 1
    /\ app' = [app EXCEPT !.phase = IF @ = "up" THEN "lost" ELSE "failed"]
    /\ UNCHANGED <<mode, watch, reads, version, offer, handed, lane, chan, ready, ears, wait, bridge, sock, up, server, down>>

\* The peer sees the app's end close.
PeerSees(c) ==
    /\ app.phase \in {"lost", "failed"} /\ app.answered = offer
    /\ ChannelEnds(c)

\* teardown: the transport and the signaling stop, a read may still be in flight.  The process may
\* end at any time too, as it does after a rejection nobody took (crash.ts).
Teardown ==
    /\ watch.on
    /\ WatchStops
    /\ lane' = [open |-> FALSE, dead |-> FALSE]
    /\ chan' = [c \in Channels |-> "closed"] /\ ears' = "spent"
    /\ wait' = IF wait = "waiting" THEN "rejected" ELSE wait
    /\ bridge' = IF bridge = "up" THEN "closed" ELSE bridge
    /\ sock' = IF sock = "none" THEN sock ELSE "closed"
    /\ UNCHANGED <<offer, handed, ready, up, server, app, down>>

-----------------------------------------------------------------------------
(* The two channels and the bridge between them and the server.            *)

\* What the bridge does with a frame: the reader takes it, and a payload it completes goes to the
\* server, or waits for the bridge's socket.
Carries(u, s, f) ==
    LET a == Accept(u.reader, f)
    IN IF s = "open" THEN [up |-> [u EXCEPT !.reader = a.reader], out |-> a.whole]
       ELSE [up |-> [u EXCEPT !.reader = a.reader, !.pending = @ \o a.whole], out |-> <<>>]

\* Mutant of Attached: what the channel said before is not handed over.
AttachedLate(u) == [u EXCEPT !.held = <<>>]

\* attach: the bridge gets everything the channel has said so far, in order; its socket is not open yet.
Attached(u) ==
    LET after[k \in 0..Len(u.held)] ==
            IF k = 0 THEN [u EXCEPT !.held = <<>>]
            ELSE Carries(after[k - 1], "connecting", u.held[k]).up
    IN after[Len(u.held)]

\* Both channels have opened, and the transport takes it: it builds the bridge.  The bridge of a
\* channel that has closed meanwhile reports that before the transport holds it, which throws.
Bridges ==
    /\ lane' = [lane EXCEPT !.open = TRUE]
    /\ \/ /\ \A c \in Channels : chan'[c] = "open"
          /\ bridge' = "up" /\ sock' = "connecting" /\ up' = Attached(up)
       \/ /\ \E c \in Channels : chan'[c] # "open"
          /\ bridge' = "broken" /\ sock' = "closed" /\ up' = up

\* One of the host's ends opens; the punch of an answered offer has landed.  The second one
\* resolves the wait, unless the first has closed since.
ChannelOpens(c) ==
    /\ handed = offer /\ chan[c] = "connecting" /\ app.phase \in {"trying", "up"}
    /\ chan' = [chan EXCEPT ![c] = "open"]
    /\ ready' = ready \cup {c}
    /\ \/ /\ wait = "waiting" /\ ready' = Channels /\ ears = "unset"
          /\ wait' = "early" /\ UNCHANGED <<lane, bridge, sock, up>>
       \/ wait = "waiting" /\ ready' = Channels /\ ears # "unset" /\ wait' = "resolved" /\ Bridges
       \/ ~(wait = "waiting" /\ ready' = Channels) /\ UNCHANGED <<lane, wait, bridge, sock, up>>
    /\ UNCHANGED <<watchVars, offer, handed, ears, server, app, down>>

\* The offer's write is acknowledged, and only now does the transport attach to the exchange.
\* A client may have read the offer, answered and opened its channels before.
OfferWritten ==
    /\ ears = "unset" /\ ears' = "set"
    /\ UNCHANGED chan
    /\ \/ wait = "early" /\ Bridges
       \/ wait # "early" /\ UNCHANGED <<lane, bridge, sock, up>>
    /\ UNCHANGED <<watchVars, offer, handed, ready, wait, server, app, down>>

\* Mutant of SocketOpens: what waited for the socket is left behind.
SocketOpensEmpty ==
    /\ bridge = "up" /\ sock = "connecting"
    /\ sock' = "open"
    /\ UNCHANGED <<watchVars, offer, handed, lane, chan, ready, ears, wait, bridge, app, up, server, down>>

SocketOpens ==
    /\ bridge = "up" /\ sock = "connecting"
    /\ sock' = "open"
    /\ server' = [server EXCEPT !.got = @ \o up.pending]
    /\ up' = [up EXCEPT !.pending = <<>>]
    /\ UNCHANGED <<watchVars, offer, handed, lane, chan, ready, ears, wait, bridge, app, down>>

\* The app finds both channels open, which may be before the host does, and authenticates at once.
AppConnects ==
    /\ app.phase = "trying" /\ app.answered = offer /\ handed = offer
    /\ \A c \in Channels : chan[c] # "closed"
    /\ app' = [app EXCEPT !.phase = "up", !.said = 1]
    /\ up' = [up EXCEPT !.sent = @ \o FramesOf(1, 1)]
    /\ UNCHANGED <<watchVars, offer, handed, lane, chan, ready, ears, wait, bridge, sock, server, down>>

AppSays ==
    /\ app.phase = "up" /\ app.said < MaxSaid
    /\ app' = [app EXCEPT !.said = @ + 1]
    /\ up' = [up EXCEPT !.sent = @ \o FramesOf(app.said + 1, app.said + 1)]
    /\ UNCHANGED <<watchVars, offer, handed, lane, chan, ready, ears, wait, bridge, sock, server, down>>

\* A frame reaches the host.  A channel holds what it says from its creation until a bridge attaches.
FrameArrives ==
    /\ up.sent # <<>> /\ chan["actions"] # "closed"
    /\ LET f == Head(up.sent)
           rest == [up EXCEPT !.sent = Tail(@)]
           c == Carries(rest, sock, f)
       IN \/ /\ bridge # "up" /\ up' = [rest EXCEPT !.held = Append(@, f)]
             /\ UNCHANGED <<server, lane, chan, ears, bridge, sock>>
          \/ /\ bridge = "up" /\ Accepts(up.reader, f)
             /\ up' = c.up /\ server' = [server EXCEPT !.got = @ \o c.out]
             /\ UNCHANGED <<lane, chan, ears, bridge, sock>>
          \/ bridge = "up" /\ ~Accepts(up.reader, f) /\ up' = rest /\ LaneEnds /\ UNCHANGED server
    /\ UNCHANGED <<watchVars, offer, handed, ready, wait, app, down>>

\* The server says something to a client it has heard: the bridge frames it.
ServerSays ==
    /\ bridge = "up" /\ sock = "open" /\ server.got # <<>> /\ server.said < MaxSaid
    /\ server' = [server EXCEPT !.said = @ + 1]
    /\ down' = [down EXCEPT !.sent = @ \o FramesOf(server.said + 1, server.said + 1)]
    /\ UNCHANGED <<watchVars, offer, handed, lane, chan, ready, ears, wait, bridge, sock, up, app>>

AppReads ==
    /\ down.sent # <<>> /\ app.phase = "up" /\ chan["push"] # "closed"
    /\ LET f == Head(down.sent)
           a == Accept(down.reader, f)
       IN /\ Accepts(down.reader, f)
          /\ down' = [sent |-> Tail(down.sent), reader |-> a.reader, got |-> down.got \o a.whole]
    /\ UNCHANGED <<watchVars, offer, handed, lane, chan, ready, ears, wait, bridge, sock, up, server, app>>

-----------------------------------------------------------------------------
LinkNext ==
    \/ StartDirectTransport \/ RefreshIfStale \/ TryConnect
    \/ Delivered \/ WatchFails \/ WatchGoesOn
    \/ Disconnected \/ SocketCloses \/ AppLoses \/ AppGivesUp \/ Teardown
    \/ \E c \in Channels : ChannelOpens(c) \/ PeerSees(c)
    \/ OfferWritten \/ SocketOpens \/ AppConnects \/ AppSays \/ FrameArrives \/ ServerSays \/ AppReads

LinkSpec == LinkInit /\ [][LinkNext]_directVars

\* LinkFairness: what has been asked of the network, a timer or the document comes; nobody has to
\* speak, fail or leave.
LinkFairness ==
    /\ WF_directVars(StartDirectTransport) /\ WF_directVars(RefreshIfStale) /\ WF_directVars(TryConnect)
    /\ WF_directVars(Delivered) /\ WF_directVars(WatchGoesOn)
    /\ WF_directVars(AppLoses) /\ \A c \in Channels : WF_directVars(ChannelOpens(c)) /\ WF_directVars(PeerSees(c))
    /\ WF_directVars(OfferWritten) /\ WF_directVars(SocketOpens) /\ WF_directVars(AppConnects)
    /\ WF_directVars(FrameArrives) /\ WF_directVars(AppReads)

FairLinkSpec == LinkSpec /\ LinkFairness

-----------------------------------------------------------------------------
(* Properties.                                                             *)

AppPhases == {"idle", "trying", "up", "lost", "failed"}
WaitStates == {"waiting", "resolved", "early", "rejected", "escaped"}

LinkTypeOK ==
    /\ mode \in {"push", "poll"} /\ reads \subseteq 1..(MaxOffers + 1) /\ version \in 1..(MaxOffers + 1)
    /\ watch.backoff \in 1..WaitMax /\ errors \in 0..MaxErrors
    /\ offer \in 0..MaxOffers /\ handed \in 0..offer
    /\ lane \in [open : BOOLEAN, dead : BOOLEAN]
    /\ chan \in [Channels -> {"connecting", "open", "closed"}] /\ ready \subseteq Channels
    /\ ears \in {"unset", "set", "spent"} /\ wait \in WaitStates
    /\ bridge \in {"none", "up", "closed", "broken"}
    /\ sock \in {"none", "connecting", "open", "closed"}
    /\ app \in [answered : 0..offer, phase : AppPhases, said : 0..MaxSaid]

\* The first n payloads, whole and in their order.
Said(n) == [k \in 1..n |-> Payload(k)]

\* What reaches the server is what the app said, payload by payload and in order, and the other
\* way round, although a payload travels as frames, the first frames arrive before anybody listens
\* and before the bridge's socket is open (p2p.ts:209, p2p-bridge.ts:85), and each exchange numbers
\* its payloads anew.
CarriedInOrder ==
    /\ \E n \in 0..app.said : server.got = Said(n)
    /\ \E n \in 0..server.said : down.got = Said(n)

\* A lane the transport believes open has its bridge: a channel that closed before both had opened
\* gets none, and no lane that needs one (p2p.ts:288, direct-transport.ts:396).  Not so when both
\* opened, and one closed, before the write of the offer was acknowledged.
OpenIsBridged == lane.open => bridge = "up" \/ (bridge = "broken" /\ wait = "early")

\* The types, what the link carries (p2p-bridge.ts:85), and that an open lane can carry it.
LinkIsSound == LinkTypeOK /\ CarriedInOrder /\ OpenIsBridged

\* An answer is handed to the transport only for the offer it answers, however late a poll
\* delivers a document that has changed since (discovery-watch.ts:86), and a signaling that has
\* stopped hands on nothing.
AnswerMatches == [][handed' # handed => (handed' \in {d - 1 : d \in reads \cup {version}} /\ watch.on)]_directVars

\* The watch is never deaf for good: while the host is up, an answer to the live offer is heard
\* although listeners die and reads fail, or the offer is replaced (firestore-listen.ts:86).
AnswerIsHeard == (watch.on /\ offer > 0 /\ version = offer + 1) ~> (handed = offer \/ version # offer + 1 \/ ~watch.on)

Ended == \E c \in Channels : chan[c] = "closed"

\* What the app says on an open link reaches the server, or the link ends: nothing waits for ever in
\* a channel nobody attached to, or for a socket that is open (p2p-bridge.ts:95).
WordsArrive ==
    \A n \in 1..MaxSaid :
        (app.phase = "up" /\ app.said >= n) ~> (Len(server.got) >= n \/ Ended \/ app.phase # "up")

\* A client whose link ended is offered a new one.  Not so after a bridge that could not be built:
\* its callback reads the name of the bridge being built (direct-transport.ts:398), the lane stays
\* "open" and is not refreshed.  OpenIsBridged says when that is.
LinkIsRenewed ==
    \A n \in 1..(MaxOffers - 1) :
        (offer = n /\ app.answered = n /\ app.phase \in {"lost", "failed"}) ~> (offer > n \/ ~watch.on \/ bridge = "broken")

\* The three together: the answer is heard, words arrive, an ended link is renewed
\* (firestore-listen.ts:86, p2p-bridge.ts:95, direct-transport.ts:416).
LinkServes == AnswerIsHeard /\ WordsArrive /\ LinkIsRenewed

-----------------------------------------------------------------------------
(* Not so: what the code says and does not keep.  No run checks these; TLC *)
(* refutes both under FairLinkSpec.                                        *)

\* "a channel that opened, carried nothing, and reported no error, while the client kept retrying
\* against a machine that had already answered it" (direct-transport.ts:376) is to be impossible.
\* A channel that opens and closes before the offer's write is acknowledged leaves it: the lane is
\* "open" without a bridge, and no new offer is made.
LinkIsAlwaysRenewed ==
    \A n \in 1..(MaxOffers - 1) :
        (offer = n /\ app.answered = n /\ app.phase \in {"lost", "failed"}) ~> (offer > n \/ ~watch.on)

\* "letting it escape is not [correct]: the rejection reached the host's crash reporter as a fatal
\* error while nothing was actually wrong" (p2p.ts:313).  The rejection of the wait for the channels
\* has no handler until the offer's write is acknowledged, and ends the process before that.
NothingEscapes == wait # "escaped"
=============================================================================
