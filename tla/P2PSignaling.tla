---------------------------- MODULE P2PSignaling ----------------------------
(***************************************************************************)
(* The host's half of WebRTC signaling over the discovery document         *)
(* (server/src/p2p-signaling.ts).  One offer per client lane, identified   *)
(* by the timestamp the transport gave it; every change rewrites the whole *)
(* p2pOffers map of the document; an answer is delivered at most once per  *)
(* published offer, and only if it names the offer the lane has now.       *)
(*                                                                         *)
(* The operators below are the module's operations as actions over its     *)
(* own state.  DirectTransport conjoins them to the steps that call them;  *)
(* the module has no behaviour of its own, only callers.  A write here     *)
(* lands in the step that issues it, and its caller learns later how it    *)
(* went (a write that outlived its deadline throws, and may have landed).  *)
(***************************************************************************)
EXTENDS Naturals, FiniteSets

CONSTANTS
    Clients,        \* client ids: the keys of the clients/p2pOffers maps
    MaxOffers       \* bound: offers made in one behaviour

ASSUME OfferBound == MaxOffers \in Nat \ {0}

ASSUME ClientBound == IsFiniteSet(Clients) /\ 0 \notin Clients

Offer == 1 .. MaxOffers     \* an offer's ts: later offers have larger ones
None  == 0                  \* no lane, no offer

VARIABLES
    offers,         \* this machine's lane map: the live offer of each client
    delivered,      \* clients whose live offer has had its answer delivered
    doc,            \* the p2pOffers map of the discovery document
    watching        \* whether the discovery watch is running

sigVars == <<offers, delivered, doc, watching>>

SigTypeOK ==
    /\ offers \in [Clients -> Offer \cup {None}]
    /\ delivered \in SUBSET Clients
    /\ doc \in [Clients -> Offer \cup {None}]
    /\ watching \in BOOLEAN

SigInit ==
    /\ offers = [c \in Clients |-> None]
    /\ delivered = {}
    /\ doc = [c \in Clients |-> None]
    /\ watching = TRUE          \* onReports started it

\* The whole map is written back, so a withdrawn lane leaves the document.
WriteLanes(o) == doc' = o

\* A new offer resets what has been delivered for its lane.  The watch is
\* started behind the write, if the write does not throw.
PublishOffer(c, o) ==
    /\ offers' = [offers EXCEPT ![c] = o]
    /\ delivered' = delivered \ {c}
    /\ WriteLanes(offers')
    /\ watching' \in {watching, TRUE}

\* Withdrawing a lane that has no offer writes nothing.
RetractOffer(c) ==
    /\ offers' = [offers EXCEPT ![c] = None]
    /\ delivered' = delivered \ {c}
    /\ IF offers[c] = None THEN UNCHANGED doc ELSE WriteLanes(offers')
    /\ UNCHANGED watching

\* Mutant of Deliver: a redelivered answer is delivered again.
DeliverEveryTime(c, o) ==
    /\ offers[c] = o
    /\ delivered' = delivered \cup {c}
    /\ UNCHANGED <<offers, doc, watching>>

\* An answer in the document that names the lane's live offer, once.
Deliver(c, o) ==
    /\ offers[c] = o
    /\ c \notin delivered
    /\ delivered' = delivered \cup {c}
    /\ UNCHANGED <<offers, doc, watching>>

\* Stopping forgets every lane.  It writes nothing.
StopSignaling ==
    /\ offers' = [c \in Clients |-> None]
    /\ delivered' = {}
    /\ watching' = FALSE
    /\ UNCHANGED doc
=============================================================================
