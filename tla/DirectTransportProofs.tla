----------------------- MODULE DirectTransportProofs ------------------------
(***************************************************************************)
(* Proofs about DirectTransport, for any number of clients, lanes, offers  *)
(* and reports.  The lemmas of the first part say what each helper does to *)
(* an exchange; those of the second show that every step keeps one part of *)
(* the inductive invariant, or let a connected lane go only as they may;   *)
(* the theorems at the end are its consequences.                           *)
(***************************************************************************)
EXTENDS DirectTransport, FiniteSetTheorems, TLAPS

ExFun == [Offer -> Exchange]

\* What can become of one exchange f when x becomes y.
Unheard == {"unused", "gathering"}      \* not published, so not answered
SamePart(x, y, f) ==
    /\ y[f].client = x[f].client /\ y[f].replaces = x[f].replaces
    /\ y[f].applied = x[f].applied
    /\ y[f].stage \in Unheard => x[f].stage \in Unheard
    /\ y[f].stage = "unused" <=> x[f].stage = "unused"
Kept(x, y, f) ==
    /\ SamePart(x, y, f)
    /\ y[f].peerOpen = x[f].peerOpen
    /\ y[f].channel = "waiting" => x[f].channel = "waiting"
    /\ y[f].channel = "open" => x[f].channel = "open"
    /\ y[f].open = x[f].open /\ y[f].bridged = x[f].bridged
Shut(x, y, f) ==
    /\ SamePart(x, y, f)
    /\ y[f].peerOpen = FALSE /\ y[f].bridged = FALSE /\ y[f].channel # "open"
    /\ y[f].channel = "waiting" => x[f].channel = "waiting"
Adopted(x, y, f) ==
    /\ SamePart(x, y, f)
    /\ y[f].peerOpen = x[f].peerOpen /\ y[f].channel = "adopted"
    /\ y[f].open = TRUE /\ y[f].bridged = (x[f].channel = "open")
Begun(y, f, c, old) ==
    /\ y[f].client = c /\ y[f].stage = "gathering" /\ y[f].replaces = old
    /\ y[f].peerOpen = TRUE /\ y[f].channel = "waiting"
    /\ y[f].open = FALSE /\ y[f].bridged = FALSE /\ y[f].applied = 0

-----------------------------------------------------------------------------
(* What the helpers do.                                                    *)

\* Closing a peer shuts that exchange and touches no other.
LEMMA ClosePeerIs ==
    ASSUME NEW x \in ExFun, NEW e \in Offer
    PROVE  /\ ClosePeer(x, e) \in ExFun
           /\ Shut(x, ClosePeer(x, e), e)
           /\ ClosePeer(x, e)[e].stage = x[e].stage
           /\ ClosePeer(x, e)[e].open = x[e].open
           /\ \A f \in Offer : f # e => ClosePeer(x, e)[f] = x[f]
  <1>. DEFINE v == [x[e] EXCEPT !.peerOpen = FALSE, !.bridged = FALSE,
                      !.channel = IF x[e].channel = "open" THEN "closed" ELSE x[e].channel]
  <1>1. x[e] \in Exchange
    BY DEF ExFun
  <1>2. v \in Exchange
    BY <1>1 DEF Exchange
  <1>3. ClosePeer(x, e) = [x EXCEPT ![e] = v]
    BY DEF ClosePeer, ExFun
  <1>4. /\ v.client = x[e].client /\ v.stage = x[e].stage
        /\ v.replaces = x[e].replaces /\ v.applied = x[e].applied
        /\ v.open = x[e].open /\ v.peerOpen = FALSE /\ v.bridged = FALSE
        /\ v.channel # "open"
        /\ v.channel = "waiting" => x[e].channel = "waiting"
    BY <1>1 DEF Exchange
  <1>. HIDE DEF v
  <1>. QED
    BY <1>2, <1>3, <1>4 DEF ExFun, Shut, SamePart

\* Beginning an exchange touches no other.
LEMMA BeginIs ==
    ASSUME NEW x \in ExFun, NEW e \in Offer, NEW c \in Clients \cup {None},
           NEW old \in Offer \cup {None}
    PROVE  /\ Begin(x, e, c, old) \in ExFun
           /\ Begun(Begin(x, e, c, old), e, c, old)
           /\ \A f \in Offer : f # e => Begin(x, e, c, old)[f] = x[f]
  <1>. DEFINE at  == IF old = None THEN 0 ELSE x[old].lastReport
              new == [Unused EXCEPT !.client = c, !.stage = "gathering",
                        !.replaces = old, !.peerOpen = TRUE, !.lastReport = at]
  <1>1. 0 \in ReportAt
    BY ReportBound DEF ReportAt
  <1>2. at \in ReportAt
    BY <1>1 DEF ExFun, Exchange
  <1>. HIDE DEF at
  <1>3. Unused \in Exchange
    BY <1>1 DEF Unused, Exchange, Stages
  <1>4. new \in Exchange
    BY <1>2, <1>3 DEF Exchange, Stages
  <1>5a. /\ new.client = c /\ new.stage = "gathering" /\ new.replaces = old
         /\ new.peerOpen = TRUE /\ new.channel = Unused.channel
         /\ new.open = Unused.open /\ new.bridged = Unused.bridged
         /\ new.applied = Unused.applied
    BY <1>3 DEF Exchange
  <1>5. Begin(x, e, c, old) = [x EXCEPT ![e] = new]
    BY DEF Begin, at
  <1>. HIDE DEF new
  <1>6. /\ Begin(x, e, c, old) \in ExFun
        /\ \A f \in Offer : f # e => Begin(x, e, c, old)[f] = x[f]
        /\ Begin(x, e, c, old)[e] = new
    BY <1>4, <1>5 DEF ExFun
  <1>. QED
    BY <1>5a, <1>6 DEF Unused, Begun

\* Spending an exchange shuts it, and touches no other.
LEMMA SpendIs ==
    ASSUME NEW x \in ExFun, NEW e \in Offer
    PROVE  /\ Spend(x, e) \in ExFun
           /\ Shut(x, Spend(x, e), e)
           /\ \A f \in Offer : f # e => Spend(x, e)[f] = x[f]
  <1>. DEFINE y == ClosePeer(x, e)
              v == [y[e] EXCEPT !.open = FALSE, !.dead = TRUE]
  <1>1. /\ y \in ExFun /\ y[e] \in Exchange /\ Shut(x, y, e)
        /\ \A f \in Offer : f # e => y[f] = x[f]
    BY ClosePeerIs DEF ExFun
  <1>2. Spend(x, e) = [y EXCEPT ![e] = v]
    BY <1>1 DEF Spend, ExFun
  <1>3. v \in Exchange
    BY <1>1 DEF Exchange
  <1>4. /\ v.client = y[e].client /\ v.stage = y[e].stage
        /\ v.replaces = y[e].replaces /\ v.applied = y[e].applied
        /\ v.peerOpen = y[e].peerOpen /\ v.bridged = y[e].bridged
        /\ v.channel = y[e].channel
    BY <1>1 DEF Exchange
  <1>. HIDE DEF v, y
  <1>5. /\ Spend(x, e) \in ExFun
        /\ \A f \in Offer : f # e => Spend(x, e)[f] = y[f]
        /\ Spend(x, e)[e] = v
    BY <1>1, <1>2, <1>3 DEF ExFun
  <1>. QED
    BY <1>1, <1>4, <1>5 DEF Shut, SamePart

\* Fields that no part of the invariant reads.
LEMMA SetLastReport ==
    ASSUME NEW x \in ExFun, NEW e \in Offer, NEW k \in ReportAt
    PROVE  LET y == [x EXCEPT ![e].lastReport = k]
           IN  y \in ExFun /\ \A f \in Offer : Kept(x, y, f)
  BY DEF ExFun, Exchange, Kept, SamePart
LEMMA SetAged ==
    ASSUME NEW x \in ExFun, NEW e \in Offer
    PROVE  LET y == [x EXCEPT ![e].aged = TRUE]
           IN  y \in ExFun /\ \A f \in Offer : Kept(x, y, f)
  BY DEF ExFun, Exchange, Kept, SamePart
LEMMA ClearRefreshing ==
    ASSUME NEW x \in ExFun, NEW e \in Offer
    PROVE  LET y == [x EXCEPT ![e].refreshing = FALSE]
           IN  y \in ExFun /\ \A f \in Offer : Kept(x, y, f)
  BY DEF ExFun, Exchange, Kept, SamePart

\* An exchange that leaves its gathering does not return to it.
LEMMA SetStage ==
    ASSUME NEW x \in ExFun, NEW e \in Offer, NEW s \in Stages \ Unheard,
           x[e].stage # "unused"
    PROVE  LET y == [x EXCEPT ![e].stage = s]
           IN  y \in ExFun /\ y[e].stage = s /\ \A f \in Offer : Kept(x, y, f)
  BY DEF ExFun, Exchange, Kept, SamePart, Unheard

\* What is kept twice is kept.
LEMMA KeptTwice ==
    ASSUME NEW x, NEW y, NEW z, NEW f, Kept(x, y, f), Kept(y, z, f)
    PROVE  Kept(x, z, f)
  BY DEF Kept, SamePart

\* A refresh begins the replacement, and marks what it replaces.
LEMMA BeginRefreshIs ==
    ASSUME NEW x \in ExFun, NEW e \in Offer, NEW l \in Offer, e # l
    PROVE  /\ BeginRefresh(x, e, l) \in ExFun
           /\ Begun(BeginRefresh(x, e, l), e, x[l].client, l)
           /\ \A f \in Offer : f # e => Kept(x, BeginRefresh(x, e, l), f)
  <1>. DEFINE y == Begin(x, e, x[l].client, l)
              v == [y[l] EXCEPT !.refreshing = TRUE]
  <1>1. x[l].client \in Clients \cup {None}
    BY DEF ExFun, Exchange
  <1>2a. /\ y \in ExFun /\ Begun(y, e, x[l].client, l)
         /\ \A f \in Offer : f # e => y[f] = x[f]
    BY <1>1, BeginIs, l \in Offer \cup {None}
  <1>2. /\ y \in ExFun /\ y[l] \in Exchange /\ y[l] = x[l]
        /\ Begun(y, e, x[l].client, l)
        /\ \A f \in Offer : f # e => y[f] = x[f]
    BY <1>2a DEF ExFun
  <1>3. BeginRefresh(x, e, l) = [y EXCEPT ![l] = v]
    BY <1>2 DEF BeginRefresh, ExFun
  <1>4. v \in Exchange
    BY <1>2 DEF Exchange
  <1>5. Kept(x, [f \in Offer |-> v], l)
    BY <1>2 DEF Exchange, Kept, SamePart, Unheard
  <1>. HIDE DEF v, y
  <1>6. /\ BeginRefresh(x, e, l) \in ExFun
        /\ \A f \in Offer : f # l => BeginRefresh(x, e, l)[f] = y[f]
        /\ BeginRefresh(x, e, l)[l] = v
    BY <1>2, <1>3, <1>4 DEF ExFun
  <1>. QED
    BY <1>2, <1>5, <1>6 DEF Begun, Kept, SamePart

\* Spending a lane's exchange, with its refresh if one starts.
LEMMA SpendAndRefreshIs ==
    ASSUME NEW x \in ExFun, NEW e \in Offer,
           RefreshesNow(x, e) => nextOffer \in Offer /\ nextOffer # e
    PROVE  /\ SpendAndRefresh(x, e) \in ExFun
           /\ Shut(x, SpendAndRefresh(x, e), e)
           /\ RefreshesNow(x, e) => Begun(SpendAndRefresh(x, e), nextOffer, x[e].client, e)
           /\ \A f \in Offer : f # e /\ (f = nextOffer => ~RefreshesNow(x, e))
                    => Kept(x, SpendAndRefresh(x, e), f)
  <1>. DEFINE y == Spend(x, e)
              z == BeginRefresh(y, nextOffer, e)
  <1>1. /\ y \in ExFun /\ Shut(x, y, e)
        /\ \A f \in Offer : f # e => y[f] = x[f]
    BY SpendIs
  <1>2. CASE ~RefreshesNow(x, e)
    <2>1. SpendAndRefresh(x, e) = y
      BY <1>2 DEF SpendAndRefresh
    <2>. HIDE DEF y
    <2>. QED
      BY <1>1, <1>2, <2>1 DEF Kept, SamePart
  <1>3. CASE RefreshesNow(x, e)
    <2>1. SpendAndRefresh(x, e) = z
      BY <1>3 DEF SpendAndRefresh
    <2>2. y[e].client = x[e].client
      BY <1>1 DEF Shut, SamePart
    <2>. HIDE DEF y
    <2>3. /\ z \in ExFun
          /\ Begun(z, nextOffer, y[e].client, e)
          /\ \A f \in Offer : f # nextOffer => Kept(y, z, f)
      BY <1>1, <1>3, BeginRefreshIs
    <2>. HIDE DEF z
    <2>4. Shut(x, z, e)
      BY <1>1, <1>3, <2>3 DEF Shut, Kept, SamePart
    <2>5. \A f \in Offer : f # e /\ f # nextOffer => Kept(x, z, f)
      BY <1>1, <2>3 DEF Kept, SamePart
    <2>. QED
      BY <1>3, <2>1, <2>2, <2>3, <2>4, <2>5
  <1>. QED
    BY <1>2, <1>3

\* Adopting a punch that landed: the exchange is open, and whichever other one
\* held the lane is shut.  One that is not adoptable is shut itself.
LEMMA AdoptIs ==
    ASSUME NEW x \in ExFun, NEW e \in Offer, x[e].client \in Clients,
           laneOf \in [Clients -> Offer \cup {None}],
           x[e].client = ex[e].client
    PROVE  LET y    == Adopt(x, e)
               held == laneOf[x[e].client]
           IN  /\ y \in ExFun
               /\ Adoptable(e) =>
                    /\ Adopted(x, y, e)
                    /\ held # e => Shut(x, y, held)
                    /\ \A f \in Offer : f # e /\ f # held => Kept(x, y, f)
               /\ ~Adoptable(e) =>
                    /\ Shut(x, y, e)
                    /\ \A f \in Offer : f # e => Kept(x, y, f)
  <1>. DEFINE held == laneOf[x[e].client]
              rest == IF held \in {e, None} THEN x ELSE ClosePeer(x, held)
              v == [rest[e] EXCEPT !.open = TRUE, !.channel = "adopted",
                                   !.bridged = (x[e].channel = "open")]
  <1>1. CASE ~Adoptable(e)
    <2>1. Adopt(x, e) = ClosePeer(x, e)
      BY <1>1 DEF Adopt
    <2>. QED
      BY <1>1, <2>1, ClosePeerIs DEF Kept, SamePart
  <1>2. CASE Adoptable(e)
    <2>1. held \in Offer
      BY <1>2 DEF Adoptable
    <2>2. /\ rest \in ExFun /\ rest[e] = x[e]
          /\ held # e => Shut(x, rest, held)
          /\ \A f \in Offer : f # e /\ f # held => rest[f] = x[f]
      <3>1. CASE held = e
        BY <3>1
      <3>2. CASE held # e
        <4>1. rest = ClosePeer(x, held)
          BY <2>1, <3>2, OfferBound DEF Offer, None
        <4>. HIDE DEF held
        <4>. QED
          BY <2>1, <3>2, <4>1, ClosePeerIs
      <3>. QED
        BY <3>1, <3>2
    <2>3. rest[e] \in Exchange
      BY <2>2 DEF ExFun
    <2>4. Adopt(x, e) = [rest EXCEPT ![e] = v]
      BY <1>2, <2>2 DEF Adopt, ExFun
    <2>5. v \in Exchange
      BY <2>3 DEF Exchange
    <2>6. Adopted(x, [f \in Offer |-> v], e)
      BY <2>2, <2>3 DEF Exchange, Adopted, SamePart, Unheard
    <2>. HIDE DEF v, rest, held
    <2>7. /\ Adopt(x, e) \in ExFun
          /\ \A f \in Offer : f # e => Adopt(x, e)[f] = rest[f]
          /\ Adopt(x, e)[e] = v
      BY <2>2, <2>4, <2>5 DEF ExFun
    <2>. QED
      BY <1>2, <2>1, <2>2, <2>6, <2>7 DEF Kept, Shut, Adopted, SamePart, held
  <1>. QED
    BY <1>1, <1>2

-----------------------------------------------------------------------------
(* Types.                                                                  *)

\* Offers are numbered from one, so none of them is None.
LEMMA OfferNotNone == Offer \subseteq Nat /\ None \notin Offer /\ None \notin Clients
  BY OfferBound, ClientBound DEF Offer, None

\* The signaling's operations keep its types.
LEMMA PublishType ==
    ASSUME SigTypeOK, NEW c, NEW o \in Offer, PublishOffer(c, o)
    PROVE  SigTypeOK'
  BY DEF SigTypeOK, PublishOffer, WriteLanes

LEMMA RetractType ==
    ASSUME SigTypeOK, NEW c, RetractOffer(c)
    PROVE  SigTypeOK'
  BY DEF SigTypeOK, RetractOffer, WriteLanes

\* The types that most steps need.
LEMMA TypeFacts ==
    ASSUME TypeOK
    PROVE  /\ ex \in ExFun
           /\ laneOf \in [Clients -> Offer \cup {None}]
           /\ offers \in [Clients -> Offer \cup {None}]
           /\ nextOffer \in 1 .. (MaxOffers + 1) /\ nextOffer \in Nat
           /\ CanBegin => nextOffer \in Offer
           /\ \A e \in Offer : /\ ex[e].client \in Clients <=> e < nextOffer
                               /\ ex[e].stage # "unused"   <=> e < nextOffer
  <1>1. /\ ex \in ExFun
        /\ laneOf \in [Clients -> Offer \cup {None}]
        /\ offers \in [Clients -> Offer \cup {None}]
        /\ nextOffer \in 1 .. (MaxOffers + 1)
        /\ \A e \in Offer : /\ ex[e].client \in Clients <=> e < nextOffer
                            /\ ex[e].stage # "unused"   <=> e < nextOffer
    BY DEF TypeOK, SigTypeOK, ExFun
  <1>2. nextOffer \in Nat /\ (CanBegin => nextOffer \in Offer)
    BY <1>1, OfferBound DEF CanBegin, Offer
  <1>. QED
    BY <1>1, <1>2

\* A lane's exchange was begun, for that lane's client.
LEMMA LaneFacts ==
    ASSUME TypeOK, LaneIsItsClients, NEW c \in Clients, laneOf[c] # None
    PROVE  /\ laneOf[c] \in Offer /\ ex[laneOf[c]].client = c
           /\ laneOf[c] < nextOffer /\ nextOffer # laneOf[c]
  <1>1. laneOf[c] \in Offer
    BY TypeFacts
  <1>2. ex[laneOf[c]].client = c
    BY DEF LaneIsItsClients
  <1>3. laneOf[c] < nextOffer
    BY <1>1, <1>2, TypeFacts
  <1>4. laneOf[c] \in Nat /\ nextOffer \in Nat
    BY <1>1, OfferNotNone, TypeFacts
  <1>. QED
    BY <1>1, <1>2, <1>3, <1>4

\* Closing a lane keeps the types of what it changes.
LEMMA CloseLaneIs ==
    ASSUME TypeOK, LaneIsItsClients, NEW c \in Clients, laneOf[c] # None, CloseLane(c)
    PROVE  LET e == laneOf[c]
           IN  /\ SigTypeOK'
               /\ ex' \in ExFun
               /\ Shut(ex, ex', e)
               /\ CloseRefreshes(c) => /\ nextOffer \in Offer /\ nextOffer # e
                                       /\ Begun(ex', nextOffer, c, e)
                                       /\ nextOffer' = nextOffer + 1
               /\ ~CloseRefreshes(c) => nextOffer' = nextOffer
               /\ \A f \in Offer : f # e /\ (f = nextOffer => ~CloseRefreshes(c))
                        => Kept(ex, ex', f)
               /\ laneOf' = [laneOf EXCEPT ![c] = None]
               /\ RetractOffer(c)
  <1>. DEFINE e == laneOf[c]
              y == IF ex[e].open THEN SpendAndRefresh(ex, e) ELSE ex
  <1>1. /\ e \in Offer /\ ex \in ExFun /\ ex[e].client = c
        /\ SigTypeOK
    BY LaneFacts, TypeFacts DEF TypeOK
  <1>2. CloseRefreshes(c) => nextOffer \in Offer
    BY TypeFacts DEF CloseLane
  <1>3. nextOffer # e
    BY LaneFacts
  <1>4. /\ y \in ExFun
        /\ CloseRefreshes(c) => Begun(y, nextOffer, c, e)
        /\ SamePart(ex, y, e)
        /\ y[e].channel = "waiting" => ex[e].channel = "waiting"
        /\ \A f \in Offer : f # e /\ (f = nextOffer => ~CloseRefreshes(c)) => Kept(ex, y, f)
    <2>1. CASE ex[e].open
      <3>1. CloseRefreshes(c) <=> RefreshesNow(ex, e)
        BY <2>1 DEF CloseRefreshes
      <3>. HIDE DEF e
      <3>2. /\ SpendAndRefresh(ex, e) \in ExFun
            /\ Shut(ex, SpendAndRefresh(ex, e), e)
            /\ RefreshesNow(ex, e) => Begun(SpendAndRefresh(ex, e), nextOffer, ex[e].client, e)
            /\ \A f \in Offer : f # e /\ (f = nextOffer => ~RefreshesNow(ex, e))
                     => Kept(ex, SpendAndRefresh(ex, e), f)
        BY <1>1, <1>2, <1>3, <3>1, SpendAndRefreshIs
      <3>. QED
        BY <1>1, <2>1, <3>1, <3>2 DEF Shut
    <2>2. CASE ~ex[e].open
      BY <1>1, <2>2 DEF CloseRefreshes, Kept, SamePart
    <2>. QED
      BY <2>1, <2>2
  <1>5. ex' = ClosePeer(y, e)
    BY DEF CloseLane
  <1>6. SigTypeOK' /\ RetractOffer(c)
    BY <1>1, RetractType DEF CloseLane
  <1>7. /\ laneOf' = [laneOf EXCEPT ![c] = None]
        /\ CloseRefreshes(c) => nextOffer' = nextOffer + 1
        /\ ~CloseRefreshes(c) => nextOffer' = nextOffer
    BY DEF CloseLane
  <1>. HIDE DEF y, e
  <1>8. /\ ex' \in ExFun /\ Shut(y, ex', e)
        /\ \A f \in Offer : f # e => ex'[f] = y[f]
    BY <1>1, <1>4, <1>5, ClosePeerIs
  <1>9. Shut(ex, ex', e)
    BY <1>4, <1>8 DEF Shut, SamePart
  <1>10. \A f \in Offer : f # e /\ (f = nextOffer => ~CloseRefreshes(c)) => Kept(ex, ex', f)
    BY <1>4, <1>8 DEF Kept, SamePart
  <1>11. CloseRefreshes(c) => Begun(ex', nextOffer, c, e)
    BY <1>2, <1>3, <1>4, <1>8 DEF Begun
  <1>. QED
    BY <1>2, <1>3, <1>6, <1>7, <1>8, <1>9, <1>10, <1>11 DEF e

-----------------------------------------------------------------------------
(* The shapes of a step.  Every step does one of these five things to the  *)
(* lanes and exchanges, and one of four things to the offers in the map.   *)

\* Nothing moves: exchanges are as they were, or shut.
Settles ==
    /\ ex' \in ExFun
    /\ \A f \in Offer : Kept(ex, ex', f) \/ Shut(ex, ex', f)
    /\ UNCHANGED <<laneOf, nextOffer>>

\* A new exchange becomes the lane of c; what was there has no bridge.
Begins(c) ==
    /\ nextOffer \in Offer /\ nextOffer' = nextOffer + 1
    /\ ex' \in ExFun
    /\ Begun(ex', nextOffer, c, laneOf[c])
    /\ laneOf[c] # None => ~ex'[laneOf[c]].bridged
    /\ \A f \in Offer : f # nextOffer => Kept(ex, ex', f) \/ Shut(ex, ex', f)
    /\ laneOf' = [laneOf EXCEPT ![c] = nextOffer]

\* The lane of c is shut and forgotten; a replacement of it may have begun.
Closes(c) ==
    /\ laneOf[c] # None
    /\ ex' \in ExFun
    /\ Shut(ex, ex', laneOf[c])
    /\ \/ /\ nextOffer \in Offer /\ nextOffer' = nextOffer + 1
          /\ Begun(ex', nextOffer, c, laneOf[c])
          /\ \A f \in Offer : f # nextOffer => Kept(ex, ex', f) \/ Shut(ex, ex', f)
       \/ /\ nextOffer' = nextOffer
          /\ \A f \in Offer : Kept(ex, ex', f) \/ Shut(ex, ex', f)
    /\ laneOf' = [laneOf EXCEPT ![c] = None]

\* The punch of e landed: e is its client's lane, and what was there is shut.
Adopts(e) ==
    /\ Adoptable(e) /\ ex[e].client \in Clients
    /\ ex' \in ExFun
    /\ SamePart(ex, ex', e)
    /\ ex'[e].channel \notin {"waiting", "open"}
    /\ ex'[e].bridged => ex'[e].peerOpen /\ ex'[e].open
    /\ laneOf[ex[e].client] # e => Shut(ex, ex', laneOf[ex[e].client])
    /\ \A f \in Offer : f # e => Kept(ex, ex', f) \/ Shut(ex, ex', f)
    /\ laneOf' = [laneOf EXCEPT ![ex[e].client] = e]
    /\ UNCHANGED nextOffer

\* The live offer of c is put in the map: it has left its gathering, and if it
\* is the lane's then either it has landed or nothing has answered it.
Publishes(c, o) ==
    /\ ex[o].client = c /\ ex'[o].stage \notin Unheard
    /\ laneOf'[c] = o => ex'[o].channel # "waiting" \/ ex'[o].applied = 0
    /\ offers' = [offers EXCEPT ![c] = o]
    /\ delivered' = delivered \ {c}

\* Both channels of e open before its handlers are attached.
Opens(e) ==
    /\ ex[e].peerOpen = TRUE
    /\ ex' = [ex EXCEPT ![e].channel = "open"]
    /\ UNCHANGED <<laneOf, nextOffer>>

\* The live offer of c is answered, for the first time; the answer is applied
\* if that offer is the lane's.
Answers(c) ==
    /\ offers[c] \in Offer /\ c \notin delivered
    /\ ex' = IF laneOf[c] = offers[c]
               THEN [ex EXCEPT ![offers[c]].applied = IF @ = 2 THEN 2 ELSE @ + 1,
                               ![offers[c]].aged = FALSE]
               ELSE ex
    /\ UNCHANGED <<laneOf, nextOffer, offers>>
    /\ delivered' = delivered \cup {c}

\* Every lane is shut and forgotten, and every offer with it.
Ends ==
    /\ ex' \in ExFun
    /\ \A f \in Offer : Kept(ex, ex', f) \/ Shut(ex, ex', f)
    /\ \A f \in Offer : IsLane(f) => Shut(ex, ex', f)
    /\ laneOf' = [c \in Clients |-> None]
    /\ UNCHANGED nextOffer

Moves ==
    \/ Settles \/ Ends
    \/ \E c \in Clients : Begins(c) \/ Closes(c)
    \/ \E e \in Offer : Adopts(e) \/ Opens(e)

SigSafe ==
    \/ UNCHANGED <<offers, delivered>>
    \/ \E c \in Clients : /\ offers' = [offers EXCEPT ![c] = None]
                          /\ delivered' = delivered \ {c}
    \/ offers' = [c \in Clients |-> None]
    \/ \E c \in Clients, o \in Offer : Publishes(c, o)

-----------------------------------------------------------------------------
(* The shape of each step.                                                 *)

Inv == TypeOK /\ LaneIsItsClients /\ OpenNeedsPeer /\ ReplacedReturnsLanded
           /\ UnpublishedUnanswered /\ EvictionKeepsRoom

LEMMA OpenLaneShape ==
    ASSUME Inv, NEW c \in Clients, NEW r, OpenLane(c, r), laneOf[c] = None
    PROVE  Begins(c)
  <1>1. nextOffer \in Offer /\ ex \in ExFun
    BY TypeFacts DEF OpenLane, Inv
  <1>2. ex' = Begin(ex, nextOffer, c, None)
    BY DEF OpenLane
  <1>3. /\ ex' \in ExFun /\ Begun(ex', nextOffer, c, None)
        /\ \A f \in Offer : f # nextOffer => ex'[f] = ex[f]
    BY <1>1, <1>2, BeginIs
  <1>. QED
    BY <1>1, <1>3 DEF OpenLane, Begins, Kept, SamePart

LEMMA RefreshIfStaleShape ==
    ASSUME Inv, NEW c \in Clients, RefreshIfStale(c)
    PROVE  Begins(c)
  <1>. DEFINE l == laneOf[c]
  <1>1. /\ nextOffer \in Offer /\ ex \in ExFun /\ l \in Offer /\ ex[l].client = c
    BY TypeFacts, LaneFacts DEF RefreshIfStale, Inv
  <1>2. l # nextOffer
    BY LaneFacts DEF RefreshIfStale, Inv
  <1>3. ex' = BeginRefresh(ex, nextOffer, l)
    BY DEF RefreshIfStale
  <1>4. /\ ex' \in ExFun /\ Begun(ex', nextOffer, c, l)
        /\ \A f \in Offer : f # nextOffer => Kept(ex, ex', f)
    BY <1>1, <1>2, <1>3, BeginRefreshIs
  <1>5. ~ex'[l].bridged
    BY <1>1, <1>2, <1>4 DEF Kept, RefreshIfStale, Inv, OpenNeedsPeer, ExFun, Exchange
  <1>. QED
    BY <1>1, <1>4, <1>5 DEF RefreshIfStale, Begins

LEMMA ChannelEndsShape ==
    ASSUME Inv, NEW e \in Offer, ChannelEnds(e)
    PROVE  Settles \/ \E c \in Clients : Begins(c)
  <1>. DEFINE c == ex[e].client
  <1>0. c \in Clients /\ laneOf[c] = e
    BY DEF ChannelEnds, IsLane
  <1>1. /\ ex \in ExFun /\ c \in Clients /\ laneOf[c] = e /\ e < nextOffer
    BY <1>0, TypeFacts DEF Inv
  <1>2. RefreshesNow(ex, e) => nextOffer \in Offer
    BY TypeFacts DEF ChannelEnds, Inv
  <1>3. nextOffer # e
    BY <1>1, OfferNotNone, TypeFacts DEF Inv
  <1>4. ex' = SpendAndRefresh(ex, e)
    BY DEF ChannelEnds
  <1>5. /\ ex' \in ExFun /\ Shut(ex, ex', e)
        /\ RefreshesNow(ex, e) => Begun(ex', nextOffer, c, e)
        /\ \A f \in Offer : f # e /\ (f = nextOffer => ~RefreshesNow(ex, e))
                    => Kept(ex, ex', f)
    BY <1>1, <1>2, <1>3, <1>4, SpendAndRefreshIs
  <1>6. CASE RefreshesNow(ex, e)
    <2>1. ~ex'[laneOf[c]].bridged
      BY <1>1, <1>5 DEF Shut
    <2>2. laneOf' = [laneOf EXCEPT ![c] = nextOffer] /\ nextOffer' = nextOffer + 1
      BY <1>6 DEF ChannelEnds
    <2>. HIDE DEF c
    <2>3. Begins(c)
      BY <1>1, <1>2, <1>5, <1>6, <2>1, <2>2 DEF Begins
    <2>. QED
      BY <1>1, <2>3
  <1>7. CASE ~RefreshesNow(ex, e)
    BY <1>5, <1>7 DEF ChannelEnds, Settles
  <1>. QED
    BY <1>6, <1>7

LEMMA CloseLaneShape ==
    ASSUME Inv, NEW c \in Clients, laneOf[c] # None, CloseLane(c)
    PROVE  Closes(c) /\ SigSafe
  <1>1. TypeOK /\ LaneIsItsClients
    BY DEF Inv
  <1>2. Closes(c)
    BY <1>1, CloseLaneIs DEF Closes
  <1>. QED
    BY <1>2 DEF CloseLane, RetractOffer, SigSafe

\* A punch that landed is adopted, or its exchange is shut, whatever the step
\* does besides to x, the exchanges as the handler finds them.
LEMMA AdoptShape ==
    ASSUME Inv, NEW e \in Offer, NEW x \in ExFun,
           ex[e].stage # "unused",
           SamePart(ex, x, e),
           x[e].channel = "open" => x[e].peerOpen = TRUE,
           x[e].channel # "waiting",
           \A f \in Offer : f # e => Kept(ex, x, f),
           ex' \in ExFun,
           \A f \in Offer : \/ Kept(Adopt(x, e), ex', f)
                            \/ Shut(Adopt(x, e), ex', f),
           laneOf' = AdoptLane(e),
           UNCHANGED nextOffer
    PROVE  Settles \/ Adopts(e)
  <1>. DEFINE y == Adopt(x, e)
              held == laneOf[x[e].client]
  <1>1. /\ ex[e].client \in Clients
        /\ laneOf \in [Clients -> Offer \cup {None}]
    BY TypeFacts DEF Inv
  <1>2. x[e].client = ex[e].client
    BY DEF SamePart
  <1>3. /\ y \in ExFun
        /\ Adoptable(e) =>
             /\ Adopted(x, y, e)
             /\ held # e => Shut(x, y, held)
             /\ \A f \in Offer : f # e /\ f # held => Kept(x, y, f)
        /\ ~Adoptable(e) =>
             /\ Shut(x, y, e)
             /\ \A f \in Offer : f # e => Kept(x, y, f)
    BY <1>1, <1>2, AdoptIs
  <1>. HIDE DEF y
  <1>4. CASE ~Adoptable(e)
    <2>1. Shut(ex, ex', e)
      BY <1>3, <1>4 DEF Shut, Kept, SamePart, y
    <2>2. \A f \in Offer : f # e => Kept(ex, ex', f) \/ Shut(ex, ex', f)
      BY <1>3, <1>4 DEF Shut, Kept, SamePart, y
    <2>. QED
      BY <1>4, <2>1, <2>2 DEF Settles, AdoptLane
  <1>5. CASE Adoptable(e)
    <2>1. /\ SamePart(ex, ex', e)
          /\ ex'[e].channel \notin {"waiting", "open"}
          /\ ex'[e].bridged => ex'[e].peerOpen /\ ex'[e].open
      BY <1>3, <1>5 DEF Adopted, Shut, Kept, SamePart, y
    <2>2. held # e => Shut(ex, ex', held)
      <3>1. held \in Offer
        BY <1>1, <1>2, <1>5 DEF Adoptable
      <3>2. held # e => Kept(ex, x, held)
        BY <3>1
      <3>. QED
        BY <1>3, <1>5, <3>1, <3>2 DEF Shut, Kept, SamePart, y
    <2>3. \A f \in Offer : f # e => Kept(ex, ex', f) \/ Shut(ex, ex', f)
      BY <1>3, <1>5, <2>2 DEF Shut, Kept, SamePart, y
    <2>. QED
      BY <1>1, <1>2, <1>5, <2>1, <2>2, <2>3 DEF Adopts, AdoptLane
  <1>. QED
    BY <1>4, <1>5

\* The lane an admission opened remembers its report.
LEMMA AdmittedIs ==
    ASSUME Inv, NEW x \in ExFun, NEW l \in Offer \cup {None}
    PROVE  /\ Admitted(x, l) \in ExFun
           /\ \A f \in Offer : Kept(x, Admitted(x, l), f)
  <1>1. admission.at \in ReportAt
    BY DEF Inv, TypeOK
  <1>2. CASE l # None /\ admission.at # 0
    BY <1>1, <1>2, SetLastReport DEF Admitted
  <1>3. CASE ~(l # None /\ admission.at # 0)
    BY <1>3 DEF Admitted, Kept, SamePart
  <1>. QED
    BY <1>2, <1>3

\* An exchange whose offer has returned is ready, and nothing else moved.
LEMMA ReadyIs ==
    ASSUME Inv, NEW e \in Offer, ex[e].stage = "writing"
    PROVE  LET ready == [ex EXCEPT ![e].stage = "ready"]
           IN  /\ ready \in ExFun /\ \A f \in Offer : Kept(ex, ready, f)
               /\ ready[e].channel = ex[e].channel
               /\ ready[e].peerOpen = ex[e].peerOpen
               /\ ready[e].stage = "ready"
  <1>1. ex \in ExFun
    BY TypeFacts DEF Inv
  <1>2. "ready" \in Stages \ Unheard
    BY DEF Stages, Unheard
  <1>3. /\ [ex EXCEPT ![e].stage = "ready"] \in ExFun
        /\ [ex EXCEPT ![e].stage = "ready"][e].stage = "ready"
        /\ \A f \in Offer : Kept(ex, [ex EXCEPT ![e].stage = "ready"], f)
    BY <1>1, <1>2, SetStage
  <1>4. /\ [ex EXCEPT ![e].stage = "ready"][e].channel = ex[e].channel
        /\ [ex EXCEPT ![e].stage = "ready"][e].peerOpen = ex[e].peerOpen
    BY <1>1 DEF ExFun, Exchange
  <1>. QED
    BY <1>3, <1>4

LEMMA OfferReturnedAdmissionShape ==
    ASSUME Inv, NEW e \in Offer, OfferReturnedAdmission(e)
    PROVE  Settles \/ Adopts(e)
  <1>. DEFINE ready == [ex EXCEPT ![e].stage = "ready"]
              after == Adopt(ready, e)
              c     == ex[e].client
  <1>1. /\ ex \in ExFun /\ laneOf \in [Clients -> Offer \cup {None}]
        /\ c \in Clients /\ UNCHANGED nextOffer
        /\ ex[e].stage = "writing"
    BY TypeFacts DEF Inv, OfferReturnedAdmission
  <1>2. /\ ready \in ExFun /\ \A f \in Offer : Kept(ex, ready, f)
        /\ ready[e].channel = ex[e].channel
        /\ ready[e].peerOpen = ex[e].peerOpen
    BY <1>1, ReadyIs
  <1>3. CASE ex[e].channel = "waiting"
    <2>1. ex' = Admitted(ready, laneOf[c]) /\ laneOf' = laneOf
      BY <1>3 DEF OfferReturnedAdmission
    <2>2. laneOf[c] \in Offer \cup {None}
      BY <1>1
    <2>. HIDE DEF ready
    <2>3. /\ ex' \in ExFun /\ \A f \in Offer : Kept(ready, ex', f)
      BY <1>2, <2>1, <2>2, AdmittedIs
    <2>. QED
      BY <1>1, <1>2, <2>1, <2>3, KeptTwice DEF Settles
  <1>4. CASE ex[e].channel # "waiting"
    <2>1. ex' = Admitted(after, AdoptLane(e)[c]) /\ laneOf' = AdoptLane(e)
      BY <1>4 DEF OfferReturnedAdmission
    <2>2. AdoptLane(e)[c] \in Offer \cup {None}
      BY <1>1 DEF AdoptLane
    <2>3. ready[e].client = c
      BY <1>2 DEF Kept, SamePart
    <2>. HIDE DEF ready
    <2>4. after \in ExFun
      BY <1>1, <1>2, <2>3, AdoptIs
    <2>5. /\ ex' \in ExFun /\ \A f \in Offer : Kept(after, ex', f)
      BY <2>1, <2>2, <2>4, AdmittedIs
    <2>6. /\ SamePart(ex, ready, e)
          /\ ready[e].channel = "open" => ready[e].peerOpen = TRUE
          /\ ready[e].channel # "waiting"
      BY <1>2, <1>4, <1>1 DEF Kept, Inv, OpenNeedsPeer, ExFun, Exchange
    <2>. QED
      BY <1>1, <1>2, <2>1, <2>5, <2>6, AdoptShape
  <1>. QED
    BY <1>3, <1>4

LEMMA OfferReturnedReplacingShape ==
    ASSUME Inv, NEW e \in Offer, OfferReturnedReplacing(e)
    PROVE  Settles \/ Adopts(e)
  <1>. DEFINE ready == [ex EXCEPT ![e].stage = "ready"]
              l     == ex[e].replaces
              after == IF ex[e].channel # "waiting" THEN Adopt(ready, e) ELSE ready
              shut  == ClosePeer(after, l)
  <1>1. /\ ex \in ExFun /\ laneOf \in [Clients -> Offer \cup {None}]
        /\ ex[e].client \in Clients /\ UNCHANGED nextOffer
        /\ ex[e].stage = "writing"
    BY TypeFacts DEF Inv, OfferReturnedReplacing
  <1>2. l \in Offer
    BY <1>1 DEF OfferReturnedReplacing, ExFun, Exchange
  <1>3. /\ ready \in ExFun /\ \A f \in Offer : Kept(ex, ready, f)
        /\ ready[e].channel = ex[e].channel
        /\ ready[e].peerOpen = ex[e].peerOpen
    BY <1>1, ReadyIs
  <1>4. ready[e].client = ex[e].client
    BY <1>3 DEF Kept, SamePart
  <1>5. ex' = [shut EXCEPT ![l].refreshing = FALSE]
    BY DEF OfferReturnedReplacing
  <1>. HIDE DEF ready
  <1>6. after \in ExFun
    BY <1>1, <1>3, <1>4, AdoptIs
  <1>. HIDE DEF after
  <1>7. /\ shut \in ExFun /\ Shut(after, shut, l)
        /\ \A f \in Offer : f # l => shut[f] = after[f]
    BY <1>2, <1>6, ClosePeerIs
  <1>. HIDE DEF shut, l
  <1>8. ex' \in ExFun /\ \A f \in Offer : Kept(shut, ex', f)
    BY <1>2, <1>5, <1>7, ClearRefreshing
  <1>9. \A f \in Offer : Kept(after, ex', f) \/ Shut(after, ex', f)
    BY <1>7, <1>8 DEF Kept, Shut, SamePart
  <1>10. CASE ex[e].channel = "waiting"
    <2>1. after = ready /\ laneOf' = laneOf
      BY <1>10 DEF OfferReturnedReplacing, after
    <2>2. \A f \in Offer : Kept(ex, ex', f) \/ Shut(ex, ex', f)
      BY <1>3, <1>9, <2>1 DEF Kept, Shut, SamePart
    <2>. QED
      BY <1>1, <1>8, <2>1, <2>2 DEF Settles
  <1>11. CASE ex[e].channel # "waiting"
    <2>1. after = Adopt(ready, e) /\ laneOf' = AdoptLane(e)
      BY <1>11 DEF OfferReturnedReplacing, after
    <2>2. /\ SamePart(ex, ready, e)
          /\ ready[e].channel = "open" => ready[e].peerOpen = TRUE
          /\ ready[e].channel # "waiting"
      BY <1>1, <1>3, <1>11 DEF Kept, Inv, OpenNeedsPeer, ExFun, Exchange
    <2>. QED
      BY <1>1, <1>3, <1>8, <1>9, <2>1, <2>2, AdoptShape
  <1>. QED
    BY <1>10, <1>11

LEMMA ChannelsOpenShape ==
    ASSUME Inv, NEW e \in Offer, ChannelsOpen(e)
    PROVE  Settles \/ Adopts(e) \/ Opens(e)
  <1>. DEFINE opened == [ex EXCEPT ![e].channel = "open"]
  <1>1. /\ ex \in ExFun /\ UNCHANGED nextOffer /\ ex[e].peerOpen = TRUE
    BY TypeFacts DEF Inv, ChannelsOpen, ExFun, Exchange
  <1>2. /\ opened \in ExFun /\ opened[e].channel = "open"
        /\ opened[e].peerOpen = TRUE
        /\ SamePart(ex, opened, e)
        /\ \A f \in Offer : f # e => Kept(ex, opened, f)
    BY <1>1 DEF ExFun, Exchange, SamePart, Kept
  <1>3. CASE ex[e].stage \in {"ready", "restoring"}
    <2>1. ex' = Adopt(opened, e) /\ laneOf' = AdoptLane(e)
      BY <1>3 DEF ChannelsOpen
    <2>2. /\ laneOf \in [Clients -> Offer \cup {None}] /\ ex[e].client \in Clients
      BY <1>3, TypeFacts DEF Inv
    <2>3. opened[e].client = ex[e].client
      BY <1>2 DEF SamePart
    <2>. HIDE DEF opened
    <2>4. ex' \in ExFun
      BY <1>2, <2>1, <2>2, <2>3, AdoptIs
    <2>5. \A f \in Offer : Kept(Adopt(opened, e), ex', f)
      BY <2>1 DEF Kept, SamePart
    <2>6. ex[e].stage # "unused" /\ opened[e].channel # "waiting"
      BY <1>2, <1>3
    <2>. QED
      BY <1>1, <1>2, <2>1, <2>4, <2>5, <2>6, AdoptShape
  <1>4. CASE ex[e].stage \notin {"ready", "restoring"}
    BY <1>1, <1>2, <1>4 DEF ChannelsOpen, Opens
  <1>. QED
    BY <1>3, <1>4

\* The steps that only advance an exchange's stage, its clock or its report.
LEMMA SettlingShape ==
    ASSUME Inv, NEW e \in Offer,
           \/ PublishIfLive(e) \/ Restored(e) \/ OfferThrew(e)
           \/ OfferAges(e) \/ ChannelLost(e)
    PROVE  Settles
  <1>1. ex \in ExFun
    BY TypeFacts DEF Inv
  <1>2. CASE PublishIfLive(e)
    <2>1. "writing" \in Stages \ Unheard /\ ex[e].stage # "unused"
      BY <1>2 DEF Stages, Unheard, PublishIfLive
    <2>. QED
      BY <1>1, <1>2, <2>1, SetStage DEF PublishIfLive, Settles
  <1>3. CASE Restored(e) \/ OfferThrew(e)
    <2>1. PICK s \in {"ready", "failed"} :
            /\ \/ ex' = [ex EXCEPT ![e].stage = s]
               \/ /\ ex[e].replaces # None
                  /\ ex' = [ex EXCEPT ![e].stage = s, ![ex[e].replaces].refreshing = FALSE]
               \/ ex' = [ex EXCEPT ![e].stage = s, ![None].refreshing = FALSE]
            /\ UNCHANGED <<laneOf, nextOffer>>
            /\ ex[e].stage # "unused"
      BY <1>3 DEF Restored, OfferThrew
    <2>2. s \in Stages \ Unheard
      BY DEF Stages, Unheard
    <2>. DEFINE y == [ex EXCEPT ![e].stage = s]
                l == ex[e].replaces
    <2>3. y \in ExFun /\ \A f \in Offer : Kept(ex, y, f)
      BY <1>1, <2>1, <2>2, SetStage
    <2>4. \/ ex' = y
          \/ l \in Offer /\ ex' = [y EXCEPT ![l].refreshing = FALSE]
      <3>1. l \in Offer \cup {None}
        BY <1>1 DEF ExFun, Exchange
      <3>2. [ex EXCEPT ![e].stage = s, ![None].refreshing = FALSE] = y
        BY <1>1, OfferNotNone DEF ExFun
      <3>. QED
        BY <2>1, <3>1, <3>2
    <2>. HIDE DEF y, l
    <2>5. ex' \in ExFun /\ \A f \in Offer : Kept(y, ex', f)
      <3>1. CASE ex' = y
        BY <2>3, <3>1 DEF Kept, SamePart
      <3>2. CASE l \in Offer /\ ex' = [y EXCEPT ![l].refreshing = FALSE]
        BY <2>3, <3>2, ClearRefreshing
      <3>. QED
        BY <2>4, <3>1, <3>2
    <2>. QED
      BY <2>1, <2>3, <2>5, KeptTwice DEF Settles
  <1>4. CASE OfferAges(e)
    BY <1>1, <1>4, SetAged DEF OfferAges, Settles
  <1>5. CASE ChannelLost(e)
    <2>1. ex' = [ex EXCEPT ![e].channel = "closed"] /\ UNCHANGED <<laneOf, nextOffer>>
      BY <1>5 DEF ChannelLost
    <2>. QED
      BY <1>1, <2>1 DEF ExFun, Exchange, Kept, SamePart, Settles
  <1>. QED
    BY <1>2, <1>3, <1>4, <1>5

\* A replacement that is not the lane is shut.
LEMMA OfferReturnedDisplacedShape ==
    ASSUME Inv, NEW e \in Offer, OfferReturnedDisplaced(e)
    PROVE  Settles
  <1>. DEFINE l == ex[e].replaces
              y == ClosePeer(ex, e)
  <1>1. ex \in ExFun /\ l \in Offer
    <2>1. ex \in ExFun
      BY TypeFacts DEF Inv
    <2>. QED
      BY <2>1 DEF OfferReturnedDisplaced, ExFun, Exchange
  <1>2. /\ y \in ExFun /\ Shut(ex, y, e) /\ y[e].stage = ex[e].stage
        /\ \A f \in Offer : f # e => y[f] = ex[f]
    BY <1>1, ClosePeerIs
  <1>3. y[e].stage # "unused"
    BY <1>2 DEF OfferReturnedDisplaced
  <1>4. PICK s \in {"ready", "restoring"} :
          \/ ex' = [y EXCEPT ![e].stage = s]
          \/ ex' = [y EXCEPT ![e].stage = s, ![l].refreshing = FALSE]
    BY DEF OfferReturnedDisplaced
  <1>5. s \in Stages \ Unheard
    BY DEF Stages, Unheard
  <1>. DEFINE z == [y EXCEPT ![e].stage = s]
  <1>6. \/ ex' = z
        \/ ex' = [z EXCEPT ![l].refreshing = FALSE]
    BY <1>4
  <1>. HIDE DEF y, l
  <1>7. z \in ExFun /\ \A f \in Offer : Kept(y, z, f)
    BY <1>2, <1>3, <1>5, SetStage
  <1>. HIDE DEF z
  <1>8. ex' \in ExFun /\ \A f \in Offer : Kept(z, ex', f)
    <2>1. CASE ex' = z
      BY <1>7, <2>1 DEF Kept, SamePart
    <2>2. CASE ex' = [z EXCEPT ![l].refreshing = FALSE]
      BY <1>1, <1>7, <2>2, ClearRefreshing
    <2>. QED
      BY <1>6, <2>1, <2>2
  <1>9. \A f \in Offer : Kept(ex, ex', f) \/ Shut(ex, ex', f)
    BY <1>2, <1>7, <1>8 DEF Kept, Shut, SamePart
  <1>. QED
    BY <1>8, <1>9 DEF OfferReturnedDisplaced, Settles

\* The first of a queue, and what is left of it.
LEMMA HeadTail ==
    ASSUME NEW S, NEW q \in Seq(S), q # <<>>
    PROVE  Head(q) \in S /\ Tail(q) \in Seq(S)
  OBVIOUS

LEMMA AdmitKnownShape ==
    ASSUME Inv, AdmitKnown
    PROVE  Settles
  <1>. DEFINE c == Head(queue).client
              e == laneOf[c]
  <1>1. /\ ex \in ExFun /\ laneOf \in [Clients -> Offer \cup {None}]
        /\ queue # <<>> /\ queue \in Seq([client : Clients, at : ReportAt])
    BY TypeFacts DEF Inv, TypeOK, AdmitKnown, Dequeue
  <1>2. Head(queue) \in [client : Clients, at : ReportAt]
    BY <1>1, HeadTail
  <1>3. e \in Offer /\ Head(queue).at \in ReportAt
    BY <1>1, <1>2 DEF AdmitKnown
  <1>4. \/ ex' = ex
        \/ \E k \in ReportAt : ex' = [ex EXCEPT ![e].lastReport = k]
    BY <1>3 DEF AdmitKnown
  <1>. HIDE DEF e
  <1>5. ex' \in ExFun /\ \A f \in Offer : Kept(ex, ex', f)
    <2>1. CASE ex' = ex
      BY <1>1, <2>1 DEF Kept, SamePart
    <2>2. CASE \E k \in ReportAt : ex' = [ex EXCEPT ![e].lastReport = k]
      <3>1. PICK k \in ReportAt : ex' = [ex EXCEPT ![e].lastReport = k]
        BY <2>2
      <3>. QED
        BY <1>1, <1>3, <3>1, SetLastReport
    <2>. QED
      BY <1>4, <2>1, <2>2
  <1>. QED
    BY <1>5 DEF AdmitKnown, Settles

LEMMA TeardownShape ==
    ASSUME Inv, Teardown
    PROVE  Ends /\ SigSafe
  <1>1. ex \in ExFun
    BY TypeFacts DEF Inv
  <1>. DEFINE y(f) == IF ex[f].open THEN Spend(ex, f) ELSE ClosePeer(ex, f)
  <1>2. \A f \in Offer : y(f) \in ExFun /\ Shut(ex, y(f), f)
    BY <1>1, SpendIs, ClosePeerIs
  <1>3. ex' = [f \in Offer |-> IF IsLane(f) THEN y(f)[f] ELSE ex[f]]
    BY DEF Teardown, CloseTransport
  <1>. HIDE DEF y
  <1>4. ex' \in ExFun
    BY <1>1, <1>2, <1>3 DEF ExFun
  <1>5. \A f \in Offer : /\ IsLane(f) => Shut(ex, ex', f)
                         /\ ~IsLane(f) => Kept(ex, ex', f)
    BY <1>2, <1>3 DEF Shut, Kept, SamePart
  <1>. QED
    BY <1>4, <1>5 DEF Teardown, CloseTransport, StopSignaling, Ends, SigSafe

\* An exchange that leaves its gathering with its offer published has not been
\* answered yet; one that is adopted has landed; one put back by a displaced
\* replacement is either not the lane or has landed.
LEMMA ExchangeSigSafe ==
    ASSUME Inv, NEW e \in Offer,
           ExchangeStep(e) \/ ChannelsOpen(e)
    PROVE  SigSafe
  <1>1. ex \in ExFun /\ laneOf \in [Clients -> Offer \cup {None}]
    BY TypeFacts DEF Inv
  <1>2. ex[e].stage # "unused" => ex[e].client \in Clients
    BY TypeFacts DEF Inv
  <1>. DEFINE c == ex[e].client
              l == ex[e].replaces
  <1>3. CASE PublishIfLive(e)
    <2>1. c \in Clients /\ ex[e].applied = 0
      BY <1>2, <1>3 DEF PublishIfLive, Inv, UnpublishedUnanswered
    <2>2. ex' = [ex EXCEPT ![e].stage = "writing"]
      BY <1>3 DEF PublishIfLive
    <2>3. ex'[e].stage \notin Unheard /\ ex'[e].applied = 0
      BY <1>1, <2>1, <2>2 DEF ExFun, Exchange, Unheard
    <2>4. RetractOffer(c) \/ PublishOffer(c, e)
      BY <1>3 DEF PublishIfLive
    <2>5. CASE PublishOffer(c, e)
      BY <2>1, <2>3, <2>5 DEF PublishOffer, Publishes, SigSafe
    <2>6. CASE RetractOffer(c)
      BY <2>1, <2>6 DEF RetractOffer, SigSafe
    <2>. QED
      BY <2>4, <2>5, <2>6
  <1>4. ASSUME PublishOffer(c, e), ex[e].stage # "unused", ex'[e].stage \notin Unheard,
               ex'[e].channel # "waiting"
        PROVE  SigSafe
    BY <1>2, <1>4 DEF PublishOffer, Publishes, SigSafe
  <1>5. ASSUME Settles \/ Adopts(e), PublishOffer(c, e), Adoptable(e), laneOf' = AdoptLane(e),
               ex[e].stage \in Stages \ Unheard, laneOf[c] # e
        PROVE  SigSafe
    <2>1. Adopts(e)
      <3>1. c \in Clients
        BY <1>2, <1>5 DEF Unheard
      <3>2. laneOf'[c] = e
        BY <1>1, <1>5, <3>1 DEF AdoptLane
      <3>. QED
        BY <1>5, <3>2 DEF Settles
    <2>2. ex[e].stage # "unused" /\ ex'[e].stage \notin Unheard /\ ex'[e].channel # "waiting"
      BY <1>5, <2>1 DEF Adopts, SamePart, Unheard
    <2>. QED
      BY <1>4, <1>5, <2>2
  <1>6. CASE OfferReturnedAdmission(e)
    <2>1. Settles \/ Adopts(e)
      BY <1>6, OfferReturnedAdmissionShape
    <2>2. \/ UNCHANGED sigVars
          \/ PublishOffer(c, e) /\ AdoptPublishes(e) /\ laneOf' = AdoptLane(e)
      BY <1>6 DEF OfferReturnedAdmission
    <2>3. ex[e].stage \in Stages \ Unheard
      BY <1>6 DEF OfferReturnedAdmission, Stages, Unheard
    <2>. QED
      BY <1>5, <2>1, <2>2, <2>3 DEF AdoptPublishes, SigSafe, sigVars
  <1>7. CASE OfferReturnedReplacing(e)
    <2>1. Settles \/ Adopts(e)
      BY <1>7, OfferReturnedReplacingShape
    <2>2. \/ UNCHANGED sigVars
          \/ PublishOffer(c, e) /\ AdoptPublishes(e) /\ laneOf' = AdoptLane(e)
      BY <1>7 DEF OfferReturnedReplacing
    <2>3. ex[e].stage \in Stages \ Unheard
      BY <1>7 DEF OfferReturnedReplacing, Stages, Unheard
    <2>. QED
      BY <1>5, <2>1, <2>2, <2>3 DEF AdoptPublishes, SigSafe, sigVars
  <1>8. CASE ChannelsOpen(e)
    <2>1. CASE ex[e].stage \in {"ready", "restoring"}
      <3>1. Settles \/ Adopts(e) \/ Opens(e)
        BY <1>8, ChannelsOpenShape
      <3>2. \/ UNCHANGED sigVars
            \/ PublishOffer(c, e) /\ AdoptPublishes(e) /\ laneOf' = AdoptLane(e)
        BY <1>8, <2>1 DEF ChannelsOpen
      <3>3. ex[e].stage \in Stages \ Unheard
        BY <2>1 DEF Stages, Unheard
      <3>4. ASSUME PublishOffer(c, e), AdoptPublishes(e), laneOf' = AdoptLane(e)
            PROVE  ~Opens(e)
        <4>1. c \in Clients
          BY <1>2, <2>1
        <4>2. laneOf'[c] = e /\ laneOf[c] # e
          BY <1>1, <3>4, <4>1 DEF AdoptLane, AdoptPublishes
        <4>. QED
          BY <4>2 DEF Opens
      <3>. QED
        BY <1>5, <3>1, <3>2, <3>3, <3>4 DEF AdoptPublishes, SigSafe, sigVars
    <2>2. CASE ex[e].stage \notin {"ready", "restoring"}
      BY <1>8, <2>2 DEF ChannelsOpen, SigSafe, sigVars
    <2>. QED
      BY <2>1, <2>2
  <1>9. CASE OfferReturnedDisplaced(e)
    <2>1. CASE ex[l].stage # "ready"
      BY <1>9, <2>1 DEF OfferReturnedDisplaced, SigSafe, sigVars
    <2>2. CASE ex[l].stage = "ready"
      <3>1. /\ c \in Clients /\ l # None /\ l \in Offer /\ PublishOffer(c, l)
            /\ UNCHANGED laneOf
        BY <1>1, <1>2, <1>9, <2>2 DEF OfferReturnedDisplaced, ExFun, Exchange
      <3>2. ex[l].client = c
        BY <3>1 DEF Inv, LaneIsItsClients
      <3>3. SamePart(ex, ex', l) /\ (ex'[l].channel = "waiting" => ex[l].channel = "waiting")
        BY <1>9, <3>1, OfferReturnedDisplacedShape DEF Settles, Kept, Shut
      <3>4. ex'[l].stage \notin Unheard
        BY <2>2, <3>3 DEF SamePart, Unheard
      <3>5. laneOf'[c] = l => ex'[l].channel # "waiting"
        BY <3>1, <3>2, <3>3 DEF Inv, ReplacedReturnsLanded, IsLane
      <3>. QED
        BY <3>1, <3>2, <3>4, <3>5 DEF PublishOffer, Publishes, SigSafe
    <2>. QED
      BY <2>1, <2>2
  <1>10. CASE Restored(e) \/ OfferThrew(e)
    BY <1>10 DEF Restored, OfferThrew, SigSafe, sigVars
  <1>. QED
    BY <1>3, <1>6, <1>7, <1>8, <1>9, <1>10 DEF ExchangeStep

\* Every step but an answer is one of the moves, and safe for the map.
LEMMA StepShape ==
    ASSUME Inv, [Next]_vars
    PROVE  (Moves /\ SigSafe) \/ \E c \in Clients : Answers(c)
  <1>. USE DEF Moves
  <1>0. ex \in ExFun
    BY TypeFacts DEF Inv
  <1>1. ASSUME UNCHANGED <<ex, laneOf, nextOffer, offers, delivered>>
        PROVE  Moves /\ SigSafe
    BY <1>0, <1>1 DEF Settles, SigSafe, Kept, SamePart
  <1>2. CASE UNCHANGED vars
    BY <1>1, <1>2 DEF vars, sigVars
  <1>3. ASSUME NEW c \in Clients,
               \/ WriteReport(c) \/ EnsureLane(c) \/ Answer(c) \/ ClientSilent(c)
               \/ RefreshIfStale(c) \/ ReleaseExpired(c) \/ ReleaseStep(c)
        PROVE  (Moves /\ SigSafe) \/ Answers(c)
    <2>1. CASE WriteReport(c) \/ EnsureLane(c) \/ ClientSilent(c) \/ ReleaseGone(c)
      BY <1>1, <2>1 DEF WriteReport, EnsureLane, ClientSilent, ReleaseGone, sigVars
    <2>2. CASE Answer(c)
      <3>1. offers[c] \in Offer
        BY <2>2, TypeFacts DEF Answer, Inv
      <3>. QED
        BY <2>2, <3>1 DEF Answer, Answers, Deliver
    <2>3. CASE RefreshIfStale(c)
      <3>1. Begins(c)
        BY <2>3, RefreshIfStaleShape
      <3>. QED
        BY <2>3, <3>1 DEF RefreshIfStale, SigSafe, sigVars
    <2>4. CASE ReleaseExpired(c) \/ ReleaseNext(c)
      <3>1. CloseLane(c) /\ laneOf[c] # None
        BY <2>4 DEF ReleaseExpired, ReleaseNext, Expired, Lanes
      <3>. QED
        BY <3>1, CloseLaneShape
    <2>. QED
      BY <1>3, <2>1, <2>2, <2>3, <2>4 DEF ReleaseStep
  <1>4. ASSUME NEW e \in Offer,
               \/ ExchangeStep(e) \/ OfferAges(e)
               \/ ChannelsOpen(e) \/ ChannelLost(e) \/ ChannelEnds(e)
        PROVE  Moves /\ SigSafe
    <2>1. CASE PublishIfLive(e) \/ Restored(e) \/ OfferThrew(e)
      BY <2>1, SettlingShape, ExchangeSigSafe DEF ExchangeStep
    <2>2. CASE OfferReturnedAdmission(e)
      BY <2>2, OfferReturnedAdmissionShape, ExchangeSigSafe DEF ExchangeStep
    <2>3. CASE OfferReturnedReplacing(e)
      BY <2>3, OfferReturnedReplacingShape, ExchangeSigSafe DEF ExchangeStep
    <2>4. CASE OfferReturnedDisplaced(e)
      BY <2>4, OfferReturnedDisplacedShape, ExchangeSigSafe DEF ExchangeStep
    <2>5. CASE ChannelsOpen(e)
      BY <2>5, ChannelsOpenShape, ExchangeSigSafe
    <2>6. CASE OfferAges(e) \/ ChannelLost(e)
      <3>1. Settles
        BY <2>6, SettlingShape
      <3>. QED
        BY <2>6, <3>1 DEF OfferAges, ChannelLost, SigSafe, sigVars
    <2>7. CASE ChannelEnds(e)
      <3>1. Settles \/ \E c \in Clients : Begins(c)
        BY <2>7, ChannelEndsShape
      <3>. QED
        BY <2>7, <3>1 DEF ChannelEnds, SigSafe, sigVars
    <2>. QED
      BY <1>4, <2>1, <2>2, <2>3, <2>4, <2>5, <2>6, <2>7 DEF ExchangeStep
  <1>5. CASE AdmissionStep
    <2>1. CASE AdmitKnown
      <3>1. Settles
        BY <2>1, AdmitKnownShape
      <3>. QED
        BY <2>1, <3>1 DEF AdmitKnown, SigSafe, sigVars
    <2>2. CASE AdmitFresh
      <3>. DEFINE c == Head(queue).client
      <3>0. queue \in Seq([client : Clients, at : ReportAt]) /\ queue # <<>>
        BY <2>2 DEF AdmitFresh, Dequeue, Inv, TypeOK
      <3>1. Head(queue) \in [client : Clients, at : ReportAt]
        BY <3>0, HeadTail
      <3>2. c \in Clients
        BY <3>1
      <3>3. OpenLane(c, Head(queue).at) /\ laneOf[c] = None
        BY <2>2 DEF AdmitFresh
      <3>. HIDE DEF c
      <3>4. Begins(c)
        BY <3>2, <3>3, OpenLaneShape
      <3>. QED
        BY <2>2, <3>2, <3>4 DEF AdmitFresh, SigSafe, sigVars
    <2>3. CASE AdmitEvicting
      <3>1. PICK v \in Lanes : CloseLane(v)
        BY <2>3 DEF AdmitEvicting
      <3>. QED
        BY <3>1, CloseLaneShape DEF Lanes
    <2>4. CASE EvictionWritten
      <3>. DEFINE c == admission.client
      <3>1. c \in Clients /\ OpenLane(c, admission.at) /\ laneOf[c] = None
        BY <2>4 DEF EvictionWritten, Inv, EvictionKeepsRoom
      <3>. HIDE DEF c
      <3>2. Begins(c)
        BY <3>1, OpenLaneShape
      <3>. QED
        BY <2>4, <3>1, <3>2 DEF EvictionWritten, SigSafe, sigVars
    <2>5. CASE AdmitNobody \/ EvictionFailed
      BY <1>1, <2>5 DEF AdmitNobody, EvictionFailed, sigVars
    <2>. QED
      BY <1>5, <2>1, <2>2, <2>3, <2>4, <2>5 DEF AdmissionStep
  <1>6. CASE Teardown
    BY <1>6, TeardownShape
  <1>. QED
    BY <1>2, <1>3, <1>4, <1>5, <1>6 DEF Next

-----------------------------------------------------------------------------
(* Each part of the invariant is kept by every move.                       *)

LEMMA MovesKeepExchanges ==
    ASSUME Inv, Moves
    PROVE  /\ ex' \in ExFun
           /\ laneOf' \in [Clients -> Offer \cup {None}]
           /\ nextOffer' \in 1 .. (MaxOffers + 1)
           /\ \A e \in Offer : /\ ex'[e].client \in Clients <=> e < nextOffer'
                               /\ ex'[e].stage # "unused"   <=> e < nextOffer'
           /\ \A e \in Offer : SamePart(ex, ex', e) \/ (e = nextOffer /\ e < nextOffer')
  <1>1. /\ ex \in ExFun
        /\ laneOf \in [Clients -> Offer \cup {None}]
        /\ nextOffer \in 1 .. (MaxOffers + 1) /\ nextOffer \in Nat
        /\ \A e \in Offer : /\ ex[e].client \in Clients <=> e < nextOffer
                            /\ ex[e].stage # "unused"   <=> e < nextOffer
    BY TypeFacts DEF Inv
  <1>2. ASSUME laneOf' \in [Clients -> Offer \cup {None}], ex' \in ExFun,
               \A e \in Offer : SamePart(ex, ex', e), UNCHANGED nextOffer
        PROVE  /\ nextOffer' \in 1 .. (MaxOffers + 1)
               /\ \A e \in Offer : /\ ex'[e].client \in Clients <=> e < nextOffer'
                                   /\ ex'[e].stage # "unused"   <=> e < nextOffer'
    BY <1>1, <1>2 DEF SamePart
  <1>3. ASSUME NEW c \in Clients, NEW l, nextOffer \in Offer, nextOffer' = nextOffer + 1,
               Begun(ex', nextOffer, c, l),
               \A f \in Offer : f # nextOffer => Kept(ex, ex', f) \/ Shut(ex, ex', f)
        PROVE  /\ nextOffer' \in 1 .. (MaxOffers + 1)
               /\ \A e \in Offer : /\ ex'[e].client \in Clients <=> e < nextOffer'
                                   /\ ex'[e].stage # "unused"   <=> e < nextOffer'
               /\ \A e \in Offer : SamePart(ex, ex', e) \/ (e = nextOffer /\ e < nextOffer')
    <2>1. nextOffer' \in 1 .. (MaxOffers + 1) /\ nextOffer < nextOffer'
      BY <1>1, <1>3, OfferBound DEF Offer
    <2>2. ASSUME NEW e \in Offer
          PROVE  /\ ex'[e].client \in Clients <=> e < nextOffer'
                 /\ ex'[e].stage # "unused"   <=> e < nextOffer'
                 /\ SamePart(ex, ex', e) \/ (e = nextOffer /\ e < nextOffer')
      <3>1. e \in Nat
        BY OfferNotNone
      <3>2. CASE e = nextOffer
        BY <1>3, <2>1, <3>2 DEF Begun
      <3>3. CASE e # nextOffer
        <4>1. SamePart(ex, ex', e)
          BY <1>3, <3>3 DEF Kept, Shut
        <4>2. e < nextOffer <=> e < nextOffer'
          BY <1>1, <1>3, <3>1, <3>3
        <4>. QED
          BY <1>1, <4>1, <4>2 DEF SamePart
      <3>. QED
        BY <3>2, <3>3
    <2>. QED
      BY <2>1, <2>2
  <1>4. CASE Settles
    BY <1>1, <1>2, <1>4 DEF Settles, Kept, Shut
  <1>5. CASE Ends
    BY <1>1, <1>2, <1>5 DEF Ends, Kept, Shut
  <1>6. ASSUME NEW c \in Clients, Begins(c)
        PROVE  /\ ex' \in ExFun
               /\ laneOf' \in [Clients -> Offer \cup {None}]
               /\ nextOffer' \in 1 .. (MaxOffers + 1)
               /\ \A e \in Offer : /\ ex'[e].client \in Clients <=> e < nextOffer'
                                   /\ ex'[e].stage # "unused"   <=> e < nextOffer'
               /\ \A e \in Offer : SamePart(ex, ex', e) \/ (e = nextOffer /\ e < nextOffer')
    BY <1>1, <1>3, <1>6 DEF Begins
  <1>7. ASSUME NEW c \in Clients, Closes(c)
        PROVE  /\ ex' \in ExFun
               /\ laneOf' \in [Clients -> Offer \cup {None}]
               /\ nextOffer' \in 1 .. (MaxOffers + 1)
               /\ \A e \in Offer : /\ ex'[e].client \in Clients <=> e < nextOffer'
                                   /\ ex'[e].stage # "unused"   <=> e < nextOffer'
               /\ \A e \in Offer : SamePart(ex, ex', e) \/ (e = nextOffer /\ e < nextOffer')
    <2>1. ex' \in ExFun /\ laneOf' \in [Clients -> Offer \cup {None}]
      BY <1>1, <1>7 DEF Closes
    <2>2. CASE nextOffer' = nextOffer /\ \A f \in Offer : Kept(ex, ex', f) \/ Shut(ex, ex', f)
      BY <1>2, <2>1, <2>2 DEF Kept, Shut
    <2>3. CASE ~(nextOffer' = nextOffer /\ \A f \in Offer : Kept(ex, ex', f) \/ Shut(ex, ex', f))
      BY <1>3, <1>7, <2>1, <2>3 DEF Closes
    <2>. QED
      BY <2>2, <2>3
  <1>8. ASSUME NEW e \in Offer, Adopts(e)
        PROVE  /\ ex' \in ExFun /\ UNCHANGED nextOffer
               /\ laneOf' \in [Clients -> Offer \cup {None}]
               /\ \A f \in Offer : SamePart(ex, ex', f)
    BY <1>1, <1>8 DEF Adopts, Kept, Shut
  <1>9. ASSUME NEW e \in Offer, Opens(e)
        PROVE  /\ ex' \in ExFun /\ UNCHANGED nextOffer
               /\ laneOf' \in [Clients -> Offer \cup {None}]
               /\ \A f \in Offer : SamePart(ex, ex', f)
    BY <1>1, <1>9 DEF Opens, ExFun, Exchange, SamePart
  <1>10. CASE \E e \in Offer : Adopts(e) \/ Opens(e)
    BY <1>2, <1>8, <1>9, <1>10
  <1>. QED
    BY <1>4, <1>5, <1>6, <1>7, <1>10 DEF Moves

\* An answer moves nothing but what is delivered and applied.
LEMMA AnswerKeeps ==
    ASSUME Inv, NEW c \in Clients, Answers(c)
    PROVE  /\ ex' \in ExFun
           /\ UNCHANGED <<laneOf, nextOffer, offers>>
           /\ \A f \in Offer :
                 /\ ex'[f].client = ex[f].client /\ ex'[f].replaces = ex[f].replaces
                 /\ ex'[f].stage = ex[f].stage /\ ex'[f].peerOpen = ex[f].peerOpen
                 /\ ex'[f].channel = ex[f].channel /\ ex'[f].open = ex[f].open
                 /\ ex'[f].bridged = ex[f].bridged
                 /\ \/ ex'[f].applied = ex[f].applied
                    \/ /\ f = laneOf[c] /\ f = offers[c]
                       /\ ex'[f].applied = 2 => ex[f].applied # 0
  <1>1. /\ ex \in ExFun /\ UNCHANGED <<laneOf, nextOffer, offers>>
        /\ offers[c] \in Offer
    BY TypeFacts DEF Inv, Answers
  <1>2. CASE laneOf[c] # offers[c]
    BY <1>1, <1>2 DEF Answers
  <1>3. CASE laneOf[c] = offers[c]
    <2>. DEFINE o == offers[c]
                n == IF ex[o].applied = 2 THEN 2 ELSE ex[o].applied + 1
                v == [ex[o] EXCEPT !.applied = n, !.aged = FALSE]
    <2>1. ex[o] \in Exchange /\ n \in 0 .. 2 /\ (n = 2 => ex[o].applied # 0)
      BY <1>1 DEF ExFun, Exchange
    <2>2. ex' = [ex EXCEPT ![o] = v]
      BY <1>1, <1>3 DEF Answers, ExFun
    <2>. HIDE DEF n, o
    <2>3. /\ v \in Exchange
          /\ v.client = ex[o].client /\ v.replaces = ex[o].replaces
          /\ v.stage = ex[o].stage /\ v.peerOpen = ex[o].peerOpen
          /\ v.channel = ex[o].channel /\ v.open = ex[o].open
          /\ v.bridged = ex[o].bridged /\ v.applied = n
      BY <2>1 DEF Exchange
    <2>. HIDE DEF v
    <2>4. o \in Offer /\ o = laneOf[c] /\ o = offers[c]
      BY <1>1, <1>3 DEF o
    <2>5. ex' \in ExFun /\ ex'[o] = v /\ \A f \in Offer : f # o => ex'[f] = ex[f]
      BY <1>1, <2>2, <2>3, <2>4 DEF ExFun
    <2>. QED
      BY <1>1, <2>1, <2>3, <2>4, <2>5
  <1>. QED
    BY <1>2, <1>3

\* The map changes to what SigSafe says, whatever else the step does.
LEMMA SigSafeKeeps ==
    ASSUME Inv, SigSafe, NEW c \in Clients, offers'[c] # None
    PROVE  \/ offers'[c] = offers[c] /\ (c \in delivered => c \in delivered')
           \/ \E o \in Offer : Publishes(c, o) /\ offers'[c] = o
  <1>1. offers \in [Clients -> Offer \cup {None}]
    BY TypeFacts DEF Inv
  <1>2. CASE UNCHANGED <<offers, delivered>>
    BY <1>2
  <1>3. CASE \E d \in Clients : /\ offers' = [offers EXCEPT ![d] = None]
                                /\ delivered' = delivered \ {d}
    BY <1>1, <1>3
  <1>4. CASE offers' = [d \in Clients |-> None]
    BY <1>4
  <1>5. CASE \E d \in Clients, o \in Offer : Publishes(d, o)
    <2>1. PICK d \in Clients, o \in Offer : Publishes(d, o)
      BY <1>5
    <2>2. CASE d = c
      BY <1>1, <2>1, <2>2 DEF Publishes
    <2>3. CASE d # c
      BY <1>1, <2>1, <2>3 DEF Publishes
    <2>. QED
      BY <2>2, <2>3
  <1>. QED
    BY <1>2, <1>3, <1>4, <1>5 DEF SigSafe

\* A move begins an exchange, or every exchange stays what it was.
LEMMA MovesEitherBegin ==
    ASSUME Inv, Moves
    PROVE  \/ \E c \in Clients : Begun(ex', nextOffer, c, laneOf[c])
           \/ \A f \in Offer : SamePart(ex, ex', f)
  <1>1. CASE Settles \/ Ends
    BY <1>1 DEF Settles, Ends, Kept, Shut
  <1>2. CASE \E c \in Clients : Begins(c) \/ Closes(c)
    BY <1>2 DEF Begins, Closes, Kept, Shut
  <1>3. CASE \E e \in Offer : Adopts(e)
    BY <1>3 DEF Adopts, Kept, Shut
  <1>4. CASE \E e \in Offer : Opens(e)
    BY <1>4, TypeFacts DEF Opens, Inv, ExFun, Exchange, SamePart
  <1>. QED
    BY <1>1, <1>2, <1>3, <1>4 DEF Moves

LEMMA LaneIsItsClientsKept ==
    ASSUME Inv, (Moves /\ SigSafe) \/ \E c \in Clients : Answers(c)
    PROVE  LaneIsItsClients'
  <1>1. /\ ex \in ExFun
        /\ laneOf \in [Clients -> Offer \cup {None}]
        /\ offers \in [Clients -> Offer \cup {None}]
        /\ \A e \in Offer : ex[e].client \in Clients <=> e < nextOffer
        /\ nextOffer \in Nat
    BY TypeFacts DEF Inv
  <1>2. CASE \E c \in Clients : Answers(c)
    <2>1. PICK c \in Clients : Answers(c)
      BY <1>2
    <2>2. \A f \in Offer : ex[f].replaces \in Offer \cup {None}
      BY <1>1 DEF ExFun, Exchange
    <2>3. /\ UNCHANGED <<laneOf, offers>>
          /\ \A f \in Offer : /\ ex'[f].client = ex[f].client
                              /\ ex'[f].replaces = ex[f].replaces
      BY <2>1, AnswerKeeps
    <2>. QED
      BY <1>1, <2>2, <2>3 DEF Inv, LaneIsItsClients
  <1>3. CASE Moves /\ SigSafe
    <2>1. /\ ex' \in ExFun
          /\ laneOf' \in [Clients -> Offer \cup {None}]
          /\ \A e \in Offer : SamePart(ex, ex', e) \/ (e = nextOffer /\ e < nextOffer')
      BY <1>3, MovesKeepExchanges
    <2>2. ASSUME NEW e \in Offer, ex[e].client \in Clients
          PROVE  ex'[e].client = ex[e].client /\ ex'[e].replaces = ex[e].replaces
      BY <1>1, <2>1, <2>2, OfferNotNone DEF SamePart
    <2>3. ASSUME NEW c \in Clients, offers'[c] # None
          PROVE  ex'[offers'[c]].client = c
      <3>1. CASE offers'[c] = offers[c]
        BY <1>1, <2>2, <2>3, <3>1 DEF Inv, LaneIsItsClients
      <3>2. CASE \E o \in Offer : Publishes(c, o) /\ offers'[c] = o
        BY <2>2, <3>2 DEF Publishes
      <3>. QED
        BY <1>3, <2>3, <3>1, <3>2, SigSafeKeeps
    <2>4. ASSUME NEW c \in Clients, laneOf'[c] = laneOf[c], laneOf'[c] # None
          PROVE  ex'[laneOf'[c]].client = c
      BY <1>1, <2>2, <2>4 DEF Inv, LaneIsItsClients
    <2>5. ASSUME NEW c \in Clients, laneOf'[c] # None
          PROVE  ex'[laneOf'[c]].client = c
      <3>1. CASE Settles \/ \E e \in Offer : Opens(e)
        BY <2>4, <2>5, <3>1 DEF Settles, Opens
      <3>2. CASE Ends
        BY <2>5, <3>2 DEF Ends
      <3>3. CASE \E d \in Clients : Begins(d)
        <4>1. PICK d \in Clients : Begins(d)
          BY <3>3
        <4>2. CASE d = c
          BY <1>1, <4>1, <4>2 DEF Begins, Begun
        <4>3. CASE d # c
          BY <1>1, <2>4, <2>5, <4>1, <4>3 DEF Begins
        <4>. QED
          BY <4>2, <4>3
      <3>4. CASE \E d \in Clients : Closes(d)
        BY <1>1, <2>4, <2>5, <3>4 DEF Closes
      <3>5. CASE \E e \in Offer : Adopts(e)
        <4>1. PICK e \in Offer : Adopts(e)
          BY <3>5
        <4>2. CASE ex[e].client = c
          BY <1>1, <4>1, <4>2 DEF Adopts, SamePart
        <4>3. CASE ex[e].client # c
          BY <1>1, <2>4, <2>5, <4>1, <4>3 DEF Adopts
        <4>. QED
          BY <4>2, <4>3
      <3>. QED
        BY <1>3, <3>1, <3>2, <3>3, <3>4, <3>5 DEF Moves
    <2>6. ASSUME NEW e \in Offer, ex'[e].replaces # None
          PROVE  ex'[e].client \in Clients /\ ex'[ex'[e].replaces].client = ex'[e].client
      <3>1. CASE SamePart(ex, ex', e)
        <4>1. /\ ex[e].replaces # None /\ ex'[e].replaces = ex[e].replaces
              /\ ex'[e].client = ex[e].client /\ ex[e].replaces \in Offer
          BY <1>1, <2>6, <3>1 DEF SamePart, ExFun, Exchange
        <4>2. ex[e].client \in Clients /\ ex[ex[e].replaces].client = ex[e].client
          BY <4>1 DEF Inv, LaneIsItsClients
        <4>. QED
          BY <2>2, <4>1, <4>2
      <3>2. CASE ~SamePart(ex, ex', e)
        <4>1. e = nextOffer
          BY <2>1, <3>2
        <4>2. PICK c \in Clients : laneOf[c] # None /\ Begun(ex', e, c, laneOf[c])
          <5>1. \/ \E c \in Clients : Begun(ex', nextOffer, c, laneOf[c])
                \/ \A f \in Offer : SamePart(ex, ex', f)
            BY <1>1, <1>3, MovesEitherBegin DEF Inv
          <5>. QED
            BY <2>6, <3>2, <4>1, <5>1 DEF Begun
        <4>3. ex[laneOf[c]].client = c /\ laneOf[c] \in Offer
          BY <4>2, LaneFacts DEF Inv
        <4>. QED
          BY <2>2, <4>2, <4>3 DEF Begun
      <3>. QED
        BY <3>1, <3>2
    <2>. QED
      BY <2>3, <2>5, <2>6 DEF LaneIsItsClients
  <1>. QED
    BY <1>2, <1>3

LEMMA OpenNeedsPeerKept ==
    ASSUME Inv, Moves \/ \E c \in Clients : Answers(c)
    PROVE  OpenNeedsPeer'
  <1>1. ASSUME NEW e \in Offer, Kept(ex, ex', e) \/ Shut(ex, ex', e)
        PROVE  /\ ex'[e].channel = "open" => ex'[e].peerOpen
               /\ ex'[e].bridged => ex'[e].open
    BY <1>1 DEF Kept, Shut, Inv, OpenNeedsPeer
  <1>2. ASSUME NEW e \in Offer, NEW c, NEW l, Begun(ex', e, c, l)
        PROVE  /\ ex'[e].channel = "open" => ex'[e].peerOpen
               /\ ex'[e].bridged => ex'[e].open
    BY <1>2 DEF Begun
  <1>3. CASE \E c \in Clients : Answers(c)
    BY <1>3, AnswerKeeps DEF Inv, OpenNeedsPeer
  <1>4. CASE Settles \/ Ends
    BY <1>1, <1>4 DEF Settles, Ends, OpenNeedsPeer
  <1>5. CASE \E c \in Clients : Begins(c) \/ Closes(c)
    BY <1>1, <1>2, <1>5 DEF Begins, Closes, OpenNeedsPeer
  <1>6. CASE \E e \in Offer : Adopts(e)
    BY <1>1, <1>6 DEF Adopts, OpenNeedsPeer
  <1>7. CASE \E e \in Offer : Opens(e)
    <2>1. PICK e \in Offer : Opens(e)
      BY <1>7
    <2>2. ex \in ExFun
      BY TypeFacts DEF Inv
    <2>3. /\ ex'[e].peerOpen = TRUE /\ ex'[e].bridged = ex[e].bridged
          /\ ex'[e].open = ex[e].open
          /\ \A f \in Offer : f # e => ex'[f] = ex[f]
      BY <2>1, <2>2 DEF Opens, ExFun, Exchange
    <2>. QED
      BY <2>1, <2>3 DEF Inv, OpenNeedsPeer
  <1>. QED
    BY <1>3, <1>4, <1>5, <1>6, <1>7 DEF Moves

\* Which lanes there are changes only where a newcomer's first exchange begins.
LEMMA BridgeServesItsLaneKept ==
    ASSUME Inv, BridgeServesItsLane, Moves \/ \E c \in Clients : Answers(c)
    PROVE  BridgeServesItsLane'
  <1>1. /\ ex \in ExFun
        /\ laneOf \in [Clients -> Offer \cup {None}]
    BY TypeFacts DEF Inv
  <1>2. SUFFICES ASSUME NEW e \in Offer, ex'[e].bridged
                 PROVE  /\ ex'[e].client \in Clients /\ laneOf'[ex'[e].client] = e
                        /\ ex'[e].peerOpen
    BY DEF BridgeServesItsLane, IsLane
  <1>3. ASSUME Kept(ex, ex', e)
        PROVE  /\ ex[e].client \in Clients /\ laneOf[ex[e].client] = e
               /\ ex'[e].peerOpen /\ ex'[e].client = ex[e].client
    BY <1>2, <1>3 DEF Kept, SamePart, BridgeServesItsLane, IsLane
  <1>4. ~Shut(ex, ex', e) /\ \A c, l : ~Begun(ex', e, c, l)
    BY <1>2 DEF Shut, Begun
  <1>5. CASE \E c \in Clients : Answers(c)
    BY <1>2, <1>5, AnswerKeeps DEF BridgeServesItsLane, IsLane
  <1>6. CASE Settles
    BY <1>3, <1>4, <1>6 DEF Settles
  <1>7. CASE Ends
    BY <1>3, <1>4, <1>7 DEF Ends, IsLane
  <1>8. CASE \E c \in Clients : Begins(c)
    <2>1. PICK c \in Clients : Begins(c)
      BY <1>8
    <2>2. e # nextOffer /\ Kept(ex, ex', e)
      BY <1>4, <2>1 DEF Begins
    <2>3. laneOf[c] # e
      BY <1>2, <2>1, OfferNotNone DEF Begins
    <2>. QED
      BY <1>1, <1>3, <2>1, <2>2, <2>3 DEF Begins
  <1>9. CASE \E c \in Clients : Closes(c)
    <2>1. PICK c \in Clients : Closes(c)
      BY <1>9
    <2>2. Kept(ex, ex', e) /\ laneOf[c] # e
      BY <1>4, <2>1 DEF Closes
    <2>. QED
      BY <1>1, <1>3, <2>1, <2>2 DEF Closes
  <1>10. CASE \E f \in Offer : Adopts(f)
    <2>1. PICK f \in Offer : Adopts(f)
      BY <1>10
    <2>2. CASE e = f
      BY <1>1, <1>2, <2>1, <2>2 DEF Adopts, SamePart
    <2>3. CASE e # f
      <3>1. Kept(ex, ex', e)
        BY <1>4, <2>1, <2>3 DEF Adopts
      <3>2. laneOf[ex[f].client] # e
        BY <1>4, <2>1, <2>3 DEF Adopts
      <3>. QED
        BY <1>1, <1>3, <2>1, <3>1, <3>2 DEF Adopts
    <2>. QED
      BY <2>2, <2>3
  <1>11. CASE \E f \in Offer : Opens(f)
    <2>1. PICK f \in Offer : Opens(f)
      BY <1>11
    <2>2. /\ ex'[e].bridged = ex[e].bridged /\ ex'[e].client = ex[e].client
          /\ ex'[e].peerOpen = ex[e].peerOpen
      BY <1>1, <2>1 DEF Opens, ExFun, Exchange
    <2>. QED
      BY <1>2, <2>1, <2>2 DEF Opens, BridgeServesItsLane, IsLane
  <1>. QED
    BY <1>5, <1>6, <1>7, <1>8, <1>9, <1>10, <1>11 DEF Moves

LEMMA ReplacedReturnsLandedKept ==
    ASSUME Inv, Moves \/ \E c \in Clients : Answers(c)
    PROVE  ReplacedReturnsLanded'
  <1>1. /\ ex \in ExFun
        /\ laneOf \in [Clients -> Offer \cup {None}]
        /\ \A f \in Offer : ex[f].client \in Clients <=> f < nextOffer
        /\ nextOffer \in Nat
    BY TypeFacts DEF Inv
  <1>2. SUFFICES ASSUME NEW r \in Offer, NEW e \in Offer, ex'[r].replaces = e,
                        ex'[e].client \in Clients, laneOf'[ex'[e].client] = e,
                        ex'[e].channel = "waiting"
                 PROVE  FALSE
    <2>1. ex' \in ExFun
      BY MovesKeepExchanges, AnswerKeeps
    <2>. QED
      BY <1>2, <2>1, OfferNotNone DEF ReplacedReturnsLanded, IsLane, ExFun, Exchange
  <1>3. ASSUME ex[r].replaces = e, ex'[e].client = ex[e].client, laneOf[ex[e].client] = e,
               ex[e].channel = "waiting"
        PROVE  FALSE
    BY <1>2, <1>3, OfferNotNone DEF Inv, ReplacedReturnsLanded, IsLane
  <1>4. ASSUME Kept(ex, ex', e) \/ Shut(ex, ex', e)
        PROVE  ex'[e].client = ex[e].client /\ ex[e].channel = "waiting"
    BY <1>2, <1>4 DEF Kept, Shut, SamePart
  <1>5. CASE \E c \in Clients : Answers(c)
    BY <1>2, <1>3, <1>5, AnswerKeeps
  <1>6. CASE Settles
    <2>1. ex[r].replaces = e
      BY <1>2, <1>6 DEF Settles, Kept, Shut, SamePart
    <2>. QED
      BY <1>2, <1>3, <1>4, <1>6, <2>1 DEF Settles
  <1>7. CASE Ends
    BY <1>2, <1>7, OfferNotNone DEF Ends
  <1>8. CASE \E c \in Clients : Begins(c)
    <2>1. PICK c \in Clients : Begins(c)
      BY <1>8
    <2>2. CASE e = nextOffer
      <3>1. r # e
        BY <1>1, <1>2, <2>1, <2>2, OfferNotNone, LaneFacts DEF Begins, Begun, Inv
      <3>2. ex[r].replaces = e
        BY <1>2, <2>1, <2>2, <3>1 DEF Begins, Kept, Shut, SamePart
      <3>3. ex[e].client \in Clients
        BY <3>2, OfferNotNone DEF Inv, LaneIsItsClients
      <3>. QED
        BY <1>1, <2>2, <3>3
    <2>3. CASE e # nextOffer
      <3>1. Kept(ex, ex', e) \/ Shut(ex, ex', e)
        BY <2>1, <2>3 DEF Begins
      <3>2. ex[e].client # c /\ laneOf[ex[e].client] = e
        BY <1>1, <1>2, <1>4, <2>1, <2>3, <3>1 DEF Begins
      <3>3. r # nextOffer
        BY <1>2, <1>4, <2>1, <3>1, <3>2, OfferNotNone, LaneFacts DEF Begins, Begun, Inv
      <3>4. ex[r].replaces = e
        BY <1>2, <2>1, <3>3 DEF Begins, Kept, Shut, SamePart
      <3>. QED
        BY <1>3, <1>4, <3>1, <3>2, <3>4
    <2>. QED
      BY <2>2, <2>3
  <1>9. CASE \E c \in Clients : Closes(c)
    <2>1. PICK c \in Clients : Closes(c)
      BY <1>9
    <2>2. ex'[e].client # c /\ laneOf[ex'[e].client] = e
      BY <1>1, <1>2, <2>1, OfferNotNone DEF Closes
    <2>3. ex[e].client = ex'[e].client
      BY <1>2, <2>2, LaneFacts, OfferNotNone DEF Inv
    <2>4. Kept(ex, ex', e) \/ Shut(ex, ex', e)
      <3>1. e # nextOffer
        BY <1>1, <1>2, <2>3
      <3>. QED
        BY <2>1, <3>1 DEF Closes
    <2>5. \/ Kept(ex, ex', r) \/ Shut(ex, ex', r)
          \/ Begun(ex', r, c, laneOf[c])
      BY <2>1 DEF Closes
    <2>6. ~Begun(ex', r, c, laneOf[c])
      BY <1>2, <2>1, <2>2, <2>3, LaneFacts, OfferNotNone DEF Begun, Inv, Closes
    <2>7. ex[r].replaces = e
      BY <1>2, <2>5, <2>6 DEF Kept, Shut, SamePart
    <2>. QED
      BY <1>3, <1>4, <2>2, <2>3, <2>4, <2>7
  <1>10. CASE \E f \in Offer : Adopts(f)
    <2>1. PICK f \in Offer : Adopts(f)
      BY <1>10
    <2>2. e # f
      BY <1>2, <2>1 DEF Adopts
    <2>3. Kept(ex, ex', e) \/ Shut(ex, ex', e)
      BY <2>1, <2>2 DEF Adopts
    <2>4. laneOf[ex[e].client] = e
      BY <1>1, <1>2, <1>4, <2>1, <2>2, <2>3 DEF Adopts
    <2>5. ex[r].replaces = e
      BY <1>2, <2>1 DEF Adopts, Kept, Shut, SamePart
    <2>. QED
      BY <1>3, <1>4, <2>3, <2>4, <2>5
  <1>11. CASE \E f \in Offer : Opens(f)
    <2>1. PICK f \in Offer : Opens(f)
      BY <1>11
    <2>2. /\ ex'[e].channel = "waiting" => ex[e].channel = "waiting"
          /\ ex'[e].client = ex[e].client /\ ex'[r].replaces = ex[r].replaces
      BY <1>1, <2>1 DEF Opens, ExFun, Exchange
    <2>. QED
      BY <1>2, <1>3, <2>1, <2>2 DEF Opens
  <1>. QED
    BY <1>5, <1>6, <1>7, <1>8, <1>9, <1>10, <1>11 DEF Moves

LEMMA UnpublishedUnansweredKept ==
    ASSUME Inv, (Moves /\ SigSafe) \/ \E c \in Clients : Answers(c)
    PROVE  UnpublishedUnanswered'
  <1>1. /\ ex \in ExFun
        /\ offers \in [Clients -> Offer \cup {None}]
        /\ \A f \in Offer : ex[f].client \in Clients <=> f < nextOffer
        /\ nextOffer \in Nat
    BY TypeFacts DEF Inv
  <1>2. SUFFICES ASSUME NEW e \in Offer, ex'[e].stage \in Unheard
                 PROVE  ex'[e].applied = 0 /\ \A c \in Clients : offers'[c] # e
    BY DEF UnpublishedUnanswered, Unheard
  <1>3. ASSUME ex[e].stage \in Unheard
        PROVE  ex[e].applied = 0 /\ \A c \in Clients : offers[c] # e
    BY <1>3 DEF Inv, UnpublishedUnanswered, Unheard
  <1>4. CASE \E c \in Clients : Answers(c)
    <2>1. PICK c \in Clients : Answers(c)
      BY <1>4
    <2>2. /\ ex'[e].stage = ex[e].stage /\ UNCHANGED offers
          /\ e # offers[c] => ex'[e].applied = ex[e].applied
      BY <2>1, AnswerKeeps
    <2>. QED
      BY <1>2, <1>3, <2>2
  <1>5. CASE Moves /\ SigSafe
    <2>1. ASSUME NEW c \in Clients, offers[c] # e
          PROVE  offers'[c] # e
      BY <1>2, <1>5, <2>1, SigSafeKeeps, OfferNotNone DEF Publishes
    <2>2. CASE SamePart(ex, ex', e)
      BY <1>2, <1>3, <2>1, <2>2 DEF SamePart
    <2>3. CASE ~SamePart(ex, ex', e)
      <3>1. e = nextOffer
        BY <1>5, <2>3, MovesKeepExchanges
      <3>2. ex'[e].applied = 0
        BY <1>5, <2>3, <3>1, MovesEitherBegin DEF Begun
      <3>3. \A c \in Clients : offers[c] # e
        <4>1. SUFFICES ASSUME NEW c \in Clients, offers[c] = e PROVE FALSE
          OBVIOUS
        <4>2. ex[e].client = c
          BY <4>1, OfferNotNone DEF Inv, LaneIsItsClients
        <4>. QED
          BY <1>1, <3>1, <4>2
      <3>. QED
        BY <2>1, <3>2, <3>3
    <2>. QED
      BY <2>2, <2>3
  <1>. QED
    BY <1>4, <1>5

LEMMA AnsweredIsDeliveredKept ==
    ASSUME Inv, AnsweredIsDelivered, (Moves /\ SigSafe) \/ \E c \in Clients : Answers(c)
    PROVE  AnsweredIsDelivered'
  <1>1. /\ ex \in ExFun
        /\ laneOf \in [Clients -> Offer \cup {None}]
        /\ offers \in [Clients -> Offer \cup {None}]
    BY TypeFacts DEF Inv
  <1>2. SUFFICES ASSUME NEW c \in Clients, NEW e \in Offer, laneOf'[c] = e,
                        ex'[e].channel = "waiting", ex'[e].applied # 0, offers'[c] = e
                 PROVE  c \in delivered'
    <2>1. laneOf' \in [Clients -> Offer \cup {None}]
      BY <1>1, MovesKeepExchanges, AnswerKeeps
    <2>. QED
      BY <1>2, <2>1 DEF AnsweredIsDelivered
  <1>3. ASSUME laneOf[c] = e, offers[c] = e,
               ex[e].channel = "waiting", ex[e].applied # 0
        PROVE  c \in delivered
    BY <1>3, OfferNotNone DEF AnsweredIsDelivered
  <1>4. CASE \E d \in Clients : Answers(d)
    <2>1. PICK d \in Clients : Answers(d)
      BY <1>4
    <2>2. UNCHANGED <<laneOf, offers>> /\ delivered' = delivered \cup {d}
      BY <2>1 DEF Answers
    <2>3. ex'[e].channel = ex[e].channel
      BY <2>1, AnswerKeeps
    <2>4. ex'[e].applied = ex[e].applied \/ e = offers[d]
      BY <2>1, AnswerKeeps
    <2>5. CASE d = c
      BY <2>2, <2>5
    <2>6. CASE d # c
      <3>1. e # offers[d]
        BY <1>2, <2>2, <2>6, OfferNotNone DEF Inv, LaneIsItsClients
      <3>. QED
        BY <1>2, <1>3, <2>2, <2>3, <2>4, <3>1
    <2>. QED
      BY <2>5, <2>6
  <1>5. CASE Moves /\ SigSafe
    <2>1. ASSUME NEW o \in Offer, Publishes(c, o), offers'[c] = o
          PROVE  FALSE
      BY <1>2, <2>1 DEF Publishes
    <2>2. offers'[c] = offers[c] /\ (c \in delivered => c \in delivered')
      BY <1>2, <1>5, <2>1, SigSafeKeeps, OfferNotNone
    <2>3. SUFFICES ex[e].channel = "waiting" /\ ex[e].applied # 0 /\ laneOf[c] = e
      BY <1>2, <1>3, <2>2
    <2>4. ASSUME Kept(ex, ex', e) \/ Shut(ex, ex', e), laneOf[c] = e
          PROVE  ex[e].channel = "waiting" /\ ex[e].applied # 0 /\ laneOf[c] = e
      BY <1>2, <2>4 DEF Kept, Shut, SamePart
    <2>5. CASE Settles
      BY <1>2, <2>4, <2>5 DEF Settles
    <2>6. CASE Ends
      BY <1>2, <2>6, OfferNotNone DEF Ends
    <2>7. CASE \E d \in Clients : Begins(d)
      <3>1. PICK d \in Clients : Begins(d)
        BY <2>7
      <3>2. e # nextOffer
        BY <1>2, <3>1 DEF Begins, Begun
      <3>. QED
        BY <1>1, <1>2, <2>4, <3>1, <3>2 DEF Begins
    <2>8. CASE \E d \in Clients : Closes(d)
      <3>1. PICK d \in Clients : Closes(d)
        BY <2>8
      <3>2. laneOf[c] = e
        BY <1>1, <1>2, <3>1, OfferNotNone DEF Closes
      <3>3. e # nextOffer
        BY <3>2, LaneFacts, OfferNotNone DEF Inv
      <3>. QED
        BY <2>4, <3>1, <3>2, <3>3 DEF Closes
    <2>9. CASE \E f \in Offer : Adopts(f)
      <3>1. PICK f \in Offer : Adopts(f)
        BY <2>9
      <3>2. e # f
        BY <1>2, <3>1 DEF Adopts
      <3>. QED
        BY <1>1, <1>2, <2>4, <3>1, <3>2 DEF Adopts
    <2>10. CASE \E f \in Offer : Opens(f)
      <3>1. PICK f \in Offer : Opens(f)
        BY <2>10
      <3>2. /\ ex'[e].channel = "waiting" => ex[e].channel = "waiting"
            /\ ex'[e].applied = ex[e].applied
        BY <1>1, <3>1 DEF Opens, ExFun, Exchange
      <3>. QED
        BY <1>2, <3>1, <3>2 DEF Opens
    <2>. QED
      BY <1>5, <2>5, <2>6, <2>7, <2>8, <2>9, <2>10 DEF Moves
  <1>. QED
    BY <1>4, <1>5

LEMMA AnswerNotReappliedKept ==
    ASSUME Inv, AnsweredIsDelivered, AnswerNotReapplied,
           Moves \/ \E c \in Clients : Answers(c)
    PROVE  AnswerNotReapplied'
  <1>1. SUFFICES ASSUME NEW e \in Offer, ex'[e].applied = 2, ex'[e].channel = "waiting"
                 PROVE  FALSE
    BY DEF AnswerNotReapplied
  <1>2. ~(ex[e].applied = 2 /\ ex[e].channel = "waiting")
    BY DEF AnswerNotReapplied
  <1>3. CASE \E c \in Clients : Answers(c)
    <2>1. PICK c \in Clients : Answers(c)
      BY <1>3
    <2>2. /\ ex'[e].channel = ex[e].channel
          /\ \/ ex'[e].applied = ex[e].applied
             \/ e = laneOf[c] /\ e = offers[c] /\ ex[e].applied # 0
      BY <1>1, <2>1, AnswerKeeps
    <2>3. c \notin delivered
      BY <2>1 DEF Answers
    <2>. QED
      BY <1>1, <1>2, <2>2, <2>3, OfferNotNone DEF AnsweredIsDelivered
  <1>4. CASE Moves
    <2>1. ~(\E f \in Offer : Adopts(f) /\ e = f)
      BY <1>1 DEF Adopts
    <2>2. ~(\E c \in Clients : Begun(ex', e, c, laneOf[c]))
      BY <1>1 DEF Begun
    <2>3. ASSUME Kept(ex, ex', e) \/ Shut(ex, ex', e)
          PROVE  FALSE
      BY <1>1, <1>2, <2>3 DEF Kept, Shut, SamePart
    <2>4. CASE \E f \in Offer : Opens(f)
      <3>1. PICK f \in Offer : Opens(f)
        BY <2>4
      <3>2. /\ ex'[e].channel = "waiting" => ex[e].channel = "waiting"
            /\ ex'[e].applied = ex[e].applied
        BY <3>1, TypeFacts DEF Inv, Opens, ExFun, Exchange
      <3>. QED
        BY <1>1, <1>2, <3>2
    <2>. QED
      BY <1>4, <2>1, <2>2, <2>3, <2>4 DEF Moves, Settles, Ends, Begins, Closes, Adopts
  <1>. QED
    BY <1>3, <1>4

\* After the teardown nothing is adopted, and everything bridged was a lane's.
LEMMA NoBridgeAfterTeardownKept ==
    ASSUME Inv, BridgeServesItsLane, NoBridgeAfterTeardown,
           Moves \/ \E c \in Clients : Answers(c),
           \/ closed' = closed
           \/ Ends
    PROVE  NoBridgeAfterTeardown'
  <1>1. SUFFICES ASSUME NEW e \in Offer, closed', ex'[e].bridged
                 PROVE  FALSE
    BY DEF NoBridgeAfterTeardown
  <1>2. CASE Ends
    BY <1>1, <1>2 DEF Ends, Kept, Shut, BridgeServesItsLane
  <1>3. CASE closed' = closed
    <2>1. ~ex[e].bridged /\ closed
      BY <1>1, <1>3 DEF NoBridgeAfterTeardown
    <2>2. CASE \E c \in Clients : Answers(c)
      BY <1>1, <2>1, <2>2, AnswerKeeps
    <2>3. ~Kept(ex, ex', e) /\ ~Shut(ex, ex', e) /\ \A c, l : ~Begun(ex', e, c, l)
      BY <1>1, <2>1 DEF Kept, Shut, Begun
    <2>4. \A f \in Offer : ~Adopts(f)
      BY <2>1 DEF Adopts, Adoptable
    <2>5. \A f \in Offer : ~Opens(f)
      BY <1>1, <2>1, TypeFacts DEF Inv, Opens, ExFun, Exchange
    <2>. QED
      BY <1>2, <2>2, <2>3, <2>4, <2>5 DEF Moves, Settles, Begins, Closes
  <1>. QED
    BY <1>2, <1>3

-----------------------------------------------------------------------------
(* The cap.                                                                *)

LEMMA LanesFinite ==
    /\ IsFiniteSet(Lanes) /\ Cardinality(Lanes) \in Nat
    /\ IsFiniteSet(Lanes') /\ Cardinality(Lanes') \in Nat
    /\ MaxLanes \in Nat
  <1>1. Lanes \in SUBSET Clients /\ Lanes' \in SUBSET Clients
    BY DEF Lanes
  <1>. QED
    BY <1>1, ClientBound, LaneBound, FS_Subset, FS_CardinalityType

\* Only an admission inserts a lane.
LEMMA OnlyAdmissionInserts ==
    ASSUME Inv, [Next]_vars, ~AdmitFresh, ~EvictionWritten
    PROVE  \A c \in Clients : laneOf'[c] # None => laneOf[c] # None
  <1>1. laneOf \in [Clients -> Offer \cup {None}] /\ ex \in ExFun
    BY TypeFacts DEF Inv
  <1>2. ASSUME NEW c \in Clients, NEW o, laneOf[c] # None,
               laneOf' = [laneOf EXCEPT ![c] = o]
        PROVE  \A d \in Clients : laneOf'[d] # None => laneOf[d] # None
    BY <1>1, <1>2
  <1>3. ASSUME NEW e \in Offer, laneOf' = AdoptLane(e)
        PROVE  \A d \in Clients : laneOf'[d] # None => laneOf[d] # None
    BY <1>1, <1>3 DEF AdoptLane, Adoptable
  <1>4. CASE UNCHANGED laneOf
    BY <1>4
  <1>5. CASE \E c \in Clients : RefreshIfStale(c) \/ ReleaseExpired(c) \/ ReleaseNext(c)
    <2>1. PICK c \in Clients : RefreshIfStale(c) \/ ReleaseExpired(c) \/ ReleaseNext(c)
      BY <1>5
    <2>2. laneOf[c] # None
      BY <2>1 DEF RefreshIfStale, ReleaseExpired, ReleaseNext, Expired, Lanes
    <2>. QED
      BY <1>2, <2>1, <2>2 DEF RefreshIfStale, ReleaseExpired, ReleaseNext, CloseLane
  <1>6. CASE \E e \in Offer : ChannelEnds(e)
    <2>1. PICK e \in Offer : ChannelEnds(e)
      BY <1>6
    <2>2. ex[e].client \in Clients /\ laneOf[ex[e].client] # None
      BY <2>1, OfferNotNone DEF ChannelEnds, IsLane
    <2>. QED
      BY <1>2, <1>4, <2>1, <2>2 DEF ChannelEnds
  <1>7. CASE \E e \in Offer : \/ OfferReturnedAdmission(e) \/ OfferReturnedReplacing(e)
                              \/ ChannelsOpen(e)
    BY <1>3, <1>4, <1>7 DEF OfferReturnedAdmission, OfferReturnedReplacing, ChannelsOpen
  <1>8. CASE AdmitEvicting
    <2>1. PICK v \in Lanes : CloseLane(v)
      BY <1>8 DEF AdmitEvicting
    <2>. QED
      BY <1>2, <2>1 DEF CloseLane, Lanes
  <1>9. CASE Teardown
    BY <1>9 DEF Teardown, CloseTransport
  <1>10. CASE \E c \in Clients : \/ WriteReport(c) \/ EnsureLane(c) \/ Answer(c)
                                 \/ ClientSilent(c) \/ ReleaseGone(c)
    BY <1>4, <1>10 DEF WriteReport, EnsureLane, Answer, ClientSilent, ReleaseGone
  <1>11. CASE \E e \in Offer : \/ PublishIfLive(e) \/ OfferThrew(e) \/ Restored(e)
                               \/ OfferReturnedDisplaced(e) \/ OfferAges(e) \/ ChannelLost(e)
    BY <1>4, <1>11 DEF PublishIfLive, OfferThrew, Restored, OfferReturnedDisplaced,
          OfferAges, ChannelLost
  <1>12. CASE AdmitKnown \/ AdmitNobody \/ EvictionFailed
    BY <1>4, <1>12 DEF AdmitKnown, AdmitNobody, EvictionFailed
  <1>13. CASE UNCHANGED vars
    BY <1>4, <1>13 DEF vars
  <1>. QED
    BY <1>5, <1>6, <1>7, <1>8, <1>9, <1>10, <1>11, <1>12, <1>13
       DEF Next, ExchangeStep, ReleaseStep, AdmissionStep

LEMMA CapKept ==
    ASSUME Inv, LaneCap, [Next]_vars
    PROVE  LaneCap' /\ EvictionKeepsRoom'
  <1>1. laneOf \in [Clients -> Offer \cup {None}]
    BY TypeFacts DEF Inv
  <1>2. ASSUME NEW c \in Clients, NEW r, OpenLane(c, r), Cardinality(Lanes) < MaxLanes
        PROVE  LaneCap' /\ EvictionKeepsRoom'
    <2>1. Lanes' \in SUBSET (Lanes \cup {c})
      BY <1>1, <1>2 DEF OpenLane, Lanes
    <2>2. /\ IsFiniteSet(Lanes \cup {c})
          /\ Cardinality(Lanes \cup {c}) <= Cardinality(Lanes) + 1
          /\ Cardinality(Lanes \cup {c}) \in Nat
      <3>1. /\ IsFiniteSet(Lanes \cup {c})
            /\ Cardinality(Lanes \cup {c}) = IF c \in Lanes THEN Cardinality(Lanes)
                                                           ELSE Cardinality(Lanes) + 1
        BY LanesFinite, FS_AddElement
      <3>. QED
        BY <3>1, LanesFinite
    <2>3. Cardinality(Lanes') <= Cardinality(Lanes \cup {c})
      BY <2>1, <2>2, FS_Subset
    <2>4. Cardinality(Lanes') <= MaxLanes
      BY <1>2, <2>2, <2>3, LanesFinite
    <2>5. admission'.phase # "evicting"
      BY <1>2 DEF OpenLane
    <2>. QED
      BY <2>4, <2>5 DEF LaneCap, EvictionKeepsRoom
  <1>3. CASE AdmitFresh
    <2>1. queue \in Seq([client : Clients, at : ReportAt]) /\ queue # <<>>
      BY <1>3 DEF AdmitFresh, Dequeue, Inv, TypeOK
    <2>2. Head(queue) \in [client : Clients, at : ReportAt]
      BY <2>1, HeadTail
    <2>3. Head(queue).client \in Clients
      BY <2>2
    <2>. QED
      BY <1>2, <1>3, <2>3 DEF AdmitFresh
  <1>4. CASE EvictionWritten
    BY <1>2, <1>4 DEF EvictionWritten, Inv, EvictionKeepsRoom
  <1>5. CASE ~AdmitFresh /\ ~EvictionWritten
    <2>1. \A c \in Clients : laneOf'[c] # None => laneOf[c] # None
      BY <1>5, OnlyAdmissionInserts
    <2>2. Lanes' \in SUBSET Lanes
      BY <2>1 DEF Lanes
    <2>3. Cardinality(Lanes') <= Cardinality(Lanes)
      BY <2>2, LanesFinite, FS_Subset
    <2>4. LaneCap'
      BY <2>3, LanesFinite DEF LaneCap
    <2>5. CASE AdmitEvicting
      <3>1. PICK v \in Lanes : CloseLane(v)
        BY <2>5 DEF AdmitEvicting
      <3>2. Lanes' \in SUBSET (Lanes \ {v})
        BY <1>1, <2>2, <3>1 DEF CloseLane, Lanes
      <3>3. /\ IsFiniteSet(Lanes \ {v})
            /\ Cardinality(Lanes \ {v}) = Cardinality(Lanes) - 1
            /\ Cardinality(Lanes \ {v}) \in Nat
        BY <3>1, LanesFinite, FS_RemoveElement, FS_CardinalityType
      <3>4. Cardinality(Lanes') <= Cardinality(Lanes \ {v})
        BY <3>2, <3>3, FS_Subset
      <3>5. Cardinality(Lanes') < MaxLanes
        BY <3>3, <3>4, LanesFinite DEF LaneCap
      <3>6. queue \in Seq([client : Clients, at : ReportAt]) /\ queue # <<>>
        BY <2>5 DEF AdmitEvicting, Dequeue, Inv, TypeOK
      <3>7. Head(queue) \in [client : Clients, at : ReportAt]
        BY <3>6, HeadTail
      <3>8. Head(queue).client \in Clients
        BY <3>7
      <3>9. laneOf[Head(queue).client] = None /\ admission'.client = Head(queue).client
        BY <2>5 DEF AdmitEvicting
      <3>10. laneOf'[Head(queue).client] = None
        BY <2>1, <3>8, <3>9
      <3>. QED
        BY <2>4, <3>5, <3>8, <3>9, <3>10 DEF EvictionKeepsRoom
    <2>6. CASE ~AdmitEvicting
      <3>1. UNCHANGED admission \/ admission' = Idle
        BY <1>5, <2>6 DEF Next, vars, ExchangeStep, ReleaseStep, AdmissionStep,
             WriteReport, EnsureLane, Answer, ClientSilent, RefreshIfStale,
             ReleaseExpired, ReleaseNext, ReleaseGone, PublishIfLive, OfferThrew,
             Restored, OfferReturnedAdmission, OfferReturnedReplacing,
             OfferReturnedDisplaced, OfferAges, ChannelsOpen, ChannelLost, ChannelEnds,
             AdmitKnown, AdmitNobody, EvictionFailed, Teardown
      <3>2. CASE admission' = Idle
        BY <2>4, <3>2 DEF Idle, EvictionKeepsRoom
      <3>3. CASE UNCHANGED admission
        BY <2>1, <2>3, <2>4, <3>3, LanesFinite DEF Inv, EvictionKeepsRoom
      <3>. QED
        BY <3>1, <3>2, <3>3
    <2>. QED
      BY <2>5, <2>6
  <1>. QED
    BY <1>3, <1>4, <1>5

-----------------------------------------------------------------------------
(* The remaining types.                                                    *)

\* What is queued came from a client, with that client's report.
LEMMA QueueType ==
    ASSUME Inv, [Next]_vars
    PROVE  /\ report' \in [Clients -> ReportAt \cup {NoReport}]
           /\ queue' \in Seq([client : Clients, at : ReportAt])
  <1>1. /\ report \in [Clients -> ReportAt \cup {NoReport}]
        /\ queue \in Seq([client : Clients, at : ReportAt])
    BY DEF Inv, TypeOK
  <1>2. CASE \E c \in Clients : WriteReport(c)
    BY <1>1, <1>2 DEF WriteReport
  <1>3. CASE \E c \in Clients : EnsureLane(c)
    <2>1. PICK c \in Clients : EnsureLane(c)
      BY <1>3
    <2>2. [client |-> c, at |-> report[c]] \in [client : Clients, at : ReportAt]
      BY <1>1, <2>1 DEF EnsureLane
    <2>. QED
      BY <1>1, <2>1, <2>2 DEF EnsureLane
  <1>4. CASE AdmitKnown \/ AdmitFresh \/ AdmitEvicting \/ AdmitNobody
    <2>1. queue # <<>> /\ queue' = Tail(queue) /\ report' = report
      BY <1>4 DEF AdmitKnown, AdmitFresh, AdmitEvicting, AdmitNobody, Dequeue
    <2>. QED
      BY <1>1, <2>1, HeadTail
  <1>5. CASE UNCHANGED <<report, queue>>
    BY <1>1, <1>5
  <1>. QED
    BY <1>2, <1>3, <1>4, <1>5 DEF Next, vars, ExchangeStep, ReleaseStep, AdmissionStep,
         Answer, ClientSilent, RefreshIfStale,
         ReleaseExpired, ReleaseNext, ReleaseGone, PublishIfLive, OfferThrew,
         Restored, OfferReturnedAdmission, OfferReturnedReplacing,
         OfferReturnedDisplaced, OfferAges, ChannelsOpen, ChannelLost, ChannelEnds,
         EvictionWritten, EvictionFailed, Teardown

LEMMA AdmissionType ==
    ASSUME Inv, [Next]_vars
    PROVE  admission' \in [phase  : {"idle", "evicting", "exchanging"},
                           client : Clients \cup {None}, at : ReportAt]
  <1>1. /\ admission \in [phase  : {"idle", "evicting", "exchanging"},
                          client : Clients \cup {None}, at : ReportAt]
        /\ queue \in Seq([client : Clients, at : ReportAt])
    BY DEF Inv, TypeOK
  <1>2. ASSUME NEW c \in Clients, NEW r \in ReportAt, NEW p \in {"evicting", "exchanging"},
               admission' = [phase |-> p, client |-> c, at |-> r]
        PROVE  admission' \in [phase  : {"idle", "evicting", "exchanging"},
                               client : Clients \cup {None}, at : ReportAt]
    BY <1>2
  <1>3. CASE AdmitFresh \/ AdmitEvicting
    <2>1. queue # <<>>
      BY <1>3 DEF AdmitFresh, AdmitEvicting, Dequeue
    <2>2. Head(queue) \in [client : Clients, at : ReportAt]
      BY <1>1, <2>1, HeadTail
    <2>3. Head(queue).client \in Clients /\ Head(queue).at \in ReportAt
      BY <2>2
    <2>. QED
      BY <1>2, <1>3, <2>3 DEF AdmitFresh, AdmitEvicting, OpenLane
  <1>4. CASE EvictionWritten
    BY <1>1, <1>4 DEF EvictionWritten, OpenLane, Inv, EvictionKeepsRoom
  <1>5. CASE admission' = Idle
    BY <1>5, ReportBound DEF Idle, ReportAt
  <1>6. CASE UNCHANGED admission
    BY <1>1, <1>6
  <1>. QED
    BY <1>3, <1>4, <1>5, <1>6 DEF Next, vars, ExchangeStep, ReleaseStep, AdmissionStep,
         WriteReport, EnsureLane, Answer, ClientSilent, RefreshIfStale,
         ReleaseExpired, ReleaseNext, ReleaseGone, PublishIfLive, OfferThrew,
         Restored, OfferReturnedAdmission, OfferReturnedReplacing,
         OfferReturnedDisplaced, OfferAges, ChannelsOpen, ChannelLost, ChannelEnds,
         AdmitKnown, AdmitNobody, EvictionFailed, Teardown

LEMMA SigType ==
    ASSUME Inv, [Next]_vars
    PROVE  SigTypeOK'
  <1>1. SigTypeOK /\ ex \in ExFun
    BY TypeFacts DEF Inv, TypeOK
  <1>2. CASE UNCHANGED sigVars
    BY <1>1, <1>2 DEF SigTypeOK, sigVars
  <1>3. CASE \E c \in Clients : ReleaseExpired(c) \/ ReleaseNext(c)
    BY <1>1, <1>3, RetractType DEF ReleaseExpired, ReleaseNext, CloseLane
  <1>4. CASE AdmitEvicting
    BY <1>1, <1>4, RetractType DEF AdmitEvicting, CloseLane
  <1>5. CASE \E c \in Clients : Answer(c)
    BY <1>1, <1>5 DEF Answer, Deliver, SigTypeOK
  <1>6. CASE \E e \in Offer : PublishIfLive(e)
    BY <1>1, <1>6, RetractType, PublishType DEF PublishIfLive
  <1>7. CASE \E e \in Offer : \/ OfferReturnedAdmission(e) \/ OfferReturnedReplacing(e)
                              \/ ChannelsOpen(e)
    BY <1>1, <1>2, <1>7, PublishType
       DEF OfferReturnedAdmission, OfferReturnedReplacing, ChannelsOpen
  <1>8. CASE \E e \in Offer : OfferReturnedDisplaced(e)
    <2>1. PICK e \in Offer : OfferReturnedDisplaced(e)
      BY <1>8
    <2>2. ex[e].replaces \in Offer
      BY <1>1, <2>1 DEF OfferReturnedDisplaced, ExFun, Exchange
    <2>. QED
      BY <1>1, <1>2, <2>1, <2>2, PublishType DEF OfferReturnedDisplaced
  <1>9. CASE Teardown
    BY <1>1, <1>9 DEF Teardown, StopSignaling, SigTypeOK
  <1>. QED
    BY <1>2, <1>3, <1>4, <1>5, <1>6, <1>7, <1>8, <1>9
       DEF Next, vars, ExchangeStep, ReleaseStep, AdmissionStep,
           WriteReport, EnsureLane, ClientSilent, RefreshIfStale, ReleaseGone,
           OfferThrew, Restored, OfferAges, ChannelLost, ChannelEnds,
           AdmitKnown, AdmitFresh, AdmitNobody, EvictionWritten, EvictionFailed

LEMMA RestType ==
    ASSUME Inv, [Next]_vars
    PROVE  closed' \in BOOLEAN /\ silent' \in SUBSET Clients /\ releasing' \in SUBSET Clients
  <1>1. closed \in BOOLEAN /\ silent \in SUBSET Clients /\ releasing \in SUBSET Clients
    BY DEF Inv, TypeOK
  <1>2. closed' \in BOOLEAN
    BY <1>1 DEF Next, vars, ExchangeStep, ReleaseStep, AdmissionStep,
         WriteReport, EnsureLane, Answer, ClientSilent, RefreshIfStale,
         ReleaseExpired, ReleaseNext, ReleaseGone, PublishIfLive, OfferThrew,
         Restored, OfferReturnedAdmission, OfferReturnedReplacing,
         OfferReturnedDisplaced, OfferAges, ChannelsOpen, ChannelLost, ChannelEnds,
         AdmitKnown, AdmitFresh, AdmitEvicting, AdmitNobody, EvictionWritten,
         EvictionFailed, Teardown, CloseTransport
  <1>3. silent' \in SUBSET Clients
    <2>1. \/ silent' \subseteq silent
          \/ \E c \in Clients : silent' = silent \cup {c}
      BY <1>1 DEF Next, vars, ExchangeStep, ReleaseStep, AdmissionStep,
         WriteReport, EnsureLane, Answer, ClientSilent, RefreshIfStale,
         ReleaseExpired, ReleaseNext, ReleaseGone, PublishIfLive, OfferThrew,
         Restored, OfferReturnedAdmission, OfferReturnedReplacing,
         OfferReturnedDisplaced, OfferAges, ChannelsOpen, ChannelLost, ChannelEnds,
         AdmitKnown, AdmitFresh, AdmitEvicting, AdmitNobody, EvictionWritten,
         EvictionFailed, Teardown, CloseTransport, OpenLane, AdoptRenews, Lanes
    <2>. QED
      BY <1>1, <2>1
  <1>4. releasing' \in SUBSET Clients
    BY <1>1 DEF Next, vars, ExchangeStep, ReleaseStep, AdmissionStep,
         WriteReport, EnsureLane, Answer, ClientSilent, RefreshIfStale,
         ReleaseExpired, ReleaseNext, ReleaseGone, PublishIfLive, OfferThrew,
         Restored, OfferReturnedAdmission, OfferReturnedReplacing,
         OfferReturnedDisplaced, OfferAges, ChannelsOpen, ChannelLost, ChannelEnds,
         AdmitKnown, AdmitFresh, AdmitEvicting, AdmitNobody, EvictionWritten,
         EvictionFailed, Teardown, Expired, Lanes
  <1>. QED
    BY <1>2, <1>3, <1>4

LEMMA TypeKept ==
    ASSUME Inv, [Next]_vars
    PROVE  TypeOK'
  <1>1. /\ ex' \in ExFun
        /\ laneOf' \in [Clients -> Offer \cup {None}]
        /\ nextOffer' \in 1 .. (MaxOffers + 1)
        /\ \A e \in Offer : /\ ex'[e].client \in Clients <=> e < nextOffer'
                            /\ ex'[e].stage # "unused"   <=> e < nextOffer'
    <2>1. CASE Moves
      BY <2>1, MovesKeepExchanges
    <2>2. CASE \E c \in Clients : Answers(c)
      BY <2>2, AnswerKeeps, TypeFacts DEF Inv
    <2>. QED
      BY <2>1, <2>2, StepShape
  <1>. QED
    BY <1>1, SigType, QueueType, AdmissionType, RestType DEF TypeOK, ExFun

-----------------------------------------------------------------------------
(* The invariant, and what follows from it.                                *)

LEMMA InductiveInit == Init => Inductive
  <1>. SUFFICES ASSUME Init PROVE Inductive
    OBVIOUS
  <1>. USE DEF Init, SigInit
  <1>1. ex \in ExFun
    <2>1. Unused \in Exchange
      BY ReportBound DEF Unused, Exchange, Stages, ReportAt
    <2>. QED
      BY <2>1 DEF ExFun
  <1>2. \A e \in Offer : ex[e] = Unused
    OBVIOUS
  <1>3. TypeOK
    <2>1. /\ SigTypeOK
          /\ laneOf \in [Clients -> Offer \cup {None}]
          /\ closed \in BOOLEAN
          /\ report \in [Clients -> ReportAt \cup {NoReport}]
          /\ silent \in SUBSET Clients /\ releasing \in SUBSET Clients
      BY DEF SigTypeOK
    <2>2. /\ nextOffer \in 1 .. (MaxOffers + 1)
          /\ \A e \in Offer : ~(e < nextOffer)
      BY OfferBound DEF Offer
    <2>3. admission \in [phase  : {"idle", "evicting", "exchanging"},
                         client : Clients \cup {None}, at : ReportAt]
      BY ReportBound DEF Idle, ReportAt
    <2>4. queue \in Seq([client : Clients, at : ReportAt])
      OBVIOUS
    <2>5. Unused.client \notin Clients /\ Unused.stage = "unused"
      BY OfferNotNone DEF Unused
    <2>. QED
      BY <1>1, <1>2, <2>1, <2>2, <2>3, <2>4, <2>5 DEF TypeOK, ExFun
  <1>4. LaneIsItsClients
    BY <1>2 DEF LaneIsItsClients, Unused
  <1>5. LaneCap
    <2>1. Lanes = {}
      BY DEF Lanes
    <2>. QED
      BY <2>1, FS_EmptySet, LaneBound DEF LaneCap
  <1>6. EvictionKeepsRoom
    BY DEF EvictionKeepsRoom, Idle
  <1>7. OpenNeedsPeer /\ BridgeServesItsLane /\ NoBridgeAfterTeardown
    BY <1>2 DEF OpenNeedsPeer, BridgeServesItsLane, NoBridgeAfterTeardown, Unused
  <1>8. ReplacedReturnsLanded
    BY <1>2 DEF ReplacedReturnsLanded, Unused
  <1>9. UnpublishedUnanswered
    BY <1>2, OfferNotNone DEF UnpublishedUnanswered, Unused
  <1>10. AnsweredIsDelivered /\ AnswerNotReapplied
    BY <1>2 DEF AnsweredIsDelivered, AnswerNotReapplied, Unused
  <1>. QED
    BY <1>3, <1>4, <1>5, <1>6, <1>7, <1>8, <1>9, <1>10 DEF Inductive

LEMMA InductiveStep == Inductive /\ [Next]_vars => Inductive'
  <1>. SUFFICES ASSUME Inductive, [Next]_vars PROVE Inductive'
    OBVIOUS
  <1>1. Inv
    BY DEF Inductive, Inv
  <1>2. (Moves /\ SigSafe) \/ \E c \in Clients : Answers(c)
    BY <1>1, StepShape
  <1>3. Moves \/ \E c \in Clients : Answers(c)
    BY <1>2
  <1>4. closed' = closed \/ Ends
    <2>1. CASE Teardown
      BY <1>1, <2>1, TeardownShape
    <2>2. CASE ~Teardown
      BY <2>2 DEF Next, vars, ExchangeStep, ReleaseStep, AdmissionStep,
         WriteReport, EnsureLane, Answer, ClientSilent, RefreshIfStale,
         ReleaseExpired, ReleaseNext, ReleaseGone, PublishIfLive, OfferThrew,
         Restored, OfferReturnedAdmission, OfferReturnedReplacing,
         OfferReturnedDisplaced, OfferAges, ChannelsOpen, ChannelLost, ChannelEnds,
         AdmitKnown, AdmitFresh, AdmitEvicting, AdmitNobody, EvictionWritten,
         EvictionFailed
    <2>. QED
      BY <2>1, <2>2
  <1>5. TypeOK'
    BY <1>1, TypeKept
  <1>6. LaneIsItsClients'
    BY <1>1, <1>2, LaneIsItsClientsKept
  <1>7. LaneCap' /\ EvictionKeepsRoom'
    BY <1>1, CapKept DEF Inductive
  <1>8. OpenNeedsPeer'
    BY <1>1, <1>3, OpenNeedsPeerKept
  <1>9. BridgeServesItsLane'
    BY <1>1, <1>3, BridgeServesItsLaneKept DEF Inductive
  <1>10. NoBridgeAfterTeardown'
    BY <1>1, <1>3, <1>4, NoBridgeAfterTeardownKept DEF Inductive
  <1>11. ReplacedReturnsLanded'
    BY <1>1, <1>3, ReplacedReturnsLandedKept
  <1>12. UnpublishedUnanswered'
    BY <1>1, <1>2, UnpublishedUnansweredKept
  <1>13. AnsweredIsDelivered'
    BY <1>1, <1>2, AnsweredIsDeliveredKept DEF Inductive
  <1>14. AnswerNotReapplied'
    BY <1>1, <1>3, AnswerNotReappliedKept DEF Inductive
  <1>. QED
    BY <1>5, <1>6, <1>7, <1>8, <1>9, <1>10, <1>11, <1>12, <1>13, <1>14 DEF Inductive

\* The invariant holds in every state the transport reaches.
THEOREM InductiveHolds == Spec => []Inductive
  BY InductiveInit, InductiveStep, PTL DEF Spec

\* Every variable keeps its type, and what was never begun stays unused.
THEOREM TypeCorrect == Spec => []TypeOK
  <1>1. Inductive => TypeOK
    BY DEF Inductive
  <1>. QED
    BY <1>1, InductiveHolds, PTL

\* However many clients report at once, no more than MAX_LANES hold a lane.
THEOREM CapHolds == Spec => []LaneCap
  <1>1. Inductive => LaneCap
    BY DEF Inductive
  <1>. QED
    BY <1>1, InductiveHolds, PTL

\* No bridge is stranded on an exchange that is not its client's lane.
THEOREM BridgesServeTheirLanes == Spec => []BridgeServesItsLane
  <1>1. Inductive => BridgeServesItsLane
    BY DEF Inductive
  <1>. QED
    BY <1>1, InductiveHolds, PTL

\* acceptAnswer runs a second time only for channels that are open already.
THEOREM AnswersAreNotReapplied == Spec => []AnswerNotReapplied
  <1>1. Inductive => AnswerNotReapplied
    BY DEF Inductive
  <1>. QED
    BY <1>1, InductiveHolds, PTL

\* No client is served after the teardown.
THEOREM NothingServedAfterTeardown == Spec => []NoBridgeAfterTeardown
  <1>1. Inductive => NoBridgeAfterTeardown
    BY DEF Inductive
  <1>. QED
    BY <1>1, InductiveHolds, PTL

-----------------------------------------------------------------------------
(* A connected lane is kept: the steps that give a client another lane.    *)

\* A lane that is served is an exchange of its own, with open channels.
LEMMA ConnectedFacts ==
    ASSUME Inv, NEW c \in Clients, Connected(c)
    PROVE  /\ laneOf[c] \in Offer /\ ex[laneOf[c]].open /\ laneOf[c] < nextOffer
           /\ ex[laneOf[c]].client = c
  <1>1. laneOf[c] # None /\ ex[laneOf[c]].bridged
    BY DEF Connected
  <1>2. laneOf[c] \in Offer /\ ex[laneOf[c]].client = c /\ laneOf[c] < nextOffer
    BY <1>1, LaneFacts DEF Inv
  <1>. QED
    BY <1>1, <1>2 DEF Inv, OpenNeedsPeer

\* What a connected lane may give way to.
GivesWay(c) ==
    \/ laneOf'[c] # None /\ (ex'[laneOf[c]].dead \/ ex'[laneOf'[c]].open)
    \/ closed'
    \/ c \in releasing

\* An exchange that becomes the lane by landing is open.
LEMMA LandedIsOpen ==
    ASSUME Inv, NEW e \in Offer, NEW x \in ExFun, x[e].client = ex[e].client, ex[e].client \in Clients,
           laneOf' = AdoptLane(e), ex'[e].open = Adopt(x, e)[e].open, NEW c \in Clients, laneOf'[c] # laneOf[c]
    PROVE  laneOf'[c] # None /\ ex'[laneOf'[c]].open
  <1>1. laneOf \in [Clients -> Offer \cup {None}]
    BY TypeFacts DEF Inv
  <1>2. Adoptable(e) /\ laneOf'[c] = e
    BY <1>1 DEF AdoptLane
  <1>3. Adopted(x, Adopt(x, e), e)
    BY <1>1, <1>2, AdoptIs
  <1>. QED
    BY <1>2, <1>3, OfferNotNone DEF Adopted

LEMMA LandingLetsGo ==
    ASSUME Inv, NEW e \in Offer, OfferReturnedAdmission(e) \/ OfferReturnedReplacing(e) \/ ChannelsOpen(e),
           NEW c \in Clients, laneOf'[c] # laneOf[c]
    PROVE  GivesWay(c)
  <1>. DEFINE ready  == [ex EXCEPT ![e].stage = "ready"]
              opened == [ex EXCEPT ![e].channel = "open"]
              l      == ex[e].replaces
  <1>1. ex \in ExFun /\ laneOf \in [Clients -> Offer \cup {None}]
    BY TypeFacts DEF Inv
  <1>2. ex[e].stage # "unused"
    BY DEF OfferReturnedAdmission, OfferReturnedReplacing, ChannelsOpen, Inv, UnpublishedUnanswered
  <1>3. ex[e].client \in Clients
    BY <1>2, TypeFacts DEF Inv
  <1>4. CASE OfferReturnedAdmission(e)
    <2>1. ex' = Admitted(Adopt(ready, e), AdoptLane(e)[ex[e].client]) /\ laneOf' = AdoptLane(e)
      BY <1>4 DEF OfferReturnedAdmission
    <2>2. ready \in ExFun /\ Kept(ex, ready, e)
      BY <1>4, ReadyIs DEF OfferReturnedAdmission
    <2>3. ready[e].client = ex[e].client
      BY <2>2 DEF Kept, SamePart
    <2>4. AdoptLane(e)[ex[e].client] \in Offer \cup {None}
      BY <1>1, <1>3 DEF AdoptLane
    <2>. HIDE DEF ready
    <2>5. Adopt(ready, e) \in ExFun
      BY <1>1, <1>3, <2>2, <2>3, AdoptIs
    <2>6. ex'[e].open = Adopt(ready, e)[e].open
      BY <2>1, <2>4, <2>5, AdmittedIs DEF Kept
    <2>. QED
      BY <1>3, <2>1, <2>2, <2>3, <2>6, LandedIsOpen DEF GivesWay
  <1>5. CASE OfferReturnedReplacing(e)
    <2>1. /\ ex' = [ClosePeer(Adopt(ready, e), l) EXCEPT ![l].refreshing = FALSE] /\ laneOf' = AdoptLane(e)
          /\ l # None
      BY <1>5 DEF OfferReturnedReplacing
    <2>2. ready \in ExFun /\ Kept(ex, ready, e)
      BY <1>5, ReadyIs DEF OfferReturnedReplacing
    <2>3. ready[e].client = ex[e].client /\ l \in Offer
      BY <1>1, <2>1, <2>2 DEF Kept, SamePart, ExFun, Exchange
    <2>. HIDE DEF ready, l
    <2>4. Adopt(ready, e) \in ExFun
      BY <1>1, <1>3, <2>2, <2>3, AdoptIs
    <2>5. /\ ClosePeer(Adopt(ready, e), l) \in ExFun
          /\ ClosePeer(Adopt(ready, e), l)[e].open = Adopt(ready, e)[e].open
      BY <2>3, <2>4, ClosePeerIs
    <2>6. Kept(ClosePeer(Adopt(ready, e), l), ex', e)
      BY <2>1, <2>3, <2>5, ClearRefreshing
    <2>7. ex'[e].open = Adopt(ready, e)[e].open
      BY <2>5, <2>6 DEF Kept
    <2>. QED
      BY <1>3, <2>1, <2>2, <2>3, <2>7, LandedIsOpen DEF GivesWay
  <1>6. CASE ChannelsOpen(e)
    <2>1. ex' = Adopt(opened, e) /\ laneOf' = AdoptLane(e)
      BY <1>6 DEF ChannelsOpen
    <2>2. opened \in ExFun /\ opened[e].client = ex[e].client
      BY <1>1 DEF ExFun, Exchange
    <2>. HIDE DEF opened
    <2>. QED
      BY <1>3, <2>1, <2>2, LandedIsOpen DEF GivesWay
  <1>. QED
    BY <1>4, <1>5, <1>6

\* A channel that ends leaves its exchange spent, and the lane to a fresh one.
LEMMA EndedIsDead ==
    ASSUME Inv, NEW e \in Offer, ChannelEnds(e), NEW c \in Clients, Connected(c), laneOf'[c] # laneOf[c]
    PROVE  GivesWay(c)
  <1>1. ex \in ExFun /\ laneOf \in [Clients -> Offer \cup {None}] /\ (CanBegin => nextOffer \in Offer)
    BY TypeFacts DEF Inv
  <1>2. RefreshesNow(ex, e) /\ laneOf' = [laneOf EXCEPT ![ex[e].client] = nextOffer] /\ nextOffer \in Offer
    BY <1>1 DEF ChannelEnds
  <1>3. laneOf[c] = e /\ laneOf'[c] = nextOffer
    BY <1>1, <1>2 DEF ChannelEnds, IsLane
  <1>4. e # nextOffer
    BY <1>2, <1>3, ConnectedFacts, OfferNotNone
  <1>5. ex' = BeginRefresh(Spend(ex, e), nextOffer, e)
    BY <1>2 DEF ChannelEnds, SpendAndRefresh
  <1>. DEFINE y == Spend(ex, e)
  <1>6. y[e].dead = TRUE /\ y \in ExFun
    <2>1. y \in ExFun
      BY <1>1, SpendIs
    <2>2. ClosePeer(ex, e) \in ExFun
      BY <1>1, ClosePeerIs
    <2>. QED
      BY <2>1, <2>2 DEF Spend, ExFun, Exchange
  <1>. HIDE DEF y
  <1>7. ex'[e].dead = TRUE
    BY <1>2, <1>4, <1>5, <1>6 DEF y, BeginRefresh, Begin, ExFun, Exchange
  <1>. QED
    BY <1>2, <1>3, <1>7, OfferNotNone DEF GivesWay

LEMMA ConnectedGivesWay ==
    ASSUME Inv, [Next]_vars, NEW c \in Clients, Connected(c), laneOf'[c] # laneOf[c]
    PROVE  GivesWay(c)
  <1>1. laneOf \in [Clients -> Offer \cup {None}] /\ ex \in ExFun
    BY TypeFacts DEF Inv
  <1>2. laneOf[c] \in Offer /\ ex[laneOf[c]].open /\ laneOf[c] # None
    BY ConnectedFacts, OfferNotNone
  <1>3. CASE \E d \in Clients : RefreshIfStale(d) \/ ReleaseExpired(d) \/ ReleaseNext(d)
    <2>1. PICK d \in Clients : RefreshIfStale(d) \/ ReleaseExpired(d) \/ ReleaseNext(d)
      BY <1>3
    <2>2. c = d
      BY <1>1, <2>1 DEF RefreshIfStale, ReleaseExpired, ReleaseNext, CloseLane
    <2>. QED
      BY <1>2, <2>1, <2>2 DEF RefreshIfStale, ReleaseExpired, ReleaseNext, Expired, GivesWay
  <1>4. CASE AdmitFresh
    BY <1>1, <1>2, <1>4 DEF AdmitFresh, OpenLane
  <1>5. CASE EvictionWritten
    BY <1>1, <1>2, <1>5 DEF EvictionWritten, OpenLane, Inv, EvictionKeepsRoom
  <1>6. CASE AdmitEvicting
    BY <1>1, <1>2, <1>6 DEF AdmitEvicting, CloseLane, Victim, Evictable
  <1>7. CASE Teardown
    BY <1>7 DEF Teardown, CloseTransport, GivesWay
  <1>8. CASE \E e \in Offer : ChannelEnds(e)
    BY <1>8, EndedIsDead
  <1>9. CASE \E e \in Offer : OfferReturnedAdmission(e) \/ OfferReturnedReplacing(e) \/ ChannelsOpen(e)
    BY <1>9, LandingLetsGo
  <1>10. CASE UNCHANGED laneOf
    BY <1>10
  <1>11. CASE \E d \in Clients : \/ WriteReport(d) \/ EnsureLane(d) \/ Answer(d)
                                 \/ ClientSilent(d) \/ ReleaseGone(d)
    BY <1>10, <1>11 DEF WriteReport, EnsureLane, Answer, ClientSilent, ReleaseGone
  <1>12. CASE \E e \in Offer : \/ PublishIfLive(e) \/ OfferThrew(e) \/ Restored(e)
                               \/ OfferReturnedDisplaced(e) \/ OfferAges(e) \/ ChannelLost(e)
    BY <1>10, <1>12 DEF PublishIfLive, OfferThrew, Restored, OfferReturnedDisplaced,
          OfferAges, ChannelLost
  <1>13. CASE AdmitKnown \/ AdmitNobody \/ EvictionFailed
    BY <1>10, <1>13 DEF AdmitKnown, AdmitNobody, EvictionFailed
  <1>14. CASE UNCHANGED vars
    BY <1>10, <1>14 DEF vars
  <1>. QED
    BY <1>3, <1>4, <1>5, <1>6, <1>7, <1>8, <1>9, <1>11, <1>12, <1>13, <1>14
       DEF Next, ExchangeStep, ReleaseStep, AdmissionStep

\* A client that works over a lane is disconnected neither to make room for
\* another nor to publish a fresher offer, whatever the admissions, refreshes and
\* punches under way make of the lanes meanwhile: it loses the lane to the end of
\* its own channel, to another punch of its own, to the teardown, or to a release
\* pass that had begun before ("a client that is connected is never evicted",
\* direct-transport.ts:54).
THEOREM ConnectedClientsStay == Spec => ConnectedLaneKept
  <1>1. Inductive => Inv
    BY DEF Inductive, Inv
  <1>2. Inductive /\ [Next]_vars =>
            [\A c \in Clients :
                (Connected(c) /\ laneOf'[c] # laneOf[c]) =>
                    \/ laneOf'[c] # None /\ (ex'[laneOf[c]].dead \/ ex'[laneOf'[c]].open)
                    \/ closed'
                    \/ c \in releasing]_vars
    BY <1>1, ConnectedGivesWay DEF GivesWay
  <1>. QED
    BY <1>2, InductiveHolds, PTL DEF Spec, ConnectedLaneKept
=============================================================================
