--------------------------- MODULE DeliveryProofs ---------------------------
(***************************************************************************)
(* Proofs about Delivery, for any set of messages, and any number of       *)
(* copies and mishaps.  The machine's part of the invariant counts the     *)
(* copies of a message: each one accepted is found somewhere, the mirror   *)
(* shows what the agent has queued but for the hidden messages, and no     *)
(* turn runs and nothing is shown as queued while the agent is calm.       *)
(*  The app's part follows the user's words from  *)
(* the outgoing queue to the transcript or the composer.                   *)
(*                                                                         *)
(* Sequences are counted by the places a message has in them.              *)
(***************************************************************************)
EXTENDS Delivery, FiniteSetTheorems, SequenceTheorems, WellFoundedInduction, TLAPS

-----------------------------------------------------------------------------
(* Counting the copies of a message in a sequence.                         *)

\* Where the message is.
Places(m, s) == {i \in DOMAIN s : s[i] = m}

LEMMA PlacesFinite ==
    ASSUME NEW m, NEW s \in Seq(Msgs)
    PROVE  /\ IsFiniteSet(Places(m, s))
           /\ Copies(m, s) = Cardinality(Places(m, s))
           /\ Copies(m, s) \in Nat
<1>1. DOMAIN s = 1 .. Len(s) /\ Len(s) \in Nat
    BY LenProperties
<1>2. IsFiniteSet(1 .. Len(s))
    BY <1>1, FS_Interval
<1>3. Places(m, s) \in SUBSET (1 .. Len(s))
    BY <1>1 DEF Places
<1>4. IsFiniteSet(Places(m, s))
    BY <1>2, <1>3, FS_Subset
<1> QED BY <1>4, FS_CardinalityType DEF Copies, Places

LEMMA CopiesOfNothing ==
    ASSUME NEW m
    PROVE  Copies(m, <<>>) = 0
<1>1. {i \in DOMAIN <<>> : <<>>[i] = m} = {}
    OBVIOUS
<1> QED BY <1>1, FS_EmptySet DEF Copies

LEMMA CopiesOfAppend ==
    ASSUME NEW m, NEW s \in Seq(Msgs), NEW x \in Msgs
    PROVE  Copies(m, Append(s, x)) = Copies(m, s) + (IF x = m THEN 1 ELSE 0)
<1> DEFINE t == Append(s, x)
           n == Len(s) + 1
<1>1. /\ t \in Seq(Msgs) /\ n \in Nat
      /\ DOMAIN t = 1 .. n /\ DOMAIN s = 1 .. Len(s)
      /\ t[n] = x /\ \A i \in 1 .. Len(s) : t[i] = s[i]
    BY LenProperties
<1>2. Places(m, t) = IF x = m THEN Places(m, s) \cup {n} ELSE Places(m, s)
    BY <1>1 DEF Places
<1>3. n \notin Places(m, s)
    BY <1>1 DEF Places
<1> HIDE DEF t, n
<1>4. IsFiniteSet(Places(m, s)) /\ Cardinality(Places(m, s)) \in Nat
    BY PlacesFinite
<1>5. Cardinality(Places(m, s) \cup {n}) = Cardinality(Places(m, s)) + 1
    BY <1>3, <1>4, FS_AddElement
<1>6. Copies(m, t) = Cardinality(Places(m, t)) /\ Copies(m, s) = Cardinality(Places(m, s))
    BY <1>1, PlacesFinite
<1> QED BY <1>2, <1>4, <1>5, <1>6 DEF t

\* A set of places is as large when it is moved.
LEMMA Moved ==
    ASSUME NEW S, S \subseteq Nat, IsFiniteSet(S), NEW k \in Nat
    PROVE  /\ IsFiniteSet({i + k : i \in S})
           /\ Cardinality({i + k : i \in S}) = Cardinality(S)
<1> DEFINE T == {i + k : i \in S}
           f == [i \in S |-> i + k]
<1>1. f \in [S -> T]
    OBVIOUS
<1>2. \A i, j \in S : f[i] = f[j] => i = j
    OBVIOUS
<1>3. \A t \in T : \E i \in S : f[i] = t
    OBVIOUS
<1>4. f \in Bijection(S, T)
    BY <1>1, <1>2, <1>3 DEF Bijection, Injection, IsInjective, Surjection
<1>5. ExistsBijection(S, T)
    BY <1>4 DEF ExistsBijection
<1> HIDE DEF T
<1>6. IsFiniteSet(T) /\ Cardinality(T) = Cardinality(S)
    BY <1>5, FS_Bijection
<1> QED BY <1>6 DEF T

LEMMA CopiesOfConcat ==
    ASSUME NEW m, NEW s \in Seq(Msgs), NEW t \in Seq(Msgs)
    PROVE  Copies(m, s \o t) = Copies(m, s) + Copies(m, t)
<1> DEFINE u == s \o t
           k == Len(s)
           After == {i + k : i \in Places(m, t)}
<1>1. /\ u \in Seq(Msgs) /\ k \in Nat /\ Len(t) \in Nat
      /\ DOMAIN u = 1 .. (k + Len(t)) /\ DOMAIN s = 1 .. k /\ DOMAIN t = 1 .. Len(t)
      /\ \A i \in 1 .. (k + Len(t)) : u[i] = IF i <= k THEN s[i] ELSE t[i - k]
    BY ConcatProperties, LenProperties
<1> HIDE DEF u, k
<1>2. Places(m, u) = Places(m, s) \cup After
  <2>1. ASSUME NEW i \in Places(m, u) PROVE i \in Places(m, s) \cup After
    <3>1. i \in 1 .. (k + Len(t)) /\ u[i] = m
        BY <1>1 DEF Places
    <3>2. CASE i <= k
        BY <1>1, <3>1, <3>2 DEF Places
    <3>3. CASE ~(i <= k)
      <4>1. i - k \in 1 .. Len(t) /\ t[i - k] = m /\ i = (i - k) + k
          BY <1>1, <3>1, <3>3
      <4>2. i - k \in Places(m, t)
          BY <1>1, <4>1 DEF Places
      <4> QED BY <4>1, <4>2
    <3> QED BY <3>2, <3>3
  <2>2. ASSUME NEW i \in Places(m, s) PROVE i \in Places(m, u)
      BY <1>1 DEF Places
  <2>3. ASSUME NEW i \in Places(m, t) PROVE i + k \in Places(m, u)
    <3>1. i \in 1 .. Len(t) /\ t[i] = m
        BY <1>1 DEF Places
    <3>2. i + k \in 1 .. (k + Len(t)) /\ ~(i + k <= k) /\ (i + k) - k = i
        BY <1>1, <3>1
    <3> QED BY <1>1, <3>1, <3>2 DEF Places
  <2> QED BY <2>1, <2>2, <2>3
<1>3. Places(m, s) \cap After = {}
    BY <1>1 DEF Places
<1>4. Places(m, t) \subseteq Nat
    BY <1>1 DEF Places
<1>5. /\ IsFiniteSet(Places(m, s)) /\ Cardinality(Places(m, s)) \in Nat
      /\ IsFiniteSet(Places(m, t)) /\ Cardinality(Places(m, t)) \in Nat
    BY PlacesFinite
<1>6. IsFiniteSet(After) /\ Cardinality(After) = Cardinality(Places(m, t))
    BY <1>1, <1>4, <1>5, Moved
<1> HIDE DEF After
<1>7. Cardinality(Places(m, s) \cup After)
        = Cardinality(Places(m, s)) + Cardinality(After) - Cardinality({})
    BY <1>3, <1>5, <1>6, FS_Union
<1>8. Cardinality(Places(m, u)) = Cardinality(Places(m, s)) + Cardinality(Places(m, t))
    BY <1>2, <1>5, <1>6, <1>7, FS_EmptySet
<1>9. /\ Copies(m, u) = Cardinality(Places(m, u)) /\ Copies(m, s) = Cardinality(Places(m, s))
      /\ Copies(m, t) = Cardinality(Places(m, t))
    BY <1>1, PlacesFinite
<1> QED BY <1>8, <1>9 DEF u

LEMMA CopiesOfTail ==
    ASSUME NEW m, NEW s \in Seq(Msgs), s # <<>>
    PROVE  Copies(m, s) = Copies(m, Tail(s)) + (IF Head(s) = m THEN 1 ELSE 0)
<1>1. /\ Head(s) \in Msgs /\ Tail(s) \in Seq(Msgs) /\ <<>> \in Seq(Msgs)
      /\ Append(<<>>, Head(s)) \in Seq(Msgs)
    BY HeadTailProperties, EmptySeq
<1>2. s = Append(<<>>, Head(s)) \o Tail(s)
    OBVIOUS
<1>3. Copies(m, s) = Copies(m, Append(<<>>, Head(s))) + Copies(m, Tail(s))
    BY <1>1, <1>2, CopiesOfConcat
<1>4. Copies(m, Append(<<>>, Head(s))) = Copies(m, <<>>) + (IF Head(s) = m THEN 1 ELSE 0)
    BY <1>1, CopiesOfAppend
<1>5. Copies(m, Tail(s)) \in Nat
    BY <1>1, PlacesFinite
<1> QED BY <1>3, <1>4, <1>5, CopiesOfNothing

\* Every set of numbers that is not empty has a least one.
LEMMA LeastNumber ==
    ASSUME NEW T, T \subseteq Nat, T # {}
    PROVE  \E x \in T : \A y \in T : x <= y
<1> DEFINE R == {p \in Nat \X Nat : p[1] < p[2]}
<1>1. IsWellFoundedOn(R, Nat)
    BY NatLessThanWellFounded DEF OpToRel
<1> HIDE DEF R
<1>2. \E x \in T : \A y \in T : ~(<<y, x>> \in R)
    BY <1>1, WFMin, Zenon
<1>3. PICK x \in T : \A y \in T : ~(<<y, x>> \in R)
    BY <1>2
<1>4. ASSUME NEW y \in T PROVE x <= y
  <2>1. x \in Nat /\ y \in Nat
      OBVIOUS
  <2>2. ~(y < x)
      BY <2>1, <1>3 DEF R
  <2> QED BY <2>1, <2>2
<1> QED BY <1>4

-----------------------------------------------------------------------------
(* The machine's side.                                                     *)

\* HostTypeOK without the bound of what is counted.
HostTypes ==
    /\ chain \in Seq(Msgs) /\ gate \in {"open", "waiting"} /\ turnStarted \in BOOLEAN
    /\ pi \in Agent /\ mirror \in Seq(Msgs) /\ transcript \in Seq(Msgs)
    /\ accepted \in Count
    /\ voided \in [Msgs -> Nat] /\ returned \in [Msgs -> Nat]
    /\ clash \in BOOLEAN /\ slow \in BOOLEAN /\ hidden \in SUBSET Msgs

\* No turn runs and nothing is shown as queued unless the agent works, and while
\* it prepares a prompt of the submitter, that one waits or has waited too long.
Calm ==
    /\ pi.state \in {"idle", "starting", "restarting", "ended"} => ~turnStarted /\ mirror = <<>>
    /\ pi.state = "starting" => pi.cur \in Msgs /\ (gate = "waiting" \/ slow)
    /\ pi.state = "restarting" => pi.cur \in Msgs
    /\ pi.state = "idle" => pi.cur = None

\* The mirror shows what the agent has queued, but for the hidden messages, and
\* never more than that.
MirrorKept ==
    \A m \in Msgs : /\ Copies(m, mirror) <= Copies(m, Queue(pi))
                    /\ m \notin hidden => Copies(m, mirror) = Copies(m, Queue(pi))

HostInd == HostTypes /\ CopiesAccounted /\ QuickIsSafe /\ Calm /\ MirrorKept

LEMMA QueueType ==
    ASSUME NEW p \in Agent
    PROVE  /\ p.steer \in Seq(Msgs) /\ p.follow \in Seq(Msgs) /\ Queue(p) \in Seq(Msgs)
           /\ \A m : /\ Copies(m, Queue(p)) = Copies(m, p.steer) + Copies(m, p.follow)
                     /\ {Copies(m, Queue(p)), Copies(m, p.steer), Copies(m, p.follow)} \subseteq Nat
<1>1. p.steer \in Seq(Msgs) /\ p.follow \in Seq(Msgs)
    BY DEF Agent
<1>2. Queue(p) \in Seq(Msgs)
    BY <1>1, ConcatProperties DEF Queue
<1>3. ASSUME NEW m
      PROVE  /\ Copies(m, Queue(p)) = Copies(m, p.steer) + Copies(m, p.follow)
             /\ {Copies(m, Queue(p)), Copies(m, p.steer), Copies(m, p.follow)} \subseteq Nat
  <2>1. Copies(m, Queue(p)) = Copies(m, p.steer) + Copies(m, p.follow)
      BY <1>1, CopiesOfConcat DEF Queue
  <2>2. Copies(m, Queue(p)) \in Nat /\ Copies(m, p.steer) \in Nat /\ Copies(m, p.follow) \in Nat
      BY <1>1, <1>2, PlacesFinite
  <2> QED BY <2>1, <2>2
<1> QED BY <1>1, <1>2, <1>3

\* Whatever is counted is a number.
LEMMA Numbers ==
    ASSUME HostTypes, NEW m \in Msgs
    PROVE  /\ Copies(m, chain) \in Nat /\ Copies(m, Queue(pi)) \in Nat
           /\ Copies(m, mirror) \in Nat /\ Copies(m, transcript) \in Nat
           /\ accepted[m] \in Nat /\ voided[m] \in Nat /\ returned[m] \in Nat
           /\ Found(m) \in Nat
<1>1. Copies(m, chain) \in Nat /\ Copies(m, mirror) \in Nat /\ Copies(m, transcript) \in Nat
    BY PlacesFinite DEF HostTypes
<1>2. Copies(m, Queue(pi)) \in Nat
    BY QueueType DEF HostTypes
<1>3. accepted[m] \in Nat /\ voided[m] \in Nat /\ returned[m] \in Nat
    BY CopiesBound DEF HostTypes, Count
<1> QED BY <1>1, <1>2, <1>3 DEF Found

\* What becomes of copies never outnumbers them, so the counts keep their bound.
LEMMA Bounded ==
    ASSUME HostTypes, CopiesAccounted
    PROVE  HostTypeOK
<1>1. ASSUME NEW m \in Msgs
      PROVE  {voided[m], returned[m]} \subseteq 0 .. MaxCopies
  <2>1. Found(m) <= accepted[m] /\ accepted[m] \in 0 .. MaxCopies
      BY DEF CopiesAccounted, HostTypes, Count
  <2> QED BY <2>1, Numbers, CopiesBound DEF Found
<1>2. voided \in Count /\ returned \in Count
    BY <1>1 DEF HostTypes, Count
<1> QED BY <1>2 DEF HostTypes, HostTypeOK

\* A step that finds what it found before, and leaves no queue behind.
LEMMA SameFound ==
    ASSUME CopiesAccounted, accepted' = accepted, hidden \subseteq hidden', pi.state # "ended",
           \A m \in Msgs : Found(m)' = Found(m)
    PROVE  CopiesAccounted'
BY DEF CopiesAccounted

LEMMA HostInitially ==
    ASSUME HostInit
    PROVE  HostInd
<1> USE DEF HostInit
<1>1. NoCopies \in [Msgs -> 0 .. MaxCopies] /\ NoCopies \in [Msgs -> Nat]
    BY CopiesBound DEF NoCopies
<1>2. <<>> \in Seq(Msgs)
    BY EmptySeq
<1>3. pi \in Agent /\ Queue(pi) = <<>>
    BY <1>2, ConcatEmptySeq DEF Agent, Queue
<1>4. HostTypes
    BY <1>1, <1>2, <1>3 DEF HostTypes, Count
<1>5. \A m \in Msgs : /\ Copies(m, <<>>) = 0 /\ NoCopies[m] = 0 /\ pi.cur # m
    BY CopiesOfNothing, NoneNew DEF NoCopies
<1>6. CopiesAccounted
    BY <1>3, <1>5 DEF CopiesAccounted, Found
<1>7. MirrorKept
    BY <1>3, <1>5 DEF MirrorKept
<1>8. Calm /\ QuickIsSafe
    BY DEF Calm, QuickIsSafe
<1> QED BY <1>4, <1>6, <1>7, <1>8 DEF HostInd

LEMMA HostStutters ==
    ASSUME HostInd, UNCHANGED host
    PROVE  HostInd'
BY DEF HostInd, host, HostTypes, CopiesAccounted, QuickIsSafe, Calm, MirrorKept, Found

LEMMA SubmitKeeps ==
    ASSUME HostInd, NEW x \in Msgs, Submit(x)
    PROVE  HostInd'
<1> USE DEF HostInd
<1>1. /\ accepted[x] < MaxCopies /\ accepted' = [accepted EXCEPT ![x] = @ + 1]
      /\ chain' = Append(chain, x)
      /\ UNCHANGED <<gate, turnStarted, pi, mirror, transcript, voided, returned,
                     clash, slow, hidden>>
    BY DEF Submit, Add
<1>2. HostTypes'
    BY <1>1, CopiesBound DEF HostTypes, Count
<1>3. CopiesAccounted'
  <2> SUFFICES ASSUME NEW m \in Msgs
               PROVE  /\ Found(m)' <= accepted'[m]
                      /\ m \notin hidden' /\ pi'.state # "ended" => Found(m)' = accepted'[m]
      BY DEF CopiesAccounted
  <2>1. Copies(m, chain') = Copies(m, chain) + (IF x = m THEN 1 ELSE 0)
      BY <1>1, CopiesOfAppend DEF HostTypes
  <2>2. Found(m)' = Found(m) + (IF x = m THEN 1 ELSE 0)
    <3>1. Found(m)' = Copies(m, chain') + Copies(m, Queue(pi)) + (IF pi.cur = m THEN 1 ELSE 0)
                        + Copies(m, transcript) + voided[m] + returned[m]
        BY <1>1 DEF Found
    <3> QED BY <2>1, <3>1, Numbers DEF Found
  <2>3. accepted'[m] = accepted[m] + (IF x = m THEN 1 ELSE 0)
      BY <1>1, Numbers DEF HostTypes, Count
  <2> QED BY <1>1, <2>2, <2>3, Numbers DEF CopiesAccounted
<1>4. QuickIsSafe' /\ Calm' /\ MirrorKept'
    BY <1>1 DEF QuickIsSafe, Calm, MirrorKept
<1> QED BY <1>2, <1>3, <1>4

\* What the agent has queued when a message joins one of its queues.
LEMMA Queued ==
    ASSUME NEW p \in Agent, NEW x \in Msgs, NEW q,
           q = IF x \in FollowUps THEN [p EXCEPT !.follow = Append(@, x)]
                                  ELSE [p EXCEPT !.steer = Append(@, x)]
    PROVE  /\ q \in Agent /\ q.state = p.state /\ q.cur = p.cur
           /\ \A m : Copies(m, Queue(q)) = Copies(m, Queue(p)) + (IF x = m THEN 1 ELSE 0)
<1>1. /\ q \in Agent /\ q.state = p.state /\ q.cur = p.cur
      /\ \/ q.follow = Append(p.follow, x) /\ q.steer = p.steer
         \/ q.steer = Append(p.steer, x) /\ q.follow = p.follow
  <2>1. /\ Append(p.follow, x) \in Seq(Msgs) /\ Append(p.steer, x) \in Seq(Msgs)
        /\ p.steer \in Seq(Msgs) /\ p.follow \in Seq(Msgs)
      BY QueueType
  <2>2. CASE x \in FollowUps
    <3>1. q = [p EXCEPT !.follow = Append(p.follow, x)]
        BY <2>2
    <3> QED BY <2>1, <3>1 DEF Agent
  <2>3. CASE x \notin FollowUps
    <3>1. q = [p EXCEPT !.steer = Append(p.steer, x)]
        BY <2>3
    <3> QED BY <2>1, <3>1 DEF Agent
  <2> QED BY <2>2, <2>3
<1>2. ASSUME NEW m PROVE Copies(m, Queue(q)) = Copies(m, Queue(p)) + (IF x = m THEN 1 ELSE 0)
  <2>1. /\ Copies(m, Append(p.follow, x)) = Copies(m, p.follow) + (IF x = m THEN 1 ELSE 0)
        /\ Copies(m, Append(p.steer, x)) = Copies(m, p.steer) + (IF x = m THEN 1 ELSE 0)
      BY QueueType, CopiesOfAppend
  <2>2. /\ Copies(m, Queue(p)) = Copies(m, p.steer) + Copies(m, p.follow)
        /\ Copies(m, Queue(q)) = Copies(m, q.steer) + Copies(m, q.follow)
        /\ Copies(m, p.steer) \in Nat /\ Copies(m, p.follow) \in Nat
      BY <1>1, QueueType
  <2>3. CASE q.follow = Append(p.follow, x) /\ q.steer = p.steer
      BY <2>1, <2>2, <2>3
  <2>4. CASE q.steer = Append(p.steer, x) /\ q.follow = p.follow
      BY <2>1, <2>2, <2>4
  <2> QED BY <1>1, <2>3, <2>4
<1> QED BY <1>1, <1>2

LEMMA SendKeeps ==
    ASSUME HostInd, Send
    PROVE  HostInd'
<1> USE DEF HostInd
<1> DEFINE x == Head(chain)
<1>1. /\ chain # <<>> /\ gate = "open" /\ chain' = Tail(chain) /\ Prompt(x)
      /\ gate' = IF turnStarted THEN "open" ELSE "waiting"
      /\ UNCHANGED <<turnStarted, transcript, accepted, returned, slow, hidden>>
    BY DEF Send
<1>2. x \in Msgs /\ chain' \in Seq(Msgs)
    BY <1>1, HeadTailProperties DEF HostTypes
<1>3. \A m : Copies(m, chain) = Copies(m, chain') + (IF x = m THEN 1 ELSE 0)
    BY <1>1, CopiesOfTail DEF HostTypes
<1>4. pi \in Agent
    BY DEF HostTypes
<1>5. gate' \in {"open", "waiting"}
    BY <1>1
<1> HIDE DEF x
<1>6. CASE pi.state = "idle" /\ pi' = [pi EXCEPT !.state = "starting", !.cur = x]
           /\ UNCHANGED <<mirror, voided, clash>>
  <2>1. /\ pi' \in Agent /\ pi'.state = "starting" /\ pi'.cur = x
        /\ pi'.steer = pi.steer /\ pi'.follow = pi.follow
      BY <1>2, <1>4, <1>6 DEF Agent
  <2>2. Queue(pi') = Queue(pi)
      BY <2>1 DEF Queue
  <2>3. pi.cur = None /\ ~turnStarted
      BY <1>6 DEF Calm
  <2>4. HostTypes'
      BY <1>1, <1>2, <1>5, <1>6, <2>1 DEF HostTypes
  <2>5. ASSUME NEW m \in Msgs PROVE Found(m)' = Found(m)
    <3>1. Found(m)' = Copies(m, chain') + Copies(m, Queue(pi)) + (IF x = m THEN 1 ELSE 0)
                        + Copies(m, transcript) + voided[m] + returned[m]
        BY <1>1, <1>6, <2>1, <2>2 DEF Found
    <3>2. pi.cur # m
        BY <2>3, NoneNew
    <3>3. Copies(m, chain') \in Nat
        BY <1>2, PlacesFinite
    <3> QED BY <1>3, <3>1, <3>2, <3>3, Numbers DEF Found
  <2>6. CopiesAccounted'
      BY <1>1, <1>6, <2>5, SameFound
  <2>7. Calm' /\ QuickIsSafe' /\ MirrorKept'
      BY <1>1, <1>2, <1>6, <2>1, <2>2, <2>3 DEF Calm, QuickIsSafe, MirrorKept
  <2> QED BY <2>4, <2>6, <2>7
<1>7. CASE /\ pi.state \in {"starting", "restarting"} /\ voided' = Add(voided, x)
           /\ clash' = (clash \/ pi.state = "starting") /\ UNCHANGED <<pi, mirror>>
  <2>1. HostTypes'
      BY <1>1, <1>2, <1>5, <1>7 DEF HostTypes, Add
  <2>2. ASSUME NEW m \in Msgs PROVE Found(m)' = Found(m)
    <3>1. Found(m)' = Copies(m, chain') + Copies(m, Queue(pi)) + (IF pi.cur = m THEN 1 ELSE 0)
                        + Copies(m, transcript) + voided'[m] + returned[m]
        BY <1>1, <1>7 DEF Found
    <3>2. voided'[m] = voided[m] + (IF x = m THEN 1 ELSE 0)
        BY <1>2, <1>7, Numbers DEF Add, HostTypes
    <3>3. Copies(m, chain') \in Nat
        BY <1>2, PlacesFinite
    <3> QED BY <1>3, <3>1, <3>2, <3>3, Numbers DEF Found
  <2>3. CopiesAccounted'
      BY <1>1, <1>7, <2>2, SameFound
  <2>4. pi.state = "starting" => slow
      BY <1>1, <1>7 DEF Calm
  <2>5. Calm' /\ QuickIsSafe' /\ MirrorKept'
      BY <1>1, <1>7, <2>4 DEF Calm, QuickIsSafe, MirrorKept
  <2> QED BY <2>1, <2>3, <2>5
<1>8. CASE /\ pi.state \in {"running", "aborting"}
           /\ pi' = IF x \in FollowUps THEN [pi EXCEPT !.follow = Append(@, x)]
                                       ELSE [pi EXCEPT !.steer = Append(@, x)]
           /\ mirror' = Queue(pi')
           /\ UNCHANGED <<voided, clash>>
  <2>1. /\ pi' \in Agent /\ pi'.state = pi.state /\ pi'.cur = pi.cur
        /\ \A m : Copies(m, Queue(pi')) = Copies(m, Queue(pi)) + (IF x = m THEN 1 ELSE 0)
      BY <1>2, <1>4, <1>8, Queued
  <2>2. HostTypes'
    <3>1. mirror' \in Seq(Msgs)
        BY <1>8, <2>1, QueueType
    <3> QED BY <1>1, <1>2, <1>5, <1>8, <2>1, <3>1 DEF HostTypes
  <2>3. ASSUME NEW m \in Msgs PROVE Found(m)' = Found(m)
    <3>1. Found(m)' = Copies(m, chain') + Copies(m, Queue(pi')) + (IF pi.cur = m THEN 1 ELSE 0)
                        + Copies(m, transcript) + voided[m] + returned[m]
        BY <1>1, <1>8, <2>1 DEF Found
    <3>2. Copies(m, chain') \in Nat
        BY <1>2, PlacesFinite
    <3> QED BY <1>3, <2>1, <3>1, <3>2, Numbers DEF Found
  <2>4. CopiesAccounted'
      BY <1>1, <1>8, <2>3, SameFound
  <2>5. MirrorKept'
      BY <1>8, <2>2, QueueType DEF MirrorKept, HostTypes
  <2>6. Calm' /\ QuickIsSafe'
      BY <1>1, <1>8, <2>1 DEF Calm, QuickIsSafe
  <2> QED BY <2>2, <2>4, <2>5, <2>6
<1> QED BY <1>1, <1>6, <1>7, <1>8 DEF Prompt

LEMMA GateKeeps ==
    ASSUME HostInd, GateOpens \/ GateExpires
    PROVE  HostInd'
<1> USE DEF HostInd
<1>1. /\ gate' = "open"
      /\ slow' \in BOOLEAN /\ (slow => slow') /\ (pi.state = "starting" => slow')
      /\ UNCHANGED <<chain, turnStarted, pi, mirror, transcript, accepted, voided, returned,
                     clash, hidden>>
  <2>1. CASE GateOpens
      BY <2>1 DEF GateOpens, Calm, HostTypes
  <2>2. CASE GateExpires
      BY <2>2 DEF GateExpires, HostTypes
  <2> QED BY <2>1, <2>2
<1>2. HostTypes'
    BY <1>1 DEF HostTypes
<1>3. CopiesAccounted' /\ MirrorKept'
    BY <1>1 DEF CopiesAccounted, Found, MirrorKept
<1>4. Calm' /\ QuickIsSafe'
    BY <1>1 DEF Calm, QuickIsSafe
<1> QED BY <1>2, <1>3, <1>4

LEMMA StartFailsKeeps ==
    ASSUME HostInd, StartFails
    PROVE  HostInd'
<1> USE DEF HostInd
<1>1. /\ pi.state = "starting" /\ voided' = Add(voided, pi.cur)
      /\ pi' = [pi EXCEPT !.state = "idle", !.cur = None]
      /\ UNCHANGED <<chain, gate, turnStarted, mirror, transcript, accepted, returned,
                     clash, slow, hidden>>
    BY DEF StartFails
<1>2. pi.cur \in Msgs /\ ~turnStarted /\ mirror = <<>>
    BY <1>1 DEF Calm
<1>3. /\ pi' \in Agent /\ pi'.state = "idle" /\ pi'.cur = None
      /\ pi'.steer = pi.steer /\ pi'.follow = pi.follow
    BY <1>1 DEF HostTypes, Agent
<1>4. Queue(pi') = Queue(pi)
    BY <1>3 DEF Queue
<1>5. HostTypes'
    BY <1>1, <1>2, <1>3 DEF HostTypes, Add
<1>6. ASSUME NEW m \in Msgs PROVE Found(m)' = Found(m)
  <2>1. pi'.cur # m
      BY <1>3, NoneNew
  <2>2. Found(m)' = Copies(m, chain) + Copies(m, Queue(pi)) + 0
                      + Copies(m, transcript) + voided'[m] + returned[m]
      BY <1>1, <1>4, <2>1 DEF Found
  <2>3. voided'[m] = voided[m] + (IF pi.cur = m THEN 1 ELSE 0)
      BY <1>1, <1>2, Numbers DEF Add, HostTypes
  <2> QED BY <2>2, <2>3, Numbers DEF Found
<1>7. CopiesAccounted'
    BY <1>1, <1>6, SameFound
<1>8. Calm' /\ QuickIsSafe' /\ MirrorKept'
    BY <1>1, <1>2, <1>3, <1>4 DEF Calm, QuickIsSafe, MirrorKept
<1> QED BY <1>5, <1>7, <1>8

LEMMA MessageStartKeeps ==
    ASSUME HostInd, MessageStart
    PROVE  HostInd'
<1> USE DEF HostInd
<1>1. /\ pi.state \in {"starting", "restarting"} /\ pi' = [pi EXCEPT !.state = "running"]
      /\ turnStarted' = TRUE /\ mirror' = Popped(mirror, pi.cur)
      /\ UNCHANGED <<chain, gate, transcript, accepted, voided, returned, clash, slow, hidden>>
    BY DEF MessageStart
<1>2. mirror' = mirror
    BY <1>1 DEF Calm, Popped, ToSet
<1>3. /\ pi' \in Agent /\ pi'.state = "running" /\ pi'.cur = pi.cur
      /\ pi'.steer = pi.steer /\ pi'.follow = pi.follow
    BY <1>1 DEF HostTypes, Agent
<1>4. Queue(pi') = Queue(pi)
    BY <1>3 DEF Queue
<1>5. HostTypes'
    BY <1>1, <1>2, <1>3 DEF HostTypes
<1>6. CopiesAccounted' /\ MirrorKept'
    BY <1>1, <1>2, <1>3, <1>4 DEF CopiesAccounted, Found, MirrorKept
<1>7. Calm' /\ QuickIsSafe'
    BY <1>1, <1>3 DEF Calm, QuickIsSafe
<1> QED BY <1>5, <1>6, <1>7

\* What is left of a queue when the mirror drops a message.
LEMMA PoppedFewer ==
    ASSUME NEW s \in Seq(Msgs), NEW x
    PROVE  /\ Popped(s, x) \in Seq(Msgs)
           /\ \A m : Copies(m, Popped(s, x)) <= Copies(m, s)
<1>1. CASE x \notin ToSet(s) /\ s = <<>>
  <2>1. Popped(s, x) = s
      BY <1>1 DEF Popped
  <2> QED BY <2>1, PlacesFinite
<1>2. CASE x \notin ToSet(s) /\ s # <<>>
  <2>1. Popped(s, x) = Tail(s) /\ Tail(s) \in Seq(Msgs)
      BY <1>2, HeadTailProperties DEF Popped
  <2>2. ASSUME NEW m PROVE Copies(m, Tail(s)) <= Copies(m, s)
    <3>1. Copies(m, s) = Copies(m, Tail(s)) + (IF Head(s) = m THEN 1 ELSE 0)
        BY <1>2, CopiesOfTail
    <3>2. Copies(m, Tail(s)) \in Nat
        BY <2>1, PlacesFinite
    <3> QED BY <3>1, <3>2
  <2> QED BY <2>1, <2>2
<1>3. CASE x \in ToSet(s)
  <2> DEFINE I == {i \in 1 .. Len(s) : s[i] = x}
             n == SelectInSeq(s, LAMBDA v : v = x)
             before == SubSeq(s, 1, n - 1)
             after == SubSeq(s, n + 1, Len(s))
  <2>1. DOMAIN s = 1 .. Len(s) /\ Len(s) \in Nat
      BY LenProperties
  <2>2. I # {} /\ I \subseteq Nat
      BY <1>3, <2>1 DEF ToSet
  <2>3. PICK least \in I : \A j \in I : least <= j
      BY <2>2, LeastNumber
  <2>4. n \in I
      BY <2>2, <2>3 DEF SelectInSeq, Min
  <2>5. Popped(s, x) = before \o after
      BY <1>3, <2>1, <2>4 DEF Popped, RemoveFirst, RemoveAt
  <2> HIDE DEF n
  <2>6. n \in 1 .. Len(s) /\ s[n] \in Msgs
      BY <2>1, <2>4
  <2>7. before \in Seq(Msgs) /\ Len(before) = n - 1 /\ \A i \in 1 .. (n - 1) : before[i] = s[i]
      BY <2>1, <2>6, SubSeqProperties
  <2>8. /\ after \in Seq(Msgs) /\ Len(after) = Len(s) - n
        /\ \A i \in 1 .. (Len(s) - n) : after[i] = s[n + i]
    <3>1. n + 1 \in Int /\ Len(s) \in Int /\ \A i \in (n + 1) .. Len(s) : s[i] \in Msgs
        BY <2>1, <2>6
    <3>2. /\ after \in Seq(Msgs)
          /\ Len(after) = IF n + 1 <= Len(s) THEN Len(s) - (n + 1) + 1 ELSE 0
          /\ \A i \in 1 .. (Len(s) - (n + 1) + 1) : after[i] = s[(n + 1) + i - 1]
        BY <3>1, SubSeqProperties DEF after
    <3> HIDE DEF before, after
    <3>3. Len(s) \in Nat /\ n \in Nat /\ n <= Len(s)
        BY <2>1, <2>6
    <3>4. Len(after) = IF n + 1 <= Len(s) THEN Len(s) - (n + 1) + 1 ELSE 0
        BY <3>2
    <3>5. Len(s) - (n + 1) + 1 = Len(s) - n /\ (~(n + 1 <= Len(s)) => Len(s) - n = 0)
        BY <3>3
    <3>6. Len(after) = Len(s) - n
      <4>1. CASE n + 1 <= Len(s)
          BY <3>4, <3>5, <4>1
      <4>2. CASE ~(n + 1 <= Len(s))
          BY <3>4, <3>5, <4>2
      <4> QED BY <4>1, <4>2
    <3>7. \A j \in 1 .. (Len(s) - n) : after[j] = s[(n + 1) + j - 1]
        BY <3>2, <3>5
    <3>8. \A j \in 1 .. (Len(s) - n) : (n + 1) + j - 1 = n + j
        BY <3>3
    <3> QED BY <3>2, <3>6, <3>7, <3>8
  <2> HIDE DEF before, after
  <2>9. s = Append(before, s[n]) \o after
    <3> DEFINE t == Append(before, s[n])
               u == t \o after
    <3>1. /\ t \in Seq(Msgs) /\ Len(t) = n
          /\ \A i \in 1 .. n : t[i] = s[i]
        BY <2>6, <2>7
    <3> HIDE DEF t
    <3>2. /\ u \in Seq(Msgs) /\ Len(u) = Len(s)
          /\ \A i \in 1 .. Len(s) : u[i] = IF i <= n THEN t[i] ELSE after[i - n]
      <4>1. /\ u \in Seq(Msgs) /\ Len(u) = n + Len(after)
            /\ \A i \in 1 .. (n + Len(after)) : u[i] = IF i <= n THEN t[i] ELSE after[i - n]
          BY <2>8, <3>1, ConcatProperties
      <4>2. n + Len(after) = Len(s)
          BY <2>1, <2>6, <2>8
      <4> QED BY <4>1, <4>2
    <3>3. ASSUME NEW i \in 1 .. Len(s) PROVE u[i] = s[i]
      <4>1. CASE i <= n
          BY <2>6, <3>1, <3>2, <4>1
      <4>2. CASE ~(i <= n)
        <5>1. i - n \in 1 .. (Len(s) - n) /\ n + (i - n) = i
            BY <2>1, <2>6, <4>2
        <5> QED BY <2>8, <3>2, <4>2, <5>1
      <4> QED BY <4>1, <4>2
    <3> HIDE DEF u
    <3>4. u = s
        BY <3>2, <3>3, SeqEqual
    <3> QED BY <3>4 DEF u, t
  <2>10. ASSUME NEW m PROVE Copies(m, before \o after) <= Copies(m, s)
    <3>1. Append(before, s[n]) \in Seq(Msgs)
        BY <2>6, <2>7
    <3>2. Copies(m, s) = Copies(m, Append(before, s[n])) + Copies(m, after)
        BY <2>8, <2>9, <3>1, CopiesOfConcat
    <3>3. Copies(m, Append(before, s[n])) = Copies(m, before) + (IF s[n] = m THEN 1 ELSE 0)
        BY <2>6, <2>7, CopiesOfAppend
    <3>4. Copies(m, before \o after) = Copies(m, before) + Copies(m, after)
        BY <2>7, <2>8, CopiesOfConcat
    <3>5. Copies(m, before) \in Nat /\ Copies(m, after) \in Nat
        BY <2>7, <2>8, PlacesFinite
    <3> QED BY <3>2, <3>3, <3>4, <3>5
  <2> QED BY <2>5, <2>7, <2>8, <2>10, ConcatProperties
<1> QED BY <1>1, <1>2, <1>3

\* The mirror may show anything that is queued: what it misses becomes hidden.
LEMMA MirrorShows ==
    ASSUME NEW p \in Agent, NEW s \in Seq(Msgs), NEW h,
           \A m \in Msgs : Copies(m, s) <= Copies(m, Queue(p)),
           Missing(p, s) \subseteq h
    PROVE  \A m \in Msgs : /\ Copies(m, s) <= Copies(m, Queue(p))
                           /\ m \notin h => Copies(m, s) = Copies(m, Queue(p))
BY DEF Missing

LEMMA DequeueKeeps ==
    ASSUME HostInd, Dequeue
    PROVE  HostInd'
<1> USE DEF HostInd
<1>1. /\ pi.state = "running" /\ pi.cur = None /\ Queue(pi) # <<>>
      /\ pi' = IF pi.steer # <<>>
                 THEN [pi EXCEPT !.steer = Tail(@), !.cur = Head(pi.steer)]
                 ELSE [pi EXCEPT !.follow = Tail(@), !.cur = Head(pi.follow)]
      /\ mirror' = IF ReportFirst THEN Popped(Queue(pi'), pi'.cur) ELSE Queue(pi')
      /\ turnStarted' = TRUE /\ hidden' = hidden \cup Missing(pi', mirror')
      /\ UNCHANGED <<chain, gate, transcript, accepted, voided, returned, clash, slow>>
    BY DEF Dequeue
<1>2. pi \in Agent /\ pi.steer \in Seq(Msgs) /\ pi.follow \in Seq(Msgs)
    BY QueueType DEF HostTypes
<1>3. /\ pi' \in Agent /\ pi'.state = "running" /\ pi'.cur \in Msgs
      /\ \A m : Copies(m, Queue(pi)) = Copies(m, Queue(pi')) + (IF pi'.cur = m THEN 1 ELSE 0)
  <2>1. CASE pi.steer # <<>>
    <3>1. Head(pi.steer) \in Msgs /\ Tail(pi.steer) \in Seq(Msgs)
        BY <1>2, <2>1, HeadTailProperties
    <3>2. /\ pi' \in Agent /\ pi'.state = "running" /\ pi'.cur = Head(pi.steer)
          /\ pi'.steer = Tail(pi.steer) /\ pi'.follow = pi.follow
        BY <1>1, <1>2, <2>1, <3>1 DEF Agent
    <3>3. ASSUME NEW m
          PROVE  Copies(m, Queue(pi)) = Copies(m, Queue(pi')) + (IF pi'.cur = m THEN 1 ELSE 0)
      <4>1. Copies(m, pi.steer) = Copies(m, pi'.steer) + (IF pi'.cur = m THEN 1 ELSE 0)
          BY <1>2, <2>1, <3>2, CopiesOfTail
      <4>2. /\ Copies(m, Queue(pi)) = Copies(m, pi.steer) + Copies(m, pi.follow)
            /\ Copies(m, Queue(pi')) = Copies(m, pi'.steer) + Copies(m, pi.follow)
            /\ {Copies(m, pi.follow), Copies(m, pi'.steer)} \subseteq Nat
          BY <1>2, <3>2, QueueType
      <4> QED BY <4>1, <4>2
    <3> QED BY <3>1, <3>2, <3>3
  <2>2. CASE pi.steer = <<>>
    <3>1. pi.follow # <<>>
        BY <1>1, <1>2, <2>2, ConcatEmptySeq DEF Queue
    <3>2. Head(pi.follow) \in Msgs /\ Tail(pi.follow) \in Seq(Msgs)
        BY <1>2, <3>1, HeadTailProperties
    <3>3. /\ pi' \in Agent /\ pi'.state = "running" /\ pi'.cur = Head(pi.follow)
          /\ pi'.follow = Tail(pi.follow) /\ pi'.steer = pi.steer
        BY <1>1, <1>2, <2>2, <3>2 DEF Agent
    <3>4. ASSUME NEW m
          PROVE  Copies(m, Queue(pi)) = Copies(m, Queue(pi')) + (IF pi'.cur = m THEN 1 ELSE 0)
      <4>1. Copies(m, pi.follow) = Copies(m, pi'.follow) + (IF pi'.cur = m THEN 1 ELSE 0)
          BY <1>2, <3>1, <3>3, CopiesOfTail
      <4>2. /\ Copies(m, Queue(pi)) = Copies(m, pi.steer) + Copies(m, pi.follow)
            /\ Copies(m, Queue(pi')) = Copies(m, pi.steer) + Copies(m, pi'.follow)
            /\ {Copies(m, pi.steer), Copies(m, pi'.follow)} \subseteq Nat
          BY <1>2, <3>3, QueueType
      <4> QED BY <4>1, <4>2
    <3> QED BY <3>2, <3>3, <3>4
  <2> QED BY <2>1, <2>2
<1>4. HostTypes'
  <2>1. mirror' \in Seq(Msgs)
      BY <1>1, <1>3, QueueType, PoppedFewer
  <2>2. hidden' \in SUBSET Msgs
      BY <1>1 DEF HostTypes, Missing
  <2> QED BY <1>1, <1>3, <2>1, <2>2 DEF HostTypes
<1>5. ASSUME NEW m \in Msgs PROVE Found(m)' = Found(m)
  <2>1. pi.cur # m
      BY <1>1, NoneNew
  <2>2. Found(m)' = Copies(m, chain) + Copies(m, Queue(pi')) + (IF pi'.cur = m THEN 1 ELSE 0)
                      + Copies(m, transcript) + voided[m] + returned[m]
      BY <1>1 DEF Found
  <2>3. Copies(m, Queue(pi')) \in Nat
      BY <1>3, QueueType
  <2> QED BY <1>3, <2>1, <2>2, <2>3, Numbers DEF Found
<1>6. CopiesAccounted'
    BY <1>1, <1>5, SameFound
<1>7. MirrorKept'
  <2>1. ASSUME NEW m \in Msgs PROVE Copies(m, mirror') <= Copies(m, Queue(pi'))
    <3>1. Queue(pi') \in Seq(Msgs) /\ Copies(m, Queue(pi')) \in Nat
        BY <1>3, QueueType
    <3>2. mirror' = Popped(Queue(pi'), pi'.cur) \/ mirror' = Queue(pi')
        BY <1>1
    <3> QED BY <3>1, <3>2, PoppedFewer
  <2>2. mirror' \in Seq(Msgs) /\ Missing(pi', mirror') \subseteq hidden'
      BY <1>1, <1>4 DEF HostTypes
  <2> DEFINE p == pi'
             now == mirror'
             h == hidden'
  <2>3. \A m \in Msgs : /\ Copies(m, now) <= Copies(m, Queue(p))
                        /\ m \notin h => Copies(m, now) = Copies(m, Queue(p))
    <3>1. p \in Agent /\ now \in Seq(Msgs) /\ Missing(p, now) \subseteq h
        BY <1>3, <2>2
    <3> HIDE DEF p, now, h
    <3>2. \A m \in Msgs : Copies(m, now) <= Copies(m, Queue(p))
        BY <2>1 DEF p, now
    <3> QED BY <3>1, <3>2, MirrorShows
  <2> HIDE DEF p, now, h
  <2> QED BY <2>3 DEF MirrorKept, p, now, h
<1>8. Calm' /\ QuickIsSafe'
    BY <1>1, <1>3 DEF Calm, QuickIsSafe
<1> QED BY <1>4, <1>6, <1>7, <1>8

LEMMA MessageEndKeeps ==
    ASSUME HostInd, MessageEnd
    PROVE  HostInd'
<1> USE DEF HostInd
<1>1. /\ pi.state \in {"running", "aborting"} /\ pi.cur # None
      /\ transcript' = Append(transcript, pi.cur)
      /\ pi' = [pi EXCEPT !.cur = None]
      /\ UNCHANGED <<chain, gate, turnStarted, mirror, accepted, voided, returned, clash, slow, hidden>>
    BY DEF MessageEnd
<1>2. /\ pi' \in Agent /\ pi'.state = pi.state /\ pi'.cur = None /\ pi.cur \in Msgs
      /\ pi'.steer = pi.steer /\ pi'.follow = pi.follow
    BY <1>1 DEF HostTypes, Agent
<1>3. Queue(pi') = Queue(pi)
    BY <1>2 DEF Queue
<1>4. HostTypes'
    BY <1>1, <1>2 DEF HostTypes
<1>5. ASSUME NEW m \in Msgs PROVE Found(m)' = Found(m)
  <2>1. pi'.cur # m
      BY <1>2, NoneNew
  <2>2. Found(m)' = Copies(m, chain) + Copies(m, Queue(pi)) + 0
                      + Copies(m, transcript') + voided[m] + returned[m]
      BY <1>1, <1>3, <2>1 DEF Found
  <2>3. Copies(m, transcript') = Copies(m, transcript) + (IF pi.cur = m THEN 1 ELSE 0)
      BY <1>1, <1>2, CopiesOfAppend DEF HostTypes
  <2> QED BY <2>2, <2>3, Numbers DEF Found
<1>6. CopiesAccounted'
    BY <1>1, <1>5, SameFound
<1>7. Calm' /\ QuickIsSafe' /\ MirrorKept'
    BY <1>1, <1>2, <1>3 DEF Calm, QuickIsSafe, MirrorKept
<1> QED BY <1>4, <1>6, <1>7

LEMMA RunEndsKeeps ==
    ASSUME HostInd, RunEnds
    PROVE  HostInd'
<1> USE DEF HostInd
<1>1. /\ pi.cur = None /\ pi' = [pi EXCEPT !.state = "idle"]
      /\ ~turnStarted' /\ mirror' = <<>> /\ hidden' = hidden \cup Missing(pi', <<>>)
      /\ pi.state # "ended"
      /\ UNCHANGED <<chain, gate, transcript, accepted, voided, returned, clash, slow>>
    BY DEF RunEnds
<1>2. /\ pi' \in Agent /\ pi'.state = "idle" /\ pi'.cur = None
      /\ pi'.steer = pi.steer /\ pi'.follow = pi.follow
    BY <1>1 DEF HostTypes, Agent
<1>3. Queue(pi') = Queue(pi) /\ Queue(pi) \in Seq(Msgs)
    BY <1>2, QueueType DEF Queue, HostTypes
<1>4. HostTypes'
  <2>1. hidden' \in SUBSET Msgs
      BY <1>1 DEF HostTypes, Missing
  <2>2. turnStarted' \in BOOLEAN /\ mirror' \in Seq(Msgs)
      BY <1>1, EmptySeq DEF RunEnds
  <2> QED BY <1>1, <1>2, <2>1, <2>2 DEF HostTypes
<1>5. \A m \in Msgs : Found(m)' = Found(m)
    BY <1>1, <1>2, <1>3 DEF Found
<1>6. CopiesAccounted'
    BY <1>1, <1>5, SameFound
<1>7. MirrorKept'
  <2>1. \A m \in Msgs : Copies(m, <<>>) <= Copies(m, Queue(pi'))
      BY <1>3, CopiesOfNothing, Numbers
  <2> DEFINE p == pi'
             h == hidden'
  <2>2. p \in Agent /\ <<>> \in Seq(Msgs) /\ Missing(p, <<>>) \subseteq h
      BY <1>1, <1>2, EmptySeq DEF Missing, Queue
  <2>3. \A m \in Msgs : /\ Copies(m, <<>>) <= Copies(m, Queue(p))
                        /\ m \notin h => Copies(m, <<>>) = Copies(m, Queue(p))
    <3>1. \A m \in Msgs : Copies(m, <<>>) <= Copies(m, Queue(p))
        BY <2>1
    <3> HIDE DEF p, h
    <3> QED BY <2>2, <3>1, MirrorShows
  <2> HIDE DEF p, h
  <2> QED BY <1>1, <2>3 DEF MirrorKept, p, h
<1>8. Calm' /\ QuickIsSafe'
    BY <1>1, <1>2 DEF Calm, QuickIsSafe
<1> QED BY <1>4, <1>6, <1>7, <1>8

LEMMA StopKeeps ==
    ASSUME HostInd, Stop, pi.state = "running"
    PROVE  HostInd'
<1> USE DEF HostInd
<1>1. /\ returned' = AddAll(returned, mirror) /\ mirror' = <<>>
      /\ pi' = [pi EXCEPT !.steer = <<>>, !.follow = <<>>, !.state = "aborting"]
      /\ UNCHANGED <<chain, gate, turnStarted, transcript, accepted, voided, clash, slow, hidden>>
    BY DEF Stop, HostTypes, Agent
<1>2. <<>> \in Seq(Msgs)
    BY EmptySeq
<1>3. /\ pi' \in Agent /\ pi'.state = "aborting" /\ pi'.cur = pi.cur
      /\ pi'.steer = <<>> /\ pi'.follow = <<>>
    BY <1>1, <1>2 DEF HostTypes, Agent
<1>4. Queue(pi') = <<>>
    BY <1>2, <1>3, ConcatEmptySeq DEF Queue
<1>5. \A m \in Msgs : returned'[m] = returned[m] + Copies(m, mirror)
    BY <1>1 DEF AddAll
<1>6. HostTypes'
  <2>1. \A m \in Msgs : returned[m] + Copies(m, mirror) \in Nat
      BY Numbers
  <2>2. returned' \in [Msgs -> Nat]
      BY <1>1, <2>1 DEF AddAll
  <2> QED BY <1>1, <1>2, <1>3, <2>2 DEF HostTypes
<1>7. ASSUME NEW m \in Msgs PROVE Found(m)' = Found(m) - Copies(m, Queue(pi)) + Copies(m, mirror)
  <2>1. Found(m)' = Copies(m, chain) + 0 + (IF pi.cur = m THEN 1 ELSE 0)
                      + Copies(m, transcript) + voided[m] + returned'[m]
      BY <1>1, <1>3, <1>4, CopiesOfNothing DEF Found
  <2> QED BY <1>5, <2>1, Numbers DEF Found
<1>8. CopiesAccounted'
  <2> SUFFICES ASSUME NEW m \in Msgs
               PROVE  /\ Found(m)' <= accepted'[m]
                      /\ m \notin hidden' /\ pi'.state # "ended" => Found(m)' = accepted'[m]
      BY DEF CopiesAccounted
  <2>1. /\ Copies(m, mirror) <= Copies(m, Queue(pi))
        /\ m \notin hidden => Copies(m, mirror) = Copies(m, Queue(pi))
      BY DEF MirrorKept
  <2>2. Found(m) <= accepted[m] /\ (m \notin hidden => Found(m) = accepted[m])
      BY DEF CopiesAccounted
  <2> QED BY <1>1, <1>7, <2>1, <2>2, Numbers
<1>9. MirrorKept'
    BY <1>1, <1>4, CopiesOfNothing DEF MirrorKept
<1>10. Calm' /\ QuickIsSafe'
    BY <1>1, <1>3 DEF Calm, QuickIsSafe
<1> QED BY <1>6, <1>8, <1>9, <1>10

LEMMA EndsKeeps ==
    ASSUME HostInd, Ends
    PROVE  HostInd'
<1> USE DEF HostInd
<1>1. /\ pi' = [state |-> "ended", steer |-> <<>>, follow |-> <<>>, cur |-> None]
      /\ chain' = <<>> /\ mirror' = <<>> /\ gate' = "open" /\ ~turnStarted' /\ turnStarted' \in BOOLEAN
      /\ UNCHANGED <<transcript, accepted, voided, returned, clash, slow, hidden>>
    BY DEF Ends
<1>2. <<>> \in Seq(Msgs)
    BY EmptySeq
<1>3. pi' \in Agent /\ Queue(pi') = <<>>
    BY <1>1, <1>2, ConcatEmptySeq DEF Agent, Queue
<1>4. HostTypes'
    BY <1>1, <1>2, <1>3 DEF HostTypes
<1>5. ASSUME NEW m \in Msgs PROVE Found(m)' <= accepted'[m]
  <2>1. Found(m)' = 0 + 0 + 0 + Copies(m, transcript) + voided[m] + returned[m]
    <3>1. pi'.cur # m
        BY <1>1, NoneNew
    <3>2. Copies(m, chain') = 0 /\ Copies(m, Queue(pi')) = 0
        BY <1>1, <1>3, CopiesOfNothing
    <3>3. Found(m)' = Copies(m, chain') + Copies(m, Queue(pi')) + (IF pi'.cur = m THEN 1 ELSE 0)
                        + Copies(m, transcript) + voided[m] + returned[m]
        BY <1>1 DEF Found
    <3> QED BY <3>1, <3>2, <3>3
  <2>2. Found(m) <= accepted[m]
      BY DEF CopiesAccounted
  <2>3. Found(m) = Copies(m, chain) + Copies(m, Queue(pi)) + (IF pi.cur = m THEN 1 ELSE 0)
                     + Copies(m, transcript) + voided[m] + returned[m]
      BY DEF Found
  <2>4. Found(m)' <= Found(m) /\ Found(m)' \in Nat
      BY <2>1, <2>3, Numbers
  <2> QED BY <1>1, <2>2, <2>4, Numbers
<1>6. CopiesAccounted'
    BY <1>1, <1>5 DEF CopiesAccounted
<1>7. MirrorKept'
    BY <1>1, <1>3, CopiesOfNothing DEF MirrorKept
<1>8. Calm' /\ QuickIsSafe'
    BY <1>1 DEF Calm, QuickIsSafe
<1> QED BY <1>4, <1>6, <1>7, <1>8

LEMMA QueueDeleteKeeps ==
    ASSUME HostInd, QueueDelete
    PROVE  HostInd'
<1> USE DEF HostInd
<1>1. CASE /\ pi.state \in {"running", "aborting"} \/ Queue(pi) = <<>>
           /\ mirror' = Queue(pi)
           /\ UNCHANGED <<chain, gate, turnStarted, pi, transcript, accepted, voided, returned,
                          clash, slow, hidden>>
  <2>1. Queue(pi) \in Seq(Msgs) /\ \A m \in Msgs : Copies(m, Queue(pi)) \in Nat
      BY QueueType DEF HostTypes
  <2>2. HostTypes'
      BY <1>1, <2>1 DEF HostTypes
  <2>3. CopiesAccounted' /\ MirrorKept'
      BY <1>1, <2>1 DEF CopiesAccounted, Found, MirrorKept
  <2>4. Calm' /\ QuickIsSafe'
      BY <1>1 DEF Calm, QuickIsSafe
  <2> QED BY <2>2, <2>3, <2>4
<1>2. CASE /\ pi.state = "idle" /\ Len(Queue(pi)) = 1
           /\ pi' = [state |-> "restarting", steer |-> <<>>, follow |-> <<>>, cur |-> Head(Queue(pi))]
           /\ mirror' = <<>>
           /\ UNCHANGED <<chain, gate, turnStarted, transcript, accepted, voided, returned,
                          clash, slow, hidden>>
  <2> DEFINE q == Queue(pi)
  <2>1. q \in Seq(Msgs) /\ <<>> \in Seq(Msgs)
      BY QueueType, EmptySeq DEF HostTypes
  <2> HIDE DEF q
  <2>2. q # <<>> /\ Head(q) \in Msgs /\ Tail(q) = <<>>
    <3>1. Len(q) = 1 /\ q # <<>>
        BY <1>2, <2>1 DEF q
    <3>2. Head(q) \in Msgs /\ Tail(q) \in Seq(Msgs) /\ Len(Tail(q)) = 0
        BY <2>1, <3>1, HeadTailProperties
    <3> QED BY <3>1, <3>2, EmptySeq
  <2>3. pi' \in Agent /\ pi'.cur = Head(q) /\ Queue(pi') = <<>>
      BY <1>2, <2>1, <2>2, ConcatEmptySeq DEF Agent, Queue, q
  <2>4. HostTypes'
      BY <1>2, <2>1, <2>3 DEF HostTypes
  <2>5. ASSUME NEW m \in Msgs PROVE Found(m)' = Found(m)
    <3>1. Copies(m, q) = (IF Head(q) = m THEN 1 ELSE 0)
      <4>1. Copies(m, q) = Copies(m, Tail(q)) + (IF Head(q) = m THEN 1 ELSE 0)
          BY <2>1, <2>2, CopiesOfTail
      <4>2. Copies(m, Tail(q)) = 0
          BY <2>2, CopiesOfNothing
      <4> QED BY <4>1, <4>2
    <3>2. Found(m)' = Copies(m, chain) + 0 + (IF Head(q) = m THEN 1 ELSE 0)
                        + Copies(m, transcript) + voided[m] + returned[m]
        BY <1>2, <2>3, CopiesOfNothing DEF Found
    <3>3. pi.cur # m
        BY <1>2, NoneNew DEF Calm
    <3> QED BY <3>1, <3>2, <3>3, Numbers DEF Found, q
  <2>6. CopiesAccounted'
      BY <1>2, <2>5, SameFound
  <2>7. MirrorKept'
      BY <1>2, <2>3, CopiesOfNothing DEF MirrorKept
  <2>8. Calm' /\ QuickIsSafe'
      BY <1>2, <2>2, <2>3 DEF Calm, QuickIsSafe
  <2> QED BY <2>4, <2>6, <2>7, <2>8
<1> QED BY <1>1, <1>2, EndsKeeps DEF QueueDelete

\* What the machine does on its own.
HostStep ==
    \/ Send \/ GateOpens \/ GateExpires \/ StartFails \/ MessageStart \/ Dequeue
    \/ MessageEnd \/ RunEnds
    \/ RestartFails \/ QueueDelete
    \/ \E m \in Msgs : Submit(m)
    \/ Stop /\ pi.state = "running"

LEMMA HostKeeps ==
    ASSUME HostInd, HostStep \/ UNCHANGED host
    PROVE  HostInd'
BY HostStutters, SendKeeps, GateKeeps, StartFailsKeeps, MessageStartKeeps, DequeueKeeps,
   MessageEndKeeps, RunEndsKeeps, SubmitKeeps, QueueDeleteKeeps, EndsKeeps, StopKeeps
   DEF HostStep, RestartFails

\* The session file only grows.
LEMMA Recorded ==
    ASSUME HostTypes, HostTypes', HostStep \/ UNCHANGED host
    PROVE  ToSet(transcript) \subseteq ToSet(transcript')
<1>1. CASE MessageEnd
  <2>1. transcript' = Append(transcript, pi.cur)
      BY <1>1 DEF MessageEnd
  <2>2. transcript \in Seq(Msgs)
      BY DEF HostTypes
  <2> QED BY <2>1, <2>2 DEF ToSet
<1>2. CASE transcript' = transcript
    BY <1>2
<1>3. MessageEnd \/ transcript' = transcript
    BY DEF HostStep, host, Send, GateOpens, GateExpires, StartFails, MessageStart, Dequeue,
       RunEnds, Submit, QueueDelete, RestartFails, Ends, Stop
<1> QED BY <1>1, <1>2, <1>3

-----------------------------------------------------------------------------
(* The app's side.                                                         *)

AppTypes ==
    /\ direct \in BOOLEAN /\ up \in BOOLEAN /\ resync \in BOOLEAN /\ news \in BOOLEAN
    /\ {tracked, seen, failed, parked, composer, known, sent} \subseteq SUBSET Msgs
    /\ outbox \in Seq(Msgs) /\ parking \in Seq(Msgs)
    /\ posts \in [Msgs -> 0 .. MaxCopies]
    /\ events \in 0 .. MaxEvents /\ resent \in SUBSET Msgs

\* What the app has seen of the transcript is in it, and what an earlier stop
\* handed back has been taken by the time another hands something back.
WordsKept ==
    /\ NothingVanishes
    /\ known \subseteq ToSet(transcript)
    /\ parking # <<>> => parked = {}

Ind == HostInd /\ AppTypes /\ WordsKept

LEMMA Initially ==
    ASSUME Init
    PROVE  Ind
<1>1. HostInd
    BY HostInitially DEF Init
<1>2. AppTypes
  <2>1. posts \in [Msgs -> 0 .. MaxCopies] /\ events \in 0 .. MaxEvents
      BY CopiesBound, EventBound DEF Init, NoCopies
  <2>2. direct \in BOOLEAN /\ up \in BOOLEAN /\ resync \in BOOLEAN /\ news \in BOOLEAN
      BY DEF Init
  <2>3. outbox \in Seq(Msgs) /\ parking \in Seq(Msgs)
      BY EmptySeq DEF Init
  <2>4. {tracked, seen, failed, parked, composer, known, sent} \subseteq SUBSET Msgs /\ resent \in SUBSET Msgs
      BY DEF Init
  <2> QED BY <2>1, <2>2, <2>3, <2>4 DEF AppTypes
<1>3. WordsKept
    BY DEF Init, WordsKept, NothingVanishes
<1> QED BY <1>1, <1>2, <1>3 DEF Ind

\* Where there is room for a message, its copies keep their bound.
LEMMA RoomBounds ==
    ASSUME HostTypes, NEW f \in [Msgs -> Nat], Room(f)
    PROVE  f \in [Msgs -> 0 .. MaxCopies]
<1>1. ASSUME NEW m \in Msgs PROVE f[m] \in 0 .. MaxCopies
  <2>1. f[m] \in Nat /\ accepted[m] \in Nat /\ f[m] + accepted[m] <= MaxCopies
      BY Numbers DEF Room
  <2> QED BY <2>1, CopiesBound
<1> QED BY <1>1

LEMMA GoesKeeps ==
    ASSUME HostTypes, AppTypes, NEW m \in Msgs, Goes(m)
    PROVE  posts' \in [Msgs -> 0 .. MaxCopies] /\ outbox' \in Seq(Msgs)
<1>1. CASE up
  <2>1. posts' = Add(posts, m) /\ Room(posts') /\ outbox' = outbox
      BY <1>1 DEF Goes
  <2>2. posts' \in [Msgs -> Nat]
      BY <2>1, CopiesBound DEF Add, AppTypes
  <2>3. posts' \in [Msgs -> 0 .. MaxCopies]
      BY <2>1, <2>2, RoomBounds
  <2> QED BY <2>1, <2>3 DEF AppTypes
<1>2. CASE ~up
  <2>1. outbox' = Append(outbox, m) /\ posts' = posts
      BY <1>2 DEF Goes
  <2> QED BY <2>1 DEF AppTypes
<1> QED BY <1>1, <1>2

\* An action of the app that leaves the machine alone.
LEMMA AppOnly ==
    ASSUME Ind, UNCHANGED host
    PROVE  HostInd' /\ HostTypes /\ transcript' = transcript /\ mirror' = mirror
BY HostStutters DEF Ind, HostInd, host

LEMMA SendMessageKeeps ==
    ASSUME Ind, NEW m \in Msgs, SendMessage(m)
    PROVE  Ind'
<1>1. HostInd' /\ HostTypes /\ transcript' = transcript
    BY AppOnly DEF SendMessage
<1>2. AppTypes'
    BY <1>1, GoesKeeps DEF Ind, AppTypes, SendMessage
<1>3. WordsKept'
    BY <1>1 DEF Ind, WordsKept, NothingVanishes, SendMessage
<1> QED BY <1>1, <1>2, <1>3 DEF Ind

LEMMA ResendKeeps ==
    ASSUME Ind, NEW m \in Msgs, ResendOutgoing(m)
    PROVE  Ind'
<1>1. HostInd' /\ HostTypes /\ transcript' = transcript
    BY AppOnly DEF ResendOutgoing
<1>2. AppTypes'
  <2>1. events' \in 0 .. MaxEvents
      BY EventBound DEF Ind, AppTypes, ResendOutgoing, Event
  <2> QED BY <1>1, <2>1, GoesKeeps DEF Ind, AppTypes, ResendOutgoing
<1>3. WordsKept'
    BY <1>1 DEF Ind, WordsKept, NothingVanishes, ResendOutgoing
<1> QED BY <1>1, <1>2, <1>3 DEF Ind

LEMMA AnsweredKeeps ==
    ASSUME AppTypes, NEW m \in Msgs, posts[m] > 0, Answered(m)
    PROVE  posts' \in [Msgs -> 0 .. MaxCopies]
BY CopiesBound DEF AppTypes, Answered

LEMMA ArrivesKeeps ==
    ASSUME Ind, NEW m \in Msgs, Arrives(m)
    PROVE  Ind'
<1>1. HostInd' /\ transcript' = transcript
    BY SubmitKeeps DEF Ind, Arrives, Submit
<1>2. AppTypes'
  <2>1. failed' \in SUBSET Msgs
      BY DEF Ind, AppTypes, Arrives
  <2> QED BY <2>1, AnsweredKeeps DEF Ind, AppTypes, Arrives
<1>3. WordsKept'
    BY <1>1 DEF Ind, WordsKept, NothingVanishes, Arrives
<1> QED BY <1>1, <1>2, <1>3 DEF Ind

LEMMA RefusedKeeps ==
    ASSUME Ind, NEW m \in Msgs, Refused(m)
    PROVE  Ind'
<1>1. HostInd' /\ transcript' = transcript
    BY AppOnly DEF Refused
<1>2. AppTypes'
    BY AnsweredKeeps DEF Ind, AppTypes, Refused
<1>3. WordsKept'
    BY <1>1 DEF Ind, WordsKept, NothingVanishes, Refused
<1> QED BY <1>1, <1>2, <1>3 DEF Ind

LEMMA ApplyStateKeeps ==
    ASSUME Ind, ApplyState
    PROVE  Ind'
<1>1. HostInd' /\ transcript' = transcript
    BY AppOnly DEF ApplyState
<1>2. AppTypes'
    BY DEF Ind, AppTypes, ApplyState, MarkQueued
<1>3. WordsKept'
    BY <1>1 DEF Ind, WordsKept, NothingVanishes, ApplyState, MarkQueued
<1> QED BY <1>1, <1>2, <1>3 DEF Ind

LEMMA ApplyHistoryKeeps ==
    ASSUME Ind, ApplyHistory
    PROVE  Ind'
<1>1. HostInd' /\ HostTypes /\ transcript' = transcript
    BY AppOnly DEF ApplyHistory
<1>2. ToSet(transcript) \subseteq Msgs
    BY <1>1, LenProperties DEF HostTypes, ToSet
<1>3. AppTypes'
    BY <1>2 DEF Ind, AppTypes, ApplyHistory, Reconcile
<1>4. WordsKept'
    BY <1>1 DEF Ind, WordsKept, NothingVanishes, ApplyHistory, Reconcile
<1> QED BY <1>1, <1>3, <1>4 DEF Ind

LEMMA CancelKeeps ==
    ASSUME Ind, Cancel
    PROVE  Ind'
<1>1. HostInd'
    BY StopKeeps DEF Ind, Cancel
<1>2. AppTypes'
  <2>1. events' \in 0 .. MaxEvents
      BY EventBound DEF Ind, AppTypes, Cancel, Event
  <2> QED BY <2>1 DEF Ind, HostInd, HostTypes, AppTypes, Cancel
<1>3. WordsKept'
    BY DEF Ind, WordsKept, NothingVanishes, Cancel, Stop
<1> QED BY <1>1, <1>2, <1>3 DEF Ind

LEMMA QueueParkedKeeps ==
    ASSUME Ind, QueueParked
    PROVE  Ind'
<1>1. HostInd' /\ transcript' = transcript
    BY AppOnly DEF QueueParked
<1>2. ToSet(parking) \subseteq Msgs
    BY LenProperties DEF Ind, AppTypes, ToSet
<1>3. AppTypes'
    BY <1>2, EmptySeq DEF Ind, AppTypes, QueueParked, Reconcile
<1>4. WordsKept'
    BY <1>1 DEF Ind, WordsKept, NothingVanishes, QueueParked, Reconcile
<1> QED BY <1>1, <1>3, <1>4 DEF Ind

LEMMA TakeParkedKeeps ==
    ASSUME Ind, TakeParked
    PROVE  Ind'
<1>1. HostInd' /\ transcript' = transcript
    BY AppOnly DEF TakeParked
<1>2. AppTypes'
    BY DEF Ind, AppTypes, TakeParked
<1>3. WordsKept'
    BY <1>1 DEF Ind, WordsKept, NothingVanishes, TakeParked
<1> QED BY <1>1, <1>2, <1>3 DEF Ind

LEMMA LinkDropsKeeps ==
    ASSUME Ind, LinkDrops
    PROVE  Ind'
<1>1. HostInd' /\ transcript' = transcript
    BY AppOnly DEF LinkDrops
<1>2. AppTypes'
  <2>1. events' \in 0 .. MaxEvents
      BY EventBound DEF Ind, AppTypes, LinkDrops, Event
  <2>2. posts' \in [Msgs -> 0 .. MaxCopies]
      BY CopiesBound DEF Ind, AppTypes, LinkDrops, NoCopies
  <2> QED BY <2>1, <2>2 DEF Ind, AppTypes, LinkDrops
<1>3. WordsKept'
    BY <1>1 DEF Ind, WordsKept, NothingVanishes, LinkDrops
<1> QED BY <1>1, <1>2, <1>3 DEF Ind

LEMMA ReconnectKeeps ==
    ASSUME Ind, Reconnect
    PROVE  Ind'
<1>1. HostInd' /\ HostTypes /\ transcript' = transcript
    BY AppOnly DEF Reconnect
<1> DEFINE now == seen \cup (ToSet(mirror) \cap tracked)
           all == Plus(AddAll(posts, outbox), Once(Unconfirmed(now)))
<1>2. /\ up' /\ ~resync' /\ outbox' = <<>> /\ posts' = all /\ Room(posts') /\ seen' = now
      /\ UNCHANGED <<direct, tracked, failed, news, parking, parked, composer, known, sent, events, resent>>
    BY DEF Reconnect
<1>3. now \in SUBSET Msgs
    BY DEF Ind, AppTypes
<1>4. \A m \in Msgs : posts[m] + Copies(m, outbox) \in Nat
    BY PlacesFinite, CopiesBound DEF Ind, AppTypes
<1> HIDE DEF now
<1>5. all \in [Msgs -> Nat]
    BY <1>4 DEF Plus, AddAll, Once
<1> HIDE DEF all
<1>6. posts' \in [Msgs -> 0 .. MaxCopies]
    BY <1>1, <1>2, <1>5, RoomBounds, AppOnly DEF Reconnect, Room, host
<1>7. AppTypes'
  <2>1. up' \in BOOLEAN /\ resync' \in BOOLEAN
      BY DEF Reconnect
  <2> QED BY <1>2, <1>3, <1>6, <2>1, EmptySeq DEF Ind, AppTypes
<1>8. WordsKept'
    BY <1>1, <1>2 DEF Ind, WordsKept, NothingVanishes
<1> QED BY <1>1, <1>7, <1>8 DEF Ind

\* A step of the machine: the app may be told that there is news.
LEMMA MachineKeeps ==
    ASSUME Ind, Machine \/ Deletion
    PROVE  Ind'
<1>1. HostStep
    BY DEF Machine, Deletion, HostStep
<1>2. HostInd'
    BY <1>1, HostKeeps DEF Ind
<1>3. ToSet(transcript) \subseteq ToSet(transcript')
    BY <1>1, <1>2, Recorded DEF Ind, HostInd
<1>4. /\ news' \in BOOLEAN /\ events' \in 0 .. MaxEvents
      /\ UNCHANGED <<direct, up, resync, tracked, seen, failed, outbox, posts, parking, parked,
                     composer, known, sent, resent>>
    BY EventBound DEF Ind, AppTypes, Machine, Deletion, Event, Quiet, Pushes, app
<1>5. AppTypes'
    BY <1>4 DEF Ind, AppTypes
<1>6. WordsKept'
    BY <1>3, <1>4 DEF Ind, WordsKept, NothingVanishes
<1> QED BY <1>2, <1>5, <1>6 DEF Ind

LEMMA StepKeeps ==
    ASSUME Ind, [Next]_vars
    PROVE  Ind'
<1>1. CASE UNCHANGED vars
  <2>1. HostInd'
      BY <1>1, HostStutters DEF Ind, vars, host
  <2> QED BY <1>1, <2>1 DEF Ind, vars, app, host, AppTypes, WordsKept, NothingVanishes
<1> QED BY <1>1, SendMessageKeeps, ResendKeeps, ArrivesKeeps, RefusedKeeps, ApplyStateKeeps,
           ApplyHistoryKeeps, CancelKeeps, QueueParkedKeeps, TakeParkedKeeps, LinkDropsKeeps,
           ReconnectKeeps, MachineKeeps DEF Next

-----------------------------------------------------------------------------
(* The theorems.                                                           *)

LEMMA Always == Spec => []Ind
BY Initially, StepKeeps, PTL DEF Spec

\* Nothing the user wrote vanishes from their eyes (agent_service.dart,
\* outgoing_queue.dart): at every moment it is a bubble on its way, in the
\* transcript, handed back or in the composer.
THEOREM WordsNeverVanish == Spec => []NothingVanishes
<1>1. Ind => NothingVanishes
    BY DEF Ind, WordsKept
<1> QED BY <1>1, Always, PTL

\* No copy of a message is doubled on the machine; none is lost but what a stop took
\* out of the agent's queue while the mirror did not show it, or what the process
\* held when a rejected prompt of a deletion ended it; and a prompt clashes with the
\* submitted one before only if that one outlasted the gate (session-submit.ts,
\* submit.ts, session-command-handler.ts).  Either order of the agent's reports.
THEOREM EveryCopyAccounted == Spec => []MessagesAreSound
<1>1. Ind => MessagesAreSound
  <2> SUFFICES ASSUME Ind PROVE MessagesAreSound
      OBVIOUS
  <2>1. HostTypeOK /\ CopiesAccounted /\ QuickIsSafe
      BY Bounded DEF Ind, HostInd
  <2>2. TypeOK
      BY <2>1 DEF TypeOK, Ind, AppTypes
  <2> QED BY <2>1, <2>2 DEF MessagesAreSound
<1> QED BY <1>1, Always, PTL

=============================================================================
