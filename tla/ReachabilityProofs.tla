------------------------- MODULE ReachabilityProofs -------------------------
(***************************************************************************)
(* Proofs about the two ways in which a machine is reached, and about whom *)
(* its server lets in.                                                     *)
(*                                                                         *)
(* Reachability, the tunnel, for any number of starts: while the host      *)
(* alone starts tunnels, every live process is a start under way or the    *)
(* server's tunnel.  A step begins a start, settles one, or is calm; each  *)
(* of these keeps the exclusion on which the owner of a process rests.     *)
(*                                                                         *)
(* DirectLink, for any number of exchanges, of payloads and of frames a    *)
(* payload takes: the frames under way are the frames of what was said and *)
(* has not been read, one after the other, so what has been read is what   *)
(* was said.                                                               *)
(*                                                                         *)
(* Admission, for any number of sockets and any caps: a step gives one     *)
(* socket a new record (OneSocketMoves) or several at once without         *)
(* touching a verification (ManySocketsMove); one lemma per action says    *)
(* which, and that each new record is sound.                               *)
(***************************************************************************)
EXTENDS Reachability, DirectLink, Admission, FiniteSetTheorems, SequenceTheorems, WellFoundedInduction, TLAPS

\* What is so of a slot.
SlotIsSound(r) == /\ r \in Attempt
                  /\ r.stage = "none" => r.by = "nobody" /\ r.alive = FALSE
                  /\ r.stage = "proving" => r.url # None

\* No process.
Dead(r) == r.alive = FALSE

\* The types of what a step makes of the tunnels.
TunnelIsSound ==
    /\ \A i \in Starts : SlotIsSound(start'[i])
    /\ start' = [i \in Starts |-> start'[i]]
    /\ tracked' \in SUBSET Starts /\ tunnel' \in Starts \cup {None}
    /\ tunnelUrl' \in Names /\ stopped' \in BOOLEAN

\* x stays as far as it was, and at most its process ends.
Stays(x, y) == /\ y.by = x.by /\ (Dead(x) => Dead(y))
               /\ y.stage = "none" <=> x.stage = "none"
               /\ y.stage = "done" <=> x.stage = "done"

\* A step neither begins nor settles a start.
CalmTunnel ==
    /\ TunnelIsSound
    /\ \A i \in Starts : Stays(start[i], start'[i])
    /\ \/ tunnel' = tunnel /\ stopped' = stopped
       \/ OneAtATime => \A i \in Starts : start'[i].stage = "done" => Dead(start'[i])

\* Start i settles.
SettlesOne(i) ==
    /\ TunnelIsSound /\ i \in Pending /\ stopped' = stopped
    /\ start'[i].stage = "done" /\ start'[i].by = start[i].by
    /\ ~Dead(start'[i]) => tunnel' = i /\ stopped' = FALSE
    /\ \A j \in Starts : j # i => start'[j] = start[j]

\* Start i begins, and its owner has ended the tunnel there was.
BeginsOne(i, by) ==
    /\ TunnelIsSound /\ i \in Unused /\ stopped' = stopped
    /\ start'[i].stage \in {"trying", "done"} /\ start'[i].by = by
    /\ start'[i].stage = "done" /\ ~Dead(start'[i]) => tunnel' = i /\ stopped' = FALSE
    /\ \A j \in Starts : j # i =>
          /\ Stays(start[j], start'[j])
          /\ by # "first" /\ j = tunnel => Dead(start'[j])

-----------------------------------------------------------------------------
(* The helpers.                                                            *)

\* Names and slots are numbers, and no slot is None.
LEMMA Numbers ==
    /\ \A i \in Starts : i # None /\ i \in Names
    /\ \A i \in Starts : First(i) \in Names \ {None} /\ Moved(i) \in Names \ {None}
    /\ None \in Names
  BY StartBound DEF Starts, None, First, Moved, Names

\* The state as an inductive hypothesis gives it.
LEMMA SoundState ==
    ASSUME TypeOK, SlotsAreSound
    PROVE  /\ \A i \in Starts : SlotIsSound(start[i])
           /\ start \in [Starts -> Attempt]
           /\ tracked \in SUBSET Starts /\ tunnel \in Starts \cup {None}
           /\ tunnelUrl \in Names /\ stopped \in BOOLEAN
  <1>1. start \in [Starts -> Attempt]
    BY DEF TypeOK, TunnelTypeOK
  <1>2. ASSUME NEW i \in Starts
        PROVE  SlotIsSound(start[i])
    <2>1. start[i] \in Attempt /\ start[i].alive \in BOOLEAN
      BY <1>1 DEF Attempt
    <2>. QED
      BY <2>1 DEF SlotsAreSound, SlotIsSound
  <1>. QED
    BY <1>1, <1>2 DEF TypeOK, TunnelTypeOK

\* A step that is sound in this sense keeps the types and the slots.
LEMMA SoundStep ==
    ASSUME TunnelIsSound
    PROVE  TunnelTypeOK' /\ SlotsAreSound'
  BY DEF TunnelIsSound, SlotIsSound, TunnelTypeOK, SlotsAreSound

\* A killed process is dead, and nothing else changes.
LEMMA KillIs ==
    ASSUME NEW s \in [Starts -> Attempt], NEW K, NEW i \in Starts
    PROVE  /\ Kill(s, K)[i] \in Attempt
           /\ Kill(s, K)[i].stage = s[i].stage /\ Kill(s, K)[i].by = s[i].by
           /\ Kill(s, K)[i].url = s[i].url
           /\ i \notin K => Kill(s, K)[i] = s[i]
  <1>. DEFINE k == [s[i] EXCEPT !.alive = FALSE]
  <1>1. /\ k \in Attempt /\ k.stage = s[i].stage /\ k.by = s[i].by /\ k.url = s[i].url
    BY DEF Attempt
  <1>2. Kill(s, K)[i] = IF i \in K THEN k ELSE s[i]
    BY DEF Kill
  <1>3. s[i] \in Attempt
    OBVIOUS
  <1>. HIDE DEF k
  <1>. QED
    BY <1>1, <1>2, <1>3

\* Its process is not there any more.
LEMMA KillEnds ==
    ASSUME NEW s \in [Starts -> Attempt], NEW K, NEW i \in Starts, i \in K
    PROVE  Dead(Kill(s, K)[i])
  <1>1. Kill(s, K)[i] = [s[i] EXCEPT !.alive = FALSE]
    BY DEF Kill
  <1>. QED
    BY <1>1 DEF Attempt, Dead

\* And so it is a function of the slots.
LEMMA KillType ==
    ASSUME NEW s \in [Starts -> Attempt], NEW K
    PROVE  Kill(s, K) \in [Starts -> Attempt]
  <1>1. \A i \in Starts : Kill(s, K)[i] \in Attempt
    BY KillIs
  <1>2. Kill(s, K) = [i \in Starts |-> Kill(s, K)[i]]
    BY DEF Kill
  <1>. QED
    BY <1>1, <1>2

\* One start is killed.
LEMMA KillOne ==
    ASSUME NEW s \in [Starts -> Attempt], NEW i \in Starts
    PROVE  /\ Kill(s, {i}) \in [Starts -> Attempt]
           /\ Kill(s, {i})[i].stage = s[i].stage /\ Kill(s, {i})[i].by = s[i].by
           /\ Kill(s, {i})[i].url = s[i].url /\ Kill(s, {i})[i].alive = FALSE
           /\ \A j \in Starts : j # i => Kill(s, {i})[j] = s[j]
  <1>1. PICK K : K = {i}
    OBVIOUS
  <1>2. Kill(s, K) \in [Starts -> Attempt]
    BY KillType
  <1>3. /\ Kill(s, K)[i].stage = s[i].stage /\ Kill(s, K)[i].by = s[i].by
        /\ Kill(s, K)[i].url = s[i].url
    BY KillIs
  <1>4. Kill(s, K)[i].alive = FALSE
    BY <1>1, KillEnds DEF Dead
  <1>5. \A j \in Starts : j \notin K => Kill(s, K)[j] = s[j]
    BY KillIs
  <1>. QED
    BY <1>1, <1>2, <1>3, <1>4, <1>5

\* A slot that loses its process is as sound as it was.
LEMMA KilledIsSound ==
    ASSUME NEW x, NEW y, SlotIsSound(x), y \in Attempt, y.stage = x.stage, y.by = x.by,
           y.url = x.url, Dead(y)
    PROVE  SlotIsSound(y) /\ Stays(x, y)
  BY DEF SlotIsSound, Stays, Attempt, Dead

\* A result is adopted, or ended with the server it came too late for.
LEMMA AdoptSettles ==
    ASSUME TypeOK, SlotsAreSound, NEW i \in Pending, NEW s \in [Starts -> Attempt],
           NEW name \in Names, Adopt(i, s, name), stopped' = stopped,
           s[i].by = start[i].by, name = None => s[i].alive = FALSE,
           \A j \in Starts : j # i => s[j] = start[j]
    PROVE  SettlesOne(i)
  <1>. DEFINE r == [s[i] EXCEPT !.stage = "done"]
              done == [s EXCEPT ![i] = r]
  <1>1. i \in Starts /\ s[i] \in Attempt
    BY DEF Pending
  <1>2. r \in Attempt /\ r.stage = "done" /\ r.by = start[i].by /\ r.alive = s[i].alive
    BY <1>1 DEF Attempt
  <1>3. /\ stopped = TRUE => /\ start' = Kill(done, {i})
                             /\ tunnel' = None /\ UNCHANGED <<tunnelUrl, tracked>>
        /\ stopped = FALSE => /\ start' = done
                              /\ tunnel' = IF name = None THEN None ELSE i
                              /\ tunnelUrl' = name /\ tracked' = {}
    BY <1>1 DEF Adopt
  <1>. HIDE DEF r
  <1>4. /\ done \in [Starts -> Attempt] /\ done[i] = r
        /\ \A j \in Starts : j # i => done[j] = start[j]
    BY <1>1, <1>2
  <1>. HIDE DEF done
  <1>5. /\ \A j \in Starts : SlotIsSound(start[j])
        /\ tracked \in SUBSET Starts /\ tunnelUrl \in Names /\ stopped \in BOOLEAN
    BY SoundState
  <1>6. SlotIsSound(r)
    BY <1>2 DEF SlotIsSound
  <1>7. CASE stopped = TRUE
    <2>. DEFINE f == Kill(done, {i})
    <2>1. /\ f \in [Starts -> Attempt] /\ f[i].stage = r.stage /\ f[i].by = r.by
          /\ f[i].alive = FALSE /\ f[i].url = r.url
          /\ \A j \in Starts : j # i => f[j] = done[j]
      BY <1>1, <1>4, KillOne
    <2>2. start' = f /\ tunnel' = None /\ UNCHANGED <<tunnelUrl, tracked>>
      BY <1>3, <1>7
    <2>. HIDE DEF f
    <2>3. SlotIsSound(f[i])
      BY <1>1, <1>2, <1>6, <2>1 DEF SlotIsSound
    <2>4. \A j \in Starts : SlotIsSound(start'[j])
      BY <1>4, <1>5, <2>1, <2>2, <2>3
    <2>5. TunnelIsSound
      BY <1>5, <1>7, <2>1, <2>2, <2>4 DEF TunnelIsSound
    <2>. QED
      BY <1>1, <1>2, <1>4, <2>1, <2>2, <2>5 DEF SettlesOne, Dead
  <1>8. CASE stopped = FALSE
    <2>1. /\ start' = done /\ tunnel' = IF name = None THEN None ELSE i
          /\ tunnelUrl' = name /\ tracked' = {}
      BY <1>3, <1>8
    <2>2. \A j \in Starts : SlotIsSound(start'[j])
      BY <1>4, <1>5, <1>6, <2>1
    <2>3. TunnelIsSound
      BY <1>1, <1>4, <1>5, <1>8, <2>1, <2>2 DEF TunnelIsSound
    <2>. QED
      BY <1>1, <1>2, <1>4, <1>8, <2>1, <2>3 DEF SettlesOne, Dead
  <1>. QED
    BY <1>5, <1>7, <1>8

\* The steps with which a start settles.
LEMMA StartSettles ==
    ASSUME TypeOK, SlotsAreSound, NEW i \in Starts,
           NgrokAccepts(i) \/ Proved(i) \/ GivesUp(i)
    PROVE  SettlesOne(i)
  <1>1. /\ start \in [Starts -> Attempt] /\ SlotIsSound(start[i])
        /\ stopped' = stopped
    BY SoundState DEF NgrokAccepts, Proved, GivesUp
  <1>2. i \in Pending
    BY DEF NgrokAccepts, Proved, GivesUp, Pending
  <1>3. ASSUME Failed(i)
        PROVE  SettlesOne(i)
    <2>. DEFINE s == Kill(start, {i})
    <2>1. /\ s \in [Starts -> Attempt] /\ s[i].by = start[i].by /\ s[i].alive = FALSE
          /\ \A j \in Starts : j # i => s[j] = start[j]
      BY <1>1, KillOne
    <2>2. Adopt(i, s, None)
      BY <1>3 DEF Failed
    <2>. HIDE DEF s
    <2>. QED
      BY <1>1, <1>2, <2>1, <2>2, Numbers, AdoptSettles
  <1>4. CASE NgrokAccepts(i)
    <2>. DEFINE r == [start[i] EXCEPT !.url = First(i)]
                s == [start EXCEPT ![i] = r]
    <2>1. Adopt(i, s, First(i))
      BY <1>1, <1>4 DEF NgrokAccepts
    <2>2. r \in Attempt /\ r.by = start[i].by
      BY <1>1, Numbers DEF Attempt
    <2>. HIDE DEF r
    <2>3. /\ s \in [Starts -> Attempt] /\ s[i].by = start[i].by
          /\ \A j \in Starts : j # i => s[j] = start[j]
      BY <1>1, <2>2
    <2>. HIDE DEF s
    <2>. QED
      BY <1>1, <1>2, <2>1, <2>3, Numbers, AdoptSettles
  <1>5. CASE Proved(i)
    <2>1. CASE start[i].abandoned
      BY <1>3, <1>5, <2>1 DEF Proved, Succeeded
    <2>2. CASE ~start[i].abandoned
      <3>1. Adopt(i, start, start[i].url) /\ start[i].stage = "proving"
        BY <1>5, <2>2 DEF Proved, Succeeded
      <3>2. start[i].url \in Names /\ start[i].url # None
        BY <1>1, <3>1 DEF SlotIsSound, Attempt
      <3>. QED
        BY <1>1, <1>2, <3>1, <3>2, AdoptSettles
    <2>. QED
      BY <2>1, <2>2
  <1>6. CASE GivesUp(i)
    BY <1>3, <1>6 DEF GivesUp
  <1>. QED
    BY <1>4, <1>5, <1>6

-----------------------------------------------------------------------------
(* A start begins.                                                         *)

\* What a restart leaves of the tunnel there was; the first start leaves it.
LEMMA OwnerEndsIt ==
    ASSUME TypeOK, SlotsAreSound, NEW by, NEW base,
           base = IF by = "first" THEN start ELSE Kill(start, {tunnel})
    PROVE  /\ base \in [Starts -> Attempt]
           /\ \A j \in Starts : /\ SlotIsSound(base[j]) /\ Stays(start[j], base[j])
                                /\ by # "first" /\ j = tunnel => Dead(base[j])
  <1>1. /\ start \in [Starts -> Attempt] /\ \A j \in Starts : SlotIsSound(start[j])
    BY SoundState
  <1>2. \A j \in Starts : Stays(start[j], start[j])
    BY DEF Stays
  <1>3. CASE by = "first"
    BY <1>1, <1>2, <1>3
  <1>4. CASE by # "first"
    <2>1. PICK K : K = {tunnel}
      OBVIOUS
    <2>2. base = Kill(start, K)
      BY <1>4, <2>1
    <2>3. base \in [Starts -> Attempt]
      BY <1>1, <2>2, KillType
    <2>4. ASSUME NEW j \in Starts
          PROVE  /\ SlotIsSound(base[j]) /\ Stays(start[j], base[j])
                 /\ by # "first" /\ j = tunnel => Dead(base[j])
      <3>1. CASE j \notin K
        <4>1. base[j] = start[j]
          BY <1>1, <2>2, <3>1, KillIs
        <4>. QED
          BY <1>1, <1>2, <2>1, <3>1, <4>1
      <3>2. CASE j \in K
        <4>1. /\ base[j] \in Attempt /\ base[j].stage = start[j].stage
              /\ base[j].by = start[j].by /\ base[j].url = start[j].url
          BY <1>1, <2>2, KillIs
        <4>2. Dead(base[j])
          BY <1>1, <2>2, <3>2, KillEnds
        <4>. QED
          BY <1>1, <4>1, <4>2, KilledIsSound
      <3>. QED
        BY <3>1, <3>2
    <2>. QED
      BY <2>3, <2>4
  <1>. QED
    BY <1>3, <1>4

\* The slot that begins, beside the others.
LEMMA BeginsIs ==
    ASSUME TypeOK, SlotsAreSound, NEW by, NEW base, NEW i \in Unused, NEW r,
           base \in [Starts -> Attempt],
           \A j \in Starts : /\ SlotIsSound(base[j]) /\ Stays(start[j], base[j])
                             /\ by # "first" /\ j = tunnel => Dead(base[j]),
           start' \in [Starts -> Attempt], start'[i] = r,
           \A j \in Starts : j # i => start'[j] = base[j],
           SlotIsSound(r), r.by = by, r.stage \in {"trying", "done"},
           r.stage = "done" /\ ~Dead(r) => tunnel' = i /\ stopped = FALSE,
           stopped' = stopped, tracked' \in SUBSET Starts,
           tunnel' \in Starts \cup {None}, tunnelUrl' \in Names
    PROVE  BeginsOne(i, by)
  <1>1. i \in Starts
    BY DEF Unused
  <1>2. \A j \in Starts : SlotIsSound(start'[j])
    BY <1>1
  <1>3. stopped' \in BOOLEAN
    BY DEF TypeOK, TunnelTypeOK
  <1>4. start' = [j \in Starts |-> start'[j]]
    OBVIOUS
  <1>5. TunnelIsSound
    BY <1>2, <1>3, <1>4, Zenon DEF TunnelIsSound
  <1>6. \A j \in Starts : j # i =>
          /\ Stays(start[j], start'[j])
          /\ by # "first" /\ j = tunnel => Dead(start'[j])
    OBVIOUS
  <1>7. r \in Attempt
    BY DEF SlotIsSound
  <1>. QED
    BY <1>1, <1>5, <1>6 DEF BeginsOne

\* Whoever starts a tunnel, one start begins.
LEMMA StartBegins ==
    ASSUME TypeOK, SlotsAreSound, NEW by \in {"first", "heartbeat", "user"},
           NEW p \in Providers, StartTunnel(by, p)
    PROVE  /\ BeginsOne(Next1, by)
           /\ p = "off" => start'[Next1].stage = "done"
  <1>. DEFINE i == Next1
              base == IF by = "first" THEN start ELSE Kill(start, {tunnel})
              s == [base EXCEPT ![i] = Spawned(by, p)]
              q == Spawned(by, p)
  <1>1. /\ Unused # {} /\ stopped' = stopped
        /\ \/ StartsNothing(i, s, p)
           \/ p = "cloudflared" /\ StartsCloudflared(i, s)
           \/ p = "ngrok" /\ StartsNgrok(i, s)
           \/ p = "tailscale" /\ StartsTailscale(i, s)
    BY DEF StartTunnel
  <1>2. i \in Unused /\ i \in Starts
    BY <1>1 DEF Next1, Unused
  <1>3. /\ base \in [Starts -> Attempt]
        /\ \A j \in Starts : /\ SlotIsSound(base[j]) /\ Stays(start[j], base[j])
                             /\ by # "first" /\ j = tunnel => Dead(base[j])
    BY OwnerEndsIt
  <1>. HIDE DEF i, base
  <1>4. /\ q \in Attempt /\ q.by = by /\ q.stage = "trying" /\ q.url = None
    BY Numbers DEF Spawned, NoAttempt, Attempt
  <1>5. SlotIsSound(q) /\ NoAttempt \in Attempt
    <2>1. NoAttempt \in Attempt
      BY Numbers DEF NoAttempt, Attempt
    <2>. QED
      BY <1>4, <2>1 DEF SlotIsSound
  <1>. HIDE DEF q
  <1>6. s = [base EXCEPT ![i] = q]
    BY DEF q
  <1>. HIDE DEF s
  <1>7. /\ s \in [Starts -> Attempt] /\ s[i] = q
        /\ \A j \in Starts : j # i => s[j] = base[j]
    BY <1>2, <1>3, <1>4, <1>6
  <1>8. /\ tracked \in SUBSET Starts /\ tunnel \in Starts \cup {None}
        /\ tunnelUrl \in Names /\ stopped \in BOOLEAN /\ None \in Names
    BY SoundState, Numbers
  <1>9. CASE StartsNothing(i, s, p)
    <2>. DEFINE r == [NoAttempt EXCEPT !.by = q.by, !.provider = p, !.stage = "done"]
    <2>1. /\ start' = [s EXCEPT ![i] = r] /\ tunnel' = None /\ tunnelUrl' = None
          /\ tracked' \in SUBSET Starts
      BY <1>7, <1>8, <1>9 DEF StartsNothing
    <2>2. r \in Attempt /\ r.by = by /\ r.stage = "done" /\ r.alive = FALSE
      BY <1>4, <1>5 DEF Attempt, NoAttempt
    <2>. HIDE DEF r
    <2>3. SlotIsSound(r) /\ Dead(r)
      BY <2>2 DEF SlotIsSound, Dead
    <2>4. /\ start' \in [Starts -> Attempt] /\ start'[i] = r
          /\ \A j \in Starts : j # i => start'[j] = base[j]
      BY <1>2, <1>7, <2>1, <2>2
    <2>5. BeginsOne(i, by)
      BY <1>1, <1>2, <1>3, <1>8, <2>1, <2>2, <2>3, <2>4, BeginsIs
    <2>. QED
      BY <2>2, <2>4, <2>5 DEF i
  <1>10. CASE p = "cloudflared" /\ StartsCloudflared(i, s)
    <2>. DEFINE a == [q EXCEPT !.abandoned = TRUE]
                f == [s EXCEPT ![i] = a]
                k == Kill(f, {i})
    <2>1. /\ start' = IF stopped THEN k ELSE s
          /\ tracked' \in SUBSET Starts
          /\ tunnel' \in Starts \cup {None} /\ tunnelUrl' \in Names
      BY <1>2, <1>7, <1>8, <1>10 DEF StartsCloudflared, NoneYet
    <2>2. a \in Attempt /\ a.by = by /\ a.stage = "trying"
      BY <1>4 DEF Attempt
    <2>. HIDE DEF a
    <2>3. /\ f \in [Starts -> Attempt] /\ f[i] = a
          /\ \A j \in Starts : j # i => f[j] = base[j]
      BY <1>2, <1>7, <2>2
    <2>. HIDE DEF f
    <2>4. /\ k \in [Starts -> Attempt] /\ k[i].stage = "trying" /\ k[i].by = by
          /\ k[i].alive = FALSE
          /\ \A j \in Starts : j # i => k[j] = base[j]
      BY <1>2, <2>2, <2>3, KillOne
    <2>. HIDE DEF k
    <2>5. SlotIsSound(k[i])
      BY <1>2, <2>4 DEF SlotIsSound
    <2>6. BeginsOne(i, by)
      <3>1. CASE stopped
        BY <1>1, <1>2, <1>3, <1>8, <2>1, <2>4, <2>5, <3>1, BeginsIs
      <3>2. CASE ~stopped
        BY <1>1, <1>2, <1>3, <1>4, <1>5, <1>7, <1>8, <2>1, <3>2, BeginsIs
      <3>. QED
        BY <3>1, <3>2
    <2>. QED
      BY <1>10, <2>6 DEF i
  <1>11. CASE p = "ngrok" /\ StartsNgrok(i, s)
    <2>1. /\ start' = s /\ tracked' \in SUBSET Starts
          /\ tunnel' \in Starts \cup {None} /\ tunnelUrl' \in Names
      BY <1>8, <1>11 DEF StartsNgrok, NoneYet
    <2>2. BeginsOne(i, by)
      BY <1>1, <1>2, <1>3, <1>4, <1>5, <1>7, <1>8, <2>1, BeginsIs
    <2>. QED
      BY <1>11, <2>2 DEF i
  <1>12. CASE p = "tailscale" /\ StartsTailscale(i, s)
    <2>. DEFINE u == [q EXCEPT !.url = First(i), !.stage = "done"]
                named == [s EXCEPT ![i] = u]
                k == Kill(named, {i})
    <2>1. /\ stopped = TRUE => /\ start' = k /\ tunnel' = None /\ tunnelUrl' = None
                               /\ tracked' = tracked
          /\ stopped = FALSE => /\ start' = named /\ tunnel' = i /\ tunnelUrl' = First(i)
                                /\ tracked' = {}
      BY <1>2, <1>7, <1>12 DEF StartsTailscale
    <2>2. u \in Attempt /\ u.by = by /\ u.stage = "done"
      BY <1>2, <1>4, Numbers DEF Attempt
    <2>. HIDE DEF u
    <2>3. /\ named \in [Starts -> Attempt] /\ named[i] = u
          /\ \A j \in Starts : j # i => named[j] = base[j]
      BY <1>2, <1>7, <2>2
    <2>. HIDE DEF named
    <2>4. /\ k \in [Starts -> Attempt] /\ k[i].stage = "done" /\ k[i].by = by
          /\ k[i].alive = FALSE
          /\ \A j \in Starts : j # i => k[j] = base[j]
      BY <1>2, <2>2, <2>3, KillOne
    <2>. HIDE DEF k
    <2>5. SlotIsSound(k[i]) /\ SlotIsSound(u) /\ Dead(k[i])
      BY <1>2, <2>2, <2>4 DEF SlotIsSound, Dead
    <2>6. BeginsOne(i, by)
      <3>1. CASE stopped = TRUE
        <4>1. /\ start' = k /\ tunnel' = None /\ tunnelUrl' = None /\ tracked' = tracked
          BY <2>1, <3>1
        <4>. QED
          BY <1>1, <1>2, <1>3, <1>8, <2>4, <2>5, <4>1, BeginsIs
      <3>2. CASE stopped = FALSE
        <4>1. /\ start' = named /\ tunnel' = i /\ tunnelUrl' \in Names /\ tracked' \in SUBSET Starts
          BY <1>2, <2>1, <3>2, Numbers
        <4>. QED
          BY <1>1, <1>2, <1>3, <2>2, <2>3, <2>5, <3>2, <4>1, BeginsIs
      <3>. QED
        BY <1>8, <3>1, <3>2
    <2>. QED
      BY <1>12, <2>6 DEF i
  <1>. QED
    BY <1>1, <1>9, <1>10, <1>11, <1>12

-----------------------------------------------------------------------------
(* The calm steps.                                                         *)

\* A process is there or not.
LEMMA AliveOrDead ==
    ASSUME NEW r, SlotIsSound(r)
    PROVE  r.alive <=> ~Dead(r)
  BY DEF SlotIsSound, Attempt, Dead

\* A step that leaves the tunnels alone.
LEMMA UnchangedIsCalm ==
    ASSUME TypeOK, SlotsAreSound, UNCHANGED tunnelVars
    PROVE  CalmTunnel
  <1>1. /\ start' = start /\ tracked' = tracked /\ tunnel' = tunnel
        /\ tunnelUrl' = tunnelUrl /\ stopped' = stopped
    BY DEF tunnelVars
  <1>2. /\ start' \in [Starts -> Attempt] /\ \A i \in Starts : SlotIsSound(start'[i])
        /\ tracked' \in SUBSET Starts /\ tunnel' \in Starts \cup {None}
        /\ tunnelUrl' \in Names /\ stopped' \in BOOLEAN
    BY <1>1, SoundState
  <1>. QED
    BY <1>1, <1>2 DEF CalmTunnel, TunnelIsSound, Stays

\* A step that writes one slot, and settles or begins nothing.
LEMMA OneSlotIsCalm ==
    ASSUME TypeOK, SlotsAreSound, NEW i \in Starts, NEW r, SlotIsSound(r), Stays(start[i], r),
           start' = [start EXCEPT ![i] = r], UNCHANGED <<tracked, tunnel, tunnelUrl, stopped>>
    PROVE  CalmTunnel
  <1>1. /\ start \in [Starts -> Attempt] /\ \A j \in Starts : SlotIsSound(start[j])
        /\ tracked' \in SUBSET Starts /\ tunnel' \in Starts \cup {None}
        /\ tunnelUrl' \in Names /\ stopped' \in BOOLEAN
    BY SoundState
  <1>2. r \in Attempt /\ \A j \in Starts : Stays(start[j], start[j])
    BY DEF SlotIsSound, Stays
  <1>3. /\ \A j \in Starts : SlotIsSound(start'[j]) /\ Stays(start[j], start'[j])
        /\ start' \in [Starts -> Attempt]
    BY <1>1, <1>2
  <1>. QED
    BY <1>1, <1>3 DEF CalmTunnel, TunnelIsSound

\* A step that writes several: none settles, and no other variable is touched
\* unless the server stops, which leaves no settled tunnel alive.
LEMMA SlotsAreCalm ==
    ASSUME TypeOK, SlotsAreSound, start' \in [Starts -> Attempt],
           \A j \in Starts : SlotIsSound(start'[j]) /\ Stays(start[j], start'[j]),
           tracked' \in SUBSET Starts, tunnel' \in Starts \cup {None},
           tunnelUrl' \in Names, stopped' \in BOOLEAN,
           \/ tunnel' = tunnel /\ stopped' = stopped
           \/ OneAtATime => \A i \in Starts : start'[i].stage = "done" => Dead(start'[i])
    PROVE  CalmTunnel
  <1>1. start' = [j \in Starts |-> start'[j]]
    OBVIOUS
  <1>. QED
    BY <1>1 DEF CalmTunnel, TunnelIsSound

\* A start comes to its proof, a process dies or is renamed.
LEMMA SlotStepIsCalm ==
    ASSUME TypeOK, SlotsAreSound, NEW i \in Starts, Banner(i) \/ Dies(i) \/ Renamed(i)
    PROVE  CalmTunnel
  <1>1. /\ start \in [Starts -> Attempt] /\ SlotIsSound(start[i]) /\ start[i] \in Attempt
        /\ tracked \in SUBSET Starts /\ tunnel \in Starts \cup {None}
        /\ tunnelUrl \in Names /\ stopped \in BOOLEAN
    BY SoundState
  <1>2. CASE Banner(i)
    <2>. DEFINE r == [start[i] EXCEPT !.stage = "proving", !.url = First(i)]
    <2>1. /\ start' = [start EXCEPT ![i] = r] /\ start[i].stage = "trying"
          /\ UNCHANGED <<tracked, tunnel, tunnelUrl, stopped>>
      BY <1>1, <1>2 DEF Banner
    <2>2. /\ r \in Attempt /\ r.stage = "proving" /\ r.by = start[i].by
          /\ r.url = First(i) /\ r.alive = start[i].alive
      BY <1>1, Numbers DEF Attempt
    <2>. HIDE DEF r
    <2>3. SlotIsSound(r) /\ Stays(start[i], r)
      BY <2>1, <2>2, Numbers DEF SlotIsSound, Stays, Dead
    <2>. QED
      BY <2>1, <2>3, OneSlotIsCalm
  <1>3. CASE Dies(i)
    <2>. DEFINE k == Kill(start, {i})
    <2>1. start' = k /\ UNCHANGED <<tracked, tunnel, tunnelUrl, stopped>>
      BY <1>3 DEF Dies
    <2>2. /\ k \in [Starts -> Attempt] /\ k[i].stage = start[i].stage
          /\ k[i].by = start[i].by /\ k[i].url = start[i].url /\ k[i].alive = FALSE
          /\ \A j \in Starts : j # i => k[j] = start[j]
      BY <1>1, KillOne
    <2>. HIDE DEF k
    <2>3. SlotIsSound(k[i]) /\ Stays(start[i], k[i])
      BY <1>1, <2>2, KilledIsSound DEF Dead
    <2>4. \A j \in Starts : SlotIsSound(start[j]) /\ Stays(start[j], start[j])
      BY SoundState DEF Stays
    <2>5. \A j \in Starts : SlotIsSound(k[j]) /\ Stays(start[j], k[j])
      BY <2>2, <2>3, <2>4
    <2>. QED
      BY <1>1, <2>1, <2>2, <2>5, SlotsAreCalm
  <1>4. CASE Renamed(i)
    <2>. DEFINE r == [start[i] EXCEPT !.url = Moved(i)]
    <2>1. /\ start' = [start EXCEPT ![i] = r]
          /\ UNCHANGED <<tracked, tunnel, tunnelUrl, stopped>>
      BY <1>1, <1>4 DEF Renamed
    <2>2. /\ r \in Attempt /\ r.stage = start[i].stage /\ r.by = start[i].by
          /\ r.url = Moved(i) /\ r.alive = start[i].alive
      BY <1>1, Numbers DEF Attempt
    <2>. HIDE DEF r
    <2>3. SlotIsSound(r) /\ Stays(start[i], r)
      BY <1>1, <2>2, Numbers DEF SlotIsSound, Stays, Dead
    <2>. QED
      BY <2>1, <2>3, OneSlotIsCalm
  <1>. QED
    BY <1>2, <1>3, <1>4

\* A write settles, which may end the process of the host.
LEMMA SettleIsCalm ==
    ASSUME TypeOK, SlotsAreSound, NEW w, Settle(w)
    PROVE  CalmTunnel
  <1>1. /\ start \in [Starts -> Attempt] /\ \A i \in Starts : SlotIsSound(start[i])
        /\ tracked' \in SUBSET Starts /\ tunnel' \in Starts \cup {None}
        /\ tunnelUrl' \in Names /\ stopped' \in BOOLEAN
        /\ UNCHANGED <<tracked, tunnel, tunnelUrl, stopped>>
    BY SoundState DEF Settle
  <1>2. CASE w.ends = "process"
    <2>1. PICK K : K = Starts
      OBVIOUS
    <2>2. start' = Kill(start, K)
      BY <1>2, <2>1 DEF Settle
    <2>3. start' \in [Starts -> Attempt]
      BY <1>1, <2>2, KillType
    <2>4. ASSUME NEW j \in Starts
          PROVE  SlotIsSound(start'[j]) /\ Stays(start[j], start'[j])
      <3>1. /\ start'[j] \in Attempt /\ start'[j].stage = start[j].stage
            /\ start'[j].by = start[j].by /\ start'[j].url = start[j].url
        BY <1>1, <2>2, KillIs
      <3>2. Dead(start'[j])
        BY <1>1, <2>1, <2>2, KillEnds
      <3>. QED
        BY <1>1, <3>1, <3>2, KilledIsSound
    <2>. QED
      BY <1>1, <2>3, <2>4, SlotsAreCalm
  <1>3. CASE w.ends # "process"
    <2>1. UNCHANGED tunnelVars
      BY <1>1, <1>3 DEF Settle, tunnelVars
    <2>. QED
      BY <2>1, UnchangedIsCalm
  <1>. QED
    BY <1>2, <1>3

\* The server stops: what it knows of is ended, a settled tunnel with it.
LEMMA StopServerIsCalm ==
    ASSUME TypeOK, SlotsAreSound, StopServer
    PROVE  CalmTunnel
  <1>1. /\ start \in [Starts -> Attempt] /\ \A i \in Starts : SlotIsSound(start[i])
    BY SoundState
  <1>2. /\ tracked' \in SUBSET Starts /\ tunnel' \in Starts \cup {None}
        /\ tunnelUrl' \in Names /\ stopped' \in BOOLEAN
    BY Numbers DEF StopServer
  <1>3. PICK K : K = {tunnel}
    OBVIOUS
  <1>4. ASSUME NEW j \in Starts
        PROVE  /\ SlotIsSound(start'[j]) /\ Stays(start[j], start'[j])
               /\ OneAtATime /\ start'[j].stage = "done" => Dead(start'[j])
    <2>1. CASE j \in tracked
      <3>. DEFINE r == [start[j] EXCEPT !.alive = FALSE, !.abandoned = TRUE]
      <3>1. start'[j] = r
        BY <2>1 DEF StopServer
      <3>2. /\ r \in Attempt /\ r.stage = start[j].stage /\ r.by = start[j].by
            /\ r.url = start[j].url /\ r.alive = FALSE
        BY <1>1 DEF Attempt
      <3>. HIDE DEF r
      <3>3. Dead(r)
        BY <3>2 DEF Dead
      <3>. QED
        BY <1>1, <3>1, <3>2, <3>3, KilledIsSound
    <2>2. CASE j \notin tracked /\ j \in K
      <3>1. start'[j] = Kill(start, K)[j]
        BY <1>3, <2>2 DEF StopServer
      <3>2. /\ start'[j] \in Attempt /\ start'[j].stage = start[j].stage
            /\ start'[j].by = start[j].by /\ start'[j].url = start[j].url
        BY <1>1, <3>1, KillIs
      <3>3. Dead(start'[j])
        BY <1>1, <2>2, <3>1, KillEnds
      <3>. QED
        BY <1>1, <3>2, <3>3, KilledIsSound
    <2>3. CASE j \notin tracked /\ j \notin K
      <3>1. start'[j] = Kill(start, K)[j]
        BY <1>3, <2>3 DEF StopServer
      <3>2. start'[j] = start[j]
        BY <1>1, <2>3, <3>1, KillIs
      <3>3. OneAtATime /\ start[j].stage = "done" => Dead(start[j])
        BY <1>1, <1>3, <2>3, AliveOrDead DEF OneAtATime
      <3>. QED
        BY <1>1, <3>2, <3>3 DEF Stays
    <2>. QED
      BY <2>1, <2>2, <2>3
  <1>5. start' \in [Starts -> Attempt]
    <2>1. start' = [j \in Starts |-> start'[j]]
      BY DEF StopServer
    <2>2. \A j \in Starts : start'[j] \in Attempt
      BY <1>4 DEF SlotIsSound
    <2>. QED
      BY <2>1, <2>2
  <1>. QED
    BY <1>2, <1>4, <1>5, SlotsAreCalm

-----------------------------------------------------------------------------
(* One start at a time.                                                    *)

\* The exclusion, said of Dead, and of the step after this one.
LEMMA OneAtATimeIs ==
    ASSUME TunnelIsSound,
           \A i, j \in Starts : start'[i].stage \in {"trying", "proving"}
                              /\ start'[j].stage \in {"trying", "proving"} => i = j,
           \A i \in Starts : start'[i].stage = "done" /\ ~Dead(start'[i]) =>
               /\ tunnel' = i /\ stopped' = FALSE
               /\ \A j \in Starts : start'[j].stage \notin {"trying", "proving"},
           phase' = "booting" => Unused' = Starts /\ ~starting' /\ Flagging' = {},
           phase' = "up" => /\ Pending' # {} => starting' /\ Flagging' = {}
                            /\ Flagging' # {} => starting'
                            /\ \A v, w \in Flagging' : v = w
    PROVE  OneAtATime'
  <1>1. \A i \in Starts : start'[i].alive <=> ~Dead(start'[i])
    BY AliveOrDead DEF TunnelIsSound
  <1>2. \A i, j \in Pending' : i = j
    BY DEF Pending
  <1>3. \A i \in Starts : start'[i].alive /\ start'[i].stage = "done" =>
           tunnel' = i /\ ~stopped' /\ Pending' = {}
    BY <1>1 DEF Pending
  <1>. QED
    BY <1>2, <1>3, Zenon DEF OneAtATime

\* The same of the state before the step.
LEMMA OneAtATimeSays ==
    ASSUME TypeOK, SlotsAreSound, OneAtATime
    PROVE  /\ \A i, j \in Starts : start[i].stage \in {"trying", "proving"}
                                /\ start[j].stage \in {"trying", "proving"} => i = j
           /\ \A i \in Starts : start[i].stage = "done" /\ ~Dead(start[i]) =>
                 /\ tunnel = i /\ stopped = FALSE
                 /\ \A j \in Starts : start[j].stage \notin {"trying", "proving"}
  <1>1. \A i \in Starts : start[i].alive <=> ~Dead(start[i])
    BY SoundState, AliveOrDead
  <1>2. stopped \in BOOLEAN
    BY SoundState
  <1>. QED
    BY <1>1, <1>2 DEF OneAtATime, Pending

\* A calm step keeps it, unless it brings the flag down with a start under way.
LEMMA CalmKeeps ==
    ASSUME TypeOK, SlotsAreSound, OneAtATime, CalmTunnel,
           phase' \in {"booting", "up"} => phase' = phase /\ Flagging' \subseteq Flagging,
           phase' \in {"booting", "up"} =>
               \/ starting' = starting
               \/ ~starting' /\ Pending = {} /\ Flagging' = {}
    PROVE  OneAtATime'
  <1>1. TunnelIsSound /\ \A i \in Starts : SlotIsSound(start'[i]) /\ SlotIsSound(start[i])
    BY SoundState DEF CalmTunnel, TunnelIsSound
  <1>2. \A i \in Starts :
           /\ start'[i].stage \in {"none", "trying", "proving", "done"}
           /\ start[i].stage \in {"none", "trying", "proving", "done"}
           /\ Stays(start[i], start'[i])
    BY <1>1 DEF SlotIsSound, Attempt, CalmTunnel
  <1>3. \A i \in Starts :
           /\ start'[i].stage \in {"trying", "proving"} <=> start[i].stage \in {"trying", "proving"}
           /\ start'[i].stage = "none" <=> start[i].stage = "none"
           /\ start'[i].stage = "done" <=> start[i].stage = "done"
           /\ Dead(start[i]) => Dead(start'[i])
    BY <1>2 DEF Stays
  <1>4. Pending' = Pending /\ Unused' = Unused
    BY <1>3 DEF Pending, Unused
  <1>5. \A i, j \in Starts : start'[i].stage \in {"trying", "proving"}
                           /\ start'[j].stage \in {"trying", "proving"} => i = j
    BY <1>3, OneAtATimeSays
  <1>6. \A i \in Starts : start'[i].stage = "done" /\ ~Dead(start'[i]) =>
           /\ tunnel' = i /\ stopped' = FALSE
           /\ \A j \in Starts : start'[j].stage \notin {"trying", "proving"}
    BY <1>3, OneAtATimeSays DEF CalmTunnel
  <1>7. phase' = "booting" => Unused' = Starts /\ ~starting' /\ Flagging' = {}
    <2>. SUFFICES ASSUME phase' = "booting" PROVE Unused' = Starts /\ ~starting' /\ Flagging' = {}
      OBVIOUS
    <2>1. phase = "booting" /\ Flagging' \subseteq Flagging /\ (starting' = starting \/ ~starting')
      OBVIOUS
    <2>. QED
      BY <1>4, <2>1 DEF OneAtATime
  <1>8. phase' = "up" => /\ Pending' # {} => starting' /\ Flagging' = {}
                         /\ Flagging' # {} => starting'
                         /\ \A v, w \in Flagging' : v = w
    <2>. SUFFICES ASSUME phase' = "up"
                  PROVE  /\ Pending' # {} => starting' /\ Flagging' = {}
                         /\ Flagging' # {} => starting'
                         /\ \A v, w \in Flagging' : v = w
      OBVIOUS
    <2>1. /\ phase = "up" /\ Flagging' \subseteq Flagging
          /\ starting' = starting \/ (~starting' /\ Pending = {} /\ Flagging' = {})
      OBVIOUS
    <2>2. /\ Pending # {} => starting /\ Flagging = {}
          /\ Flagging # {} => starting
          /\ \A v, w \in Flagging : v = w
      BY <2>1 DEF OneAtATime
    <2>. QED
      BY <1>4, <2>1, <2>2
  <1>. QED
    BY <1>1, <1>5, <1>6, <1>7, <1>8, OneAtATimeIs

\* A start settles: nothing is under way any more, and the flag waits for the
\* write, unless it was the first start.
LEMMA SettlingKeeps ==
    ASSUME TypeOK, SlotsAreSound, OneAtATime, NEW i \in Starts, SettlesOne(i),
           Settled(start[i].by), phase' = phase
    PROVE  OneAtATime'
  <1>1. /\ TunnelIsSound /\ i \in Pending /\ stopped' = stopped /\ start'[i].stage = "done"
        /\ ~Dead(start'[i]) => tunnel' = i /\ stopped' = FALSE
        /\ \A j \in Starts : j # i => start'[j] = start[j]
    BY DEF SettlesOne
  <1>2. /\ \A j \in Starts : j # i => start[j].stage \notin {"trying", "proving"}
        /\ \A j \in Starts : start[j].stage = "done" => Dead(start[j])
        /\ start[i].stage \in {"trying", "proving"}
    BY <1>1, OneAtATimeSays DEF Pending
  <1>3. \A j \in Starts : start'[j].stage \notin {"trying", "proving"}
    BY <1>1, <1>2
  <1>4. Pending' = {}
    BY <1>3 DEF Pending
  <1>5. phase # "booting"
    BY <1>2 DEF OneAtATime, Unused
  <1>6. ASSUME phase = "up"
        PROVE  /\ Flagging' # {} => starting'
               /\ \A v, w \in Flagging' : v = w
    <2>1. starting /\ Flagging = {}
      BY <1>1, <1>6 DEF OneAtATime
    <2>. DEFINE one == [url |-> tunnelUrl', online |-> TRUE,
                        ends |-> IF start[i].by = "first" THEN "nothing" ELSE "starting"]
    <2>2. /\ starting' = (IF start[i].by = "first" THEN FALSE ELSE starting)
          /\ writes' = writes \cup {one}
      BY DEF Settled, PublishPresence
    <2>3. one.ends = IF start[i].by = "first" THEN "nothing" ELSE "starting"
      OBVIOUS
    <2>. HIDE DEF one
    <2>4. \A w \in Flagging' : w = one /\ start[i].by # "first"
      BY <2>1, <2>2, <2>3 DEF Flagging
    <2>. QED
      BY <2>1, <2>2, <2>4
  <1>. QED
    BY <1>1, <1>2, <1>3, <1>4, <1>5, <1>6, OneAtATimeIs

\* The host begins a start when there is none, and no tunnel.
LEMMA BeginningKeeps ==
    ASSUME TypeOK, SlotsAreSound, OneAtATime, FirstStart \/ Heartbeat, ~UNCHANGED tunnelVars
    PROVE  OneAtATime'
  <1>. DEFINE i == Next1
  <1>1. PICK by \in {"first", "heartbeat"}, flag \in BOOLEAN :
             /\ StartTunnel(by, pref) /\ Started(by, flag)
             /\ by = "first" => phase = "booting" /\ flag = (pref # "off")
             /\ by = "heartbeat" => phase = "up" /\ ~starting /\ flag = TRUE
             /\ phase' = "up"
    BY DEF FirstStart, Heartbeat
  <1>2. pref \in Providers
    BY DEF TypeOK
  <1>3. BeginsOne(i, by) /\ (pref = "off" => start'[i].stage = "done")
    BY <1>1, <1>2, StartBegins
  <1>. HIDE DEF i
  <1>4. Pending = {} /\ Flagging = {} /\ (by = "first" => Unused = Starts)
    BY <1>1 DEF OneAtATime, Pending, Unused
  <1>5. /\ TunnelIsSound /\ i \in Unused /\ i \in Starts
        /\ start'[i].stage \in {"trying", "done"}
        /\ start'[i].stage = "done" /\ ~Dead(start'[i]) => tunnel' = i /\ stopped' = FALSE
    BY <1>3 DEF BeginsOne, Unused
  <1>6. ASSUME NEW j \in Starts, j # i
        PROVE  /\ start'[j].stage \notin {"trying", "proving"}
               /\ start'[j].stage = "done" => Dead(start'[j])
    <2>1. /\ Stays(start[j], start'[j])
          /\ by # "first" /\ j = tunnel => Dead(start'[j])
      BY <1>3, <1>6 DEF BeginsOne
    <2>2. start[j].stage \in {"none", "done"} /\ start'[j].stage \in {"none", "trying", "proving", "done"}
      BY <1>4, <1>5, SoundState DEF Pending, SlotIsSound, Attempt, TunnelIsSound
    <2>3. start'[j].stage = start[j].stage
      BY <2>1, <2>2 DEF Stays
    <2>4. ASSUME start[j].stage = "done"
          PROVE  Dead(start'[j])
      <3>1. by # "first"
        BY <1>4, <2>4 DEF Unused
      <3>2. CASE Dead(start[j])
        BY <2>1, <3>2 DEF Stays
      <3>3. CASE ~Dead(start[j])
        BY <2>1, <2>4, <3>1, <3>3, OneAtATimeSays
      <3>. QED
        BY <3>2, <3>3
    <2>. QED
      BY <2>2, <2>3, <2>4
  <1>7. /\ start'[i].stage = "done" => Pending' = {}
        /\ start'[i].stage # "done" => start'[i].stage = "trying"
    BY <1>5, <1>6 DEF Pending
  <1>8. /\ Pending' # {} => starting' /\ Flagging' = {}
        /\ Flagging' # {} => starting'
        /\ \A v, w \in Flagging' : v = w
    <2>1. CASE start'[i].stage # "done"
      <3>1. starting' = flag /\ writes' = writes /\ flag = TRUE
        BY <1>1, <1>3, <2>1 DEF Started, i
      <3>. QED
        BY <1>4, <3>1 DEF Flagging
    <2>2. CASE start'[i].stage = "done"
      <3>. DEFINE one == [url |-> tunnelUrl', online |-> TRUE,
                          ends |-> IF by = "first" THEN "nothing" ELSE "starting"]
      <3>1. /\ starting' = (IF by = "first" THEN FALSE ELSE flag)
            /\ writes' = writes \cup {one}
        BY <2>2 , <1>1 DEF Started, PublishPresence, i
      <3>2. one.ends = IF by = "first" THEN "nothing" ELSE "starting"
        OBVIOUS
      <3>. HIDE DEF one
      <3>3. \A w \in Flagging' : w = one /\ by # "first"
        BY <1>4, <3>1, <3>2 DEF Flagging
      <3>. QED
        BY <1>1, <1>7, <2>2, <3>1, <3>3
    <2>. QED
      BY <2>1, <2>2
  <1>9. \A k, j \in Starts : start'[k].stage \in {"trying", "proving"}
                           /\ start'[j].stage \in {"trying", "proving"} => k = j
    BY <1>6
  <1>10. \A k \in Starts : start'[k].stage = "done" /\ ~Dead(start'[k]) =>
           /\ tunnel' = k /\ stopped' = FALSE
           /\ \A j \in Starts : start'[j].stage \notin {"trying", "proving"}
    BY <1>5, <1>6
  <1>. QED
    BY <1>1, <1>5, <1>8, <1>9, <1>10, OneAtATimeIs

-----------------------------------------------------------------------------
(* Every step.                                                             *)

\* The types of the host.
HostTypeOK ==
    /\ phase \in Phases
    /\ starting \in BOOLEAN /\ picking \in BOOLEAN
    /\ pref \in Providers
    /\ writes \in SUBSET Write
    /\ late \in SUBSET Presence
    /\ doc \in Presence
    /\ picks \in 0 .. MaxPicks /\ failures \in Nat
    /\ scope \in Scopes

\* What a step keeps.  A pick ends the host's time alone, for good.
Keeps ==
    /\ TunnelIsSound /\ HostTypeOK'
    /\ HostAlone' => HostAlone /\ (OneAtATime => OneAtATime')

\* A presence that is written has the type of one.
LEMMA PublishType ==
    ASSUME TypeOK, TunnelIsSound, NEW online \in BOOLEAN,
           NEW ends \in {"nothing", "starting", "process"}, PublishPresence(online, ends)
    PROVE  writes' \in SUBSET Write
  <1>. DEFINE one == [url |-> tunnelUrl', online |-> online, ends |-> ends]
  <1>1. one \in Write
    BY DEF Write, TunnelIsSound
  <1>2. writes' = writes \cup {one}
    BY DEF PublishPresence
  <1>. HIDE DEF one
  <1>. QED
    BY <1>1, <1>2 DEF TypeOK

\* A calm step begins nothing for anybody.
LEMMA CalmIsAlone ==
    ASSUME CalmTunnel, HostAlone'
    PROVE  HostAlone
  BY DEF CalmTunnel, Stays, HostAlone

\* Nor does a result.
LEMMA SettlingIsAlone ==
    ASSUME NEW i, SettlesOne(i), HostAlone'
    PROVE  HostAlone
  BY DEF SettlesOne, HostAlone

\* A start takes a slot that was nobody's.
LEMMA BeginningIsAlone ==
    ASSUME TypeOK, SlotsAreSound, NEW i, NEW by, BeginsOne(i, by), HostAlone'
    PROVE  HostAlone /\ by # "user"
  <1>1. i \in Starts /\ start[i].by = "nobody" /\ start'[i].by = by
    BY DEF BeginsOne, Unused, SlotsAreSound
  <1>2. \A j \in Starts : j # i => start'[j].by = start[j].by
    BY DEF BeginsOne, Stays
  <1>. QED
    BY <1>1, <1>2 DEF HostAlone

\* A write settles, however it went.
LEMMA SettleKeeps ==
    ASSUME TypeOK, SlotsAreSound, NEW w \in writes, Settle(w), phase # "exited",
           late' \in SUBSET Presence, doc' \in Presence, failures' \in Nat
    PROVE  Keeps
  <1>1. CalmTunnel
    BY SettleIsCalm
  <1>2. HostTypeOK'
    BY DEF Settle, TypeOK, HostTypeOK, Phases
  <1>3. ASSUME OneAtATime
        PROVE  OneAtATime'
    <2>1. phase' \in {"booting", "up"} => phase' = phase /\ w.ends # "process"
      BY DEF Settle
    <2>2. writes' \subseteq writes
      BY DEF Settle
    <2>3. Flagging' \subseteq Flagging
      BY <2>2 DEF Flagging
    <2>4. ASSUME phase' \in {"booting", "up"}
          PROVE  starting' = starting \/ (~starting' /\ Pending = {} /\ Flagging' = {})
      <3>1. CASE w.ends # "starting"
        BY <3>1 DEF Settle
      <3>2. CASE w.ends = "starting"
        <4>1. w \in Flagging
          BY <3>2 DEF Flagging
        <4>2. phase = "up" /\ Pending = {} /\ Flagging = {w}
          BY <1>3, <2>1, <2>4, <4>1 DEF OneAtATime
        <4>3. writes' = writes \ {w} /\ ~starting'
          BY <3>2 DEF Settle
        <4>4. Flagging' = {}
          BY <4>2, <4>3 DEF Flagging
        <4>. QED
          BY <4>2, <4>3, <4>4
      <3>. QED
        BY <3>1, <3>2
    <2>. QED
      BY <1>1, <1>3, <2>1, <2>3, <2>4, CalmKeeps
  <1>. QED
    BY <1>1, <1>2, <1>3, CalmIsAlone DEF Keeps, CalmTunnel

\* Lands, Fails, Overdue.
LEMMA WriteKeeps ==
    ASSUME TypeOK, SlotsAreSound, NEW w \in writes, Lands(w) \/ Fails(w) \/ Overdue(w)
    PROVE  Keeps
  <1>1. w \in Write /\ Settle(w) /\ phase # "exited"
    BY DEF Lands, Fails, Overdue, TypeOK
  <1>. DEFINE p == [url |-> w.url, online |-> w.online]
  <1>2. p \in Presence
    BY <1>1 DEF Write, Presence
  <1>3. doc' \in {doc, p} /\ late' \in {late, late \cup {p}}
    BY DEF Lands, Fails, Overdue
  <1>. HIDE DEF p
  <1>4. failures' = failures \/ failures' = failures + 1
    BY DEF Lands, Fails, Overdue
  <1>5. late' \in SUBSET Presence /\ doc' \in Presence
    BY <1>2, <1>3 DEF TypeOK
  <1>6. failures' \in Nat
    BY <1>4 DEF TypeOK
  <1>. QED
    BY <1>1, <1>5, <1>6, SettleKeeps

\* A step that leaves the tunnels, and at most adds a write nobody waits for.
LEMMA IdleKeeps ==
    ASSUME TypeOK, SlotsAreSound, UNCHANGED tunnelVars, HostTypeOK', starting' = starting,
           phase' \in {"booting", "up"} => phase' = phase,
           Flagging' \subseteq Flagging
    PROVE  Keeps
  <1>1. CalmTunnel
    BY UnchangedIsCalm
  <1>2. ASSUME OneAtATime
        PROVE  OneAtATime'
    BY <1>1, <1>2, CalmKeeps
  <1>. QED
    BY <1>1, <1>2, CalmIsAlone DEF Keeps, CalmTunnel

\* LandsLate, OpenPicker, TearDown, and a heartbeat that starts nothing.
LEMMA QuietKeeps ==
    ASSUME TypeOK, SlotsAreSound,
           \/ \E w \in late : LandsLate(w)
           \/ OpenPicker \/ TearDown
           \/ Heartbeat /\ UNCHANGED tunnelVars
    PROVE  Keeps
  <1>1. CASE \E w \in late : LandsLate(w)
    <2>1. HostTypeOK'
      BY <1>1 DEF LandsLate, TypeOK, HostTypeOK
    <2>2. /\ UNCHANGED tunnelVars /\ starting' = starting /\ phase' = phase
          /\ writes' = writes
      BY <1>1 DEF LandsLate
    <2>3. Flagging' \subseteq Flagging
      BY <2>2 DEF Flagging
    <2>. QED
      BY <2>1, <2>2, <2>3, IdleKeeps
  <1>2. CASE OpenPicker
    <2>1. HostTypeOK'
      BY <1>2, PickBound DEF OpenPicker, TypeOK, HostTypeOK
    <2>2. /\ UNCHANGED tunnelVars /\ starting' = starting /\ phase' = phase
          /\ writes' = writes
      BY <1>2 DEF OpenPicker
    <2>3. Flagging' \subseteq Flagging
      BY <2>2 DEF Flagging
    <2>. QED
      BY <2>1, <2>2, <2>3, IdleKeeps
  <1>3. CASE TearDown
    <2>1. HostTypeOK'
      BY <1>3 DEF TearDown, TypeOK, HostTypeOK, Phases
    <2>2. /\ UNCHANGED tunnelVars /\ starting' = starting /\ phase' = "closing"
          /\ writes' = writes
      BY <1>3 DEF TearDown
    <2>3. Flagging' \subseteq Flagging
      BY <2>2 DEF Flagging
    <2>. QED
      BY <2>1, <2>2, <2>3, IdleKeeps
  <1>4. CASE Heartbeat /\ UNCHANGED tunnelVars
    <2>1. UNCHANGED <<phase, pref, picking, late, doc, picks, failures, scope>>
      BY <1>4 DEF Heartbeat
    <2>2. ~(pref # "off" /\ tunnelUrl = None /\ ~starting)
      <3>. SUFFICES ASSUME StartTunnel("heartbeat", pref) PROVE FALSE
        BY <1>4 DEF Heartbeat
      <3>1. BeginsOne(Next1, "heartbeat")
        BY StartBegins DEF TypeOK
      <3>. QED
        BY <1>4, <3>1 DEF BeginsOne, Unused, tunnelVars
    <2>3. starting' = starting /\ PublishPresence(TRUE, "nothing")
      BY <1>4, <2>2 DEF Heartbeat
    <2>4. CalmTunnel
      BY <1>4, UnchangedIsCalm
    <2>5. writes' \in SUBSET Write
      BY <2>3, <2>4, PublishType DEF CalmTunnel
    <2>6. HostTypeOK'
      BY <2>1, <2>3, <2>5 DEF TypeOK, HostTypeOK
    <2>. DEFINE one == [url |-> tunnelUrl', online |-> TRUE, ends |-> "nothing"]
    <2>7. writes' = writes \cup {one} /\ one.ends = "nothing"
      BY <2>3 DEF PublishPresence
    <2>. HIDE DEF one
    <2>8. Flagging' \subseteq Flagging
      BY <2>7 DEF Flagging
    <2>. QED
      BY <1>4, <2>1, <2>3, <2>6, <2>8, IdleKeeps
  <1>. QED
    BY <1>1, <1>2, <1>3, <1>4

\* A process ends or moves, or a banner is read: the host does not hear of it.
LEMMA SlotStepKeeps ==
    ASSUME TypeOK, SlotsAreSound, NEW i \in Starts,
           Banner(i) \/ Dies(i) \/ Renamed(i), UNCHANGED hostVars
    PROVE  Keeps
  <1>1. CalmTunnel
    BY SlotStepIsCalm
  <1>2. /\ HostTypeOK' /\ starting' = starting /\ phase' = phase /\ writes' = writes
    BY DEF hostVars, TypeOK, HostTypeOK
  <1>3. Flagging' \subseteq Flagging
    BY <1>2 DEF Flagging
  <1>4. ASSUME OneAtATime
        PROVE  OneAtATime'
    BY <1>1, <1>2, <1>3, <1>4, CalmKeeps
  <1>. QED
    BY <1>1, <1>2, <1>4, CalmIsAlone DEF Keeps, CalmTunnel

\* A result, and what its caller does with it.
LEMMA SettlingStepKeeps ==
    ASSUME TypeOK, SlotsAreSound, NEW i \in Starts,
           NgrokAccepts(i) \/ Proved(i) \/ GivesUp(i), Settled(start[i].by),
           UNCHANGED <<phase, pref, picking, late, doc, picks, failures, scope>>
    PROVE  Keeps
  <1>1. SettlesOne(i)
    BY StartSettles
  <1>2. TunnelIsSound
    BY <1>1 DEF SettlesOne
  <1>3. starting' \in BOOLEAN
    BY DEF Settled, TypeOK
  <1>4. PICK ends \in {"nothing", "starting", "process"} : PublishPresence(TRUE, ends)
    BY DEF Settled
  <1>5. writes' \in SUBSET Write
    BY <1>2, <1>4, PublishType
  <1>6. HostTypeOK'
    BY <1>3, <1>5 DEF TypeOK, HostTypeOK
  <1>7. ASSUME OneAtATime
        PROVE  OneAtATime'
    BY <1>1, <1>7, SettlingKeeps
  <1>. QED
    BY <1>1, <1>2, <1>6, <1>7, SettlingIsAlone DEF Keeps

\* The flag and the writes of whoever starts a tunnel.
LEMMA StartedType ==
    ASSUME TypeOK, TunnelIsSound, NEW by, NEW flag \in BOOLEAN, Started(by, flag)
    PROVE  starting' \in BOOLEAN /\ writes' \in SUBSET Write
  <1>1. starting' \in BOOLEAN
    BY DEF Started
  <1>2. CASE writes' = writes
    BY <1>1, <1>2 DEF TypeOK
  <1>3. CASE \E ends \in {"nothing", "starting", "process"} : PublishPresence(TRUE, ends)
    BY <1>1, <1>3, PublishType
  <1>. QED
    BY <1>2, <1>3 DEF Started

\* FirstStart, and a heartbeat that starts a tunnel.
LEMMA BeginningStepKeeps ==
    ASSUME TypeOK, SlotsAreSound, FirstStart \/ Heartbeat, ~UNCHANGED tunnelVars
    PROVE  Keeps
  <1>1. PICK by \in {"first", "heartbeat"}, flag \in BOOLEAN :
             /\ StartTunnel(by, pref) /\ Started(by, flag)
             /\ phase' = "up" /\ UNCHANGED <<pref, picking, late, doc, picks, failures, scope>>
    BY DEF FirstStart, Heartbeat
  <1>2. BeginsOne(Next1, by)
    BY <1>1, StartBegins DEF TypeOK
  <1>3. TunnelIsSound
    BY <1>2 DEF BeginsOne
  <1>4. starting' \in BOOLEAN /\ writes' \in SUBSET Write
    BY <1>1, <1>3, StartedType
  <1>5. HostTypeOK'
    BY <1>1, <1>4 DEF TypeOK, HostTypeOK, Phases
  <1>6. ASSUME OneAtATime
        PROVE  OneAtATime'
    BY <1>6, BeginningKeeps
  <1>. QED
    BY <1>2, <1>3, <1>5, <1>6, BeginningIsAlone DEF Keeps

\* The user picks a provider, and is in the game from then on.
LEMMA PickKeeps ==
    ASSUME TypeOK, SlotsAreSound, NEW p \in Providers, PickProvider(p)
    PROVE  Keeps
  <1>1. StartTunnel("user", p)
    BY DEF PickProvider
  <1>2. BeginsOne(Next1, "user")
    BY <1>1, StartBegins
  <1>3. TunnelIsSound
    BY <1>2 DEF BeginsOne
  <1>4. starting' \in BOOLEAN /\ writes' \in SUBSET Write
    BY <1>3, StartedType DEF PickProvider
  <1>5. HostTypeOK'
    BY <1>4 DEF PickProvider, TypeOK, HostTypeOK
  <1>6. ~HostAlone'
    BY <1>2, BeginningIsAlone
  <1>. QED
    BY <1>3, <1>5, <1>6 DEF Keeps

\* The server stops.
LEMMA CloseServerKeeps ==
    ASSUME TypeOK, SlotsAreSound, NEW reason \in {"reloaded", "stopped"}, CloseServer(reason)
    PROVE  Keeps
  <1>1. CalmTunnel
    BY StopServerIsCalm DEF CloseServer
  <1>2. TunnelIsSound
    BY <1>1 DEF CalmTunnel
  <1>3. phase' = reason /\ starting' = FALSE
    BY DEF CloseServer
  <1>4. writes' \in SUBSET Write
    <2>1. CASE reason = "stopped"
      <3>1. PublishPresence(FALSE, "process")
        BY <2>1 DEF CloseServer
      <3>. QED
        BY <1>2, <3>1, PublishType
    <2>2. CASE reason # "stopped"
      BY <2>2 DEF CloseServer, TypeOK
    <2>. QED
      BY <2>1, <2>2
  <1>5. HostTypeOK'
    BY <1>3, <1>4 DEF CloseServer, TypeOK, HostTypeOK, Phases
  <1>6. ASSUME OneAtATime
        PROVE  OneAtATime'
    BY <1>1, <1>3, <1>6, CalmKeeps
  <1>. QED
    BY <1>1, <1>2, <1>5, <1>6, CalmIsAlone DEF Keeps

\* Every step keeps what the owner of a process rests on.
LEMMA StepKeeps ==
    ASSUME TypeOK, SlotsAreSound, Next
    PROVE  Keeps
  <1>1. CASE (FirstStart \/ Heartbeat) /\ ~UNCHANGED tunnelVars
    BY <1>1, BeginningStepKeeps
  <1>2. CASE FirstStart /\ UNCHANGED tunnelVars
    <2>1. StartTunnel("first", pref)
      BY <1>2 DEF FirstStart
    <2>2. BeginsOne(Next1, "first")
      BY <2>1, StartBegins DEF TypeOK
    <2>. QED
      BY <1>2, <2>2 DEF BeginsOne, Unused, tunnelVars
  <1>3. CASE OpenPicker \/ TearDown \/ (Heartbeat /\ UNCHANGED tunnelVars)
                \/ \E w \in late : LandsLate(w)
    BY <1>3, QuietKeeps
  <1>4. CASE \E p \in Providers : PickProvider(p)
    BY <1>4, PickKeeps
  <1>5. ASSUME NEW i \in Starts, StartStep(i)
        PROVE  Keeps
    <2>1. CASE Banner(i) /\ UNCHANGED <<starting, writes>>
      <3>1. UNCHANGED hostVars
        BY <1>5, <2>1 DEF StartStep, hostVars
      <3>. QED
        BY <2>1, <3>1, SlotStepKeeps
    <2>2. CASE (NgrokAccepts(i) \/ Proved(i) \/ GivesUp(i)) /\ Settled(start[i].by)
      <3>1. UNCHANGED <<phase, pref, picking, late, doc, picks, failures, scope>>
        BY <1>5 DEF StartStep
      <3>. QED
        BY <2>2, <3>1, SettlingStepKeeps
    <2>. QED
      BY <1>5, <2>1, <2>2 DEF StartStep
  <1>6. ASSUME NEW i \in Starts, ProcessStep(i)
        PROVE  Keeps
    BY <1>6, SlotStepKeeps DEF ProcessStep
  <1>7. CASE \E w \in writes : Lands(w) \/ Fails(w) \/ Overdue(w)
    BY <1>7, WriteKeeps
  <1>8. CASE \E reason \in {"reloaded", "stopped"} : CloseServer(reason)
    BY <1>8, CloseServerKeeps
  <1>. QED
    BY <1>1, <1>2, <1>3, <1>4, <1>5, <1>6, <1>7, <1>8 DEF Next

-----------------------------------------------------------------------------
(* The theorem.                                                            *)

\* Before the first start there is nothing to own.
LEMMA InitIsInductive == Init => Inductive
  <1>. SUFFICES ASSUME Init PROVE Inductive
    OBVIOUS
  <1>1. /\ start = [i \in Starts |-> NoAttempt] /\ NoAttempt \in Attempt
        /\ NoAttempt.stage = "none" /\ NoAttempt.by = "nobody" /\ NoAttempt.alive = FALSE
    BY Numbers DEF Init, TunnelInit, NoAttempt, Attempt
  <1>2. TypeOK
    <2>1. start \in [Starts -> Attempt]
      BY <1>1
    <2>2. TunnelTypeOK
      BY <2>1, Numbers DEF Init, TunnelInit, TunnelTypeOK
    <2>3. doc \in Presence
      BY Numbers DEF Init, Presence
    <2>4. picks \in 0 .. MaxPicks /\ failures \in Nat
      BY PickBound DEF Init
    <2>5. pref \in Providers
      BY ScopeBound DEF Init
    <2>. QED
      BY <2>2, <2>3, <2>4, <2>5 DEF Init, TypeOK, Phases
  <1>3. SlotsAreSound
    BY <1>1 DEF SlotsAreSound
  <1>4. Pending = {} /\ Unused = Starts /\ Flagging = {}
    BY <1>1 DEF Pending, Unused, Flagging, Init
  <1>5. OneAtATime
    BY <1>1, <1>4 DEF OneAtATime, Init
  <1>. QED
    BY <1>2, <1>3, <1>5 DEF Inductive

\* Every step keeps it.
LEMMA StepIsInductive == Inductive /\ [Next]_vars => Inductive'
  <1>. SUFFICES ASSUME Inductive, [Next]_vars PROVE Inductive'
    OBVIOUS
  <1>0. TypeOK /\ SlotsAreSound
    BY DEF Inductive
  <1>1. CASE Next
    <2>1. Keeps
      BY <1>0, <1>1, StepKeeps
    <2>2. TunnelTypeOK' /\ SlotsAreSound'
      BY <2>1, SoundStep DEF Keeps
    <2>3. TypeOK'
      BY <2>1, <2>2 DEF Keeps, HostTypeOK, TypeOK
    <2>4. HostAlone' => OneAtATime'
      BY <2>1 DEF Keeps, Inductive
    <2>. QED
      BY <2>2, <2>3, <2>4 DEF Inductive
  <1>2. CASE UNCHANGED vars
    BY <1>2 DEF vars, tunnelVars, hostVars, Inductive, TypeOK, TunnelTypeOK, SlotsAreSound,
                HostAlone, OneAtATime, Pending, Unused, Flagging
  <1>. QED
    BY <1>1, <1>2

\* A live process is under way, or the server's, unless the user has picked.
LEMMA InductiveIsEnough == Inductive => TunnelsAreOwned
  <1>. SUFFICES ASSUME Inductive PROVE TunnelsAreOwned
    OBVIOUS
  <1>1. TypeOK /\ SlotsAreSound /\ (HostAlone => OneAtATime)
    BY DEF Inductive
  <1>2. ASSUME NEW i \in Starts, start[i].alive
        PROVE  \/ i \in Pending
               \/ tunnel = i /\ ~stopped
               \/ \E j \in Starts : start[j].by = "user"
    <2>1. CASE ~HostAlone
      BY <2>1 DEF HostAlone
    <2>2. CASE HostAlone
      <3>1. start[i].stage \in {"none", "trying", "proving", "done"}
        BY <1>1, SoundState DEF SlotIsSound, Attempt
      <3>2. start[i].stage # "none"
        BY <1>1, <1>2 DEF SlotsAreSound
      <3>. QED
        BY <1>1, <1>2, <2>2, <3>1, <3>2 DEF OneAtATime, Pending
    <2>. QED
      BY <2>1, <2>2
  <1>. QED
    BY <1>1, <1>2 DEF TunnelsAreOwned, LiveTunnelIsOwned

\* At any number of starts, providers and failed writes, and whatever the order
\* of the starts, their results, their processes' deaths, the writes and the end
\* of the server: no tunnel process outlives the start or the server it belongs
\* to, until the user picks a provider beside a start.
THEOREM TunnelsHaveOwners == Spec => []TunnelsAreOwned
  <1>1. Init => Inductive
    BY InitIsInductive
  <1>2. Inductive /\ [Next]_vars => Inductive'
    BY StepIsInductive
  <1>3. Inductive => TunnelsAreOwned
    BY InductiveIsEnough
  <1>. QED
    BY <1>1, <1>2, <1>3, PTL DEF Spec

-----------------------------------------------------------------------------
(* What is said on a link, as words, and as the frames they travel in.     *)

Bytes      == Nat \X Nat
LinkFrames == [id : Nat, part : Nat, count : Nat, bytes : Bytes]
Texts      == Seq(Bytes)

\* Part k of payload m, the parts counted from 0.
FrameAt(m, k) == [id |-> m, part |-> k, count |-> Parts[m], bytes |-> <<m, k + 1>>]

\* The payloads after the first m, up to the n-th.
Words(m, n) == [j \in 1 .. n - m |-> Payload(m + j)]

\* The reader holds the first k parts of the payload after the n-th.
Assembling(r, n, k) ==
    /\ k = 0 => r = Idle
    /\ k > 0 => r = [id |-> n + 1, parts |-> [j \in 1 .. k |-> <<n + 1, j>>], expected |-> Parts[n + 1]]

IsFrame(f, said) == \E m \in 1 .. said : \E k \in 0 .. Parts[m] - 1 : f = FrameAt(m, k)

Follows(f, g) ==
    /\ f.part + 1 < Parts[f.id] => g = FrameAt(f.id, f.part + 1)
    /\ f.part + 1 = Parts[f.id] => g = FrameAt(f.id + 1, 0)

\* The frames on their way follow each other, and the last one ends what was said last.
Chain(F, said) ==
    /\ F \in Seq(LinkFrames)
    /\ \A i \in 1 .. Len(F) : IsFrame(F[i], said)
    /\ \A i \in 1 .. Len(F) - 1 : Follows(F[i], F[i + 1])
    /\ Len(F) > 0 => F[Len(F)].id = said /\ F[Len(F)].part + 1 = Parts[said]

\* After the first j of them, n payloads and k parts of the next have been read.
At(n, k, F, j, said) ==
    /\ n \in 0 .. said /\ k \in Nat
    /\ Len(F) = j => n = said /\ k = 0
    /\ j < Len(F) => n < said /\ k < Parts[n + 1] /\ F[j + 1] = FrameAt(n + 1, k)

\* What is said is of one part at least.
LEMMA PartsArePositive ==
    \A said \in 0 .. MaxSaid : \A m \in 1 .. said : m \in DOMAIN Parts /\ Parts[m] \in Nat \ {0}
BY PartsAssumption, LinkBounds

\* One frame further: the next part of the payload being read, or the first of the next payload.
LEMMA StepOn ==
    ASSUME NEW said \in 0 .. MaxSaid, NEW F, Chain(F, said), NEW j \in 0 .. Len(F) - 1, NEW n, NEW k, At(n, k, F, j, said)
    PROVE  /\ n + 1 \in 1 .. said /\ k \in 0 .. Parts[n + 1] - 1 /\ F[j + 1] = FrameAt(n + 1, k)
           /\ k + 1 < Parts[n + 1] => At(n, k + 1, F, j + 1, said)
           /\ k + 1 = Parts[n + 1] => At(n + 1, 0, F, j + 1, said)
<1>1. Len(F) \in Nat /\ said \in Nat
    BY LenProperties, LinkBounds DEF Chain
<1>2. /\ n \in 0 .. said /\ k \in Nat /\ n < said /\ k < Parts[n + 1] /\ F[j + 1] = FrameAt(n + 1, k)
    BY <1>1 DEF At
<1>3. n + 1 \in 1 .. said /\ Parts[n + 1] \in Nat \ {0}
    BY <1>1, <1>2, PartsArePositive
<1> DEFINE f == FrameAt(n + 1, k)
<1>4. f.id = n + 1 /\ f.part = k
    BY DEF FrameAt
<1> HIDE DEF f
<1>5. CASE j + 1 = Len(F)
  <2>1. F[j + 1].id = said /\ F[j + 1].part + 1 = Parts[said]
      BY <1>1, <1>5 DEF Chain
  <2>2. n + 1 = said /\ k + 1 = Parts[n + 1]
      BY <1>2, <1>4, <2>1 DEF f
  <2> QED BY <1>1, <1>2, <1>3, <1>5, <2>2 DEF At
<1>6. CASE j + 1 < Len(F)
  <2>1. j + 1 \in 1 .. Len(F) - 1 /\ (j + 1) + 1 \in 1 .. Len(F)
      BY <1>1, <1>6
  <2>2. Follows(F[j + 1], F[(j + 1) + 1]) /\ IsFrame(F[(j + 1) + 1], said)
      BY <2>1 DEF Chain
  <2>3. /\ k + 1 < Parts[n + 1] => F[(j + 1) + 1] = FrameAt(n + 1, k + 1)
        /\ k + 1 = Parts[n + 1] => F[(j + 1) + 1] = FrameAt((n + 1) + 1, 0)
      BY <1>2, <1>4, <2>2 DEF Follows, f
  <2>4. ASSUME k + 1 < Parts[n + 1] PROVE At(n, k + 1, F, j + 1, said)
      BY <1>1, <1>2, <1>3, <1>6, <2>3, <2>4 DEF At
  <2>5. ASSUME k + 1 = Parts[n + 1] PROVE At(n + 1, 0, F, j + 1, said)
    <3>1. PICK m \in 1 .. said : \E i \in 0 .. Parts[m] - 1 : FrameAt((n + 1) + 1, 0) = FrameAt(m, i)
        BY <2>2, <2>3, <2>5 DEF IsFrame
    <3>2. \A i : FrameAt(m, i).id = m /\ FrameAt((n + 1) + 1, i).id = (n + 1) + 1
        BY DEF FrameAt
    <3>3. (n + 1) + 1 = m
        BY <3>1, <3>2
    <3>4. n + 1 < said /\ Parts[(n + 1) + 1] \in Nat \ {0}
        BY <1>1, <1>2, <3>3, PartsArePositive
    <3> QED BY <1>1, <1>3, <1>6, <2>3, <2>5, <3>4 DEF At
  <2> QED BY <1>2, <1>3, <2>4, <2>5
<1> QED BY <1>1, <1>5, <1>6

\* A frame taken off the front.
LEMMA ChainTail ==
    ASSUME NEW said \in 0 .. MaxSaid, NEW F, Chain(F, said), F # <<>>
    PROVE  /\ Chain(Tail(F), said) /\ Len(F) \in Nat \ {0} /\ Head(F) = F[1]
           /\ \A n, k : At(n, k, F, 1, said) => At(n, k, Tail(F), 0, said)
<1>1. F \in Seq(LinkFrames)
    BY DEF Chain
<1>2. Len(F) \in Nat \ {0}
    BY <1>1, EmptySeq
<1>3. /\ Tail(F) \in Seq(LinkFrames) /\ Len(Tail(F)) = Len(F) - 1
      /\ \A i \in 1 .. Len(F) - 1 : Tail(F)[i] = F[i + 1]
    BY <1>1, HeadTailProperties
<1>4. Head(F) = F[1]
    BY <1>1
<1> DEFINE G == Tail(F)
<1>5. Chain(G, said)
  <2> HIDE DEF G
  <2>1. \A i \in 1 .. Len(G) : IsFrame(G[i], said)
      BY <1>2, <1>3 DEF Chain, G
  <2>2. \A i \in 1 .. Len(G) - 1 : Follows(G[i], G[i + 1])
      BY <1>2, <1>3 DEF Chain, G
  <2>3. Len(G) > 0 => G[Len(G)] = F[Len(F)]
      BY <1>2, <1>3 DEF G
  <2> QED BY <1>2, <1>3, <2>1, <2>2, <2>3 DEF Chain, G
<1>7. Len(G) = Len(F) - 1 /\ \A i \in 1 .. Len(F) - 1 : G[i] = F[i + 1]
    BY <1>3, Zenon
<1>6. ASSUME NEW n, NEW k, At(n, k, F, 1, said) PROVE At(n, k, G, 0, said)
  <2> HIDE DEF G
  <2>1. 0 < Len(G) => G[0 + 1] = F[1 + 1] /\ 1 < Len(F)
    <3>1. SUFFICES ASSUME 0 < Len(G) PROVE G[0 + 1] = F[1 + 1] /\ 1 < Len(F)
        OBVIOUS
    <3>2. 1 \in 1 .. Len(F) - 1 /\ 1 < Len(F) /\ 0 + 1 = 1
        BY <1>2, <1>7, <3>1
    <3>3. G[1] = F[1 + 1]
        BY <1>7, <3>2
    <3> QED BY <3>2, <3>3
  <2>2. Len(G) = 0 => Len(F) = 1
      BY <1>2, <1>7
  <2>3. Len(G) \in Nat /\ (0 < Len(G) => 1 < Len(F))
      BY <1>2, <1>7
  <2>4. /\ n \in 0 .. said /\ k \in Nat
        /\ Len(F) = 1 => n = said /\ k = 0
        /\ 1 < Len(F) => n < said /\ k < Parts[n + 1] /\ F[1 + 1] = FrameAt(n + 1, k)
      BY <1>6 DEF At
  <2>5. 0 < Len(G) => n < said /\ k < Parts[n + 1] /\ G[0 + 1] = FrameAt(n + 1, k)
      BY <2>1, <2>3, <2>4
  <2> QED BY <2>2, <2>4, <2>5 DEF At
<1> QED BY <1>2, <1>4, <1>5, <1>6

\* The frames of a payload are its parts in their order.
LEMMA FramesOfPayload ==
    ASSUME NEW m \in 1 .. MaxSaid
    PROVE  /\ Parts[m] \in Nat \ {0}
           /\ FramesOf(m, m) \in Seq(LinkFrames) /\ Len(FramesOf(m, m)) = Parts[m]
           /\ \A k \in 1 .. Parts[m] : FramesOf(m, m)[k] = FrameAt(m, k - 1)
<1>1. Parts[m] \in Nat \ {0} /\ m \in Nat
    BY PartsArePositive, LinkBounds
<1>2. \A k \in 1 .. Parts[m] : FrameAt(m, k - 1) \in LinkFrames /\ (k - 1) + 1 = k
    BY <1>1 DEF FrameAt, LinkFrames, Bytes
<1>3. \A k \in 1 .. Parts[m] : FramesOf(m, m)[k] = FrameAt(m, k - 1)
    BY <1>2 DEF FramesOf, FrameAt
<1>4. FramesOf(m, m) = [k \in 1 .. Parts[m] |-> FramesOf(m, m)[k]]
    BY DEF FramesOf
<1> DEFINE G == FramesOf(m, m)
<1> HIDE DEF G
<1>5. G \in [1 .. Parts[m] -> LinkFrames]
    BY <1>2, <1>3, <1>4 DEF G
<1>6. G \in Seq(LinkFrames) /\ Len(G) = Parts[m]
    BY <1>1, <1>5, SeqDef
<1> QED BY <1>1, <1>3, <1>6 DEF G

\* One more payload is said: its frames go to the back.
LEMMA ChainGrows ==
    ASSUME NEW said \in 0 .. MaxSaid, said < MaxSaid, NEW F, Chain(F, said)
    PROVE  /\ Chain(F \o FramesOf(said + 1, said + 1), said + 1)
           /\ \A n, k : At(n, k, F, 0, said) => At(n, k, F \o FramesOf(said + 1, said + 1), 0, said + 1)
<1> DEFINE x == said + 1
           G == FramesOf(x, x)
           H == F \o G
<1>1. x \in 1 .. MaxSaid /\ said \in Nat
    BY LinkBounds
<1>2. /\ Parts[x] \in Nat \ {0} /\ G \in Seq(LinkFrames) /\ Len(G) = Parts[x]
      /\ \A k \in 1 .. Parts[x] : G[k] = FrameAt(x, k - 1)
    BY <1>1, FramesOfPayload
<1>3. F \in Seq(LinkFrames) /\ Len(F) \in Nat
    BY LenProperties DEF Chain
<1> HIDE DEF G, x
<1>4. /\ H \in Seq(LinkFrames) /\ Len(H) = Len(F) + Parts[x]
      /\ \A i \in 1 .. Len(F) + Parts[x] : /\ i <= Len(F) => H[i] = F[i]
                                           /\ i > Len(F) => H[i] = G[i - Len(F)]
    BY <1>2, <1>3, ConcatProperties
<1> HIDE DEF H
<1>5. \A i \in Len(F) + 1 .. Len(F) + Parts[x] : H[i] = FrameAt(x, (i - Len(F)) - 1)
    BY <1>2, <1>3, <1>4
<1>6. ASSUME NEW i \in 1 .. Len(H) PROVE IsFrame(H[i], x)
  <2>1. CASE i <= Len(F)
    <3>1. IsFrame(F[i], said) /\ H[i] = F[i]
        BY <1>3, <1>4, <2>1 DEF Chain
    <3>2. \A m \in 1 .. said : m \in 1 .. x
        BY <1>1 DEF x
    <3> QED BY <3>1, <3>2 DEF IsFrame
  <2>2. CASE i > Len(F)
    <3>1. H[i] = FrameAt(x, (i - Len(F)) - 1) /\ (i - Len(F)) - 1 \in 0 .. Parts[x] - 1 /\ x \in 1 .. x
        BY <1>1, <1>2, <1>3, <1>4, <1>5, <2>2
    <3> QED BY <3>1 DEF IsFrame
  <2> QED BY <2>1, <2>2, <1>3
<1>7. ASSUME NEW i \in 1 .. Len(H) - 1 PROVE Follows(H[i], H[i + 1])
  <2>0. \A k : FrameAt(x, k).id = x /\ FrameAt(x, k).part = k
      BY DEF FrameAt
  <2>1. CASE i < Len(F)
    <3>0. i \in 1 .. Len(F) - 1 /\ i \in 1 .. Len(H) /\ i + 1 \in 1 .. Len(H) /\ i <= Len(F) /\ i + 1 <= Len(F)
        BY <1>2, <1>3, <1>4, <2>1
    <3>1. H[i] = F[i] /\ H[i + 1] = F[i + 1] /\ i \in 1 .. Len(F) - 1
        BY <1>4, <3>0
    <3> QED BY <3>1 DEF Chain
  <2>2. CASE i = Len(F)
    <3>0. /\ i \in 1 .. Len(H) /\ i <= Len(F) /\ Len(F) > 0
          /\ i + 1 \in Len(F) + 1 .. Len(F) + Parts[x] /\ ((i + 1) - Len(F)) - 1 = 0
        BY <1>2, <1>3, <1>4, <2>2
    <3>1. H[i] = F[Len(F)] /\ H[i + 1] = FrameAt(x, 0) /\ Len(F) > 0
      <4>1. H[i + 1] = FrameAt(x, ((i + 1) - Len(F)) - 1)
          BY <1>5, <3>0
      <4> QED BY <1>4, <2>2, <3>0, <4>1
    <3>2. F[Len(F)].id = said /\ F[Len(F)].part + 1 = Parts[said]
        BY <3>1 DEF Chain
    <3>3. said \in 1 .. said /\ Parts[said] \in Nat
      <4>1. IsFrame(F[Len(F)], said)
          BY <1>3, <3>1 DEF Chain
      <4>2. said \in 1 .. said
          BY <1>1, <4>1 DEF IsFrame
      <4> QED BY <4>2, PartsArePositive
    <3> QED BY <3>1, <3>2, <3>3 DEF Follows, x
  <2>3. CASE i > Len(F)
    <3> DEFINE k == (i - Len(F)) - 1
    <3>0. /\ k \in Nat /\ k + 1 < Parts[x] /\ ((i + 1) - Len(F)) - 1 = k + 1
          /\ i \in Len(F) + 1 .. Len(F) + Parts[x] /\ i + 1 \in Len(F) + 1 .. Len(F) + Parts[x]
      <4>1. Len(H) = Len(F) + Parts[x] /\ Len(F) \in Nat /\ Parts[x] \in Nat
          BY <1>2, <1>3, <1>4
      <4> QED BY <4>1, <2>3
    <3>1. k \in Nat /\ k + 1 < Parts[x] /\ H[i] = FrameAt(x, k) /\ H[i + 1] = FrameAt(x, k + 1)
      <4>1. H[i + 1] = FrameAt(x, ((i + 1) - Len(F)) - 1) /\ H[i] = FrameAt(x, (i - Len(F)) - 1)
          BY <1>5, <3>0
      <4> QED BY <3>0, <4>1
    <3> HIDE DEF k
    <3> QED BY <1>2, <2>0, <3>1 DEF Follows
  <2> QED BY <2>1, <2>2, <2>3, <1>3
<1>8. H[Len(H)].id = x /\ H[Len(H)].part + 1 = Parts[x]
  <2>0. Len(H) \in Len(F) + 1 .. Len(F) + Parts[x] /\ (Len(H) - Len(F)) - 1 = Parts[x] - 1
      BY <1>2, <1>3, <1>4
  <2>1. H[Len(H)] = FrameAt(x, Parts[x] - 1)
    <3>1. H[Len(H)] = FrameAt(x, (Len(H) - Len(F)) - 1)
        BY <1>5, <2>0
    <3> QED BY <2>0, <3>1
  <2>2. FrameAt(x, Parts[x] - 1).id = x /\ FrameAt(x, Parts[x] - 1).part = Parts[x] - 1
      BY DEF FrameAt
  <2> QED BY <1>2, <2>1, <2>2
<1>9. Chain(H, x)
    BY <1>4, <1>6, <1>7, <1>8 DEF Chain
<1>10. ASSUME NEW n, NEW k, At(n, k, F, 0, said) PROVE At(n, k, H, 0, x)
  <2>1. CASE Len(F) = 0
    <3>1. n = said /\ k = 0
        BY <2>1, <1>10 DEF At
    <3>2. H[0 + 1] = FrameAt(n + 1, 0) /\ 0 < Len(H)
        BY <1>2, <1>3, <1>4, <1>5, <2>1, <3>1 DEF x
    <3> QED BY <1>1, <1>2, <3>1, <3>2 DEF At, x
  <2>2. CASE Len(F) > 0
    <3>1. /\ n \in 0 .. said /\ k \in Nat /\ n < said /\ k < Parts[n + 1] /\ F[0 + 1] = FrameAt(n + 1, k)
        BY <2>2, <1>10, <1>3 DEF At
    <3>2. H[0 + 1] = F[0 + 1] /\ 0 < Len(H)
        BY <1>2, <1>3, <1>4, <2>2
    <3>3. n \in 0 .. x /\ n < x
        BY <1>1, <3>1 DEF x
    <3> QED BY <3>1, <3>2, <3>3 DEF At
  <2> QED BY <2>1, <2>2, <1>3
<1> QED BY <1>9, <1>10 DEF H, G, x

-----------------------------------------------------------------------------
(* Words, and the reader that makes words of frames.                       *)

\* A payload has as many bytes as it has parts.
LEMMA PayloadIsText ==
    \A m \in 1 .. MaxSaid : Payload(m) \in Texts /\ Len(Payload(m)) = Parts[m]
<1> SUFFICES ASSUME NEW m \in 1 .. MaxSaid PROVE Payload(m) \in Texts /\ Len(Payload(m)) = Parts[m]
    OBVIOUS
<1>1. Parts[m] \in Nat /\ m \in Nat
    BY FramesOfPayload, LinkBounds
<1>2. Payload(m) \in [1 .. Parts[m] -> Bytes]
    BY <1>1 DEF Payload, Bytes
<1> QED BY <1>1, <1>2, SeqDef DEF Texts

\* As many words as were said between m and n.
LEMMA WordsAreTexts ==
    ASSUME NEW m \in 0 .. MaxSaid, NEW n \in m .. MaxSaid
    PROVE  /\ Words(m, n) \in Seq(Texts) /\ Len(Words(m, n)) = n - m
           /\ \A j \in 1 .. n - m : Words(m, n)[j] = Payload(m + j)
<1>1. m \in Nat /\ n \in Nat /\ n - m \in Nat
    BY LinkBounds
<1>2. \A j \in 1 .. n - m : m + j \in 1 .. MaxSaid
    BY <1>1, LinkBounds
<1> DEFINE W == Words(m, n)
<1>3. W = [j \in 1 .. n - m |-> Payload(m + j)]
    BY DEF Words
<1>4. \A j \in 1 .. n - m : W[j] = Payload(m + j)
    BY <1>3
<1>5. \A j \in 1 .. n - m : Payload(m + j) \in Texts
    BY <1>2, PayloadIsText, Zenon
<1> HIDE DEF W
<1>6. W \in [1 .. n - m -> Texts]
    BY <1>3, <1>5
<1>7. W \in Seq(Texts) /\ Len(W) = n - m
    BY <1>1, <1>6, SeqDef
<1> QED BY <1>4, <1>7 DEF W

\* The words up to m and those after m are the words up to n.
LEMMA WordsJoin ==
    ASSUME NEW l \in 0 .. MaxSaid, NEW m \in l .. MaxSaid, NEW n \in m .. MaxSaid
    PROVE  Words(l, m) \o Words(m, n) = Words(l, n)
<1>1. l \in Nat /\ m \in Nat /\ n \in Nat /\ m \in 0 .. MaxSaid /\ n \in l .. MaxSaid
    BY LinkBounds
<1> DEFINE a == Words(l, m)
           b == Words(m, n)
           c == Words(l, n)
<1>2. /\ a \in Seq(Texts) /\ Len(a) = m - l /\ \A j \in 1 .. m - l : a[j] = Payload(l + j)
      /\ b \in Seq(Texts) /\ Len(b) = n - m /\ \A j \in 1 .. n - m : b[j] = Payload(m + j)
      /\ c \in Seq(Texts) /\ Len(c) = n - l /\ \A j \in 1 .. n - l : c[j] = Payload(l + j)
    BY <1>1, WordsAreTexts
<1> HIDE DEF a, b, c
<1>2a. /\ a \o b \in Seq(Texts) /\ Len(a \o b) = Len(a) + Len(b)
       /\ \A i \in 1 .. Len(a) + Len(b) : /\ i <= Len(a) => (a \o b)[i] = a[i]
                                          /\ ~(i <= Len(a)) => (a \o b)[i] = b[i - Len(a)]
    BY <1>2, ConcatProperties
<1>3. /\ a \o b \in Seq(Texts) /\ Len(a \o b) = (m - l) + (n - m)
      /\ \A i \in 1 .. (m - l) + (n - m) : /\ i <= m - l => (a \o b)[i] = a[i]
                                           /\ ~(i <= m - l) => (a \o b)[i] = b[i - (m - l)]
    BY <1>2, <1>2a
<1>4. ASSUME NEW i \in 1 .. n - l PROVE (a \o b)[i] = c[i]
  <2>1. CASE i <= m - l
    <3>1. i \in 1 .. m - l /\ i \in 1 .. (m - l) + (n - m)
        BY <1>1, <2>1
    <3> QED BY <1>2, <1>3, <2>1, <3>1
  <2>2. CASE ~(i <= m - l)
    <3>1. i - (m - l) \in 1 .. n - m /\ i \in 1 .. (m - l) + (n - m) /\ m + (i - (m - l)) = l + i
        BY <1>1, <2>2
    <3>2. (a \o b)[i] = b[i - (m - l)]
        BY <1>3, <2>2, <3>1
    <3>3. b[i - (m - l)] = Payload(m + (i - (m - l)))
        BY <1>2, <3>1
    <3> QED BY <1>2, <3>1, <3>2, <3>3
  <2> QED BY <2>1, <2>2
<1>5. Len(a \o b) = n - l
    BY <1>1, <1>3
<1>6. a \o b = c
    BY <1>2, <1>3, <1>4, <1>5, SeqEqual
<1> QED BY <1>6 DEF a, b, c

\* No word, and one word.
LEMMA OneWord ==
    ASSUME NEW n \in 0 .. MaxSaid, n < MaxSaid
    PROVE  Words(n, n) = <<>> /\ Words(n, n + 1) = <<Payload(n + 1)>>
<1>1. n \in Nat /\ n + 1 \in 1 .. MaxSaid /\ n - n = 0 /\ (n + 1) - n = 1
    BY LinkBounds
<1>2. Words(n, n) \in Seq(Texts) /\ Len(Words(n, n)) = 0
    BY <1>1, WordsAreTexts
<1>3. Words(n, n) = <<>>
    BY <1>2, EmptySeq
<1>4. Words(n, n + 1) = [j \in 1 .. 1 |-> Payload(n + j)]
    BY <1>1 DEF Words
<1>5. <<Payload(n + 1)>> = [j \in 1 .. 1 |-> Payload(n + j)]
    OBVIOUS
<1> QED BY <1>3, <1>4, <1>5

\* What the property calls said.
LEMMA SaidIsWords == \A n : n \in 0 .. MaxSaid => Said(n) = Words(0, n)
<1> SUFFICES ASSUME NEW n \in 0 .. MaxSaid PROVE Said(n) = Words(0, n)
    OBVIOUS
<1>1. n - 0 = n /\ \A j \in 1 .. n : 0 + j = j
    BY LinkBounds
<1> QED BY <1>1 DEF Said, Words

\* The reader takes the next part.
LEMMA ReaderTakes ==
    ASSUME NEW n \in 0 .. MaxSaid, n < MaxSaid, NEW k \in 0 .. Parts[n + 1] - 1, NEW r, Assembling(r, n, k)
    PROVE  LET f == FrameAt(n + 1, k)
               a == Accept(r, f)
           IN /\ Accepts(r, f)
              /\ k + 1 < Parts[n + 1] => a.whole = <<>> /\ Assembling(a.reader, n, k + 1)
              /\ k + 1 = Parts[n + 1] => a.whole = <<Payload(n + 1)>> /\ Assembling(a.reader, n + 1, 0)
<1> DEFINE f == FrameAt(n + 1, k)
           p == [j \in 1 .. k |-> <<n + 1, j>>]
           q == [j \in 1 .. k + 1 |-> <<n + 1, j>>]
           now == Taken(r, f)
<1>1. n \in Nat /\ n + 1 \in Nat /\ k \in Nat /\ Parts[n + 1] \in Nat \ {0} /\ k + 1 <= Parts[n + 1]
    BY FramesOfPayload, LinkBounds
<1>2. f.id = n + 1 /\ f.part = k /\ f.count = Parts[n + 1] /\ f.bytes = <<n + 1, k + 1>>
    BY DEF FrameAt
<1>3. Append(p, <<n + 1, k + 1>>) = q
  <2>1. p \in [1 .. k -> Bytes] /\ q \in [1 .. k + 1 -> Bytes]
      BY <1>1 DEF Bytes
  <2>2. p \in Seq(Bytes) /\ Len(p) = k /\ q \in Seq(Bytes) /\ Len(q) = k + 1
      BY <1>1, <2>1, SeqDef
  <2>3. /\ \A j \in 1 .. k : p[j] = <<n + 1, j>>
        /\ \A j \in 1 .. k + 1 : q[j] = <<n + 1, j>>
      OBVIOUS
  <2> DEFINE e == <<n + 1, k + 1>>
             l == Append(p, e)
  <2>4. e \in Bytes
      BY <1>1 DEF Bytes
  <2> HIDE DEF p, q
  <2>5. l \in Seq(Bytes) /\ Len(l) = k + 1 /\ l[k + 1] = e /\ \A j \in 1 .. k : l[j] = p[j]
      BY <2>2, <2>4, AppendProperties
  <2>6. \A j \in 1 .. k + 1 : l[j] = q[j]
    <3>1. \A j \in 1 .. k + 1 : j = k + 1 \/ j \in 1 .. k
        BY <1>1
    <3>2. k + 1 \in 1 .. k + 1
        BY <1>1
    <3> QED BY <2>3, <2>5, <3>1, <3>2
  <2> HIDE DEF l
  <2>7. l = q
      BY <2>2, <2>5, <2>6, SeqEqual
  <2> QED BY <2>7 DEF l
<1>4. Accepts(r, f)
  <2> HIDE DEF f
  <2>1. k > 0 => r.id = n + 1
      BY DEF Assembling
  <2> QED BY <1>1, <1>2, <2>1 DEF Accepts
<1>5. now = [id |-> n + 1, parts |-> q, expected |-> Parts[n + 1]]
  <2>1. CASE k = 0
    <3>1. p = <<>>
        BY <2>1
    <3> HIDE DEF f, p, q
    <3>2. now = [[id |-> f.id, parts |-> <<>>, expected |-> f.count] EXCEPT !.parts = Append(@, f.bytes)]
        BY <1>2, <2>1 DEF Taken
    <3> QED BY <1>2, <1>3, <2>1, <3>1, <3>2
  <2>2. CASE k > 0
    <3>1. r = [id |-> n + 1, parts |-> p, expected |-> Parts[n + 1]]
        BY <2>2 DEF Assembling
    <3> HIDE DEF f, p, q
    <3>2. f.part # 0
        BY <1>1, <1>2, <2>2
    <3>3. now = [r EXCEPT !.parts = Append(@, f.bytes)]
        BY <3>2 DEF Taken
    <3> QED BY <1>2, <1>3, <3>1, <3>3
  <2> QED BY <1>1, <2>1, <2>2
<1> HIDE DEF now
<1>6. Len(q) = k + 1
  <2>1. q \in [1 .. k + 1 -> Bytes] /\ k + 1 \in Nat
      BY <1>1 DEF Bytes
  <2> QED BY <2>1, SeqDef
<1>7. Complete(now) <=> k + 1 = Parts[n + 1]
  <2> HIDE DEF q
  <2> QED BY <1>1, <1>5, <1>6 DEF Complete
<1>8. ASSUME k + 1 < Parts[n + 1] PROVE Accept(r, f).whole = <<>> /\ Assembling(Accept(r, f).reader, n, k + 1)
  <2>1. ~Complete(now)
      BY <1>1, <1>7, <1>8
  <2>2. Accept(r, f) = [reader |-> now, whole |-> <<>>]
      BY <2>1 DEF Accept, now
  <2>3. Accept(r, f).whole = <<>> /\ Accept(r, f).reader = now
      BY <2>2
  <2> QED BY <1>1, <1>5, <2>3 DEF Assembling
<1>9. ASSUME k + 1 = Parts[n + 1] PROVE Accept(r, f).whole = <<Payload(n + 1)>> /\ Assembling(Accept(r, f).reader, n + 1, 0)
  <2>1. Accept(r, f) = [reader |-> Idle, whole |-> <<now.parts>>]
      BY <1>7, <1>9 DEF Accept, now
  <2>2. now.parts = Payload(n + 1)
      BY <1>5, <1>9 DEF Payload
  <2>3. Accept(r, f).whole = <<Payload(n + 1)>> /\ Accept(r, f).reader = Idle
      BY <2>1, <2>2
  <2> QED BY <2>3 DEF Assembling
<1> QED BY <1>4, <1>8, <1>9

-----------------------------------------------------------------------------
(* What the bridge does with frames.                                       *)

UpShape(u) == u = [sent |-> u.sent, held |-> u.held, reader |-> u.reader, pending |-> u.pending]

\* After j of the frames F the server has heard m payloads, and those up to the n-th wait for the socket.
Reading(u, m, n, k, F, j, said) ==
    /\ said \in 0 .. MaxSaid /\ Chain(F, said) /\ j \in 0 .. Len(F) - 1 /\ At(n, k, F, j, said)
    /\ UpShape(u) /\ m \in 0 .. n /\ u.pending = Words(m, n) /\ Assembling(u.reader, n, k)

\* What c, the bridge after the next of them, has done: s is its socket.
Carried(c, u, s, m, n, F, j, said) ==
    /\ UpShape(c.up) /\ c.up.sent = u.sent /\ c.up.held = u.held
    /\ \E x \in n .. said : \E y :
          /\ At(x, y, F, j + 1, said) /\ Assembling(c.up.reader, x, y)
          /\ s # "open" => c.out = <<>> /\ c.up.pending = Words(m, x)
          /\ s = "open" => c.up.pending = u.pending /\ Words(0, n) \o c.out = Words(0, x)

\* The bridge accepts and takes the next frame.
LEMMA CarriesNext ==
    ASSUME NEW said, NEW F, NEW j, NEW n, NEW k, NEW u, NEW m, NEW s, Reading(u, m, n, k, F, j, said)
    PROVE  Accepts(u.reader, F[j + 1]) /\ Carried(Carries(u, s, F[j + 1]), u, s, m, n, F, j, said)
<1>0. /\ said \in 0 .. MaxSaid /\ Chain(F, said) /\ j \in 0 .. Len(F) - 1 /\ At(n, k, F, j, said)
      /\ UpShape(u) /\ m \in 0 .. n /\ u.pending = Words(m, n) /\ Assembling(u.reader, n, k)
    BY DEF Reading
<1> DEFINE f == F[j + 1]
           a == Accept(u.reader, f)
           c == Carries(u, s, f)
<1>1. /\ n + 1 \in 1 .. said /\ k \in 0 .. Parts[n + 1] - 1 /\ f = FrameAt(n + 1, k)
      /\ k + 1 < Parts[n + 1] => At(n, k + 1, F, j + 1, said)
      /\ k + 1 = Parts[n + 1] => At(n + 1, 0, F, j + 1, said)
    BY <1>0, StepOn
<1>2. n \in Nat /\ said \in Nat /\ n \in 0 .. MaxSaid /\ n < MaxSaid /\ n < said /\ m \in 0 .. MaxSaid /\ n + 1 \in n .. said /\ n \in n .. said
    BY <1>0, <1>1, LinkBounds DEF At
<1> HIDE DEF f
<1>3. /\ Accepts(u.reader, f)
      /\ k + 1 < Parts[n + 1] => a.whole = <<>> /\ Assembling(a.reader, n, k + 1)
      /\ k + 1 = Parts[n + 1] => a.whole = <<Payload(n + 1)>> /\ Assembling(a.reader, n + 1, 0)
    BY <1>0, <1>1, <1>2, ReaderTakes
<1>4. k + 1 < Parts[n + 1] \/ k + 1 = Parts[n + 1]
  <2>1. n + 1 \in 1 .. MaxSaid
      BY <1>2, LinkBounds
  <2>2. Parts[n + 1] \in Nat
      BY <2>1, FramesOfPayload
  <2> QED BY <1>1, <2>2
<1>5. c = IF s = "open" THEN [up |-> [u EXCEPT !.reader = a.reader], out |-> a.whole]
          ELSE [up |-> [u EXCEPT !.reader = a.reader, !.pending = @ \o a.whole], out |-> <<>>]
    BY Zenon DEF Carries
<1> HIDE DEF a, c
<1>6. /\ UpShape(c.up) /\ c.up.sent = u.sent /\ c.up.held = u.held /\ c.up.reader = a.reader
      /\ s = "open" => c.up.pending = u.pending /\ c.out = a.whole
      /\ s # "open" => c.up.pending = u.pending \o a.whole /\ c.out = <<>>
  <2> DEFINE w == u.pending \o a.whole
             r == a.reader
             o == a.whole
  <2>1. CASE s = "open"
    <3>1. c = [up |-> [u EXCEPT !.reader = r], out |-> o]
        BY <1>5, <2>1
    <3> HIDE DEF w, r, o
    <3>2. c.up = [u EXCEPT !.reader = r] /\ c.out = o
        BY <3>1
    <3> QED BY <1>0, <2>1, <3>2 DEF UpShape, r, o
  <2>2. CASE s # "open"
    <3>1. c = [up |-> [u EXCEPT !.reader = r, !.pending = w], out |-> <<>>]
        BY <1>5, <2>2
    <3> HIDE DEF w, r, o
    <3>2. c.up = [u EXCEPT !.reader = r, !.pending = w] /\ c.out = <<>>
        BY <3>1
    <3> QED BY <1>0, <2>2, <3>2 DEF UpShape, r, w
  <2> QED BY <2>1, <2>2
<1>7. \A i \in 0 .. n : Words(i, n) \o <<>> = Words(i, n) /\ Words(i, n) \o <<Payload(n + 1)>> = Words(i, n + 1)
  <2> SUFFICES ASSUME NEW i \in 0 .. n
               PROVE  Words(i, n) \o <<>> = Words(i, n) /\ Words(i, n) \o <<Payload(n + 1)>> = Words(i, n + 1)
      OBVIOUS
  <2>1. i \in 0 .. MaxSaid /\ n \in i .. MaxSaid /\ n + 1 \in n .. MaxSaid
      BY <1>2, LinkBounds
  <2>2. Words(i, n) \in Seq(Texts)
      BY <2>1, WordsAreTexts
  <2>3. Words(n, n + 1) = <<Payload(n + 1)>>
      BY <1>2, OneWord
  <2>4. Words(i, n) \o Words(n, n + 1) = Words(i, n + 1)
      BY <2>1, WordsJoin
  <2> QED BY <2>2, <2>3, <2>4, ConcatEmptySeq
<1>8. 0 \in 0 .. n
    BY <1>2
<1>9. \E x \in n .. said : \E y :
         /\ At(x, y, F, j + 1, said) /\ Assembling(c.up.reader, x, y)
         /\ s # "open" => c.out = <<>> /\ c.up.pending = Words(m, x)
         /\ s = "open" => c.up.pending = u.pending /\ Words(0, n) \o c.out = Words(0, x)
  <2>1. CASE k + 1 < Parts[n + 1]
    <3>1. At(n, k + 1, F, j + 1, said) /\ Assembling(c.up.reader, n, k + 1) /\ a.whole = <<>>
        BY <2>1, <1>1, <1>3, <1>6
    <3>2. Words(m, n) \o a.whole = Words(m, n) /\ Words(0, n) \o a.whole = Words(0, n)
        BY <1>0, <1>7, <1>8, <3>1
    <3> QED BY <1>0, <3>1, <3>2, <1>2, <1>6
  <2>2. CASE k + 1 = Parts[n + 1]
    <3>1. At(n + 1, 0, F, j + 1, said) /\ Assembling(c.up.reader, n + 1, 0) /\ a.whole = <<Payload(n + 1)>>
        BY <2>2, <1>1, <1>3, <1>6
    <3>2. Words(m, n) \o a.whole = Words(m, n + 1) /\ Words(0, n) \o a.whole = Words(0, n + 1)
        BY <1>0, <1>7, <1>8, <3>1
    <3> QED BY <1>0, <3>1, <3>2, <1>2, <1>6
  <2> QED BY <1>4, <2>1, <2>2
<1> QED BY <1>3, <1>6, <1>9 DEF c, f, Carried

-----------------------------------------------------------------------------
(* Natural numbers up to n, one after the other.                           *)

LEMMA CountTo ==
    ASSUME NEW n \in Nat, NEW T, 0 \in T, \A i \in 0 .. n - 1 : i \in T => i + 1 \in T
    PROVE  n \in T
<1> DEFINE R == {p \in Nat \X Nat : p[1] < p[2]}
           M == {i \in 0 .. n : i \notin T}
<1>1. IsWellFoundedOn(R, Nat)
    BY NatLessThanWellFounded DEF OpToRel
<1>2. M \subseteq Nat
    OBVIOUS
<1>3. SUFFICES ASSUME n \notin T PROVE FALSE
    OBVIOUS
<1>10. M # {}
    BY <1>3
<1> HIDE DEF R, M
<1>4. PICK x \in M : \A y \in M : ~(<<y, x>> \in R)
    BY <1>1, <1>2, <1>10, WFMin, Zenon
<1>5. x \in 1 .. n /\ x \notin T
    BY <1>4 DEF M
<1>6. x - 1 \in Nat /\ x \in Nat /\ x - 1 < x
    BY <1>5
<1>7. x - 1 \notin M
    BY <1>4, <1>6 DEF R
<1>8. x - 1 \in T /\ x - 1 \in 0 .. n - 1
    BY <1>5, <1>7 DEF M
<1>9. (x - 1) + 1 \in T
    BY <1>8
<1> QED BY <1>5, <1>6, <1>9

-----------------------------------------------------------------------------
(* What a channel held, handed to the bridge.                              *)

\* r[i] is the bridge after the first i frames it is handed.
Attaches(r, u, n) ==
    /\ r = [i \in 0 .. n |-> r[i]]
    /\ r[0] = [u EXCEPT !.held = <<>>]
    /\ \A i \in 1 .. n : r[i] = Carries(r[i - 1], "connecting", u.held[i]).up

LEMMA AttachedIsLast ==
    ASSUME NEW u, Len(u.held) \in Nat
    PROVE  \E r : Attaches(r, u, Len(u.held)) /\ Attached(u) = r[Len(u.held)]
<1> DEFINE l == Len(u.held)
           T == {n \in 0 .. l : \E r : Attaches(r, u, n)}
<1>0. l \in Nat
    OBVIOUS
<1> HIDE DEF l
<1>1. 0 \in T
  <2> DEFINE first == [u EXCEPT !.held = <<>>]
             r == [i \in 0 .. 0 |-> first]
  <2>1. r[0] = first /\ r = [i \in 0 .. 0 |-> r[i]]
      OBVIOUS
  <2>2. Attaches(r, u, 0)
      BY <2>1 DEF Attaches
  <2> QED BY <1>0, <2>2
<1>2. ASSUME NEW n \in 0 .. l - 1, n \in T PROVE n + 1 \in T
  <2>1. PICK r : Attaches(r, u, n)
      BY <1>2
  <2> DEFINE x == n + 1
             next == Carries(r[n], "connecting", u.held[x]).up
             q == [i \in 0 .. x |-> IF i = x THEN next ELSE r[i]]
  <2>2. n \in Nat /\ x \in 1 .. l /\ x # 0 /\ n # x /\ x - 1 = n
      BY <1>0
  <2> HIDE DEF next
  <2>3. q = [i \in 0 .. x |-> q[i]] /\ q[0] = r[0] /\ q[x] = next /\ \A i \in 0 .. n : q[i] = r[i]
    <3>1. 0 \in 0 .. x /\ x \in 0 .. x /\ \A i \in 0 .. n : i \in 0 .. x /\ i # x
        BY <2>2
    <3> QED BY <2>2, <3>1
  <2>4. ASSUME NEW i \in 1 .. x PROVE q[i] = Carries(q[i - 1], "connecting", u.held[i]).up
    <3>1. CASE i = x
      <4>1. i - 1 = n /\ n \in 0 .. n
          BY <2>2, <3>1
      <4> QED BY <2>3, <3>1, <4>1 DEF next
    <3>2. CASE i # x
      <4>1. i \in 1 .. n /\ i - 1 \in 0 .. n /\ i \in 0 .. n
          BY <2>2, <3>2
      <4> QED BY <2>1, <2>3, <4>1 DEF Attaches
    <3> QED BY <3>1, <3>2
  <2> HIDE DEF q
  <2>5. Attaches(q, u, x)
      BY <2>1, <2>3, <2>4 DEF Attaches
  <2> QED BY <2>2, <2>5
<1> HIDE DEF T
<1>3. l \in T
  <2>1. \A n \in 0 .. l - 1 : n \in T => n + 1 \in T
      BY <1>2
  <2> QED BY <1>0, <1>1, <2>1, CountTo
<1>4. PICK r : Attaches(r, u, l)
    BY <1>3 DEF T
<1> DEFINE Def(g) == [k \in 0 .. Len(u.held) |->
                         IF k = 0 THEN [u EXCEPT !.held = <<>>]
                         ELSE Carries(g[k - 1], "connecting", u.held[k]).up]
           after == CHOOSE g : g = Def(g)
<1>5. r = Def(r)
  <2>1. \A i \in 0 .. l : i = 0 \/ (i \in 1 .. l /\ i # 0)
      BY <1>0
  <2>2. \A i \in 0 .. l : r[i] = Def(r)[i]
    <3> SUFFICES ASSUME NEW i \in 0 .. l PROVE r[i] = Def(r)[i]
        OBVIOUS
    <3>1. CASE i = 0
        BY <3>1, <1>4 DEF Attaches, l
    <3>2. CASE i # 0
      <4>1. r[i] = Carries(r[i - 1], "connecting", u.held[i]).up
          BY <2>1, <3>2, <1>4 DEF Attaches
      <4>2. Def(r)[i] = Carries(r[i - 1], "connecting", u.held[i]).up
          BY <3>2 DEF l
      <4> QED BY <4>1, <4>2
    <3> QED BY <3>1, <3>2
  <2>3. r = [i \in 0 .. l |-> r[i]]
      BY <1>4 DEF Attaches
  <2> QED BY <2>2, <2>3 DEF l
<1>6. after = Def(after)
    BY <1>5
<1>7. Attached(u) = after[l]
    BY DEF Attached, l
<1> HIDE DEF after
<1>8. Attaches(after, u, l)
  <2>1. after = [k \in 0 .. l |-> IF k = 0 THEN [u EXCEPT !.held = <<>>]
                                  ELSE Carries(after[k - 1], "connecting", u.held[k]).up]
      BY <1>6, Zenon DEF l
  <2>2. after = [i \in 0 .. l |-> after[i]]
      BY <2>1
  <2>3. 0 \in 0 .. l /\ \A i \in 1 .. l : i \in 0 .. l /\ i # 0
      BY <1>0
  <2>4. after[0] = [u EXCEPT !.held = <<>>]
      BY <2>1, <2>3
  <2>5. \A i \in 1 .. l : after[i] = Carries(after[i - 1], "connecting", u.held[i]).up
      BY <2>1, <2>3
  <2> QED BY <2>2, <2>4, <2>5 DEF Attaches
<1> QED BY <1>7, <1>8 DEF l

\* The frames after the first ones.
LEMMA ChainAfter ==
    ASSUME NEW said \in 0 .. MaxSaid, NEW h \in Seq(LinkFrames), NEW g \in Seq(LinkFrames), Chain(h \o g, said)
    PROVE  /\ Chain(g, said) /\ Len(h) \in Nat
           /\ \A n, k : At(n, k, h \o g, Len(h), said) => At(n, k, g, 0, said)
<1> DEFINE F == h \o g
<1>1. Len(h) \in Nat /\ Len(g) \in Nat
    BY LenProperties
<1>2. /\ F \in Seq(LinkFrames) /\ Len(F) = Len(h) + Len(g)
      /\ \A i \in 1 .. Len(h) + Len(g) : /\ i <= Len(h) => F[i] = h[i]
                                         /\ ~(i <= Len(h)) => F[i] = g[i - Len(h)]
    BY ConcatProperties
<1> HIDE DEF F
<1>3. ASSUME NEW i \in 1 .. Len(g) PROVE g[i] = F[Len(h) + i] /\ Len(h) + i \in 1 .. Len(F)
  <2>1. Len(h) + i \in 1 .. Len(h) + Len(g) /\ ~(Len(h) + i <= Len(h)) /\ (Len(h) + i) - Len(h) = i
      BY <1>1
  <2>2. F[Len(h) + i] = g[(Len(h) + i) - Len(h)]
      BY <1>2, <2>1
  <2> QED BY <1>2, <2>1, <2>2
<1>4. \A i \in 1 .. Len(g) : IsFrame(g[i], said)
    BY <1>3 DEF Chain, F
<1>5. ASSUME NEW i \in 1 .. Len(g) - 1 PROVE Follows(g[i], g[i + 1])
  <2>1. i \in 1 .. Len(g) /\ i + 1 \in 1 .. Len(g) /\ Len(h) + (i + 1) = (Len(h) + i) + 1 /\ Len(h) + i \in 1 .. Len(F) - 1
      BY <1>1, <1>2
  <2>2. g[i] = F[Len(h) + i] /\ g[i + 1] = F[(Len(h) + i) + 1]
      BY <1>3, <2>1
  <2> QED BY <2>1, <2>2 DEF Chain, F
<1>6. Len(g) > 0 => g[Len(g)].id = said /\ g[Len(g)].part + 1 = Parts[said]
  <2>1. SUFFICES ASSUME Len(g) > 0 PROVE g[Len(g)].id = said /\ g[Len(g)].part + 1 = Parts[said]
      OBVIOUS
  <2>2. g[Len(g)] = F[Len(F)] /\ Len(F) > 0
    <3>1. Len(g) \in 1 .. Len(g)
        BY <1>1, <2>1
    <3> QED BY <1>1, <1>2, <1>3, <2>1, <3>1
  <2> QED BY <2>2 DEF Chain, F
<1>7. ASSUME NEW n, NEW k, At(n, k, F, Len(h), said) PROVE At(n, k, g, 0, said)
  <2>1. /\ n \in 0 .. said /\ k \in Nat
        /\ Len(F) = Len(h) => n = said /\ k = 0
        /\ Len(h) < Len(F) => n < said /\ k < Parts[n + 1] /\ F[Len(h) + 1] = FrameAt(n + 1, k)
      BY <1>7 DEF At
  <2>2. Len(g) = 0 => Len(F) = Len(h)
      BY <1>1, <1>2
  <2>3. 0 < Len(g) => Len(h) < Len(F) /\ g[0 + 1] = F[Len(h) + 1]
    <3>1. SUFFICES ASSUME 0 < Len(g) PROVE Len(h) < Len(F) /\ g[0 + 1] = F[Len(h) + 1]
        OBVIOUS
    <3>2. 1 \in 1 .. Len(g) /\ 0 + 1 = 1
        BY <1>1, <3>1
    <3> QED BY <1>1, <1>2, <1>3, <3>1, <3>2
  <2> QED BY <2>1, <2>2, <2>3 DEF At
<1>8. Chain(g, said)
    BY <1>4, <1>5, <1>6 DEF Chain
<1> QED BY <1>1, <1>7, <1>8 DEF F

\* The front of a concatenation.
LEMMA FrontOf ==
    ASSUME NEW h \in Seq(LinkFrames), NEW g \in Seq(LinkFrames)
    PROVE  /\ Len(h) \in Nat /\ Len(h \o g) \in Nat /\ Len(h) <= Len(h \o g)
           /\ \A i \in 1 .. Len(h) : (h \o g)[i] = h[i]
<1>1. Len(h) \in Nat /\ Len(g) \in Nat
    BY LenProperties
<1>2. /\ Len(h \o g) = Len(h) + Len(g)
      /\ \A i \in 1 .. Len(h) + Len(g) : i <= Len(h) => (h \o g)[i] = h[i]
    BY ConcatProperties
<1>3. \A i \in 1 .. Len(h) : i \in 1 .. Len(h) + Len(g) /\ i <= Len(h)
    BY <1>1
<1> QED BY <1>1, <1>2, <1>3

\* The frames held and on their way, of which none is read: the bridge has n payloads, the server m.
Waiting(u, m, n, k, said) ==
    /\ said \in 0 .. MaxSaid /\ UpShape(u) /\ u.held \in Seq(LinkFrames) /\ u.sent \in Seq(LinkFrames)
    /\ Chain(u.held \o u.sent, said) /\ At(n, k, u.held \o u.sent, 0, said)
    /\ m \in 0 .. n /\ u.pending = Words(m, n) /\ Assembling(u.reader, n, k)

\* The bridge that is attached: it has read what was held, and nothing is held.
Reads(v, u, m, n, said) ==
    /\ UpShape(v) /\ v.held = <<>> /\ v.sent = u.sent /\ Chain(v.sent, said)
    /\ \E x \in n .. said : \E y : At(x, y, v.sent, 0, said) /\ Assembling(v.reader, x, y) /\ v.pending = Words(m, x)

\* Attaching reads what was held, frame by frame, as if it arrived then.
LEMMA AttachedReads ==
    ASSUME NEW u, NEW m, NEW n, NEW k, NEW said, Waiting(u, m, n, k, said)
    PROVE  Reads(Attached(u), u, m, n, said)
<1>0. /\ said \in 0 .. MaxSaid /\ UpShape(u) /\ u.held \in Seq(LinkFrames) /\ u.sent \in Seq(LinkFrames)
      /\ Chain(u.held \o u.sent, said) /\ At(n, k, u.held \o u.sent, 0, said)
      /\ m \in 0 .. n /\ u.pending = Words(m, n) /\ Assembling(u.reader, n, k)
    BY DEF Waiting
<1> DEFINE F == u.held \o u.sent
           l == Len(u.held)
           Is(v, i) == /\ UpShape(v) /\ v.held = <<>> /\ v.sent = u.sent
                       /\ \E x \in n .. said : \E y : At(x, y, F, i, said) /\ Assembling(v.reader, x, y) /\ v.pending = Words(m, x)
<1>1. l \in Nat /\ Len(F) \in Nat /\ l <= Len(F) /\ \A i \in 1 .. l : F[i] = u.held[i]
    BY <1>0, FrontOf
<1>2. n \in 0 .. said /\ said \in Nat
  <2>1. n \in 0 .. said
      BY <1>0 DEF At
  <2> QED BY <1>0, <2>1, LinkBounds
<1>3. PICK r : Attaches(r, u, l) /\ Attached(u) = r[l]
    BY <1>0, <1>1, AttachedIsLast
<1> HIDE DEF F, l
<1> DEFINE T == {i \in 0 .. l : Is(r[i], i)}
<1>4. 0 \in T
  <2>1. r[0] = [u EXCEPT !.held = <<>>]
      BY <1>3 DEF Attaches
  <2>2. UpShape(r[0]) /\ r[0].held = <<>> /\ r[0].sent = u.sent /\ r[0].reader = u.reader /\ r[0].pending = u.pending
      BY <1>0, <2>1 DEF UpShape
  <2>3. n \in n .. said
      BY <1>2
  <2> QED BY <1>0, <1>1, <2>2, <2>3 DEF F
<1>5. ASSUME NEW i \in 0 .. l - 1, i \in T PROVE i + 1 \in T
  <2>1. /\ UpShape(r[i]) /\ r[i].held = <<>> /\ r[i].sent = u.sent
        /\ \E x \in n .. said : \E y : At(x, y, F, i, said) /\ Assembling(r[i].reader, x, y) /\ r[i].pending = Words(m, x)
      BY <1>5
  <2>2. PICK x, y : x \in n .. said /\ At(x, y, F, i, said) /\ Assembling(r[i].reader, x, y) /\ r[i].pending = Words(m, x)
      BY <2>1
  <2> HIDE DEF T, Is
  <2>3. i + 1 \in 1 .. l /\ (i + 1) - 1 = i /\ i \in 0 .. Len(F) - 1 /\ m \in 0 .. x /\ i + 1 \in 0 .. l
      BY <1>0, <1>1, <1>2, <2>2
  <2>4. r[i + 1] = Carries(r[i], "connecting", u.held[i + 1]).up /\ u.held[i + 1] = F[i + 1]
      BY <1>1, <1>3, <2>3 DEF Attaches
  <2>5. Carried(Carries(r[i], "connecting", F[i + 1]), r[i], "connecting", m, x, F, i, said)
    <3>1. Reading(r[i], m, x, y, F, i, said)
        BY <1>0, <2>1, <2>2, <2>3 DEF Reading, F
    <3> QED BY <3>1, CarriesNext
  <2>6. /\ UpShape(r[i + 1]) /\ r[i + 1].sent = r[i].sent /\ r[i + 1].held = r[i].held
        /\ \E z \in x .. said : \E w : At(z, w, F, i + 1, said) /\ Assembling(r[i + 1].reader, z, w) /\ r[i + 1].pending = Words(m, z)
    <3> DEFINE c == Carries(r[i], "connecting", F[i + 1])
    <3> HIDE DEF c
    <3>1. Carried(c, r[i], "connecting", m, x, F, i, said) /\ r[i + 1] = c.up
        BY <2>4, <2>5 DEF c
    <3> QED BY <3>1 DEF Carried
  <2>7. PICK z, w : z \in x .. said /\ At(z, w, F, i + 1, said) /\ Assembling(r[i + 1].reader, z, w) /\ r[i + 1].pending = Words(m, z)
      BY <2>6
  <2>8. z \in n .. said
      BY <1>2, <2>2, <2>7
  <2>9. Is(r[i + 1], i + 1)
      BY <2>1, <2>6, <2>7, <2>8 DEF Is
  <2> QED BY <2>3, <2>9 DEF T
<1> HIDE DEF T, Is
<1>6. l \in T
    BY <1>1, <1>4, <1>5, CountTo
<1> DEFINE v == Attached(u)
<1>7. Is(v, l)
    BY <1>3, <1>6 DEF T
<1> HIDE DEF v
<1>8. /\ UpShape(v) /\ v.held = <<>> /\ v.sent = u.sent
      /\ \E x \in n .. said : \E y : At(x, y, F, l, said) /\ Assembling(v.reader, x, y) /\ v.pending = Words(m, x)
    BY <1>7 DEF Is
<1>9. /\ Chain(u.sent, said)
      /\ \A x, y : At(x, y, F, l, said) => At(x, y, u.sent, 0, said)
    BY <1>0, ChainAfter DEF F, l
<1> QED BY <1>8, <1>9 DEF v, Reads

-----------------------------------------------------------------------------
(* The two directions of a link.                                           *)

\* u carries to the host what the app has said, and the server has got g of it.
Uplinked(u, g, said) ==
    /\ said \in 0 .. MaxSaid /\ UpShape(u)
    /\ u.held \in Seq(LinkFrames) /\ u.sent \in Seq(LinkFrames) /\ Chain(u.held \o u.sent, said)
    /\ \E n \in 0 .. said : \E m \in 0 .. n : \E k \in Nat :
          /\ g = Words(0, m) /\ u.pending = Words(m, n)
          /\ Assembling(u.reader, n, k) /\ At(n, k, u.held \o u.sent, 0, said)

\* d carries to the app what the server has said.
Downlinked(d, said) ==
    /\ said \in 0 .. MaxSaid /\ d = [sent |-> d.sent, reader |-> d.reader, got |-> d.got]
    /\ d.sent \in Seq(LinkFrames) /\ Chain(d.sent, said)
    /\ \E n \in 0 .. said : \E k \in Nat :
          d.got = Words(0, n) /\ Assembling(d.reader, n, k) /\ At(n, k, d.sent, 0, said)

Watches == [on : BOOLEAN, listener : BOOLEAN, seen : 0 .. MaxOffers + 1, timer : BOOLEAN, backoff : 1 .. WaitMax]

WatchTyped ==
    /\ mode \in {"push", "poll"} /\ watch \in Watches
    /\ reads \subseteq 1 .. MaxOffers + 1 /\ version \in 1 .. MaxOffers + 1 /\ errors \in 0 .. MaxErrors

LaneTyped ==
    /\ lane \in [open : BOOLEAN, dead : BOOLEAN]
    /\ chan \in [Channels -> {"connecting", "open", "closed"}] /\ ready \subseteq Channels
    /\ ears \in {"unset", "set", "spent"} /\ wait \in WaitStates
    /\ bridge \in {"none", "up", "closed", "broken"}
    /\ sock \in {"none", "connecting", "open", "closed"}

AppTyped ==
    /\ offer \in 0 .. MaxOffers /\ handed \in 0 .. offer
    /\ app \in [answered : 0 .. offer, phase : AppPhases, said : 0 .. MaxSaid]

\* The app says nothing on an exchange it has not answered, or not opened yet.
AppInStep ==
    /\ app.phase = "up" => app.answered = offer
    /\ app.answered < offer => app.said = 0
    /\ app.phase = "trying" => app.said = 0

\* A bridge holds nothing back, and with an open socket nothing waits.
BridgeInStep ==
    /\ bridge = "up" => up.held = <<>> /\ sock \in {"connecting", "open"}
    /\ sock = "open" => bridge = "up" /\ up.pending = <<>>

\* While the transport waits for both channels, those that have opened are open, and there is no bridge.
WaitInStep ==
    /\ wait = "waiting" => bridge = "none" /\ ~lane.open /\ \A c \in ready : chan[c] = "open"
    /\ wait = "early" /\ ears = "unset" => bridge = "none"
    /\ OpenIsBridged

WordsInStep ==
    /\ server = [got |-> server.got, said |-> server.said]
    /\ Uplinked(up, server.got, app.said) /\ Downlinked(down, server.said)

LinkInv == WatchTyped /\ LaneTyped /\ AppTyped /\ AppInStep /\ BridgeInStep /\ WaitInStep /\ WordsInStep

\* Of a new exchange nothing has been said.
LEMMA NothingSaid ==
    /\ 0 \in 0 .. MaxSaid /\ <<>> \in Seq(LinkFrames) /\ <<>> \o <<>> = <<>>
    /\ \A m \in 0 .. MaxSaid : Words(m, m) = <<>>
    /\ Chain(<<>>, 0) /\ At(0, 0, <<>>, 0, 0) /\ Assembling(Idle, 0, 0)
<1>1. 0 \in 0 .. MaxSaid /\ 0 \in 0 .. 0 /\ 0 \in Nat
    BY LinkBounds
<1>2. /\ <<>> \in Seq(LinkFrames) /\ Len(<<>>) = 0
    BY EmptySeq
<1>3. <<>> \o <<>> = <<>>
    BY <1>2, ConcatEmptySeq
<1>4. ASSUME NEW m \in 0 .. MaxSaid PROVE Words(m, m) = <<>>
  <2>1. m \in Nat /\ m - m = 0 /\ m \in m .. MaxSaid
      BY LinkBounds
  <2>2. Words(m, m) \in Seq(Texts) /\ Len(Words(m, m)) = 0
      BY <2>1, WordsAreTexts
  <2> QED BY <2>2, EmptySeq
<1>5. Chain(<<>>, 0)
    BY <1>2 DEF Chain
<1>6. At(0, 0, <<>>, 0, 0)
    BY <1>1, <1>2 DEF At
<1>7. Assembling(Idle, 0, 0)
    BY DEF Assembling
<1> QED BY <1>1, <1>2, <1>3, <1>4, <1>5, <1>6, <1>7

\* A new exchange carries nothing, in either direction.
LEMMA UplinkNew == Uplinked(NewUp, <<>>, 0)
<1>1. UpShape(NewUp) /\ NewUp.held = <<>> /\ NewUp.sent = <<>> /\ NewUp.reader = Idle /\ NewUp.pending = <<>>
    BY DEF NewUp, UpShape
<1>2. 0 \in 0 .. 0 /\ 0 \in Nat /\ <<>> = Words(0, 0)
    BY NothingSaid
<1> QED BY <1>1, <1>2, NothingSaid DEF Uplinked

LEMMA DownlinkNew == Downlinked(NewDown, 0)
<1>1. /\ NewDown = [sent |-> NewDown.sent, reader |-> NewDown.reader, got |-> NewDown.got]
      /\ NewDown.sent = <<>> /\ NewDown.reader = Idle /\ NewDown.got = <<>>
    BY DEF NewDown
<1>2. 0 \in 0 .. 0 /\ 0 \in Nat /\ <<>> = Words(0, 0)
    BY NothingSaid
<1> QED BY <1>1, <1>2, NothingSaid DEF Downlinked

\* Concatenation of frames.
LEMMA FramesAssociate == \A s, t, u \in Seq(LinkFrames) : (s \o t) \o u = s \o (t \o u)
BY ConcatAssociative

LEMMA FramesJoin == \A s, t \in Seq(LinkFrames) : s \o t \in Seq(LinkFrames)
BY ConcatProperties

\* What is said goes behind what is still held or on its way.
LEMMA SentSays ==
    ASSUME NEW said \in 0 .. MaxSaid, said < MaxSaid, NEW h \in Seq(LinkFrames), NEW g \in Seq(LinkFrames), Chain(h \o g, said)
    PROVE  /\ g \o FramesOf(said + 1, said + 1) \in Seq(LinkFrames) /\ said + 1 \in 0 .. MaxSaid
           /\ Chain(h \o (g \o FramesOf(said + 1, said + 1)), said + 1)
           /\ \A n, k : At(n, k, h \o g, 0, said) => At(n, k, h \o (g \o FramesOf(said + 1, said + 1)), 0, said + 1)
<1> DEFINE G == FramesOf(said + 1, said + 1)
           F == h \o g
<1>1. said + 1 \in 1 .. MaxSaid /\ said + 1 \in 0 .. MaxSaid
    BY LinkBounds
<1>2. G \in Seq(LinkFrames)
    BY <1>1, FramesOfPayload
<1>3. Chain(F \o G, said + 1) /\ \A n, k : At(n, k, F, 0, said) => At(n, k, F \o G, 0, said + 1)
    BY ChainGrows
<1> HIDE DEF G
<1>4. g \o G \in Seq(LinkFrames) /\ F \o G = h \o (g \o G)
    BY <1>2, FramesAssociate, FramesJoin, Zenon DEF F
<1> QED BY <1>1, <1>3, <1>4 DEF F, G

\* The app says one more payload.
LEMMA UplinkSays ==
    ASSUME NEW u, NEW g, NEW said, Uplinked(u, g, said), said < MaxSaid
    PROVE  Uplinked([u EXCEPT !.sent = @ \o FramesOf(said + 1, said + 1)], g, said + 1)
<1> DEFINE X == u.sent \o FramesOf(said + 1, said + 1)
           v == [u EXCEPT !.sent = X]
<1>1. /\ said \in 0 .. MaxSaid /\ UpShape(u)
      /\ u.held \in Seq(LinkFrames) /\ u.sent \in Seq(LinkFrames) /\ Chain(u.held \o u.sent, said)
    BY DEF Uplinked
<1>2. PICK n \in 0 .. said, m \in Nat, k \in Nat :
          /\ m \in 0 .. n /\ g = Words(0, m) /\ u.pending = Words(m, n)
          /\ Assembling(u.reader, n, k) /\ At(n, k, u.held \o u.sent, 0, said)
    BY DEF Uplinked
<1>3. /\ X \in Seq(LinkFrames) /\ said + 1 \in 0 .. MaxSaid /\ Chain(u.held \o X, said + 1)
      /\ At(n, k, u.held \o X, 0, said + 1)
    BY <1>1, <1>2, SentSays
<1> HIDE DEF X
<1>4. UpShape(v) /\ v.held = u.held /\ v.sent = X /\ v.reader = u.reader /\ v.pending = u.pending
    BY <1>1 DEF UpShape
<1> HIDE DEF v
<1>5. n \in 0 .. said + 1
    BY <1>1, LinkBounds
<1>6. Uplinked(v, g, said + 1)
    BY <1>1, <1>2, <1>3, <1>4, <1>5 DEF Uplinked
<1> QED BY <1>6 DEF v, X

\* The frame at the front moves behind what is held.
LEMMA HeadToBack ==
    ASSUME NEW h \in Seq(LinkFrames), NEW g \in Seq(LinkFrames), g # <<>>
    PROVE  /\ Head(g) \in LinkFrames /\ Tail(g) \in Seq(LinkFrames) /\ Append(h, Head(g)) \in Seq(LinkFrames)
           /\ Append(h, Head(g)) \o Tail(g) = h \o g
<1> DEFINE e == Head(g)
           t == Tail(g)
           a == <<e>>
<1>1. /\ e \in LinkFrames /\ t \in Seq(LinkFrames) /\ Len(t) = Len(g) - 1 /\ Len(g) \in Nat \ {0}
      /\ \A i \in 1 .. Len(t) : t[i] = g[i + 1]
    BY HeadTailProperties, EmptySeq
<1>2. e = g[1]
    OBVIOUS
<1>3. a \in Seq(LinkFrames) /\ Len(a) = 1 /\ a[1] = e
    BY <1>1
<1> HIDE DEF e, t, a
<1>4. Append(h, e) = h \o a /\ Append(h, e) \in Seq(LinkFrames)
    BY <1>1, AppendIsConcat, AppendProperties DEF a
<1>5. a \o t = g
  <2> DEFINE q == a \o t
  <2>1. /\ q \in Seq(LinkFrames) /\ Len(q) = Len(a) + Len(t)
        /\ \A i \in 1 .. Len(a) + Len(t) : /\ i <= Len(a) => q[i] = a[i]
                                           /\ ~(i <= Len(a)) => q[i] = t[i - Len(a)]
      BY <1>1, <1>3, ConcatProperties
  <2> HIDE DEF q
  <2>2. Len(q) = Len(g)
      BY <1>1, <1>3, <2>1
  <2>3. ASSUME NEW i \in 1 .. Len(q) PROVE q[i] = g[i]
    <3>1. CASE i = 1
        BY <1>1, <1>2, <1>3, <2>1, <3>1
    <3>2. CASE i # 1
      <4>1. i \in 1 .. Len(a) + Len(t) /\ ~(i <= Len(a)) /\ i - Len(a) \in 1 .. Len(t) /\ (i - Len(a)) + 1 = i
          BY <1>1, <1>3, <2>1, <3>2
      <4>2. q[i] = t[i - Len(a)]
          BY <2>1, <4>1
      <4>3. t[i - Len(a)] = g[(i - Len(a)) + 1]
          BY <1>1, <4>1
      <4> QED BY <4>1, <4>2, <4>3
    <3> QED BY <3>1, <3>2
  <2>4. q = g
      BY <2>1, <2>2, <2>3, SeqEqual
  <2> QED BY <2>4 DEF q
<1>6. (h \o a) \o t = h \o (a \o t)
    BY <1>1, <1>3, FramesAssociate, Zenon
<1> QED BY <1>1, <1>4, <1>5, <1>6 DEF e, t

\* A frame arrives and is held, for no bridge is there.
LEMMA UplinkHolds ==
    ASSUME NEW u, NEW g, NEW said, Uplinked(u, g, said), u.sent # <<>>
    PROVE  Uplinked([[u EXCEPT !.sent = Tail(@)] EXCEPT !.held = Append(@, Head(u.sent))], g, said)
<1> DEFINE X == Append(u.held, Head(u.sent))
           Y == Tail(u.sent)
           v == [[u EXCEPT !.sent = Y] EXCEPT !.held = Append(@, Head(u.sent))]
<1>1. /\ said \in 0 .. MaxSaid /\ UpShape(u)
      /\ u.held \in Seq(LinkFrames) /\ u.sent \in Seq(LinkFrames) /\ Chain(u.held \o u.sent, said)
      /\ \E n \in 0 .. said : \E m \in 0 .. n : \E k \in Nat :
          /\ g = Words(0, m) /\ u.pending = Words(m, n)
          /\ Assembling(u.reader, n, k) /\ At(n, k, u.held \o u.sent, 0, said)
    BY DEF Uplinked
<1>2. X \in Seq(LinkFrames) /\ Y \in Seq(LinkFrames) /\ X \o Y = u.held \o u.sent
    BY <1>1, HeadToBack
<1>3. v = [[u EXCEPT !.sent = Y] EXCEPT !.held = X]
    BY <1>1 DEF UpShape
<1> HIDE DEF X, Y, v
<1>4. UpShape(v) /\ v.held = X /\ v.sent = Y /\ v.reader = u.reader /\ v.pending = u.pending
    BY <1>1, <1>3 DEF UpShape
<1>5. Uplinked(v, g, said)
    BY <1>1, <1>2, <1>4 DEF Uplinked
<1> QED BY <1>5 DEF v, Y

\* A bridge attaches.
LEMMA UplinkAttaches ==
    ASSUME NEW u, NEW g, NEW said, Uplinked(u, g, said)
    PROVE  Uplinked(Attached(u), g, said) /\ Attached(u).held = <<>>
<1> DEFINE v == Attached(u)
<1>1. /\ said \in 0 .. MaxSaid /\ UpShape(u)
      /\ u.held \in Seq(LinkFrames) /\ u.sent \in Seq(LinkFrames) /\ Chain(u.held \o u.sent, said)
    BY DEF Uplinked
<1>2. PICK n \in 0 .. said, m \in Nat, k \in Nat :
          /\ m \in 0 .. n /\ g = Words(0, m) /\ u.pending = Words(m, n)
          /\ Assembling(u.reader, n, k) /\ At(n, k, u.held \o u.sent, 0, said)
    BY DEF Uplinked
<1>3a. Waiting(u, m, n, k, said)
    BY <1>1, <1>2 DEF Waiting
<1>3b. Reads(v, u, m, n, said)
    BY <1>3a, AttachedReads
<1> HIDE DEF v
<1>3. /\ UpShape(v) /\ v.held = <<>> /\ v.sent = u.sent /\ Chain(v.sent, said)
      /\ \E x \in n .. said : \E y : At(x, y, v.sent, 0, said) /\ Assembling(v.reader, x, y) /\ v.pending = Words(m, x)
    BY <1>3b DEF Reads
<1>4. PICK x, y : x \in n .. said /\ At(x, y, v.sent, 0, said) /\ Assembling(v.reader, x, y) /\ v.pending = Words(m, x)
    BY <1>3
<1>5. x \in 0 .. said /\ m \in 0 .. x /\ y \in Nat
    BY <1>1, <1>2, <1>4, LinkBounds DEF At
<1>6. <<>> \o v.sent = v.sent /\ <<>> \in Seq(LinkFrames)
    BY <1>1, <1>3, ConcatEmptySeq, EmptySeq
<1>7. Uplinked(v, g, said)
    BY <1>1, <1>2, <1>3, <1>4, <1>5, <1>6 DEF Uplinked
<1> QED BY <1>3, <1>7 DEF v

\* The socket opens: what waited for it goes to the server.
LEMMA UplinkOpens ==
    ASSUME NEW u, NEW g, NEW said, Uplinked(u, g, said)
    PROVE  Uplinked([u EXCEPT !.pending = <<>>], g \o u.pending, said)
<1> DEFINE v == [u EXCEPT !.pending = <<>>]
<1>1. /\ said \in 0 .. MaxSaid /\ UpShape(u)
      /\ u.held \in Seq(LinkFrames) /\ u.sent \in Seq(LinkFrames) /\ Chain(u.held \o u.sent, said)
    BY DEF Uplinked
<1>2. PICK n \in 0 .. said, m \in Nat, k \in Nat :
          /\ m \in 0 .. n /\ g = Words(0, m) /\ u.pending = Words(m, n)
          /\ Assembling(u.reader, n, k) /\ At(n, k, u.held \o u.sent, 0, said)
    BY DEF Uplinked
<1>3. UpShape(v) /\ v.held = u.held /\ v.sent = u.sent /\ v.reader = u.reader /\ v.pending = <<>>
    BY <1>1 DEF UpShape
<1>4. 0 \in 0 .. MaxSaid /\ m \in 0 .. MaxSaid /\ n \in m .. MaxSaid /\ n \in 0 .. MaxSaid /\ n \in 0 .. n
    BY <1>1, <1>2, LinkBounds
<1>5. g \o u.pending = Words(0, n) /\ Words(n, n) = <<>>
    BY <1>2, <1>4, WordsJoin, NothingSaid
<1> HIDE DEF v
<1>6. Uplinked(v, g \o u.pending, said)
    BY <1>1, <1>2, <1>3, <1>4, <1>5 DEF Uplinked
<1> QED BY <1>6 DEF v

\* A frame arrives at the bridge: it is accepted, and what it completes goes on.
LEMMA UplinkCarries ==
    ASSUME NEW u, NEW g, NEW said, NEW s, Uplinked(u, g, said), u.held = <<>>, u.sent # <<>>, s = "open" => u.pending = <<>>
    PROVE  LET c == Carries([u EXCEPT !.sent = Tail(@)], s, Head(u.sent))
           IN /\ Accepts(u.reader, Head(u.sent)) /\ Uplinked(c.up, g \o c.out, said)
              /\ c.up.held = <<>> /\ (s = "open" => c.up.pending = <<>>)
<1> DEFINE F == u.sent
           Y == Tail(F)
           w == [u EXCEPT !.sent = Y]
           c == Carries(w, s, Head(F))
<1>1. /\ said \in 0 .. MaxSaid /\ UpShape(u) /\ F \in Seq(LinkFrames) /\ Chain(F, said)
  <2>1. /\ said \in 0 .. MaxSaid /\ UpShape(u) /\ F \in Seq(LinkFrames) /\ Chain(<<>> \o F, said)
      BY DEF Uplinked
  <2> QED BY <2>1, ConcatEmptySeq
<1>2. PICK n \in 0 .. said, m \in Nat, k \in Nat :
          /\ m \in 0 .. n /\ g = Words(0, m) /\ u.pending = Words(m, n)
          /\ Assembling(u.reader, n, k) /\ At(n, k, F, 0, said)
  <2>1. <<>> \o F = F
      BY <1>1, ConcatEmptySeq
  <2> QED BY <2>1 DEF Uplinked
<1>3. /\ Chain(Y, said) /\ Len(F) \in Nat \ {0} /\ Head(F) = F[1]
      /\ \A x, y : At(x, y, F, 1, said) => At(x, y, Y, 0, said)
    BY <1>1, ChainTail
<1> HIDE DEF Y, F
<1>4. UpShape(w) /\ w.held = <<>> /\ w.sent = Y /\ w.reader = u.reader /\ w.pending = u.pending
    BY <1>1 DEF UpShape
<1> HIDE DEF w
<1>5. Reading(w, m, n, k, F, 0, said)
  <2>1. 0 \in 0 .. Len(F) - 1
      BY <1>3
  <2> QED BY <1>1, <1>2, <1>4, <2>1 DEF Reading
<1>6. Accepts(w.reader, F[0 + 1]) /\ Carried(Carries(w, s, F[0 + 1]), w, s, m, n, F, 0, said)
    BY <1>5, CarriesNext
<1>7. Accepts(u.reader, Head(F)) /\ Carried(c, w, s, m, n, F, 0, said)
  <2>1. F[0 + 1] = Head(F)
      BY <1>3
  <2> QED BY <1>4, <1>6, <2>1
<1> HIDE DEF c
<1>8. /\ UpShape(c.up) /\ c.up.sent = Y /\ c.up.held = <<>>
    BY <1>4, <1>7 DEF Carried
<1>9. PICK x, y :
          /\ x \in n .. said
          /\ At(x, y, F, 0 + 1, said) /\ Assembling(c.up.reader, x, y)
          /\ s # "open" => c.out = <<>> /\ c.up.pending = Words(m, x)
          /\ s = "open" => c.up.pending = u.pending /\ Words(0, n) \o c.out = Words(0, x)
    BY <1>4, <1>7 DEF Carried
<1>10. At(x, y, Y, 0, said) /\ x \in 0 .. said /\ y \in Nat /\ m \in 0 .. x /\ x \in 0 .. x
  <2>1. At(x, y, Y, 0, said)
      BY <1>3, <1>9
  <2> QED BY <1>1, <1>2, <1>9, <2>1, LinkBounds DEF At
<1>11. Chain(<<>> \o Y, said) /\ <<>> \in Seq(LinkFrames) /\ Y \in Seq(LinkFrames) /\ <<>> \o Y = Y
  <2>1. Y \in Seq(LinkFrames)
      BY <1>3 DEF Chain
  <2> QED BY <1>3, <2>1, ConcatEmptySeq, EmptySeq
<1>12. 0 \in 0 .. MaxSaid /\ m \in 0 .. MaxSaid /\ n \in 0 .. MaxSaid /\ x \in 0 .. MaxSaid /\ m \in Nat /\ n \in Nat /\ n \in m .. MaxSaid
    BY <1>1, <1>2, <1>10, LinkBounds
<1>13. CASE s # "open"
  <2>1. g \o c.out = Words(0, m) /\ c.up.pending = Words(m, x)
    <3>1. Words(0, m) \in Seq(Texts)
        BY <1>12, WordsAreTexts
    <3> QED BY <1>2, <1>9, <1>13, <3>1, ConcatEmptySeq
  <2>2. Uplinked(c.up, g \o c.out, said)
      BY <1>1, <1>8, <1>9, <1>10, <1>11, <2>1 DEF Uplinked
  <2> QED BY <1>7, <1>8, <1>13, <2>2 DEF c, w, Y, F
<1>14. CASE s = "open"
  <2>1. u.pending = <<>>
      BY <1>14
  <2>2. m = n
    <3>1. Len(Words(m, n)) = n - m
        BY <1>12, WordsAreTexts
    <3> QED BY <1>2, <1>12, <2>1, <3>1
  <2>3. g \o c.out = Words(0, x) /\ c.up.pending = Words(x, x)
      BY <1>2, <1>9, <1>12, <1>14, <2>1, <2>2, NothingSaid
  <2>4. Uplinked(c.up, g \o c.out, said)
      BY <1>1, <1>8, <1>9, <1>10, <1>11, <2>3 DEF Uplinked
  <2>5. c.up.pending = <<>>
      BY <1>9, <1>14, <2>1
  <2> QED BY <1>7, <1>8, <2>4, <2>5 DEF c, w, Y, F
<1> QED BY <1>13, <1>14

\* The server says one more payload.
LEMMA DownlinkSays ==
    ASSUME NEW d, NEW said, Downlinked(d, said), said < MaxSaid
    PROVE  Downlinked([d EXCEPT !.sent = @ \o FramesOf(said + 1, said + 1)], said + 1)
<1> DEFINE X == d.sent \o FramesOf(said + 1, said + 1)
           v == [d EXCEPT !.sent = X]
<1>1. /\ said \in 0 .. MaxSaid /\ d = [sent |-> d.sent, reader |-> d.reader, got |-> d.got]
      /\ d.sent \in Seq(LinkFrames) /\ Chain(d.sent, said)
    BY DEF Downlinked
<1>2. PICK n \in 0 .. said, k \in Nat :
          d.got = Words(0, n) /\ Assembling(d.reader, n, k) /\ At(n, k, d.sent, 0, said)
    BY DEF Downlinked
<1>3. /\ Chain(X, said + 1) /\ At(n, k, X, 0, said + 1)
    BY <1>1, <1>2, ChainGrows
<1>4. X \in Seq(LinkFrames) /\ said + 1 \in 0 .. MaxSaid /\ n \in 0 .. said + 1
    BY <1>1, <1>3, LinkBounds DEF Chain
<1> HIDE DEF X
<1>5. v = [sent |-> v.sent, reader |-> v.reader, got |-> v.got] /\ v.sent = X /\ v.reader = d.reader /\ v.got = d.got
    BY <1>1
<1> HIDE DEF v
<1>6. Downlinked(v, said + 1)
    BY <1>2, <1>3, <1>4, <1>5 DEF Downlinked
<1> QED BY <1>6 DEF v, X

\* A frame arrives at the app, and what it completes is read.
LEMMA DownlinkReads ==
    ASSUME NEW d, NEW said, Downlinked(d, said), d.sent # <<>>
    PROVE  LET a == Accept(d.reader, Head(d.sent))
           IN Downlinked([sent |-> Tail(d.sent), reader |-> a.reader, got |-> d.got \o a.whole], said)
<1> DEFINE F == d.sent
           Y == Tail(F)
           a == Accept(d.reader, Head(F))
           R == a.reader
           W == d.got \o a.whole
           v == [sent |-> Y, reader |-> R, got |-> W]
<1>1. /\ said \in 0 .. MaxSaid /\ F \in Seq(LinkFrames) /\ Chain(F, said)
    BY DEF Downlinked
<1>2. PICK n \in 0 .. said, k \in Nat :
          d.got = Words(0, n) /\ Assembling(d.reader, n, k) /\ At(n, k, F, 0, said)
    BY DEF Downlinked
<1>3. /\ Chain(Y, said) /\ Len(F) \in Nat \ {0} /\ Head(F) = F[1]
      /\ \A x, y : At(x, y, F, 1, said) => At(x, y, Y, 0, said)
    BY <1>1, ChainTail
<1> HIDE DEF F, Y
<1>4. 0 \in 0 .. Len(F) - 1 /\ 0 + 1 = 1
    BY <1>3
<1>5. /\ n + 1 \in 1 .. said /\ k \in 0 .. Parts[n + 1] - 1 /\ F[0 + 1] = FrameAt(n + 1, k)
      /\ k + 1 < Parts[n + 1] => At(n, k + 1, F, 0 + 1, said)
      /\ k + 1 = Parts[n + 1] => At(n + 1, 0, F, 0 + 1, said)
    BY <1>1, <1>2, <1>4, StepOn
<1>6. n \in 0 .. MaxSaid /\ n < MaxSaid /\ n + 1 \in 1 .. MaxSaid /\ Head(F) = FrameAt(n + 1, k) /\ n \in Nat /\ 0 \in 0 .. MaxSaid
      /\ n \in 0 .. MaxSaid /\ n + 1 \in n .. MaxSaid /\ n + 1 \in 0 .. said /\ 0 \in Nat /\ k + 1 \in Nat
    BY <1>1, <1>3, <1>4, <1>5, LinkBounds
<1>7. /\ k + 1 < Parts[n + 1] => a.whole = <<>> /\ Assembling(a.reader, n, k + 1)
      /\ k + 1 = Parts[n + 1] => a.whole = <<Payload(n + 1)>> /\ Assembling(a.reader, n + 1, 0)
    BY <1>2, <1>5, <1>6, ReaderTakes
<1>8. k + 1 < Parts[n + 1] \/ k + 1 = Parts[n + 1]
  <2>1. Parts[n + 1] \in Nat
      BY <1>6, FramesOfPayload
  <2> QED BY <1>5, <2>1
<1> HIDE DEF R, W
<1>9. v.sent = Y /\ v.reader = R /\ v.got = W /\ v = [sent |-> v.sent, reader |-> v.reader, got |-> v.got] /\ Y \in Seq(LinkFrames)
  <2>1. Y \in Seq(LinkFrames)
      BY <1>3 DEF Chain
  <2> QED BY <2>1
<1> HIDE DEF a, v
<1>10. CASE k + 1 < Parts[n + 1]
  <2>1. W = Words(0, n)
    <3>1. Words(0, n) \in Seq(Texts)
        BY <1>6, WordsAreTexts
    <3> QED BY <1>2, <1>7, <1>10, <3>1, ConcatEmptySeq DEF W
  <2>2. At(n, k + 1, Y, 0, said)
      BY <1>3, <1>4, <1>5, <1>10
  <2> QED BY <1>1, <1>3, <1>6, <1>7, <1>9, <1>10, <2>1, <2>2 DEF Downlinked, v, F, Y, a, R, W
<1>11. CASE k + 1 = Parts[n + 1]
  <2>1. W = Words(0, n + 1)
    <3>1. Words(n, n + 1) = <<Payload(n + 1)>>
        BY <1>6, OneWord
    <3>2. Words(0, n) \o Words(n, n + 1) = Words(0, n + 1)
        BY <1>6, WordsJoin
    <3> QED BY <1>2, <1>7, <1>11, <3>1, <3>2 DEF W
  <2>2. At(n + 1, 0, Y, 0, said)
      BY <1>3, <1>4, <1>5, <1>11
  <2> QED BY <1>1, <1>3, <1>6, <1>7, <1>9, <1>11, <2>1, <2>2 DEF Downlinked, v, F, Y, a, R, W
<1> QED BY <1>8, <1>10, <1>11

-----------------------------------------------------------------------------
(* The watch.                                                              *)

\* The fields of the watch.
LEMMA WatchFields == ASSUME WatchTyped PROVE
    /\ watch = [on |-> watch.on, listener |-> watch.listener, seen |-> watch.seen, timer |-> watch.timer, backoff |-> watch.backoff]
    /\ watch.on \in BOOLEAN /\ watch.listener \in BOOLEAN /\ watch.timer \in BOOLEAN
    /\ watch.seen \in 0 .. MaxOffers + 1 /\ watch.backoff \in 1 .. WaitMax
BY DEF WatchTyped, Watches

\* A listener that is armed is a listener.
LEMMA ArmedKeeps == \A w \in Watches : Armed(w) \in Watches
<1> SUFFICES ASSUME NEW w \in Watches PROVE Armed(w) \in Watches
    OBVIOUS
<1>1. 0 \in 0 .. MaxOffers + 1
    BY LinkBounds
<1>2. [w EXCEPT !.listener = TRUE, !.seen = 0] \in Watches
    BY <1>1 DEF Watches
<1> QED BY <1>2 DEF Armed

\* Whatever the watch does, its variables keep their types.
LEMMA WatchMoves ==
    ASSUME WatchTyped,
           \/ WatchStarts \/ WatchStops \/ (\E v \in 1 .. MaxOffers + 1 : Snapshot(v) \/ ReadArrives(v))
           \/ ListenerDies \/ ReadFails \/ Rebuild \/ Tick
    PROVE  WatchTyped'
<1> USE WatchFields, LinkBounds, WaitAssumption
<1>1. CASE WatchStarts
  <2>1. [watch EXCEPT !.on = TRUE] \in Watches /\ [watch EXCEPT !.on = TRUE, !.timer = TRUE] \in Watches
      BY DEF WatchTyped, Watches
  <2>2. watch' \in Watches
      BY <1>1, <2>1, ArmedKeeps DEF WatchStarts
  <2> QED BY <1>1, <2>2 DEF WatchTyped, WatchStarts
<1>2. CASE WatchStops
  <2>1. watch' \in Watches
      BY <1>2 DEF WatchTyped, Watches, WatchStops
  <2> QED BY <1>2, <2>1 DEF WatchTyped, WatchStops
<1>3. CASE \E v \in 1 .. MaxOffers + 1 : Snapshot(v) \/ ReadArrives(v)
  <2>1. PICK v \in 1 .. MaxOffers + 1 : Snapshot(v) \/ ReadArrives(v)
      BY <1>3
  <2>2. CASE Snapshot(v)
    <3>1. watch' = [watch EXCEPT !.seen = version, !.backoff = 1] /\ version \in 0 .. MaxOffers + 1 /\ 1 \in 1 .. WaitMax
        BY <2>2 DEF WatchTyped, Snapshot
    <3>2. watch' \in Watches
        BY <3>1 DEF WatchTyped, Watches
    <3> QED BY <2>2, <3>2 DEF WatchTyped, Snapshot
  <2>3. CASE ReadArrives(v)
      BY <2>3 DEF WatchTyped, ReadArrives
  <2> QED BY <2>1, <2>2, <2>3
<1>4. CASE ListenerDies
  <2>1. Smaller(2 * watch.backoff, WaitMax) \in 1 .. WaitMax
      BY DEF Smaller
  <2>2. watch' \in Watches
      BY <1>4, <2>1 DEF WatchTyped, Watches, ListenerDies
  <2> QED BY <1>4, <2>2 DEF WatchTyped, ListenerDies
<1>5. CASE ReadFails
    BY <1>5 DEF WatchTyped, ReadFails
<1>6. CASE Rebuild
  <2>1. [watch EXCEPT !.timer = FALSE] \in Watches
      BY DEF WatchTyped, Watches
  <2>2. watch' \in Watches
      BY <1>6, <2>1, ArmedKeeps DEF Rebuild
  <2> QED BY <1>6, <2>2 DEF WatchTyped, Rebuild
<1>7. CASE Tick
    BY <1>7 DEF WatchTyped, Tick
<1> QED BY <1>1, <1>2, <1>3, <1>4, <1>5, <1>6, <1>7

LEMMA WatchStays == ASSUME WatchTyped, UNCHANGED watchVars PROVE WatchTyped'
BY DEF WatchTyped, watchVars

-----------------------------------------------------------------------------
(* The link, step by step.                                                 *)

\* The fields of the app.
LEMMA AppFields == ASSUME AppTyped PROVE
    /\ app = [answered |-> app.answered, phase |-> app.phase, said |-> app.said]
    /\ app.answered \in 0 .. offer /\ app.phase \in AppPhases /\ app.said \in 0 .. MaxSaid
BY DEF AppTyped

\* What changes no word keeps the words in step.
LEMMA SavedWords == ASSUME WordsInStep, UNCHANGED <<up, server, down>>, app'.said = app.said PROVE WordsInStep'
BY DEF WordsInStep

\* It holds at first.
LEMMA LinkStarts == ASSUME LinkInit PROVE LinkInv
<1>1. WatchTyped
    BY LinkBounds, WaitAssumption DEF LinkInit, WatchInit, WatchTyped, Watches, NotWatching
<1>2. LaneTyped
    BY DEF LinkInit, LaneTyped, WaitStates
<1>3. AppTyped /\ app.said = 0 /\ app.phase = "idle" /\ app.answered = 0
    BY LinkBounds DEF LinkInit, AppTyped, AppPhases
<1>4. AppInStep /\ BridgeInStep /\ WaitInStep
    BY <1>3 DEF LinkInit, AppInStep, BridgeInStep, WaitInStep, OpenIsBridged
<1>5. server.got = <<>> /\ server.said = 0 /\ server = [got |-> server.got, said |-> server.said]
    BY DEF LinkInit
<1>6. WordsInStep
    BY <1>3, <1>5, UplinkNew, DownlinkNew DEF LinkInit, WordsInStep
<1> QED BY <1>1, <1>2, <1>3, <1>4, <1>6 DEF LinkInv

\* A new exchange, begun by either action.
LEMMA BeginsKeeps == ASSUME LinkInv, WatchTyped', offer < MaxOffers, Begins PROVE LinkInv'
<1>1. LaneTyped'
    BY DEF Begins, LaneTyped, WaitStates
<1>2. /\ offer' = offer + 1 /\ handed' = handed /\ offer \in Nat
      /\ app' = [app EXCEPT !.phase = IF @ = "up" THEN "lost" ELSE @, !.said = 0]
    BY LinkBounds DEF LinkInv, AppTyped, Begins
<1>3. app'.answered = app.answered /\ app'.said = 0 /\ app'.phase \in AppPhases \ {"up"}
      /\ app' = [answered |-> app'.answered, phase |-> app'.phase, said |-> app'.said]
    BY <1>2, AppFields DEF LinkInv, AppPhases
<1>4. AppTyped'
  <2>1. offer' \in 0 .. MaxOffers /\ handed' \in 0 .. offer' /\ app'.answered \in 0 .. offer' /\ 0 \in 0 .. MaxSaid
      BY <1>2, <1>3, AppFields, LinkBounds DEF LinkInv, AppTyped
  <2> QED BY <1>3, <2>1 DEF AppTyped
<1>5. AppInStep' /\ BridgeInStep' /\ WaitInStep'
    BY <1>3 DEF AppInStep, BridgeInStep, WaitInStep, OpenIsBridged, Begins
<1>6. server'.got = <<>> /\ server'.said = 0 /\ server' = [got |-> server'.got, said |-> server'.said] /\ up' = NewUp /\ down' = NewDown
    BY DEF Begins
<1>7. WordsInStep'
    BY <1>3, <1>6, UplinkNew, DownlinkNew DEF WordsInStep
<1> QED BY <1>1, <1>4, <1>5, <1>7 DEF LinkInv

LEMMA StartDirectTransportKeeps == ASSUME LinkInv, StartDirectTransport PROVE LinkInv'
<1>1. WatchTyped' /\ offer < MaxOffers
    BY WatchMoves, LinkBounds DEF LinkInv, StartDirectTransport
<1> QED BY <1>1, BeginsKeeps DEF StartDirectTransport

LEMMA RefreshIfStaleKeeps == ASSUME LinkInv, RefreshIfStale PROVE LinkInv'
<1>1. WatchTyped' /\ offer < MaxOffers
    BY WatchStays, LinkBounds DEF LinkInv, RefreshIfStale
<1> QED BY <1>1, BeginsKeeps DEF RefreshIfStale

LEMMA TryConnectKeeps == ASSUME LinkInv, TryConnect PROVE LinkInv'
<1>1. app'.answered = offer /\ app'.phase = "trying" /\ app'.said = 0 /\ app' = [answered |-> app'.answered, phase |-> app'.phase, said |-> app'.said]
      /\ app.answered < offer
    BY AppFields, LinkBounds DEF LinkInv, TryConnect, AppTyped
<1>2. app.said = 0
    BY <1>1 DEF LinkInv, AppInStep
<1>3. AppTyped'
    BY <1>1, LinkBounds DEF LinkInv, AppTyped, TryConnect, AppPhases
<1>4. WatchTyped'
    BY LinkBounds DEF LinkInv, AppTyped, WatchTyped, TryConnect
<1>5. LaneTyped' /\ AppInStep' /\ BridgeInStep' /\ WaitInStep'
    BY <1>1, LinkBounds DEF LinkInv, LaneTyped, AppInStep, BridgeInStep, WaitInStep, OpenIsBridged, AppTyped, TryConnect
<1>6. WordsInStep'
    BY <1>1, <1>2, SavedWords DEF LinkInv, TryConnect
<1> QED BY <1>3, <1>4, <1>5, <1>6 DEF LinkInv

LEMMA DeliveredKeeps == ASSUME LinkInv, Delivered PROVE LinkInv'
<1>1. PICK v \in 1 .. MaxOffers + 1 : (Snapshot(v) \/ ReadArrives(v)) /\ Heard(v)
    BY DEF Delivered
<1>2. WatchTyped'
    BY <1>1, WatchMoves DEF LinkInv
<1>3. UNCHANGED <<offer, lane, chan, ready, ears, wait, bridge, sock, up, server, app, down>>
    BY DEF Delivered
<1>3a. WaitInStep'
    BY <1>3 DEF LinkInv, WaitInStep, OpenIsBridged
<1>4. handed' \in 0 .. offer
    BY <1>1, LinkBounds DEF Heard, LinkInv, AppTyped
<1>5. LaneTyped' /\ AppTyped' /\ AppInStep' /\ BridgeInStep'
    BY <1>3, <1>4 DEF LinkInv, LaneTyped, AppTyped, AppInStep, BridgeInStep
<1>6. WordsInStep'
    BY <1>3, SavedWords DEF LinkInv
<1> QED BY <1>2, <1>3a, <1>5, <1>6 DEF LinkInv

\* A step of the watch that leaves the link alone.
LEMMA LinkRests == ASSUME LinkInv, WatchTyped', UNCHANGED linkVars PROVE LinkInv'
<1>1. LaneTyped' /\ AppTyped' /\ AppInStep' /\ BridgeInStep' /\ WaitInStep'
    BY DEF LinkInv, LaneTyped, AppTyped, AppInStep, BridgeInStep, WaitInStep, OpenIsBridged, linkVars
<1>2. WordsInStep'
    BY SavedWords DEF LinkInv, linkVars
<1> QED BY <1>1, <1>2 DEF LinkInv

LEMMA WatchFailsKeeps == ASSUME LinkInv, WatchFails PROVE LinkInv'
<1>1. WatchTyped'
    BY WatchMoves DEF LinkInv, WatchFails
<1> QED BY <1>1, LinkRests DEF WatchFails

LEMMA WatchGoesOnKeeps == ASSUME LinkInv, WatchGoesOn PROVE LinkInv'
<1>1. WatchTyped'
    BY WatchMoves DEF LinkInv, WatchGoesOn
<1> QED BY <1>1, LinkRests DEF WatchGoesOn

\* A lane that ends loses no word: what is under way stays where it is.
LEMMA LaneChangesKeep ==
    ASSUME LinkInv, WatchTyped', LaneTyped', BridgeInStep', WaitInStep', UNCHANGED <<offer, handed, app, up, server, down>>
    PROVE  LinkInv'
<1>1. AppTyped' /\ AppInStep'
    BY DEF LinkInv, AppTyped, AppInStep
<1>2. WordsInStep'
    BY SavedWords DEF LinkInv
<1> QED BY <1>1, <1>2 DEF LinkInv

\* The end of a lane closes the socket with the bridge.
LEMMA LaneEndsKeeps ==
    ASSUME LinkInv, LaneEnds, UNCHANGED <<ready, wait>>, wait # "waiting"
    PROVE  LaneTyped' /\ WaitInStep' /\ (up' = up => BridgeInStep')
<1>1. LaneTyped'
    BY DEF LinkInv, LaneTyped, LaneEnds
<1>2. up' = up => BridgeInStep'
    BY DEF LinkInv, BridgeInStep, LaneTyped, LaneEnds
<1>3. WaitInStep'
    BY DEF WaitInStep, OpenIsBridged, LaneEnds
<1> QED BY <1>1, <1>2, <1>3

\* Channels that have opened close: the wait for both, if it is not over, ends with that.
LEMMA WaitsKeeps ==
    ASSUME LinkInv, NEW cs \in SUBSET Channels, chan' \in [Channels -> {"connecting", "open", "closed"}],
           \A c \in Channels : chan'[c] = IF c \in cs THEN "closed" ELSE chan[c],
           wait' = Waits(cs), ears' = ears \/ (ears = "set" /\ ears' = "spent"), UNCHANGED <<lane, ready, bridge, sock, up>>
    PROVE  LaneTyped' /\ BridgeInStep' /\ WaitInStep'
<1>1. wait' = wait \/ (wait = "waiting" /\ wait' \in {"escaped", "rejected"})
    BY DEF Waits
<1>2. LaneTyped' /\ BridgeInStep'
    BY <1>1 DEF LinkInv, LaneTyped, BridgeInStep, WaitStates
<1>3. wait' = "waiting" => wait = "waiting" /\ cs = {}
    BY DEF Waits
<1>4. WaitInStep'
    BY <1>1, <1>3 DEF LinkInv, LaneTyped, WaitInStep, OpenIsBridged
<1> QED BY <1>2, <1>4

LEMMA ChannelEndsKeeps == ASSUME LinkInv, NEW c \in Channels, ChannelEnds(c) PROVE LinkInv'
<1>1. UNCHANGED <<watchVars, offer, handed, ready, up, server, app, down>>
    BY DEF ChannelEnds
<1>2. WatchTyped'
    BY <1>1, WatchStays DEF LinkInv
<1>3. LaneTyped' /\ BridgeInStep' /\ WaitInStep'
  <2>1. CASE bridge = "up" /\ LaneEnds /\ wait' = wait
    <3>1. wait # "waiting"
        BY <2>1 DEF LinkInv, WaitInStep
    <3> QED BY <1>1, <2>1, <3>1, LaneEndsKeeps
  <2>2. CASE /\ chan' = [chan EXCEPT ![c] = "closed"] /\ wait' = Waits({c})
             /\ UNCHANGED <<lane, ears, bridge, sock>>
    <3>1. chan' \in [Channels -> {"connecting", "open", "closed"}] /\ \A d \in Channels : chan'[d] = IF d \in {c} THEN "closed" ELSE chan[d]
        BY <2>2 DEF LinkInv, LaneTyped
    <3> QED BY <1>1, <2>2, <3>1, WaitsKeeps
  <2> QED BY <2>1, <2>2 DEF ChannelEnds
<1> QED BY <1>1, <1>2, <1>3, LaneChangesKeep

LEMMA DisconnectedKeeps == ASSUME LinkInv, Disconnected PROVE LinkInv'
<1>1. UNCHANGED <<mode, watch, reads, version, offer, handed, ready, up, server, app, down>> /\ errors < MaxErrors /\ errors' = errors + 1
    BY DEF Disconnected
<1>2. WatchTyped'
    BY <1>1, LinkBounds DEF LinkInv, WatchTyped
<1>3. LaneTyped' /\ BridgeInStep' /\ WaitInStep'
  <2>1. CASE (bridge = "up" \/ (ears = "set" /\ lane.open)) /\ LaneEnds /\ wait' = wait
    <3>1. wait # "waiting"
        BY <2>1 DEF LinkInv, WaitInStep
    <3> QED BY <1>1, <2>1, <3>1, LaneEndsKeeps
  <2>2. CASE /\ chan' = [d \in Channels |-> IF d \in ready THEN "closed" ELSE chan[d]]
             /\ ears' = IF ears = "set" THEN "spent" ELSE ears
             /\ wait' = Waits(ready)
             /\ UNCHANGED <<lane, bridge, sock>>
    <3>1. chan' \in [Channels -> {"connecting", "open", "closed"}] /\ \A d \in Channels : chan'[d] = IF d \in ready THEN "closed" ELSE chan[d]
        BY <2>2 DEF LinkInv, LaneTyped
    <3>2. ready \in SUBSET Channels /\ (ears' = ears \/ (ears = "set" /\ ears' = "spent"))
        BY <2>2 DEF LinkInv, LaneTyped
    <3> QED BY <1>1, <2>2, <3>1, <3>2, WaitsKeeps
  <2> QED BY <2>1, <2>2 DEF Disconnected
<1> QED BY <1>1, <1>2, <1>3, LaneChangesKeep

LEMMA SocketClosesKeeps == ASSUME LinkInv, SocketCloses PROVE LinkInv'
<1>1. UNCHANGED <<mode, watch, reads, version, offer, handed, ready, wait, up, server, app, down>> /\ errors < MaxErrors /\ errors' = errors + 1
    BY DEF SocketCloses
<1>2. WatchTyped'
    BY <1>1, LinkBounds DEF LinkInv, WatchTyped
<1>3. LaneTyped' /\ BridgeInStep' /\ WaitInStep'
  <2>1. wait # "waiting"
      BY DEF LinkInv, WaitInStep, SocketCloses
  <2> QED BY <1>1, <2>1, LaneEndsKeeps DEF SocketCloses
<1> QED BY <1>1, <1>2, <1>3, LaneChangesKeep

LEMMA TeardownKeeps == ASSUME LinkInv, Teardown PROVE LinkInv'
<1>1. UNCHANGED <<offer, handed, ready, up, server, app, down>>
    BY DEF Teardown
<1>2. WatchTyped'
    BY WatchMoves DEF LinkInv, Teardown
<1>3. LaneTyped'
    BY DEF LinkInv, LaneTyped, WaitStates, Teardown
<1>4. BridgeInStep' /\ WaitInStep'
    BY DEF LinkInv, LaneTyped, BridgeInStep, WaitInStep, OpenIsBridged, Teardown
<1> QED BY <1>1, <1>2, <1>3, <1>4, LaneChangesKeep

\* The app's end turns to another phase, of which "up" and "trying" are none.
LEMMA PhaseChangesKeep ==
    ASSUME LinkInv, WatchTyped', UNCHANGED <<offer, handed, lane, chan, ready, ears, wait, bridge, sock, up, server, down>>,
           app'.answered = app.answered, app'.said = app.said, app'.phase \in AppPhases \ {"up", "trying"},
           app' = [answered |-> app'.answered, phase |-> app'.phase, said |-> app'.said]
    PROVE  LinkInv'
<1>1. LaneTyped' /\ BridgeInStep' /\ WaitInStep' /\ AppInStep'
    BY DEF LinkInv, LaneTyped, BridgeInStep, WaitInStep, OpenIsBridged, AppInStep
<1>2. AppTyped'
    BY AppFields DEF LinkInv, AppTyped
<1>3. WordsInStep'
    BY SavedWords DEF LinkInv
<1> QED BY <1>1, <1>2, <1>3 DEF LinkInv

LEMMA AppLosesKeeps == ASSUME LinkInv, AppLoses PROVE LinkInv'
<1>1. UNCHANGED <<watchVars, offer, handed, lane, chan, ready, ears, wait, bridge, sock, up, server, down>>
    BY DEF AppLoses
<1>2. WatchTyped'
    BY <1>1, WatchStays DEF LinkInv
<1>3. PICK p \in {"lost", "failed"} : app' = [app EXCEPT !.phase = p]
    BY DEF AppLoses
<1>4. /\ app'.answered = app.answered /\ app'.said = app.said /\ app'.phase \in AppPhases \ {"up", "trying"}
      /\ app' = [answered |-> app'.answered, phase |-> app'.phase, said |-> app'.said]
    BY <1>3, AppFields DEF LinkInv, AppPhases
<1> QED BY <1>1, <1>2, <1>4, PhaseChangesKeep

LEMMA AppGivesUpKeeps == ASSUME LinkInv, AppGivesUp PROVE LinkInv'
<1>1. UNCHANGED <<mode, watch, reads, version, offer, handed, lane, chan, ready, ears, wait, bridge, sock, up, server, down>>
      /\ errors < MaxErrors /\ errors' = errors + 1
    BY DEF AppGivesUp
<1>2. WatchTyped'
    BY <1>1, LinkBounds DEF LinkInv, WatchTyped
<1>3. PICK p \in {"lost", "failed"} : app' = [app EXCEPT !.phase = p]
    BY AppFields DEF LinkInv, AppGivesUp
<1>4. /\ app'.answered = app.answered /\ app'.said = app.said /\ app'.phase \in AppPhases \ {"up", "trying"}
      /\ app' = [answered |-> app'.answered, phase |-> app'.phase, said |-> app'.said]
    BY <1>3, AppFields DEF LinkInv, AppPhases
<1> QED BY <1>1, <1>2, <1>4, PhaseChangesKeep

\* The bridge is built, or its construction throws.
LEMMA BridgesKeeps ==
    ASSUME LinkInv, Bridges, UNCHANGED <<watchVars, offer, handed, server, app, down>>,
           chan' \in [Channels -> {"connecting", "open", "closed"}], ready' \in SUBSET Channels,
           ears' \in {"set", "spent"},
           \/ wait' = "early"
           \/ wait' = "resolved" /\ \A c \in Channels : chan'[c] = "open"
    PROVE  LinkInv'
<1>1. WatchTyped' /\ AppTyped' /\ AppInStep'
    BY WatchStays DEF LinkInv, AppTyped, AppInStep
<1>2. lane' = [lane EXCEPT !.open = TRUE] /\ lane' \in [open : BOOLEAN, dead : BOOLEAN]
    BY DEF Bridges, LinkInv, LaneTyped
<1>3. CASE bridge' = "up" /\ sock' = "connecting" /\ up' = Attached(up)
  <2>1. LaneTyped' /\ WaitInStep'
      BY <1>2, <1>3 DEF LaneTyped, WaitInStep, OpenIsBridged, WaitStates
  <2>2. Uplinked(up', server.got, app.said) /\ up'.held = <<>>
      BY <1>3, UplinkAttaches DEF LinkInv, WordsInStep
  <2>3. BridgeInStep' /\ WordsInStep'
      BY <1>3, <2>2 DEF LinkInv, BridgeInStep, WordsInStep
  <2> QED BY <1>1, <2>1, <2>3 DEF LinkInv
<1>4. CASE (\E c \in Channels : chan'[c] # "open") /\ bridge' = "broken" /\ sock' = "closed" /\ up' = up
  <2>1. LaneTyped' /\ BridgeInStep' /\ WaitInStep'
      BY <1>2, <1>4 DEF LaneTyped, BridgeInStep, WaitInStep, OpenIsBridged, WaitStates
  <2>2. WordsInStep'
      BY <1>4, SavedWords DEF LinkInv
  <2> QED BY <1>1, <2>1, <2>2 DEF LinkInv
<1> QED BY <1>3, <1>4 DEF Bridges

LEMMA ChannelOpensKeeps == ASSUME LinkInv, NEW c \in Channels, ChannelOpens(c) PROVE LinkInv'
<1>1. /\ UNCHANGED <<watchVars, offer, handed, ears, server, app, down>>
      /\ chan' = [chan EXCEPT ![c] = "open"] /\ ready' = ready \cup {c}
    BY DEF ChannelOpens
<1>2. WatchTyped'
    BY <1>1, WatchStays DEF LinkInv
<1>3. /\ chan' \in [Channels -> {"connecting", "open", "closed"}] /\ ready' \in SUBSET Channels /\ ears' = ears
      /\ \A d \in Channels : chan'[d] = IF d = c THEN "open" ELSE chan[d]
    BY <1>1 DEF LinkInv, LaneTyped
<1>4. wait = "waiting" => \A d \in ready' : chan'[d] = "open"
    BY <1>1, <1>3 DEF LinkInv, LaneTyped, WaitInStep
<1>5. CASE wait = "waiting" /\ ready' = Channels /\ ears # "unset" /\ wait' = "resolved" /\ Bridges
  <2>1. (\A d \in Channels : chan'[d] = "open") /\ ears' \in {"set", "spent"}
      BY <1>1, <1>4, <1>5 DEF LinkInv, LaneTyped
  <2> QED BY <1>1, <1>3, <1>5, <2>1, BridgesKeeps
<1>6. CASE /\ \/ wait = "waiting" /\ ears = "unset" /\ wait' = "early"
              \/ wait' = wait
           /\ UNCHANGED <<lane, bridge, sock, up>>
  <2>1. LaneTyped' /\ BridgeInStep'
      BY <1>1, <1>3, <1>6 DEF LinkInv, LaneTyped, BridgeInStep, WaitStates
  <2>2. WaitInStep'
      BY <1>1, <1>4, <1>6 DEF LinkInv, WaitInStep, OpenIsBridged
  <2> QED BY <1>1, <1>2, <1>6, <2>1, <2>2, LaneChangesKeep
<1> QED BY <1>5, <1>6 DEF ChannelOpens

LEMMA OfferWrittenKeeps == ASSUME LinkInv, OfferWritten PROVE LinkInv'
<1>1. UNCHANGED <<watchVars, offer, handed, chan, ready, wait, server, app, down>> /\ ears = "unset" /\ ears' = "set"
    BY DEF OfferWritten
<1>2. chan' \in [Channels -> {"connecting", "open", "closed"}] /\ ready' \in SUBSET Channels
    BY <1>1 DEF LinkInv, LaneTyped
<1>3. CASE wait = "early" /\ Bridges
    BY <1>1, <1>2, <1>3, BridgesKeeps
<1>4. CASE wait # "early" /\ UNCHANGED <<lane, bridge, sock, up>>
  <2>1. WatchTyped'
      BY <1>1, WatchStays DEF LinkInv
  <2>2. LaneTyped' /\ BridgeInStep' /\ WaitInStep'
      BY <1>1, <1>4 DEF LinkInv, LaneTyped, BridgeInStep, WaitInStep, OpenIsBridged
  <2> QED BY <1>1, <1>4, <2>1, <2>2, LaneChangesKeep
<1> QED BY <1>3, <1>4 DEF OfferWritten

LEMMA SocketOpensKeeps == ASSUME LinkInv, SocketOpens PROVE LinkInv'
<1>1. UNCHANGED <<watchVars, offer, handed, lane, chan, ready, ears, wait, bridge, app, down>> /\ bridge = "up" /\ sock' = "open"
      /\ up' = [up EXCEPT !.pending = <<>>]
    BY DEF SocketOpens
<1>2. WatchTyped' /\ AppTyped' /\ AppInStep' /\ LaneTyped' /\ WaitInStep'
    BY <1>1, WatchStays DEF LinkInv, AppTyped, AppInStep, LaneTyped, WaitInStep, OpenIsBridged
<1> DEFINE G == server.got \o up.pending
<1>3. server' = [server EXCEPT !.got = G]
    BY DEF SocketOpens, LinkInv, WordsInStep
<1>4. Uplinked(up', G, app.said)
    BY <1>1, UplinkOpens DEF LinkInv, WordsInStep
<1> HIDE DEF G
<1>5. server'.got = G /\ server'.said = server.said /\ server' = [got |-> server'.got, said |-> server'.said]
    BY <1>3 DEF LinkInv, WordsInStep
<1>6. WordsInStep'
    BY <1>1, <1>4, <1>5 DEF LinkInv, WordsInStep
<1>7. up'.held = up.held /\ up'.pending = <<>>
    BY <1>1 DEF LinkInv, WordsInStep, Uplinked, UpShape
<1>8. BridgeInStep'
    BY <1>1, <1>7 DEF LinkInv, BridgeInStep
<1> QED BY <1>2, <1>6, <1>8 DEF LinkInv

\* The app says its next payload.
LEMMA SaysKeeps ==
    ASSUME LinkInv, WatchTyped', UNCHANGED <<offer, handed, lane, chan, ready, ears, wait, bridge, sock, server, down>>,
           app.answered = offer, app.said < MaxSaid,
           app' = [app EXCEPT !.phase = "up", !.said = app.said + 1],
           up' = [up EXCEPT !.sent = @ \o FramesOf(app.said + 1, app.said + 1)]
    PROVE  LinkInv'
<1>1. app'.answered = offer /\ app'.phase = "up" /\ app'.said = app.said + 1
      /\ app' = [answered |-> app'.answered, phase |-> app'.phase, said |-> app'.said]
    BY AppFields DEF LinkInv
<1>2. app.said + 1 \in 0 .. MaxSaid /\ offer \in 0 .. offer
    BY AppFields, LinkBounds DEF LinkInv, AppTyped
<1>3. AppTyped' /\ AppInStep' /\ LaneTyped' /\ WaitInStep'
    BY <1>1, <1>2, LinkBounds DEF LinkInv, AppTyped, AppInStep, LaneTyped, AppPhases, WaitInStep, OpenIsBridged
<1>4. Uplinked(up', server.got, app.said + 1)
    BY UplinkSays DEF LinkInv, WordsInStep
<1>5. WordsInStep'
    BY <1>1, <1>4 DEF LinkInv, WordsInStep
<1>6. up'.held = up.held /\ up'.pending = up.pending
    BY DEF LinkInv, WordsInStep, Uplinked, UpShape
<1>7. BridgeInStep'
    BY <1>6 DEF LinkInv, BridgeInStep
<1> QED BY <1>3, <1>5, <1>7 DEF LinkInv

LEMMA AppConnectsKeeps == ASSUME LinkInv, AppConnects PROVE LinkInv'
<1>1. WatchTyped'
    BY WatchStays DEF LinkInv, AppConnects
<1>2. app.said = 0 /\ 0 + 1 = 1 /\ app.said < MaxSaid
    BY LinkBounds DEF LinkInv, AppInStep, AppConnects
<1>3. /\ app' = [app EXCEPT !.phase = "up", !.said = app.said + 1]
      /\ up' = [up EXCEPT !.sent = @ \o FramesOf(app.said + 1, app.said + 1)]
    BY <1>2 DEF AppConnects
<1> QED BY <1>1, <1>2, <1>3, SaysKeeps DEF AppConnects

LEMMA AppSaysKeeps == ASSUME LinkInv, AppSays PROVE LinkInv'
<1>1. WatchTyped'
    BY WatchStays DEF LinkInv, AppSays
<1>2. app' = [app EXCEPT !.phase = "up", !.said = app.said + 1] /\ app.answered = offer
    BY AppFields DEF LinkInv, AppInStep, AppSays
<1> QED BY <1>1, <1>2, SaysKeeps DEF AppSays

LEMMA FrameArrivesKeeps == ASSUME LinkInv, FrameArrives PROVE LinkInv'
<1> DEFINE f == Head(up.sent)
           rest == [up EXCEPT !.sent = Tail(@)]
           c == Carries(rest, sock, f)
<1>1. up.sent # <<>> /\ UNCHANGED <<watchVars, offer, handed, ready, wait, app, down>>
    BY DEF FrameArrives
<1>2. WatchTyped' /\ AppTyped' /\ AppInStep'
    BY <1>1, WatchStays DEF LinkInv, AppTyped, AppInStep
<1>3. Uplinked(up, server.got, app.said) /\ UpShape(up)
    BY DEF LinkInv, WordsInStep, Uplinked
<1>4. \/ /\ bridge # "up" /\ up' = [rest EXCEPT !.held = Append(@, f)]
         /\ UNCHANGED <<server, lane, chan, ears, bridge, sock>>
      \/ /\ bridge = "up" /\ Accepts(up.reader, f)
         /\ up' = c.up /\ server' = [server EXCEPT !.got = @ \o c.out]
         /\ UNCHANGED <<lane, chan, ears, bridge, sock>>
      \/ bridge = "up" /\ ~Accepts(up.reader, f)
    BY DEF FrameArrives
<1>5. CASE /\ bridge # "up" /\ up' = [rest EXCEPT !.held = Append(@, f)]
           /\ UNCHANGED <<server, lane, chan, ears, bridge, sock>>
  <2>1. Uplinked(up', server.got, app.said)
      BY <1>1, <1>3, <1>5, UplinkHolds
  <2>2. WordsInStep'
      BY <1>1, <1>5, <2>1 DEF LinkInv, WordsInStep
  <2>3. LaneTyped' /\ BridgeInStep' /\ WaitInStep'
      BY <1>1, <1>5 DEF LinkInv, LaneTyped, BridgeInStep, WaitInStep, OpenIsBridged
  <2> QED BY <1>2, <2>2, <2>3 DEF LinkInv
<1>6. ASSUME bridge = "up"
      PROVE  /\ Accepts(up.reader, f) /\ Uplinked(c.up, server.got \o c.out, app.said)
             /\ c.up.held = <<>> /\ (sock = "open" => c.up.pending = <<>>)
  <2>1. up.held = <<>> /\ (sock = "open" => up.pending = <<>>)
      BY <1>6 DEF LinkInv, BridgeInStep
  <2> QED BY <1>1, <1>3, <2>1, UplinkCarries
<1>7. CASE /\ bridge = "up" /\ up' = c.up /\ server' = [server EXCEPT !.got = @ \o c.out]
           /\ UNCHANGED <<lane, chan, ears, bridge, sock>>
  <2> DEFINE G == server.got \o c.out
  <2>1. Uplinked(c.up, G, app.said) /\ c.up.held = <<>> /\ (sock = "open" => c.up.pending = <<>>)
      BY <1>6, <1>7
  <2>2. server' = [server EXCEPT !.got = G]
      BY <1>7 DEF LinkInv, WordsInStep
  <2> HIDE DEF c, G
  <2>3. server'.got = G /\ server'.said = server.said /\ server' = [got |-> server'.got, said |-> server'.said]
      BY <2>2 DEF LinkInv, WordsInStep
  <2>4. WordsInStep'
      BY <1>1, <1>7, <2>1, <2>3 DEF LinkInv, WordsInStep
  <2>5. LaneTyped' /\ BridgeInStep' /\ WaitInStep'
      BY <1>1, <1>7, <2>1 DEF LinkInv, LaneTyped, BridgeInStep, WaitInStep, OpenIsBridged
  <2> QED BY <1>2, <2>4, <2>5 DEF LinkInv
<1> QED BY <1>4, <1>5, <1>6, <1>7

LEMMA ServerSaysKeeps == ASSUME LinkInv, ServerSays PROVE LinkInv'
<1>1. /\ UNCHANGED <<watchVars, offer, handed, lane, chan, ready, ears, wait, bridge, sock, up, app>> /\ server.said < MaxSaid
      /\ server' = [server EXCEPT !.said = server.said + 1]
      /\ down' = [down EXCEPT !.sent = @ \o FramesOf(server.said + 1, server.said + 1)]
    BY DEF ServerSays
<1>2. WatchTyped' /\ AppTyped' /\ AppInStep' /\ LaneTyped' /\ BridgeInStep' /\ WaitInStep'
    BY <1>1, WatchStays DEF LinkInv, AppTyped, AppInStep, LaneTyped, BridgeInStep, WaitInStep, OpenIsBridged
<1>3. server'.got = server.got /\ server'.said = server.said + 1 /\ server' = [got |-> server'.got, said |-> server'.said]
    BY <1>1 DEF LinkInv, WordsInStep
<1>4. Downlinked(down', server.said + 1)
    BY <1>1, DownlinkSays DEF LinkInv, WordsInStep
<1>5. WordsInStep'
    BY <1>1, <1>3, <1>4 DEF LinkInv, WordsInStep
<1> QED BY <1>2, <1>5 DEF LinkInv

LEMMA AppReadsKeeps == ASSUME LinkInv, AppReads PROVE LinkInv'
<1>1. /\ UNCHANGED <<watchVars, offer, handed, lane, chan, ready, ears, wait, bridge, sock, up, server, app>> /\ down.sent # <<>>
    BY DEF AppReads
<1>2. WatchTyped' /\ AppTyped' /\ AppInStep' /\ LaneTyped' /\ BridgeInStep' /\ WaitInStep'
    BY <1>1, WatchStays DEF LinkInv, AppTyped, AppInStep, LaneTyped, BridgeInStep, WaitInStep, OpenIsBridged
<1>3. Downlinked(down', server.said)
    BY <1>1, DownlinkReads DEF LinkInv, WordsInStep, AppReads
<1>4. WordsInStep'
    BY <1>1, <1>3 DEF LinkInv, WordsInStep
<1> QED BY <1>2, <1>4 DEF LinkInv

\* Every step keeps the invariant.
LEMMA LinkStepKeeps == LinkInv /\ [LinkNext]_directVars => LinkInv'
<1> SUFFICES ASSUME LinkInv, [LinkNext]_directVars PROVE LinkInv'
    OBVIOUS
<1>1. CASE UNCHANGED directVars
  <2>1. WatchTyped' /\ UNCHANGED linkVars
      BY <1>1, WatchStays DEF LinkInv, directVars
  <2> QED BY <2>1, LinkRests
<1>2. CASE StartDirectTransport
    BY <1>2, StartDirectTransportKeeps
<1>3. CASE RefreshIfStale
    BY <1>3, RefreshIfStaleKeeps
<1>4. CASE TryConnect
    BY <1>4, TryConnectKeeps
<1>5. CASE Delivered
    BY <1>5, DeliveredKeeps
<1>6. CASE WatchFails
    BY <1>6, WatchFailsKeeps
<1>7. CASE WatchGoesOn
    BY <1>7, WatchGoesOnKeeps
<1>8. CASE Disconnected
    BY <1>8, DisconnectedKeeps
<1>9. CASE SocketCloses
    BY <1>9, SocketClosesKeeps
<1>10. CASE AppLoses
    BY <1>10, AppLosesKeeps
<1>11. CASE AppGivesUp
    BY <1>11, AppGivesUpKeeps
<1>12. CASE Teardown
    BY <1>12, TeardownKeeps
<1>13. ASSUME NEW c \in Channels, ChannelOpens(c) PROVE LinkInv'
    BY <1>13, ChannelOpensKeeps
<1>14. ASSUME NEW c \in Channels, PeerSees(c) PROVE LinkInv'
    BY <1>14, ChannelEndsKeeps DEF PeerSees
<1>15. CASE OfferWritten
    BY <1>15, OfferWrittenKeeps
<1>16. CASE SocketOpens
    BY <1>16, SocketOpensKeeps
<1>17. CASE AppConnects
    BY <1>17, AppConnectsKeeps
<1>18. CASE AppSays
    BY <1>18, AppSaysKeeps
<1>19. CASE FrameArrives
    BY <1>19, FrameArrivesKeeps
<1>20. CASE ServerSays
    BY <1>20, ServerSaysKeeps
<1>21. CASE AppReads
    BY <1>21, AppReadsKeeps
<1> QED BY <1>1, <1>2, <1>3, <1>4, <1>5, <1>6, <1>7, <1>8, <1>9, <1>10, <1>11, <1>12, <1>13, <1>14,
           <1>15, <1>16, <1>17, <1>18, <1>19, <1>20, <1>21 DEF LinkNext

\* The invariant holds in every behaviour.
LEMMA LinkInvariance == LinkSpec => []LinkInv
<1>1. LinkInit => LinkInv
    BY LinkStarts
<1> QED BY <1>1, LinkStepKeeps, PTL DEF LinkSpec

\* Whatever the numbers of exchanges, payloads and parts, and whatever fails: the variables have
\* their types, and what reaches the server is what the app said, and the other way round.
THEOREM LinkSound == LinkSpec => []LinkIsSound
<1>1. ASSUME LinkInv PROVE LinkIsSound
  <2>1. LinkTypeOK
      BY <1>1, WatchFields DEF LinkInv, WatchTyped, LaneTyped, AppTyped, LinkTypeOK
  <2>2. CarriedInOrder
    <3>1. /\ app.said \in 0 .. MaxSaid /\ \E n \in 0 .. app.said : \E m \in 0 .. n : server.got = Words(0, m)
          /\ server.said \in 0 .. MaxSaid /\ \E n \in 0 .. server.said : down.got = Words(0, n)
        BY <1>1 DEF LinkInv, WordsInStep, Uplinked, Downlinked
    <3>2. \E m \in 0 .. app.said : server.got = Words(0, m)
        BY <3>1, LinkBounds
    <3>3. \A n : n \in 0 .. app.said \/ n \in 0 .. server.said => n \in 0 .. MaxSaid
        BY <3>1, LinkBounds
    <3>4. \E m \in 0 .. app.said : server.got = Said(m)
        BY <3>2, <3>3, SaidIsWords
    <3>5. \E n \in 0 .. server.said : down.got = Said(n)
        BY <3>1, <3>3, SaidIsWords
    <3> QED BY <3>4, <3>5 DEF CarriedInOrder
  <2>3. OpenIsBridged
      BY <1>1 DEF LinkInv, WaitInStep
  <2> QED BY <2>1, <2>2, <2>3 DEF LinkIsSound
<1> QED BY <1>1, LinkInvariance, PTL

\* An answer is handed on only for the offer it answers, by a watch that is on.
THEOREM AnswersMatch == LinkSpec => AnswerMatches
<1> DEFINE Step == handed' # handed => (handed' \in {d - 1 : d \in reads \cup {version}} /\ watch.on)
<1>1. ASSUME [LinkNext]_directVars PROVE Step
  <2>1. CASE Delivered
    <3>1. PICK v \in 1 .. MaxOffers + 1 : (Snapshot(v) \/ ReadArrives(v)) /\ Heard(v)
        BY <2>1 DEF Delivered
    <3>2. v \in reads \cup {version}
        BY <3>1 DEF Snapshot, ReadArrives
    <3>3. handed' # handed => v - 1 = offer /\ watch.on /\ handed' = offer
        BY <3>1 DEF Heard
    <3> QED BY <3>2, <3>3
  <2>2. CASE ~Delivered
    <3>1. handed' = handed
        BY <1>1, <2>2 DEF LinkNext, directVars, linkVars, StartDirectTransport, RefreshIfStale, Begins, TryConnect,
           WatchFails, WatchGoesOn, Disconnected, SocketCloses, AppLoses, AppGivesUp, Teardown, ChannelOpens, PeerSees,
           ChannelEnds, OfferWritten, SocketOpens, AppConnects, AppSays, FrameArrives, ServerSays, AppReads
    <3> QED BY <3>1
  <2> QED BY <2>1, <2>2
<1>2. [LinkNext]_directVars => [Step]_directVars
    BY <1>1
<1> QED BY <1>2, PTL DEF LinkSpec, AnswerMatches

-----------------------------------------------------------------------------
(* Whom the server lets in.                                                *)

Verifying == {s \in Sockets : socket[s].verifying}

Sound(r) == r \in Socket /\ SocketIsSound(r)

\* The counters a step may only raise within their bounds, or reset.
Counted ==
    /\ attempts \in 0 .. MaxPerWindow
    /\ serverStopped \in BOOLEAN /\ logins \in 0 .. MaxLogins

CountedHere == Counted' /\ serverStopped' = serverStopped

\* What the two action properties say of socket s when its record becomes r.
EndsFairly(s, r) ==
    Open(s) => /\ r.reason = "subscribe before authentication" => ~socket[s].attempted
               /\ r.reason = "keepalive" => ~socket[s].heard

\* The slots, when the record of s becomes r: its verification begins or ends.
Slots(s, r) ==
    \/ r.verifying = socket[s].verifying /\ inFlight' = inFlight
    \/ /\ ~socket[s].verifying /\ r.verifying
       /\ inFlight < MaxInFlight /\ inFlight' = inFlight + 1
    \/ socket[s].verifying /\ ~r.verifying /\ inFlight' = inFlight - 1

\* Socket s gets the record r, and its places in the server's sets follow.
Moves(s, r) ==
    /\ Sound(r) /\ EndsFairly(s, r)
    /\ socket' = [socket EXCEPT ![s] = r]
    /\ clients' = IF r.authed THEN clients \cup {s} ELSE clients \ {s}
    /\ unauthenticated' = IF r.state = "open" /\ ~r.authed
                            THEN unauthenticated \cup {s} ELSE unauthenticated \ {s}
    /\ Slots(s, r) /\ CountedHere
    /\ serverStopped => r.state # "open"

\* Many sockets get a new record, and no verification begins or ends.
ManyMove ==
    /\ socket' \in [Sockets -> Socket]
    /\ \A s \in Sockets :
         /\ Sound(socket'[s]) /\ EndsFairly(s, socket'[s])
         /\ socket'[s].verifying = socket[s].verifying
    /\ clients' = {s \in Sockets : socket'[s].authed}
    /\ unauthenticated' = {s \in Sockets : socket'[s].state = "open" /\ ~socket'[s].authed}
    /\ inFlight' = inFlight
    /\ Counted' /\ \A s \in Sockets : serverStopped' => socket'[s].state # "open"

\* What a step gives.
Kept == ServerInd' /\ \A s \in Sockets : EndsFairly(s, socket'[s])

\* The caps are naturals.
LEMMA CapsAreNaturals ==
    /\ MaxFrames \in Nat /\ MaxUnauthenticated \in Nat /\ MaxInFlight \in Nat
    /\ MaxPerWindow \in Nat /\ MaxLogins \in Nat
  BY Caps

-----------------------------------------------------------------------------
(* Records.                                                                *)

\* A socket that has not connected.
LEMMA NewIsSound ==
    Sound(NewSocket)
  <1>1. <<>> \in Seq(Frames) /\ "none" \in Reasons
    BY DEF Reasons
  <1>2. NewSocket \in Socket
    BY <1>1, Zenon DEF NewSocket, Socket
  <1>3. SocketIsSound(NewSocket)
    BY DEF NewSocket, SocketIsSound
  <1>. QED
    BY <1>2, <1>3 DEF Sound

\* A socket that was forgotten: closed, and only a verification goes on.
LEMMA ClosedIsSound ==
    ASSUME NEW r \in Socket, r.verifying => r.chain # <<>>,
           NEW reason \in Reasons
    PROVE  /\ Sound(Closed(r, reason))
           /\ Closed(r, reason).state = "closed"
           /\ ~Closed(r, reason).authed
           /\ Closed(r, reason).verifying = r.verifying
           /\ Closed(r, reason).reason = reason
  <1>. DEFINE left == IF r.verifying THEN <<Head(r.chain)>> ELSE <<>>
  <1>1. left \in Seq(Frames) /\ (r.verifying => left # <<>>)
    BY DEF Socket
  <1>. DEFINE c == [NewSocket EXCEPT !.state = "closed", !.reason = reason,
                      !.verifying = r.verifying, !.chain = left]
  <1>2. Closed(r, reason) = c
    BY Zenon DEF Closed
  <1>. HIDE DEF left
  <1>3. r.verifying \in BOOLEAN /\ NewSocket \in Socket
    BY NewIsSound DEF Socket, Sound
  <1>4. c \in Socket
    BY <1>1, <1>3 DEF Socket
  <1>5. /\ c.state = "closed" /\ c.chain = left /\ c.verifying = r.verifying
        /\ c.reason = reason
        /\ c.accepting = NewSocket.accepting /\ c.authed = NewSocket.authed
        /\ c.heard = NewSocket.heard
    BY <1>3 DEF Socket
  <1>6. /\ NewSocket.accepting = FALSE /\ NewSocket.authed = FALSE
        /\ NewSocket.heard = FALSE
    BY DEF NewSocket
  <1>. HIDE DEF c
  <1>. QED
    BY <1>1, <1>2, <1>4, <1>5, <1>6 DEF Sound, SocketIsSound

-----------------------------------------------------------------------------
(* Steps.                                                                  *)

\* The invariant, as the lemmas use it.
LEMMA InductiveGives ==
    ASSUME ServerInd
    PROVE  /\ socket \in [Sockets -> Socket] /\ Counted
           /\ \A s \in Sockets : Sound(socket[s]) /\ (serverStopped => ~Open(s))
           /\ \A s \in Sockets : s \in clients <=> socket[s].authed
           /\ \A s \in Sockets : s \in unauthenticated <=> Open(s) /\ ~socket[s].authed
           /\ clients \subseteq Sockets /\ unauthenticated \subseteq Sockets
           /\ inFlight \in Nat /\ inFlight <= MaxInFlight
           /\ inFlight = Cardinality(Verifying) /\ IsFiniteSet(Verifying)
  <1>1. /\ socket \in [Sockets -> Socket]
        /\ \A s \in Sockets : Sound(socket[s]) /\ (serverStopped => ~Open(s))
    BY DEF ServerInd, ServerIsSound, ServerTypeOK, Sound
  <1>2. \A s \in Sockets : socket[s].authed => Open(s)
    BY <1>1 DEF Sound, SocketIsSound, Open
  <1>3. /\ Counted /\ inFlight \in Nat /\ inFlight <= MaxInFlight
        /\ clients \subseteq Sockets /\ unauthenticated \subseteq Sockets
    BY CapsAreNaturals DEF ServerInd, ServerIsSound, ServerTypeOK, Counted
  <1>4. /\ \A s \in Sockets : s \in clients <=> socket[s].authed
        /\ \A s \in Sockets : s \in unauthenticated <=> Open(s) /\ ~socket[s].authed
    BY <1>2, Zenon DEF ServerInd, ServerIsSound, SetsAgree
  <1>5. inFlight = Cardinality(Verifying) /\ IsFiniteSet(Verifying)
    BY Zenon DEF ServerInd, ServerIsSound, SetsAgree, Verifying
  <1>. QED
    BY <1>1, <1>3, <1>4, <1>5, Zenon

\* What a step has to keep.
LEMMA KeepsWhatMatters ==
    ASSUME socket' \in [Sockets -> Socket], Counted',
           \A s \in Sockets : Sound(socket'[s]) /\ EndsFairly(s, socket'[s]),
           clients' = {s \in Sockets : socket'[s].authed},
           unauthenticated' = {s \in Sockets : socket'[s].state = "open" /\ ~socket'[s].authed},
           inFlight' = Cardinality(Verifying'), IsFiniteSet(Verifying'),
           inFlight' \in 0 .. MaxInFlight,
           \A s \in Sockets : serverStopped' => socket'[s].state # "open"
    PROVE  Kept
  <1>1. ServerTypeOK'
    BY Zenon DEF ServerTypeOK, Counted
  <1>2. \A s \in Sockets : socket'[s].authed <=> (socket'[s].state = "open" /\ socket'[s].authed)
    BY DEF Sound, SocketIsSound
  <1>3. SetsAgree'
    BY <1>2 DEF SetsAgree, Open, Verifying
  <1>. QED
    BY <1>1, <1>3, Zenon DEF Kept, ServerInd, ServerIsSound, Sound, Verifying, Open

\* One socket moves: its verification may begin or end.
LEMMA OneSocketMoves ==
    ASSUME ServerInd, NEW s \in Sockets, NEW r, Moves(s, r)
    PROVE  Kept
  <1>1. /\ r \in Socket /\ socket' = [socket EXCEPT ![s] = r]
        /\ socket \in [Sockets -> Socket]
    BY InductiveGives, Zenon DEF Moves, Sound
  <1>2. /\ socket' \in [Sockets -> Socket] /\ socket'[s] = r
        /\ \A t \in Sockets : t # s => socket'[t] = socket[t]
    BY <1>1
  <1>3. \A t \in Sockets : Sound(socket'[t]) /\ EndsFairly(t, socket'[t])
    <2>1. \A t \in Sockets : EndsFairly(t, socket[t])
      BY InductiveGives DEF EndsFairly, Sound, SocketIsSound, Open
    <2>. QED
      BY <1>2, <2>1, InductiveGives, Zenon DEF Moves
  <1>4. clients' = {t \in Sockets : socket'[t].authed}
    <2>1. clients' = IF r.authed THEN clients \cup {s} ELSE clients \ {s}
      BY Zenon DEF Moves
    <2>2. \A t \in Sockets : t \in clients' <=> socket'[t].authed
      BY <1>2, <2>1, InductiveGives
    <2>. QED
      BY <2>1, <2>2, InductiveGives
  <1>5. unauthenticated' = {t \in Sockets : socket'[t].state = "open" /\ ~socket'[t].authed}
    <2>1. unauthenticated' = IF r.state = "open" /\ ~r.authed
                              THEN unauthenticated \cup {s} ELSE unauthenticated \ {s}
      BY Zenon DEF Moves
    <2>2. \A t \in Sockets : t \in unauthenticated'
                               <=> socket'[t].state = "open" /\ ~socket'[t].authed
      BY <1>2, <2>1, InductiveGives DEF Open
    <2>. QED
      BY <2>1, <2>2, InductiveGives
  <1>6. /\ inFlight' = Cardinality(Verifying') /\ IsFiniteSet(Verifying')
        /\ inFlight' \in 0 .. MaxInFlight
    <2>1. /\ inFlight \in Nat /\ MaxInFlight \in Nat /\ inFlight <= MaxInFlight
          /\ inFlight = Cardinality(Verifying) /\ IsFiniteSet(Verifying)
      BY InductiveGives, CapsAreNaturals
    <2>2. CASE r.verifying = socket[s].verifying /\ inFlight' = inFlight
      <3>1. Verifying' = Verifying
        BY <1>2, <2>2 DEF Verifying
      <3>. QED
        BY <2>1, <2>2, <3>1
    <2>3. CASE /\ ~socket[s].verifying /\ r.verifying
               /\ inFlight < MaxInFlight /\ inFlight' = inFlight + 1
      <3>1. Verifying' = Verifying \cup {s} /\ s \notin Verifying
        BY <1>2, <2>3 DEF Verifying
      <3>2. IsFiniteSet(Verifying') /\ Cardinality(Verifying') = Cardinality(Verifying) + 1
        BY <2>1, <3>1, FS_AddElement
      <3>. QED
        BY <2>1, <2>3, <3>2
    <2>4. CASE socket[s].verifying /\ ~r.verifying /\ inFlight' = inFlight - 1
      <3>1. Verifying' = Verifying \ {s} /\ s \in Verifying
        BY <1>2, <2>4 DEF Verifying
      <3>2. /\ IsFiniteSet(Verifying') /\ Cardinality(Verifying') = Cardinality(Verifying) - 1
            /\ Cardinality(Verifying') \in Nat
        BY <2>1, <3>1, FS_RemoveElement, FS_CardinalityType
      <3>. QED
        BY <2>1, <2>4, <3>2
    <2>. QED
      BY <2>2, <2>3, <2>4, Zenon DEF Moves, Slots
  <1>7. /\ Counted'
        /\ \A t \in Sockets : serverStopped' => socket'[t].state # "open"
    BY <1>2, InductiveGives DEF Moves, CountedHere, Open
  <1>. QED
    BY <1>2, <1>3, <1>4, <1>5, <1>6, <1>7, KeepsWhatMatters, Zenon

\* Many sockets move: the verifications are the same.
LEMMA ManySocketsMove ==
    ASSUME ServerInd, ManyMove
    PROVE  Kept
  <1>1. Verifying' = Verifying
    BY Zenon DEF ManyMove, Verifying
  <1>2. inFlight' = inFlight
    BY Zenon DEF ManyMove
  <1>3. /\ inFlight' = Cardinality(Verifying') /\ IsFiniteSet(Verifying')
        /\ inFlight' \in 0 .. MaxInFlight
    BY <1>1, <1>2, InductiveGives, CapsAreNaturals
  <1>. QED
    BY <1>3, KeepsWhatMatters, Zenon DEF ManyMove

\* A socket that is closed: both sets lose it.
LEMMA ClosingKeeps ==
    ASSUME ServerInd, NEW s \in Sockets, NEW r \in Socket, NEW reason \in Reasons,
           r.verifying => r.chain # <<>>,
           Open(s) => /\ reason = "subscribe before authentication" => ~socket[s].attempted
                      /\ reason = "keepalive" => ~socket[s].heard,
           CloseSocket(s, r, reason), Slots(s, r), CountedHere
    PROVE  Kept
  <1>. DEFINE c == Closed(r, reason)
  <1>1. /\ Sound(c) /\ c.state = "closed" /\ ~c.authed
        /\ c.verifying = r.verifying /\ c.reason = reason
    BY ClosedIsSound, Zenon
  <1>2. /\ socket' = [socket EXCEPT ![s] = c]
        /\ unauthenticated' = unauthenticated \ {s} /\ clients' = clients \ {s}
    BY Zenon DEF CloseSocket
  <1>. HIDE DEF c
  <1>3. EndsFairly(s, c)
    BY <1>1, Zenon DEF EndsFairly
  <1>4. Slots(s, c)
    BY <1>1, Zenon DEF Slots
  <1>5. Moves(s, c)
    BY <1>1, <1>2, <1>3, <1>4 DEF Moves
  <1>. QED
    BY <1>5, OneSocketMoves, Zenon

\* A socket that stays where it is: the sets are what they were.
LEMMA StayingKeeps ==
    ASSUME ServerInd, NEW s \in Sockets, NEW r, Sound(r),
           r.state = socket[s].state, r.authed = socket[s].authed,
           r.reason = socket[s].reason,
           socket' = [socket EXCEPT ![s] = r], clients' = clients,
           unauthenticated' = unauthenticated, Slots(s, r), CountedHere
    PROVE  Kept
  <1>1. EndsFairly(s, r)
    BY InductiveGives DEF EndsFairly, Open, Sound, SocketIsSound
  <1>2. clients' = IF r.authed THEN clients \cup {s} ELSE clients \ {s}
    BY InductiveGives
  <1>3. unauthenticated' = IF r.state = "open" /\ ~r.authed
                            THEN unauthenticated \cup {s} ELSE unauthenticated \ {s}
    BY InductiveGives DEF Open
  <1>4. serverStopped => r.state # "open"
    BY InductiveGives DEF Open
  <1>5. Moves(s, r)
    BY <1>1, <1>2, <1>3, <1>4, Zenon DEF Moves
  <1>. QED
    BY <1>5, OneSocketMoves, Zenon

\* A socket that is admitted.
LEMMA AdmittingKeeps ==
    ASSUME ServerInd, NEW s \in Sockets, NEW r \in Socket, Open(s), r.state = "open",
           r.accepting, r.reason = "none", ~r.verifying, r.heard => ~r.awaitingPong,
           NEW expires \in {"never", "later"},
           Admit(s, r, expires), Slots(s, r), CountedHere
    PROVE  Kept
  <1>. DEFINE a == [r EXCEPT !.authed = TRUE, !.expires = expires,
                             !.timer = expires # "never"]
  <1>1. r.accepting = TRUE
    BY DEF Socket
  <1>2. a \in Socket
    BY DEF Socket
  <1>3. /\ a.authed = TRUE /\ a.state = r.state /\ a.accepting = r.accepting
        /\ a.verifying = r.verifying /\ a.chain = r.chain /\ a.reason = r.reason
        /\ a.heard = r.heard /\ a.awaitingPong = r.awaitingPong
    BY DEF Socket
  <1>4. /\ socket' = [socket EXCEPT ![s] = a]
        /\ unauthenticated' = unauthenticated \ {s} /\ clients' = clients \cup {s}
    BY Zenon DEF Admit
  <1>. HIDE DEF a
  <1>5. SocketIsSound(a)
    BY <1>1, <1>3 DEF SocketIsSound
  <1>6. EndsFairly(s, a)
    BY <1>3 DEF EndsFairly
  <1>7. Slots(s, a)
    BY <1>3, Zenon DEF Slots
  <1>8. Moves(s, a)
    BY <1>2, <1>3, <1>4, <1>5, <1>6, <1>7, InductiveGives DEF Moves, Sound, Open
  <1>. QED
    BY <1>8, OneSocketMoves, Zenon

-----------------------------------------------------------------------------
(* Actions.                                                                *)

\* A frame leaves the chain, and nothing else changes.
LEMMA DroppedIs ==
    ASSUME NEW s \in Sockets, socket[s] \in Socket, socket[s].chain # <<>>
    PROVE  /\ Dropped(s) \in Socket
           /\ Dropped(s).state = socket[s].state /\ Dropped(s).accepting = socket[s].accepting
           /\ Dropped(s).authed = socket[s].authed /\ Dropped(s).attempted = socket[s].attempted
           /\ Dropped(s).verifying = socket[s].verifying /\ Dropped(s).reason = socket[s].reason
           /\ Dropped(s).heard = socket[s].heard
           /\ Dropped(s).awaitingPong = socket[s].awaitingPong
  <1>1. socket[s].chain \in Seq(Frames)
    BY DEF Socket
  <1>2. Tail(socket[s].chain) \in Seq(Frames)
    BY <1>1
  <1>. QED
    BY <1>2 DEF Dropped, Socket

\* A socket ends outside of a verification: by the peer, a deadline, a timer.
LEMMA EndingKeeps ==
    ASSUME ServerInd, NEW s \in Sockets, NEW reason \in Reasons,
           reason \notin {"subscribe before authentication", "keepalive"},
           CloseSocket(s, socket[s], reason),
           UNCHANGED <<inFlight, attempts, serverStopped, logins>>
    PROVE  Kept
  <1>1. socket[s] \in Socket /\ (socket[s].verifying => socket[s].chain # <<>>)
    BY InductiveGives DEF Sound, SocketIsSound
  <1>2. CountedHere /\ Slots(s, socket[s])
    BY InductiveGives, Zenon DEF Counted, CountedHere, Slots
  <1>. QED
    BY <1>1, <1>2, ClosingKeeps

\* The client leaves.
LEMMA PeerClosesKeeps ==
    ASSUME ServerInd, NEW s \in Sockets, PeerCloses(s)
    PROVE  Kept
  BY EndingKeeps DEF PeerCloses, Reasons

\* Nobody was let in for ten seconds.
LEMMA AuthDeadlineKeeps ==
    ASSUME ServerInd, NEW s \in Sockets, AuthDeadline(s)
    PROVE  Kept
  BY EndingKeeps DEF AuthDeadline, Reasons

\* The token's time is up.
LEMMA ExpiryTimerKeeps ==
    ASSUME ServerInd, NEW s \in Sockets, ExpiryTimer(s)
    PROVE  Kept
  BY EndingKeeps DEF ExpiryTimer, Reasons

\* The client is gone, and the socket does not know.
LEMMA PeerVanishesKeeps ==
    ASSUME ServerInd, NEW s \in Sockets, PeerVanishes(s)
    PROVE  Kept
  <1>. DEFINE r == [socket[s] EXCEPT !.gone = TRUE]
  <1>1. Sound(socket[s])
    BY InductiveGives
  <1>2. /\ Sound(r) /\ r.state = socket[s].state /\ r.authed = socket[s].authed
        /\ r.reason = socket[s].reason /\ r.verifying = socket[s].verifying
    BY <1>1 DEF Sound, SocketIsSound, Socket
  <1>3. socket' = [socket EXCEPT ![s] = r] /\ clients' = clients
        /\ unauthenticated' = unauthenticated /\ inFlight' = inFlight
    BY DEF PeerVanishes
  <1>4. CountedHere
    BY InductiveGives DEF PeerVanishes, Counted, CountedHere
  <1>. HIDE DEF r
  <1>5. Slots(s, r)
    BY <1>2, <1>3, Zenon DEF Slots
  <1>. QED
    BY <1>2, <1>3, <1>4, <1>5, StayingKeeps, Zenon

\* A token's time passes before its timer fires.
LEMMA TokenExpiresKeeps ==
    ASSUME ServerInd, NEW s \in Sockets, TokenExpires(s)
    PROVE  Kept
  <1>. DEFINE r == [socket[s] EXCEPT !.expires = "past"]
  <1>1. Sound(socket[s])
    BY InductiveGives
  <1>2. /\ Sound(r) /\ r.state = socket[s].state /\ r.authed = socket[s].authed
        /\ r.reason = socket[s].reason /\ r.verifying = socket[s].verifying
    BY <1>1 DEF Sound, SocketIsSound, Socket
  <1>3. socket' = [socket EXCEPT ![s] = r] /\ clients' = clients
        /\ unauthenticated' = unauthenticated /\ inFlight' = inFlight
    BY DEF TokenExpires
  <1>4. CountedHere
    BY InductiveGives DEF TokenExpires, Counted, CountedHere
  <1>. HIDE DEF r
  <1>5. Slots(s, r)
    BY <1>2, <1>3, Zenon DEF Slots
  <1>. QED
    BY <1>2, <1>3, <1>4, <1>5, StayingKeeps, Zenon

\* A frame arrives, and closes the socket if too many wait.
LEMMA EnqueueFrameKeeps ==
    ASSUME ServerInd, NEW s \in Sockets, NEW f \in Sends[s], EnqueueFrame(s, f)
    PROVE  Kept
  <1>1. CASE Len(socket[s].chain) >= MaxFrames
    BY <1>1, EndingKeeps DEF EnqueueFrame, Reasons
  <1>2. CASE ~(Len(socket[s].chain) >= MaxFrames)
    <2>. DEFINE r == [socket[s] EXCEPT !.chain = Append(socket[s].chain, f)]
    <2>1. Sound(socket[s]) /\ socket[s] \in Socket /\ f \in Frames
      BY InductiveGives, SentFrames DEF Sound
    <2>2. /\ Append(socket[s].chain, f) \in Seq(Frames)
          /\ Append(socket[s].chain, f) # <<>>
      <3>1. socket[s].chain \in Seq(Frames)
        BY <2>1 DEF Socket
      <3>2. Append(socket[s].chain, f) \in Seq(Frames) /\ Len(Append(socket[s].chain, f)) = Len(socket[s].chain) + 1
        BY <2>1, <3>1, AppendProperties
      <3>3. Len(socket[s].chain) \in Nat
        BY <3>1
      <3>. QED
        BY <3>2, <3>3
    <2>3. /\ Sound(r) /\ r.state = socket[s].state /\ r.authed = socket[s].authed
          /\ r.reason = socket[s].reason /\ r.verifying = socket[s].verifying
      BY <2>1, <2>2 DEF Sound, SocketIsSound, Socket
    <2>4. /\ socket' = [socket EXCEPT ![s] = r] /\ clients' = clients
          /\ unauthenticated' = unauthenticated /\ inFlight' = inFlight
      BY <1>2 DEF EnqueueFrame
    <2>5. CountedHere
      BY InductiveGives DEF EnqueueFrame, Counted, CountedHere
    <2>. HIDE DEF r
    <2>6. Slots(s, r)
      BY <2>3, <2>4, Zenon DEF Slots
    <2>. QED
      BY <2>3, <2>4, <2>5, <2>6, StayingKeeps, Zenon
  <1>. QED
    BY <1>1, <1>2, Zenon

\* A socket opens, or is refused at once: its record is new.
LEMMA ConnectKeeps ==
    ASSUME ServerInd, NEW s \in Sockets, Connect(s)
    PROVE  Kept
  <1>. DEFINE r == [NewSocket EXCEPT !.state = "open", !.accepting = TRUE]
  <1>1. NewSocket \in Socket
    BY NewIsSound, Zenon DEF Sound
  <1>2. /\ NewSocket.authed = FALSE /\ NewSocket.verifying = FALSE
        /\ NewSocket.attempted = FALSE /\ NewSocket.heard = FALSE
        /\ NewSocket.reason = "none"
    BY DEF NewSocket
  <1>3. /\ r \in Socket /\ r.state = "open" /\ r.accepting = TRUE
        /\ r.authed = NewSocket.authed /\ r.verifying = NewSocket.verifying
        /\ r.attempted = NewSocket.attempted /\ r.heard = NewSocket.heard
        /\ r.reason = NewSocket.reason
    BY <1>1 DEF Socket
  <1>4. /\ socket[s].state = "none" /\ ~serverStopped
        /\ inFlight' = inFlight /\ CountedHere
        /\ \/ CloseSocket(s, r, "server busy")
           \/ /\ socket' = [socket EXCEPT ![s] = r] /\ clients' = clients
              /\ unauthenticated' = unauthenticated \cup {s}
    BY InductiveGives DEF Connect, Counted, CountedHere
  <1>. HIDE DEF r
  <1>5. socket[s].verifying = FALSE /\ ~socket[s].authed
    BY <1>4, InductiveGives DEF Sound, SocketIsSound, Socket
  <1>6. Slots(s, r)
    BY <1>2, <1>3, <1>4, <1>5 DEF Slots
  <1>7. CASE CloseSocket(s, r, "server busy")
    BY <1>2, <1>3, <1>4, <1>6, <1>7, ClosingKeeps DEF Reasons
  <1>8. CASE /\ socket' = [socket EXCEPT ![s] = r] /\ clients' = clients
             /\ unauthenticated' = unauthenticated \cup {s}
    <2>1. Sound(r)
      BY <1>2, <1>3 DEF Sound, SocketIsSound
    <2>2. EndsFairly(s, r)
      BY <1>2, <1>3 DEF EndsFairly
    <2>3. clients' = clients \ {s}
      BY <1>5, <1>8, InductiveGives
    <2>4. Moves(s, r)
      BY <1>2, <1>3, <1>4, <1>6, <1>8, <2>1, <2>2, <2>3 DEF Moves
    <2>. QED
      BY <2>4, OneSocketMoves, Zenon
  <1>. QED
    BY <1>4, <1>7, <1>8, Zenon

\* The answer of the service, for a socket that is still there or not.
LEMMA VerdictKeeps ==
    ASSUME ServerInd, NEW s \in Sockets, NEW ok \in BOOLEAN, Verdict(s, ok)
    PROVE  Kept
  <1>. DEFINE r == [Dropped(s) EXCEPT !.verifying = FALSE]
  <1>1. /\ Sound(socket[s]) /\ socket[s] \in Socket /\ socket[s].verifying
        /\ socket[s].chain # <<>>
    BY InductiveGives DEF Verdict, Sound, SocketIsSound
  <1>2. /\ r \in Socket /\ r.verifying = FALSE
        /\ r.state = socket[s].state /\ r.accepting = socket[s].accepting
        /\ r.authed = socket[s].authed /\ r.attempted = socket[s].attempted
        /\ r.reason = socket[s].reason /\ r.heard = socket[s].heard
        /\ r.awaitingPong = socket[s].awaitingPong
    BY <1>1, DroppedIs DEF Socket
  <1>3. /\ inFlight' = inFlight - 1 /\ CountedHere
        /\ \/ /\ serverStopped \/ ~socket[s].accepting
              /\ socket' = [socket EXCEPT ![s] = r]
              /\ unauthenticated' = unauthenticated /\ clients' = clients
           \/ socket[s].accepting /\ Admit(s, r, "later")
           \/ socket[s].accepting /\ CloseSocket(s, r, "auth failed")
    BY InductiveGives DEF Verdict, Counted, CountedHere
  <1>. HIDE DEF r
  <1>4. Slots(s, r)
    BY <1>1, <1>2, <1>3 DEF Slots
  <1>5. CASE /\ serverStopped \/ ~socket[s].accepting
             /\ socket' = [socket EXCEPT ![s] = r]
             /\ unauthenticated' = unauthenticated /\ clients' = clients
    <2>1. socket[s].state # "open"
      BY <1>1, <1>5, InductiveGives DEF Sound, SocketIsSound, Open
    <2>2. Sound(r)
      BY <1>1, <1>2, <2>1 DEF Sound, SocketIsSound
    <2>. QED
      BY <1>2, <1>3, <1>4, <1>5, <2>2, StayingKeeps, Zenon
  <1>6. CASE socket[s].accepting /\ Admit(s, r, "later")
    <2>1. /\ Open(s) /\ r.state = "open" /\ r.accepting /\ r.reason = "none"
          /\ r.heard => ~r.awaitingPong
      BY <1>1, <1>2, <1>6 DEF Sound, SocketIsSound, Open
    <2>. QED
      BY <1>2, <1>3, <1>4, <1>6, <2>1, AdmittingKeeps
  <1>7. CASE socket[s].accepting /\ CloseSocket(s, r, "auth failed")
    BY <1>2, <1>3, <1>4, <1>7, ClosingKeeps DEF Reasons
  <1>. QED
    BY <1>3, <1>5, <1>6, <1>7, Zenon

\* A frame that asks to be let in.
LEMMA AuthFrameKeeps ==
    ASSUME ServerInd, NEW s \in Sockets, NEW f \in Frames,
           Open(s), socket[s].chain # <<>>, ~socket[s].verifying,
           AuthFrame(s, f), UNCHANGED <<serverStopped, logins>>
    PROVE  Kept
  <1>. DEFINE r == [Dropped(s) EXCEPT !.attempted = TRUE]
  <1>1. /\ Sound(socket[s]) /\ socket[s] \in Socket /\ Dropped(s) \in Socket
    BY InductiveGives, DroppedIs DEF Sound
  <1>2. /\ Dropped(s).verifying = FALSE /\ socket[s].verifying = FALSE
    BY <1>1, DroppedIs DEF Socket
  <1>3. /\ r \in Socket /\ r.verifying = FALSE /\ r.state = "open" /\ r.accepting
        /\ r.authed = socket[s].authed /\ r.reason = "none" /\ r.reason = socket[s].reason
        /\ r.heard = socket[s].heard /\ r.awaitingPong = socket[s].awaitingPong
        /\ r.heard => ~r.awaitingPong
    BY <1>1, <1>2, DroppedIs DEF Socket, Sound, SocketIsSound, Open
  <1>4. /\ attempts \in 0 .. MaxPerWindow /\ serverStopped' = serverStopped
        /\ serverStopped' \in BOOLEAN /\ logins' \in 0 .. MaxLogins
    BY InductiveGives DEF Counted
  <1>5. \/ CloseSocket(s, Dropped(s), "already attempted") /\ UNCHANGED <<inFlight, attempts>>
        \/ Admit(s, r, "never") /\ UNCHANGED <<inFlight, attempts>>
        \/ CloseSocket(s, r, "auth failed") /\ UNCHANGED <<inFlight, attempts>>
        \/ Authenticate(s, r)
    BY Zenon DEF AuthFrame
  <1>6. Authenticate(s, r) =>
           \/ CloseSocket(s, r, "authentication busy") /\ UNCHANGED <<inFlight, attempts>>
           \/ CloseSocket(s, r, "rate limit") /\ UNCHANGED <<inFlight, attempts>>
           \/ /\ inFlight < MaxInFlight /\ attempts < MaxPerWindow
              /\ inFlight' = inFlight + 1 /\ attempts' = attempts + 1
              /\ socket' = [socket EXCEPT ![s] = [r EXCEPT !.verifying = TRUE, !.chain = socket[s].chain]]
              /\ unauthenticated' = unauthenticated /\ clients' = clients
    BY Zenon DEF Authenticate
  <1>. HIDE DEF r
  <1>7. CASE UNCHANGED <<inFlight, attempts>>
    <2>1. Slots(s, r) /\ Slots(s, Dropped(s)) /\ CountedHere
      BY <1>2, <1>3, <1>4, <1>7, Zenon DEF Slots, CountedHere, Counted
    <2>2. CASE CloseSocket(s, Dropped(s), "already attempted")
      BY <1>1, <1>2, <2>1, <2>2, ClosingKeeps DEF Reasons
    <2>3. CASE Admit(s, r, "never")
      BY <1>3, <2>1, <2>3, AdmittingKeeps
    <2>4. ASSUME NEW why \in {"auth failed", "authentication busy", "rate limit"},
                 CloseSocket(s, r, why)
          PROVE  Kept
      BY <1>3, <2>1, <2>4, ClosingKeeps DEF Reasons
    <2>5. inFlight' # inFlight + 1
      BY <1>7, InductiveGives
    <2>. QED
      BY <1>5, <1>6, <2>2, <2>3, <2>4, <2>5, Zenon
  <1>8. CASE /\ inFlight < MaxInFlight /\ attempts < MaxPerWindow
             /\ inFlight' = inFlight + 1 /\ attempts' = attempts + 1
             /\ socket' = [socket EXCEPT ![s] = [r EXCEPT !.verifying = TRUE, !.chain = socket[s].chain]]
             /\ unauthenticated' = unauthenticated /\ clients' = clients
    <2>. DEFINE v == [r EXCEPT !.verifying = TRUE, !.chain = socket[s].chain]
    <2>1. socket[s].chain \in Seq(Frames)
      BY <1>1 DEF Socket
    <2>2. /\ v \in Socket /\ v.verifying = TRUE /\ v.chain = socket[s].chain
          /\ v.state = r.state /\ v.accepting = r.accepting /\ v.authed = r.authed
          /\ v.reason = r.reason /\ v.heard = r.heard /\ v.awaitingPong = r.awaitingPong
      BY <1>3, <2>1 DEF Socket
    <2>3. socket' = [socket EXCEPT ![s] = v]
      BY <1>8
    <2>. HIDE DEF v
    <2>4. Sound(v)
      BY <1>1, <1>3, <2>2 DEF Sound, SocketIsSound, Socket
    <2>5. Slots(s, v)
      BY <1>2, <1>8, <2>2 DEF Slots
    <2>6. CountedHere
      BY <1>4, <1>8, CapsAreNaturals DEF CountedHere, Counted
    <2>7. v.state = socket[s].state
      BY <1>3, <2>2 DEF Open
    <2>. QED
      BY <1>3, <1>8, <2>2, <2>3, <2>4, <2>5, <2>6, <2>7, StayingKeeps, Zenon
  <1>. QED
    BY <1>5, <1>6, <1>7, <1>8, Zenon

\* Any other frame.
LEMMA OtherFrameKeeps ==
    ASSUME ServerInd, NEW s \in Sockets, NEW f \in Frames,
           Open(s), socket[s].chain # <<>>, ~socket[s].verifying,
           OtherFrame(s, f), UNCHANGED <<serverStopped, logins>>
    PROVE  Kept
  <1>1. /\ Sound(socket[s]) /\ socket[s] \in Socket /\ Dropped(s) \in Socket
    BY InductiveGives, DroppedIs DEF Sound
  <1>2. Dropped(s).verifying = FALSE /\ socket[s].verifying = FALSE
    BY <1>1, DroppedIs DEF Socket
  <1>3. inFlight' = inFlight /\ CountedHere
    BY InductiveGives DEF OtherFrame, Counted, CountedHere
  <1>4. Slots(s, Dropped(s))
    BY <1>2, <1>3, Zenon DEF Slots
  <1>5. \/ CloseSocket(s, Dropped(s), "protocol")
        \/ ~socket[s].authed /\ CloseSocket(s, Dropped(s), "subscribe before authentication")
        \/ /\ socket' = [socket EXCEPT ![s] = Handled(s)]
           /\ unauthenticated' = unauthenticated /\ clients' = clients
    BY DEF OtherFrame
  <1>6. CASE CloseSocket(s, Dropped(s), "protocol")
    BY <1>1, <1>2, <1>3, <1>4, <1>6, ClosingKeeps DEF Reasons
  <1>7. CASE ~socket[s].authed /\ CloseSocket(s, Dropped(s), "subscribe before authentication")
    <2>1. ~socket[s].attempted
      BY <1>1, <1>7 DEF Sound, SocketIsSound, Open
    <2>. QED
      BY <1>1, <1>2, <1>3, <1>4, <1>7, <2>1, ClosingKeeps DEF Reasons
  <1>8. CASE /\ socket' = [socket EXCEPT ![s] = Handled(s)]
             /\ unauthenticated' = unauthenticated /\ clients' = clients
    <2>. DEFINE h == Handled(s)
    <2>1. h = [Dropped(s) EXCEPT
                 !.awaitingPong = IF socket[s].authed THEN FALSE ELSE Dropped(s).awaitingPong,
                 !.heard = socket[s].authed]
      BY DEF Handled
    <2>2. /\ h \in Socket /\ h.heard = socket[s].authed
          /\ socket[s].authed => h.awaitingPong = FALSE
          /\ h.state = Dropped(s).state /\ h.accepting = Dropped(s).accepting
          /\ h.authed = Dropped(s).authed /\ h.attempted = Dropped(s).attempted
          /\ h.verifying = Dropped(s).verifying /\ h.reason = Dropped(s).reason
      BY <1>1, <2>1 DEF Socket
    <2>. HIDE DEF h
    <2>3. Sound(h) /\ h.state = socket[s].state /\ h.authed = socket[s].authed
          /\ h.reason = socket[s].reason
      BY <1>1, <1>2, <2>2, DroppedIs DEF Sound, SocketIsSound
    <2>4. Slots(s, h)
      BY <1>2, <1>3, <2>2, Zenon DEF Slots
    <2>5. socket' = [socket EXCEPT ![s] = h]
      BY <1>8 DEF h
    <2>. QED
      BY <1>3, <1>8, <2>3, <2>4, <2>5, StayingKeeps, Zenon
  <1>. QED
    BY <1>5, <1>6, <1>7, <1>8, Zenon

\* A frame is handled only on an open socket without a verification.
LEMMA HandleMessageKeeps ==
    ASSUME ServerInd, NEW s \in Sockets, HandleMessage(s)
    PROVE  Kept
  <1>1. /\ Open(s) /\ socket[s].chain # <<>> /\ ~socket[s].verifying
        /\ UNCHANGED <<serverStopped, logins>>
    BY InductiveGives DEF HandleMessage, Sound, SocketIsSound, Open
  <1>2. Head(socket[s].chain) \in Frames
    BY <1>1, InductiveGives DEF Sound, Socket
  <1>3. AuthFrame(s, Head(socket[s].chain)) \/ OtherFrame(s, Head(socket[s].chain))
    BY Zenon DEF HandleMessage
  <1>. QED
    BY <1>1, <1>2, <1>3, AuthFrameKeeps, OtherFrameKeeps

\* Many sockets are forgotten at once: a new sign-in, a stop.
LEMMA CloseAllKeeps ==
    ASSUME ServerInd, NEW S \in SUBSET Sockets, NEW reason \in Reasons,
           reason \notin {"subscribe before authentication", "keepalive"},
           CloseAll(S, reason), inFlight' = inFlight, Counted',
           serverStopped' => \/ serverStopped
                       \/ \A s \in Sockets : Open(s) => s \in S
    PROVE  Kept
  <1>1. socket' = [s \in Sockets |-> IF s \in S THEN Closed(socket[s], reason) ELSE socket[s]]
    BY Zenon DEF CloseAll
  <1>2. \A s \in Sockets : Sound(socket[s]) /\ (serverStopped => ~Open(s))
    BY InductiveGives
  <1>3. ASSUME NEW s \in Sockets
        PROVE  /\ Sound(Closed(socket[s], reason)) /\ Closed(socket[s], reason).state = "closed"
               /\ ~Closed(socket[s], reason).authed
               /\ Closed(socket[s], reason).verifying = socket[s].verifying
               /\ Closed(socket[s], reason).reason = reason
    <2>1. socket[s] \in Socket /\ (socket[s].verifying => socket[s].chain # <<>>)
      BY <1>2 DEF Sound, SocketIsSound
    <2>. QED
      BY <2>1, ClosedIsSound
  <1>4. ASSUME NEW s \in Sockets
        PROVE  /\ Sound(socket'[s]) /\ socket'[s] \in Socket /\ EndsFairly(s, socket'[s])
               /\ socket'[s].verifying = socket[s].verifying
               /\ socket'[s].authed <=> socket[s].authed /\ s \notin S
               /\ socket'[s].state = "open" <=> Open(s) /\ s \notin S
    <2>1. CASE s \in S
      BY <1>1, <1>3, <2>1 DEF EndsFairly, Sound
    <2>2. CASE s \notin S
      <3>1. socket'[s] = socket[s]
        BY <1>1, <2>2
      <3>. QED
        BY <1>2, <2>2, <3>1 DEF EndsFairly, Sound, SocketIsSound, Open
    <2>. QED
      BY <2>1, <2>2
  <1>5. socket' \in [Sockets -> Socket]
    BY <1>1, <1>4
  <1>6. /\ clients' = {s \in Sockets : socket'[s].authed}
        /\ unauthenticated' = {s \in Sockets : socket'[s].state = "open" /\ ~socket'[s].authed}
    <2>1. clients' = clients \ S /\ unauthenticated' = unauthenticated \ S
      BY Zenon DEF CloseAll
    <2>. QED
      BY <1>4, <2>1, InductiveGives
  <1>7. \A s \in Sockets : serverStopped' => socket'[s].state # "open"
    BY <1>2, <1>4
  <1>8. ManyMove
    BY <1>4, <1>5, <1>6, <1>7, Zenon DEF ManyMove
  <1>. QED
    BY <1>8, ManySocketsMove, Zenon

\* A new sign-in.
LEMMA CloseAuthenticatedClientsKeeps ==
    ASSUME ServerInd, CloseAuthenticatedClients
    PROVE  Kept
  <1>1. /\ CloseAll(clients, "reauthentication") /\ inFlight' = inFlight
        /\ serverStopped' = serverStopped /\ clients \in SUBSET Sockets
    BY InductiveGives DEF CloseAuthenticatedClients
  <1>2. Counted'
    BY InductiveGives, CapsAreNaturals DEF CloseAuthenticatedClients, Counted
  <1>. QED
    BY <1>1, <1>2, CloseAllKeeps DEF Reasons

\* The server stops.
LEMMA StopKeeps ==
    ASSUME ServerInd, Stop
    PROVE  Kept
  <1>1. CloseAll({s \in Sockets : Open(s)}, "stopped") /\ inFlight' = inFlight
    BY DEF Stop
  <1>2. Counted'
    BY InductiveGives DEF Stop, Counted
  <1>. QED
    BY <1>1, <1>2, CloseAllKeeps DEF Reasons

\* The sweep: who is silent is closed, and the others are asked.
LEMMA PingClientsKeeps ==
    ASSUME ServerInd, PingClients
    PROVE  Kept
  <1>. DEFINE silent == {s \in clients : socket[s].awaitingPong}
              asked(s) == [socket[s] EXCEPT !.awaitingPong = TRUE, !.heard = FALSE]
  <1>1. /\ socket' = [s \in Sockets |-> IF s \in silent THEN Closed(socket[s], "keepalive")
                                      ELSE IF s \in clients THEN asked(s) ELSE socket[s]]
        /\ clients' = clients \ silent /\ unauthenticated' = unauthenticated
        /\ inFlight' = inFlight /\ serverStopped' = serverStopped
    BY DEF PingClients
  <1>2. \A s \in Sockets : Sound(socket[s]) /\ (serverStopped => ~Open(s))
    BY InductiveGives
  <1>3. ASSUME NEW s \in Sockets
        PROVE  /\ Sound(socket'[s]) /\ socket'[s] \in Socket /\ EndsFairly(s, socket'[s])
               /\ socket'[s].verifying = socket[s].verifying
               /\ socket'[s].authed <=> socket[s].authed /\ s \notin silent
               /\ socket'[s].state = "open" <=> Open(s) /\ s \notin silent
    <2>1. CASE s \in silent
      <3>1. socket'[s] = Closed(socket[s], "keepalive")
        BY <1>1, <2>1
      <3>2. /\ socket[s] \in Socket /\ (socket[s].verifying => socket[s].chain # <<>>)
            /\ ~socket[s].heard
        BY <1>2, <2>1 DEF Sound, SocketIsSound
      <3>3. /\ Sound(socket'[s]) /\ socket'[s].state = "closed" /\ ~socket'[s].authed
            /\ socket'[s].verifying = socket[s].verifying /\ socket'[s].reason = "keepalive"
        <4>1. /\ Sound(Closed(socket[s], "keepalive"))
              /\ Closed(socket[s], "keepalive").state = "closed"
              /\ ~Closed(socket[s], "keepalive").authed
              /\ Closed(socket[s], "keepalive").verifying = socket[s].verifying
              /\ Closed(socket[s], "keepalive").reason = "keepalive"
          BY <3>2, ClosedIsSound DEF Reasons
        <4>. QED
          BY <3>1, <4>1
      <3>. QED
        BY <2>1, <3>2, <3>3 DEF EndsFairly, Sound
    <2>2. CASE s \notin silent /\ s \in clients
      <3>1. socket'[s] = asked(s)
        BY <1>1, <2>2
      <3>2. Sound(socket[s]) /\ socket[s] \in Socket
        BY <1>2 DEF Sound
      <3>3. /\ asked(s) \in Socket /\ asked(s).heard = FALSE
            /\ asked(s).state = socket[s].state /\ asked(s).accepting = socket[s].accepting
            /\ asked(s).authed = socket[s].authed /\ asked(s).attempted = socket[s].attempted
            /\ asked(s).verifying = socket[s].verifying /\ asked(s).reason = socket[s].reason
            /\ asked(s).chain = socket[s].chain
        BY <3>2 DEF Socket
      <3>. HIDE DEF asked, silent
      <3>. QED
        BY <2>2, <3>1, <3>2, <3>3 DEF EndsFairly, Sound, SocketIsSound, Open
    <2>3. CASE s \notin clients
      <3>1. socket'[s] = socket[s]
        BY <1>1, <2>3
      <3>. QED
        BY <1>2, <2>3, <3>1 DEF EndsFairly, Sound, SocketIsSound, Open
    <2>. QED
      BY <2>1, <2>2, <2>3
  <1>4. socket' \in [Sockets -> Socket]
    BY <1>1, <1>3
  <1>5. \A s \in Sockets : s \in silent => s \in clients
    OBVIOUS
  <1>. HIDE DEF silent
  <1>6. /\ clients' = {s \in Sockets : socket'[s].authed}
        /\ unauthenticated' = {s \in Sockets : socket'[s].state = "open" /\ ~socket'[s].authed}
    BY <1>1, <1>3, <1>5, InductiveGives
  <1>7. \A s \in Sockets : serverStopped' => socket'[s].state # "open"
    BY <1>1, <1>2, <1>3
  <1>8. Counted'
    BY InductiveGives DEF PingClients, Counted
  <1>9. ManyMove
    BY <1>1, <1>3, <1>4, <1>6, <1>7, <1>8, Zenon DEF ManyMove
  <1>. QED
    BY <1>9, ManySocketsMove, Zenon

\* Nothing happens to any socket.
LEMMA UnmovedKeeps ==
    ASSUME ServerInd, UNCHANGED <<socket, unauthenticated, clients, inFlight, serverStopped>>, Counted'
    PROVE  Kept
  <1>1. \A s \in Sockets : EndsFairly(s, socket[s])
    BY InductiveGives DEF EndsFairly, Sound, SocketIsSound, Open
  <1>2. /\ clients = {s \in Sockets : socket[s].authed}
        /\ unauthenticated = {s \in Sockets : socket[s].state = "open" /\ ~socket[s].authed}
    BY InductiveGives DEF Open
  <1>3. ManyMove
    BY <1>1, <1>2, InductiveGives DEF ManyMove, Open
  <1>. QED
    BY <1>3, ManySocketsMove, Zenon

\* Old attempts are forgotten.
LEMMA WindowPassesKeeps ==
    ASSUME ServerInd, WindowPasses
    PROVE  Kept
  <1>1. Counted'
    BY InductiveGives, CapsAreNaturals DEF WindowPasses, Counted
  <1>. QED
    BY <1>1, UnmovedKeeps DEF WindowPasses

-----------------------------------------------------------------------------
(* Theorems.                                                               *)

\* Every step keeps the invariant, and ends connections fairly.
LEMMA ServerStepKeeps ==
    ASSUME ServerInd, [ServerNext]_serverVars
    PROVE  Kept
  <1>1. CASE ServerNext
    <2>1. ASSUME NEW s \in Sockets,
                 \/ Connect(s) \/ AuthDeadline(s) \/ HandleMessage(s)
                 \/ PeerCloses(s) \/ PeerVanishes(s)
                 \/ TokenExpires(s) \/ ExpiryTimer(s)
                 \/ \E f \in Sends[s] : EnqueueFrame(s, f)
                 \/ \E ok \in BOOLEAN : Verdict(s, ok)
          PROVE  Kept
      BY <2>1, ConnectKeeps, AuthDeadlineKeeps, HandleMessageKeeps, PeerClosesKeeps,
         PeerVanishesKeeps, TokenExpiresKeeps, ExpiryTimerKeeps, EnqueueFrameKeeps,
         VerdictKeeps, Zenon
    <2>. QED
      BY <1>1, <2>1, WindowPassesKeeps, PingClientsKeeps,
         CloseAuthenticatedClientsKeeps, StopKeeps, Zenon DEF ServerNext
  <1>2. CASE UNCHANGED serverVars
    <2>1. Counted'
      BY <1>2, InductiveGives DEF serverVars, Counted
    <2>. QED
      BY <1>2, <2>1, UnmovedKeeps DEF serverVars
  <1>. QED
    BY <1>1, <1>2, Zenon

\* At the start no socket is there, and the invariant holds.
LEMMA InitKeeps ==
    ServerInit => ServerInd
  <1>. SUFFICES ASSUME ServerInit PROVE ServerInd
    OBVIOUS
  <1>1. \A s \in Sockets : socket[s] = NewSocket
    BY DEF ServerInit
  <1>2. /\ NewSocket.state = "none" /\ NewSocket.authed = FALSE
        /\ NewSocket.verifying = FALSE
    BY DEF NewSocket
  <1>3. /\ socket \in [Sockets -> Socket]
        /\ \A s \in Sockets : SocketIsSound(socket[s]) /\ ~Open(s)
    BY <1>1, <1>2, NewIsSound DEF ServerInit, Sound, Open
  <1>4. ServerTypeOK
    <2>1. /\ inFlight \in 0 .. MaxInFlight /\ attempts \in 0 .. MaxPerWindow
          /\ logins \in 0 .. MaxLogins
      BY CapsAreNaturals DEF ServerInit
    <2>2. /\ unauthenticated \in SUBSET Sockets /\ clients \in SUBSET Sockets
          /\ serverStopped \in BOOLEAN
      BY Zenon DEF ServerInit
    <2>. QED
      BY <1>3, <2>1, <2>2, Zenon DEF ServerTypeOK
  <1>5. Verifying = {}
    BY <1>1, <1>2 DEF Verifying
  <1>6. SetsAgree
    BY <1>3, <1>5, FS_EmptySet DEF ServerInit, SetsAgree, Verifying
  <1>. QED
    BY <1>3, <1>4, <1>5, <1>6, FS_EmptySet, Zenon DEF ServerInd, ServerIsSound, Verifying

\* Whatever closes a socket, and whatever was awaited then, every place in the
\* server's sets and every slot is held by a socket that has a right to it.
THEOREM Soundness == ServerSpec => []ServerIsSound
  <1>1. ServerInit => ServerInd
    BY InitKeeps
  <1>2. ServerInd /\ [ServerNext]_serverVars => ServerInd'
    BY ServerStepKeeps DEF Kept
  <1>3. ServerInd => ServerIsSound
    BY DEF ServerInd
  <1>. QED
    BY <1>1, <1>2, <1>3, PTL DEF ServerSpec

\* A client that pipelines is not closed for haste, nor one that speaks for
\* silence.
THEOREM NobodyIsCutOff == ServerSpec => NobodyCutOff
  <1>1. ServerInit => ServerInd
    BY InitKeeps
  <1>2. ServerInd /\ [ServerNext]_serverVars => ServerInd'
    BY ServerStepKeeps DEF Kept
  <1>3. ServerInd /\ [ServerNext]_serverVars =>
          [\A s \in Sockets :
             socket'[s].reason = "subscribe before authentication" /\ Open(s)
                 => ~socket[s].attempted]_serverVars
    BY ServerStepKeeps, Zenon DEF Kept, EndsFairly
  <1>4. ServerInd /\ [ServerNext]_serverVars =>
          [\A s \in Sockets :
             socket'[s].reason = "keepalive" /\ Open(s) => ~socket[s].heard]_serverVars
    BY ServerStepKeeps, Zenon DEF Kept, EndsFairly
  <1>. QED
    BY <1>1, <1>2, <1>3, <1>4, PTL DEF ServerSpec, NobodyCutOff, EarlyMeansNoAuth, HeardIsKept
=============================================================================
