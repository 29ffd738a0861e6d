--------------------------- MODULE SessionProofs ---------------------------
(***************************************************************************)
(* Proofs about a session, on its host and on its way to the app.          *)
(*                                                                         *)
(* HostSession, for any number of turns, requests, reloads and edits: the  *)
(* state keeps its types, and a promise of a turn is paid once.  The       *)
(* record on globalThis stands for one promise that is not paid yet, and   *)
(* it is stamped anew only when no record is there or for a turn that      *)
(* really runs: the extension believes it is working only while pi is in a *)
(* turn that has spoken.                                                   *)
(*                                                                         *)
(* SessionFeed, for any sessions, size of the socket's buffer, backlog and *)
(* number of pieces, messages and redials: the state keeps its types, the  *)
(* schedule implements OrderedFeed, and over a link that never broke what  *)
(* has settled agrees with the host.  For the last the frames on their way *)
(* are read as a promise: after the newest status among them, the newest   *)
(* page and the newest stream frame of a session, the app will hold what   *)
(* the host has; and no page that finds the session idle is left to wipe   *)
(* what was said before its tool calls.                                    *)
(***************************************************************************)
EXTENDS HostSession, SessionFeed, FiniteSetTheorems, SequenceTheorems, WellFoundedInduction, TLAPS

-----------------------------------------------------------------------------
(* The host session: what is promised.                                     *)


\* The promise a record stands for.
Outstanding(r) == IF r = NoRecord THEN 0 ELSE 1

\* The nudges sent and the one the record still promises are all owed.
Accounted == owed.paid + Outstanding(record) <= owed.debts

\* _status is "working" in a turn only, after its first message, and never before a load.
WorkingIsTrue == host.status = "working" => Loaded /\ pi.turn /\ pi.spoke

\* A third compaction is the guard's own, and it starts no fourth.
GuardHolds == pi.turn /\ pi.compacting = 3 => host.compacting

Inductive == TypeOK /\ Accounted /\ WorkingIsTrue /\ GuardHolds

-----------------------------------------------------------------------------
(* What pi and the extension's variables come to.                          *)

\* The guard's outcome is a state of the extension and tells nothing of the record.
LEMMA AutoCompactedIsHost ==
    ASSUME NEW h \in Host, NEW n \in Sizes, NEW starts \in BOOLEAN
    PROVE  /\ AutoCompacted(h, n, starts) \in Host
           /\ AutoCompacted(h, n, starts).status = h.status
           /\ AutoCompacted(h, n, starts).load = h.load
           /\ h.compacting => AutoCompacted(h, n, starts).compacting
           /\ Starts(h, n, starts) \in {0, 1}
           /\ Starts(h, n, starts) = 1 => ~h.compacting /\ AutoCompacted(h, n, starts).compacting
  <1>. DEFINE after == AutoCompacted(h, n, starts)
  <1>1. CASE ~WouldCompact(h, n)
    BY <1>1 DEF AutoCompacted, Starts
  <1>2. CASE WouldCompact(h, n) /\ starts
    <2>1. after = [h EXCEPT !.compacting = TRUE]
      BY <1>2 DEF AutoCompacted
    <2>. HIDE DEF after
    <2>2. after \in Host /\ after.status = h.status /\ after.load = h.load /\ after.compacting
      BY <2>1 DEF Host
    <2>. QED
      BY <1>2, <2>2 DEF Starts, WouldCompact, after
  <1>3. CASE WouldCompact(h, n) /\ ~starts
    <2>1. after = [h EXCEPT !.tried = n]
      BY <1>3 DEF AutoCompacted
    <2>. HIDE DEF after
    <2>2. after \in Host /\ after.status = h.status /\ after.load = h.load
      BY <2>1 DEF Host
    <2>3. ~h.compacting
      BY <1>3 DEF WouldCompact
    <2>. QED
      BY <1>3, <2>2, <2>3 DEF Starts, after
  <1>. QED
    BY <1>1, <1>2, <1>3

\* A runtime that has just been loaded is idle.
LEMMA FreshIsHost ==
    ASSUME NEW load \in Loads
    PROVE  Fresh(load) \in Host /\ Fresh(load).status = "idle"
  BY DEF Fresh, Host, Sizes

-----------------------------------------------------------------------------
(* The steps that leave the record and the account of it alone.            *)

\* The invariant survives such a step if pi and the host fit each other after it.
LEMMA AccountsUntouched ==
    ASSUME Inductive, UNCHANGED <<record, commands, nudges, broken, owed>>,
           pi' \in Pi, host' \in Host, tokens' \in Sizes, WorkingIsTrue', GuardHolds'
    PROVE  Inductive'
  BY DEF Inductive, TypeOK, Accounted

LEMMA TurnStartsKeeps == ASSUME Inductive, TurnStarts PROVE Inductive'
  <1>1. pi' \in Pi /\ host' \in Host /\ tokens' \in Sizes
    BY DEF TurnStarts, Inductive, TypeOK, Pi
  <1>2. WorkingIsTrue'
    BY DEF TurnStarts, Inductive, TypeOK, WorkingIsTrue, Idle, Pi, Loaded
  <1>3. GuardHolds'
    BY DEF TurnStarts, Inductive, TypeOK, GuardHolds, Idle, Pi
  <1>. QED
    BY <1>1, <1>2, <1>3, AccountsUntouched DEF TurnStarts

LEMMA MessageStartKeeps == ASSUME Inductive, MessageStart PROVE Inductive'
  <1>1. pi' \in Pi /\ host' \in Host /\ tokens' \in Sizes
    BY DEF MessageStart, Inductive, TypeOK, Pi, Host
  <1>2. WorkingIsTrue'
    BY DEF MessageStart, Inductive, TypeOK, WorkingIsTrue, Pi, Host, Loaded
  <1>3. GuardHolds'
    BY DEF MessageStart, Inductive, TypeOK, GuardHolds, Pi, Host
  <1>. QED
    BY <1>1, <1>2, <1>3, AccountsUntouched DEF MessageStart

LEMMA CompactAskedKeeps == ASSUME Inductive, CompactAsked PROVE Inductive'
  <1>1. pi' \in Pi /\ host' \in Host /\ tokens' \in Sizes
    BY DEF CompactAsked, Inductive, TypeOK, Pi
  <1>2. WorkingIsTrue'
    BY DEF CompactAsked, Inductive, TypeOK, WorkingIsTrue, Pi, Loaded
  <1>3. GuardHolds'
    BY DEF CompactAsked, Inductive, TypeOK, GuardHolds, Pi
  <1>. QED
    BY <1>1, <1>2, <1>3, AccountsUntouched DEF CompactAsked

LEMMA CompactionEndsKeeps == ASSUME Inductive, CompactionEnds PROVE Inductive'
  <1>1. pi' \in Pi /\ pi'.turn = pi.turn /\ pi'.spoke = pi.spoke /\ ~pi.turn
    BY DEF CompactionEnds, Inductive, TypeOK, Pi
  <1>2. tokens' \in Sizes
    BY DEF CompactionEnds, Inductive, TypeOK, Sizes
  <1>3. host' \in Host /\ host'.status = host.status /\ host'.load = host.load
    <2>1. CASE ~Loaded
      BY <2>1 DEF CompactionEnds, Inductive, TypeOK
    <2>2. CASE Loaded
      <3>1. PICK m \in Sizes : host' = [host EXCEPT !.compacting = FALSE, !.tried = m]
        <4>1. host.tried \in Sizes /\ tokens \in Sizes /\ 0 \in Sizes
          BY DEF Inductive, TypeOK, Host, Sizes
        <4>2. PICK outcome \in {"compacted", "nothing", "cancelled"} :
                host' = [host EXCEPT !.compacting = FALSE,
                                     !.tried = CASE outcome = "compacted" -> 0
                                                 [] outcome = "nothing" /\ tokens > 0 -> tokens
                                                 [] OTHER -> @]
          BY <2>2 DEF CompactionEnds
        <4>3. CASE outcome = "compacted"
          BY <4>1, <4>2, <4>3
        <4>4. CASE outcome = "nothing" /\ tokens > 0
          BY <4>1, <4>2, <4>4
        <4>5. CASE outcome # "compacted" /\ ~(outcome = "nothing" /\ tokens > 0)
          BY <4>1, <4>2, <4>5
        <4>. QED
          BY <4>3, <4>4, <4>5
      <3>. QED
        BY <3>1 DEF Inductive, TypeOK, Host
    <2>. QED
      BY <2>1, <2>2
  <1>4. WorkingIsTrue'
    BY <1>1, <1>3 DEF Inductive, WorkingIsTrue, Loaded
  <1>5. GuardHolds'
    BY <1>1 DEF GuardHolds
  <1>. QED
    BY <1>1, <1>2, <1>3, <1>4, <1>5, AccountsUntouched DEF CompactionEnds

LEMMA AgentEndKeeps == ASSUME Inductive, AgentEnd PROVE Inductive'
  <1>1. PICK n \in {tokens, tokens + 1} \cap Sizes, starts \in BOOLEAN :
          /\ tokens' = n
          /\ host' = IF Loaded THEN AutoCompacted([host EXCEPT !.status = "idle"], n, starts) ELSE host
          /\ pi' = [pi EXCEPT !.turn = FALSE, !.settling = TRUE,
                              !.compacting = @ + (IF Loaded THEN Starts(host, n, starts) ELSE 0)]
    BY DEF AgentEnd
  <1>. DEFINE idle == [host EXCEPT !.status = "idle"]
  <1>2. idle \in Host /\ idle.status = "idle"
    BY DEF Inductive, TypeOK, Host
  <1>3. host' \in Host /\ (Loaded => host'.status = "idle") /\ (~Loaded => host' = host)
    <2>1. /\ AutoCompacted(idle, n, starts) \in Host
          /\ AutoCompacted(idle, n, starts).status = idle.status
      <3>. HIDE DEF idle
      <3>. QED BY <1>2, AutoCompactedIsHost
    <2>. QED
      BY <1>1, <1>2, <2>1 DEF Inductive, TypeOK
  <1>4. Starts(host, n, starts) \in {0, 1} /\ (Starts(host, n, starts) = 1 => ~host.compacting)
    BY <1>1, AutoCompactedIsHost DEF Inductive, TypeOK
  <1>5. pi.compacting = 3 => host.compacting
    BY DEF AgentEnd, Inductive, GuardHolds
  <1>. DEFINE more == IF Loaded THEN Starts(host, n, starts) ELSE 0
  <1>6. pi.compacting + more \in 0..3
    BY <1>4, <1>5 DEF Inductive, TypeOK, Pi
  <1>. HIDE DEF more
  <1>7. pi' \in Pi /\ ~pi'.turn
    BY <1>1, <1>6 DEF Inductive, TypeOK, Pi, more
  <1>8. WorkingIsTrue'
    <2>1. CASE Loaded
      BY <2>1, <1>3 DEF WorkingIsTrue
    <2>2. CASE ~Loaded
      BY <2>2, <1>3 DEF Inductive, WorkingIsTrue, Loaded
    <2>. QED BY <2>1, <2>2
  <1>9. GuardHolds'
    BY <1>7 DEF GuardHolds
  <1>. QED
    BY <1>1, <1>3, <1>7, <1>8, <1>9, AccountsUntouched DEF AgentEnd

-----------------------------------------------------------------------------
(* A settle, and the requests to reload.                                   *)

\* What is asked of the account when the record stays or goes: it may only be owed more.
LEMMA RecordKeptOrCleared ==
    ASSUME Inductive, record' \in {record, NoRecord},
           owed' \in Owed, owed'.debts >= owed.debts, owed'.paid = owed.paid
    PROVE  Accounted'
  BY DEF Inductive, TypeOK, Accounted, Outstanding, Owed

LEMMA AgentSettledKeeps == ASSUME Inductive, AgentSettled PROVE Inductive'
  <1>1. /\ pi \in Pi /\ host \in Host /\ owed \in Owed /\ commands \in Nat /\ tokens \in Sizes
        /\ UNCHANGED <<record, nudges, broken, tokens>>
    BY DEF AgentSettled, Inductive, TypeOK
  <1>2. CASE Loaded /\ host.deferred /\ Idle
    <2>1. FlushDeferred
      BY <1>2 DEF AgentSettled
    <2>2. host' \in Host /\ host'.status = host.status /\ host'.load = host.load /\ host'.compacting = host.compacting
      BY <1>1, <2>1 DEF FlushDeferred, Host
    <2>3. /\ pi' \in Pi /\ pi'.turn = pi.turn /\ pi'.spoke = pi.spoke /\ pi'.compacting = pi.compacting
      BY <1>1, <2>1 DEF FlushDeferred, Pi
    <2>4. owed' = [owed EXCEPT !.blocked = FALSE]
      BY <2>1 DEF FlushDeferred
    <2>5. owed' \in Owed /\ owed'.debts = owed.debts /\ owed'.paid = owed.paid
      BY <1>1, <2>4 DEF Owed
    <2>6. commands' \in Nat
      BY <1>1, <2>1 DEF FlushDeferred
    <2>. QED
      BY <1>1, <2>2, <2>3, <2>5, <2>6
      DEF Inductive, TypeOK, Accounted, WorkingIsTrue, GuardHolds, Loaded
  <1>3. CASE Loaded /\ ~(host.deferred /\ Idle)
    <2>1. SettleOnly /\ pi.compacting < 3
      BY <1>3 DEF AgentSettled
    <2>2. PICK starts \in BOOLEAN :
            /\ host' = AutoCompacted(host, tokens, starts)
            /\ pi' = [pi EXCEPT !.settling = FALSE, !.compacting = @ + Starts(host, tokens, starts)]
      BY <2>1 DEF SettleOnly
    <2>3. /\ host' \in Host /\ host'.status = host.status /\ host'.load = host.load
          /\ Starts(host, tokens, starts) \in {0, 1}
          /\ Starts(host, tokens, starts) = 1 => host'.compacting
      BY <1>1, <2>2, AutoCompactedIsHost
    <2>. DEFINE n == pi.compacting + Starts(host, tokens, starts)
    <2>6. n \in 0..3 /\ (n = 3 => host'.compacting \/ pi.compacting = 3)
      BY <1>1, <2>1, <2>3 DEF Pi
    <2>7. pi' = [pi EXCEPT !.settling = FALSE, !.compacting = n]
      BY <2>2
    <2>. HIDE DEF n
    <2>8. pi' \in Pi /\ pi'.turn = pi.turn /\ pi'.spoke = pi.spoke /\ pi'.compacting = n
      BY <1>1, <2>6, <2>7 DEF Pi
    <2>4. /\ pi' \in Pi /\ pi'.turn = pi.turn /\ pi'.spoke = pi.spoke
          /\ pi'.compacting = 3 => host'.compacting
      BY <2>1, <2>6, <2>8
    <2>5. owed' \in Owed /\ owed'.debts = owed.debts /\ owed'.paid = owed.paid /\ commands' = commands
      BY <1>1, <2>1 DEF SettleOnly, Owed
    <2>. QED
      BY <1>1, <2>3, <2>4, <2>5
      DEF Inductive, TypeOK, Accounted, WorkingIsTrue, GuardHolds, Loaded
  <1>4. CASE ~Loaded
    <2>1. pi' = [pi EXCEPT !.settling = FALSE] /\ UNCHANGED <<host, commands, owed>>
      BY <1>4 DEF AgentSettled
    <2>2. /\ pi' \in Pi /\ pi'.turn = pi.turn /\ pi'.spoke = pi.spoke /\ pi'.compacting = pi.compacting
      BY <1>1, <2>1 DEF Pi
    <2>. QED
      BY <1>1, <2>1, <2>2 DEF Inductive, TypeOK, Accounted, WorkingIsTrue, GuardHolds, Loaded
  <1>. QED
    BY <1>2, <1>3, <1>4

\* A request that is refused takes the record back; one that is accepted makes a record only when
\* it is owed one more turn, or a record is there already.
LEMMA QueueReloadKeeps ==
    ASSUME Inductive, NEW byAgent \in BOOLEAN, NEW left \in Nat, QueueReload(byAgent, left),
           UNCHANGED <<pi, nudges, broken, tokens>>
    PROVE  Inductive'
  <1>1. /\ pi \in Pi /\ host \in Host /\ owed \in Owed /\ record \in Record
        /\ broken \in BOOLEAN
    BY DEF Inductive, TypeOK
  <1>2. CASE broken
    <2>1. Refuse(left)
      BY <1>2 DEF QueueReload
    <2>2. host' \in Host /\ host'.status = host.status /\ host'.load = host.load /\ host'.compacting = host.compacting
      BY <1>1, <2>1 DEF Refuse, Host
    <2>3. owed' \in Owed /\ owed'.debts = owed.debts /\ owed'.paid = owed.paid
      BY <1>1, <2>1 DEF Refuse, Owed
    <2>4. record' = NoRecord /\ record' \in Record /\ commands' = left
      BY <2>1 DEF Refuse, Record
    <2>5. Accounted'
      BY <2>3, <2>4, RecordKeptOrCleared DEF Inductive, TypeOK, Owed
    <2>. QED
      BY <2>2, <2>3, <2>4, <2>5 DEF Inductive, TypeOK, WorkingIsTrue, GuardHolds, Loaded
  <1>3. CASE ~broken
    <2>1. Accept(byAgent, left)
      BY <1>3 DEF QueueReload
    <2>2. host' \in Host /\ host'.status = host.status /\ host'.load = host.load /\ host'.compacting = host.compacting
      BY <1>1, <2>1 DEF Accept, Host, Idle
    <2>. DEFINE more == IF byAgent /\ record = NoRecord THEN 1 ELSE 0
                debts == owed.debts + more
                blocked == pi.compacting > 0
                turn == owed.turn \/ byAgent
    <2>3. more \in {0, 1} /\ debts \in Nat /\ blocked \in BOOLEAN /\ turn \in BOOLEAN
      BY <1>1 DEF Owed
    <2>4. owed' = [owed EXCEPT !.turn = turn, !.reload = TRUE, !.blocked = blocked, !.debts = debts]
      BY <2>1 DEF Accept
    <2>5. owed' \in Owed /\ owed'.debts = owed.debts + more /\ owed'.paid = owed.paid
      <3>. HIDE DEF debts, blocked, turn
      <3>1. owed' \in Owed /\ owed'.debts = debts /\ owed'.paid = owed.paid
        BY <1>1, <2>3, <2>4 DEF Owed
      <3>. QED BY <3>1 DEF debts
    <2>6. /\ record' = IF byAgent THEN [reason |-> "reload_runtime", old |-> FALSE] ELSE record
          /\ record' \in Record /\ commands' \in Nat
      BY <1>1, <2>1 DEF Accept, Record, Idle
    <2>7. Accounted'
      <3>1. owed.paid + Outstanding(record) <= owed.debts /\ owed.paid \in Nat /\ owed.debts \in Nat
        BY <1>1 DEF Inductive, Accounted, Owed
      <3>2. Outstanding(record') <= Outstanding(record) + more
        BY <2>6 DEF Outstanding
      <3>3. Outstanding(record) \in {0, 1} /\ Outstanding(record') \in {0, 1}
        BY DEF Outstanding
      <3>. HIDE DEF more
      <3>. QED
        BY <2>3, <2>5, <3>1, <3>2, <3>3 DEF Accounted
    <2>. QED
      BY <2>2, <2>5, <2>6, <2>7 DEF Inductive, TypeOK, WorkingIsTrue, GuardHolds, Loaded
  <1>. QED
    BY <1>1, <1>2, <1>3

LEMMA AskKeeps == ASSUME Inductive, Ask PROVE Inductive'
  <1>1. CASE QueueReload(TRUE, commands)
    BY <1>1, QueueReloadKeeps DEF Ask, Inductive, TypeOK
  <1>2. CASE QueueReload(FALSE, commands)
    BY <1>2, QueueReloadKeeps DEF Ask, Inductive, TypeOK
  <1>. QED
    BY <1>1, <1>2 DEF Ask

LEMMA TypedKeeps == ASSUME Inductive, Typed PROVE Inductive'
  <1>1. owed' \in Owed /\ owed'.debts = owed.debts /\ owed'.paid = owed.paid
    BY DEF Typed, Inductive, TypeOK, Owed
  <1>2. commands' \in Nat
    BY DEF Typed, Inductive, TypeOK
  <1>. QED
    BY <1>1, <1>2 DEF Typed, Inductive, TypeOK, Accounted, WorkingIsTrue, GuardHolds, Loaded

-----------------------------------------------------------------------------
(* The reload and what follows it.                                         *)

\* A reload stamps a record only if one is there, or for a turn that is cut off and owed for it.
LEMMA ReloadKeeps ==
    ASSUME Inductive, Reload, commands' \in Nat
    PROVE  Inductive'
  <1>. DEFINE cut == Loaded /\ record = NoRecord /\ pi.spoke /\ pi.turn
              more == IF cut THEN 1 ELSE 0
              debts == owed.debts + more
              turn == ~broken /\ (owed.turn \/ cut)
  <1>1. /\ owed \in Owed /\ record \in Record /\ owed.turn \in BOOLEAN
        /\ owed.paid \in Nat /\ owed.debts \in Nat
    BY DEF Inductive, TypeOK, Owed
  <1>2. owed' = [owed EXCEPT !.debts = debts, !.turn = turn, !.reload = FALSE, !.blocked = FALSE]
    BY DEF Reload
  <1>3. more \in {0, 1} /\ debts \in Nat /\ turn \in BOOLEAN
    BY <1>1
  <1>4. owed' \in Owed /\ owed'.debts = owed.debts + more /\ owed'.paid = owed.paid
    <2>. HIDE DEF debts, turn
    <2>1. owed' \in Owed /\ owed'.debts = debts /\ owed'.paid = owed.paid
      BY <1>1, <1>2, <1>3 DEF Owed
    <2>. QED BY <2>1 DEF debts
  <1>5. record' \in Record /\ Outstanding(record') <= Outstanding(record) + more
    <2>1. CASE ~Loaded
      BY <1>1, <2>1 DEF Reload, Outstanding
    <2>2. CASE Loaded /\ record # NoRecord
      <3>1. record' = [record EXCEPT !.old = FALSE]
        BY <2>2 DEF Reload, Stamped
      <3>2. record' \in Record
        BY <1>1, <2>2, <3>1 DEF Record
      <3>. QED
        BY <2>2, <3>2 DEF Outstanding
    <2>3. CASE Loaded /\ record = NoRecord /\ host.status = "working"
      <3>1. cut
        BY <2>3 DEF Inductive, WorkingIsTrue
      <3>2. record' \in Record
        BY <2>3 DEF Reload, Stamped, Record
      <3>. QED
        BY <3>1, <3>2 DEF Outstanding
    <2>4. CASE Loaded /\ record = NoRecord /\ host.status # "working"
      BY <1>1, <2>4 DEF Reload, Stamped, Outstanding
    <2>. QED
      BY <2>1, <2>2, <2>3, <2>4
  <1>6. Accounted'
    <2>1. Outstanding(record) \in {0, 1} /\ Outstanding(record') \in {0, 1}
      BY DEF Outstanding
    <2>2. owed.paid + Outstanding(record) <= owed.debts
      BY DEF Inductive, Accounted
    <2>. HIDE DEF more
    <2>. QED
      BY <1>1, <1>3, <1>4, <1>5, <2>1, <2>2 DEF Accounted
  <1>7. host' \in Host /\ host'.status = "idle"
    BY FreshIsHost DEF Reload, Loads
  <1>8. pi' \in Pi /\ ~pi'.turn
    BY DEF Reload, Pi
  <1>. QED
    BY <1>4, <1>5, <1>6, <1>7, <1>8 DEF Reload, Inductive, TypeOK, WorkingIsTrue, GuardHolds

LEMMA RunCommandKeeps == ASSUME Inductive, RunCommand PROVE Inductive'
  <1>1. commands - 1 \in Nat
    BY DEF RunCommand, Inductive, TypeOK
  <1>2. CASE Reload /\ commands' = commands - 1
    BY <1>1, <1>2, ReloadKeeps
  <1>3. CASE QueueReload(FALSE, commands - 1) /\ UNCHANGED <<pi, nudges, broken, tokens>>
    BY <1>1, <1>3, QueueReloadKeeps
  <1>. QED
    BY <1>2, <1>3 DEF RunCommand

LEMMA PiReloadsKeeps == ASSUME Inductive, PiReloads PROVE Inductive'
  BY ReloadKeeps DEF PiReloads, Inductive, TypeOK

\* The record is cleared and its nudge counted in one step.
LEMMA BootsKeeps == ASSUME Inductive, Boots PROVE Inductive'
  <1>. DEFINE taken == IF record # NoRecord /\ ~record.old THEN 1 ELSE 0
              turn == owed.turn /\ ~record.old
              paid == owed.paid + taken
  <1>1. /\ owed \in Owed /\ owed.turn \in BOOLEAN
        /\ owed.paid \in Nat /\ owed.debts \in Nat
    BY DEF Inductive, TypeOK, Owed
  <1>2. taken \in {0, 1} /\ paid \in Nat /\ turn \in BOOLEAN /\ taken <= Outstanding(record)
    BY <1>1 DEF Outstanding
  <1>3. owed' = [owed EXCEPT !.turn = turn, !.paid = paid]
    BY DEF Boots, TakeRecord
  <1>4. owed' \in Owed /\ owed'.debts = owed.debts /\ owed'.paid = owed.paid + taken
    <2>. HIDE DEF paid, turn
    <2>1. owed' \in Owed /\ owed'.debts = owed.debts /\ owed'.paid = paid
      BY <1>1, <1>2, <1>3 DEF Owed
    <2>. QED BY <2>1 DEF paid
  <1>5. record' = NoRecord /\ record' \in Record /\ Outstanding(record') = 0
    BY DEF Boots, TakeRecord, Record, Outstanding
  <1>6. Accounted'
    <2>1. owed.paid + Outstanding(record) <= owed.debts /\ Outstanding(record) \in {0, 1}
      BY DEF Inductive, Accounted, Outstanding
    <2>. HIDE DEF taken
    <2>. QED
      BY <1>1, <1>2, <1>4, <1>5, <2>1 DEF Accounted
  <1>7. host' \in Host /\ host'.status = host.status /\ host'.load = "online" /\ host'.compacting = host.compacting
    BY DEF Boots, Inductive, TypeOK, Host, Loads
  <1>8. nudges' \in Nat
    BY <1>2 DEF Boots, TakeRecord, Inductive, TypeOK
  <1>. QED
    BY <1>4, <1>5, <1>6, <1>7, <1>8 DEF Boots, Inductive, TypeOK, WorkingIsTrue, GuardHolds, Loaded

LEMMA BootFailsKeeps == ASSUME Inductive, BootFails PROVE Inductive'
  <1>1. host' \in Host /\ host'.status = host.status /\ host'.load = "offline" /\ host'.compacting = host.compacting
    BY DEF BootFails, Inductive, TypeOK, Host, Loads
  <1>2. owed' \in Owed /\ owed'.debts = owed.debts /\ owed'.paid = owed.paid
    BY DEF BootFails, Inductive, TypeOK, Owed
  <1>. QED
    BY <1>1, <1>2 DEF BootFails, Inductive, TypeOK, Accounted, WorkingIsTrue, GuardHolds, Loaded

LEMMA SignedInKeeps == ASSUME Inductive, SignedIn PROVE Inductive'
  <1>1. host' \in Host /\ host'.status = host.status /\ host'.load = "online" /\ host'.compacting = host.compacting
    BY DEF SignedIn, Inductive, TypeOK, Host, Loads
  <1>. QED
    BY <1>1 DEF SignedIn, Inductive, TypeOK, Accounted, WorkingIsTrue, GuardHolds, Loaded

LEMMA NudgeKeeps == ASSUME Inductive, Nudge PROVE Inductive'
  <1>1. owed' \in Owed /\ owed'.debts = owed.debts /\ owed'.paid = owed.paid
    BY DEF Nudge, Inductive, TypeOK, Owed
  <1>2. nudges' \in Nat /\ UNCHANGED <<host, record, commands, broken, tokens>>
    BY DEF Nudge, Inductive, TypeOK
  <1>3. pi' \in Pi /\ WorkingIsTrue' /\ GuardHolds'
    <2>1. CASE Idle
      <3>1. pi' = [pi EXCEPT !.turn = TRUE, !.spoke = FALSE]
        BY <2>1 DEF Nudge
      <3>2. pi' \in Pi /\ pi'.compacting = pi.compacting
        BY <3>1 DEF Inductive, TypeOK, Pi
      <3>. QED
        BY <1>2, <2>1, <3>2 DEF Inductive, WorkingIsTrue, GuardHolds, Idle
    <2>2. CASE ~Idle
      BY <1>2, <2>2 DEF Nudge, Inductive, TypeOK, WorkingIsTrue, GuardHolds, Loaded
    <2>. QED BY <2>1, <2>2
  <1>. QED
    BY <1>1, <1>2, <1>3 DEF Inductive, TypeOK, Accounted

LEMMA RecordAgesKeeps == ASSUME Inductive, RecordAges PROVE Inductive'
  <1>1. record' \in Record
    BY DEF RecordAges, Inductive, TypeOK, Record
  <1>2. Outstanding(record') = Outstanding(record)
    <2>1. record'.old
      BY DEF RecordAges, Inductive, TypeOK, Record
    <2>. QED
      BY <2>1 DEF RecordAges, Outstanding, NoRecord
  <1>. QED
    BY <1>1, <1>2 DEF RecordAges, Inductive, TypeOK, Accounted, WorkingIsTrue, GuardHolds, Loaded

LEMMA RestartKeeps == ASSUME Inductive, Restart PROVE Inductive'
  <1>1. host' \in Host /\ host'.status = "idle"
    BY FreshIsHost DEF Restart, Loads
  <1>2. pi' \in Pi /\ ~pi'.turn
    BY DEF Restart, Pi
  <1>3. owed' \in Owed /\ owed'.debts = owed.debts /\ owed'.paid = owed.paid
    BY DEF Restart, Inductive, TypeOK, Owed
  <1>4. record' = NoRecord /\ record' \in Record /\ commands' \in Nat /\ nudges' \in Nat
    BY DEF Restart, Record
  <1>5. Accounted'
    BY <1>3, <1>4, RecordKeptOrCleared DEF Inductive, TypeOK, Owed
  <1>. QED
    BY <1>1, <1>2, <1>3, <1>4, <1>5 DEF Restart, Inductive, TypeOK, WorkingIsTrue, GuardHolds

LEMMA EditKeeps == ASSUME Inductive, Edit PROVE Inductive'
  BY DEF Edit, Inductive, TypeOK, Accounted, WorkingIsTrue, GuardHolds, Loaded

-----------------------------------------------------------------------------
(* The specification keeps its invariant.                                  *)

LEMMA InitIsInductive == Init => Inductive
  <1>. SUFFICES ASSUME Init PROVE Inductive
    OBVIOUS
  <1>1. host \in Host /\ host.status = "idle"
    BY FreshIsHost DEF Init, Loads
  <1>2. pi \in Pi /\ ~pi.turn
    BY DEF Init, Pi
  <1>3. record \in Record /\ Outstanding(record) = 0
    BY DEF Init, Record, Outstanding
  <1>4. owed \in Owed /\ owed.paid = 0 /\ owed.debts = 0
    BY DEF Init, Owed
  <1>. QED
    <2>1. TypeOK
      <3>1. commands \in Nat /\ nudges \in Nat /\ tokens \in Sizes
        BY DEF Init, Sizes
      <3>2. broken \in BOOLEAN
        BY DEF Init
      <3>. QED
        BY <1>1, <1>2, <1>3, <1>4, <3>1, <3>2 DEF TypeOK
    <2>2. Accounted
      BY <1>3, <1>4 DEF Accounted
    <2>. QED
      BY <1>1, <1>2, <2>1, <2>2 DEF Inductive, WorkingIsTrue, GuardHolds

LEMMA StepIsInductive == Inductive /\ [Next]_vars => Inductive'
  <1>. SUFFICES ASSUME Inductive, [Next]_vars PROVE Inductive'
    OBVIOUS
  <1>1. CASE UNCHANGED vars
    BY <1>1 DEF vars, Inductive, TypeOK, Accounted, WorkingIsTrue, GuardHolds, Loaded
  <1>2. CASE Next
    BY <1>2, TurnStartsKeeps, MessageStartKeeps, AgentEndKeeps, AgentSettledKeeps, CompactAskedKeeps,
       CompactionEndsKeeps, AskKeeps, TypedKeeps, RunCommandKeeps, PiReloadsKeeps, BootsKeeps,
       BootFailsKeeps, SignedInKeeps, NudgeKeeps, RecordAgesKeeps, RestartKeeps, EditKeeps, Zenon DEF Next
  <1>. QED
    BY <1>1, <1>2

LEMMA InductiveIsEnough == Inductive => RecordIsSound
  BY DEF Inductive, RecordIsSound, TypeOK, Accounted, NudgedOnce, Outstanding, Owed

\* Whatever turns, compactions, requests, reloads, failed loads and restarts come in whatever order,
\* the host's state keeps its types and a promise of a turn is paid at most once: a record never
\* starts a second turn (triggerHostReloadResumeIfPending).
THEOREM RecordIsPaidOnce == Spec => []RecordIsSound
  <1>1. Init => Inductive
    BY InitIsInductive
  <1>2. Inductive /\ [Next]_vars => Inductive'
    BY StepIsInductive
  <1>3. Inductive => RecordIsSound
    BY InductiveIsEnough
  <1>. QED
    BY <1>1, <1>2, <1>3, PTL DEF Spec

-----------------------------------------------------------------------------
(* The session feed.                                                       *)

-----------------------------------------------------------------------------
(* Sequences of frames.                                                    *)

\* A set that holds 0 and, with a number below n, the next one, holds n.
LEMMA UpTo ==
    ASSUME NEW n \in Nat, NEW T, 0 \in T, \A i \in 0 .. n - 1 : i \in T => i + 1 \in T
    PROVE  n \in T
<1> DEFINE R == {p \in Nat \X Nat : p[1] < p[2]}
           M == {i \in 0 .. n : i \notin T}
<1>1. IsWellFoundedOn(R, Nat)
    BY NatLessThanWellFounded DEF OpToRel
<1>2. M \subseteq Nat
    OBVIOUS
<1>3. SUFFICES ASSUME n \notin T PROVE FALSE
    OBVIOUS
<1>10. M # {}
    BY <1>3
<1> HIDE DEF R, M
<1>4. PICK x \in M : \A y \in M : ~(<<y, x>> \in R)
    BY <1>1, <1>2, <1>10, WFMin, Zenon
<1>5. x \in 1 .. n /\ x \notin T
    BY <1>4 DEF M
<1>6. x - 1 \in Nat /\ x \in Nat /\ x - 1 < x
    BY <1>5
<1>7. x - 1 \notin M
    BY <1>4, <1>6 DEF R
<1>8. x - 1 \in T /\ x - 1 \in 0 .. n - 1
    BY <1>5, <1>7 DEF M
<1>9. (x - 1) + 1 \in T
    BY <1>8
<1> QED BY <1>5, <1>6, <1>9

\* The frames of one kind.
StateFrames    == [kind : {"state"}, working : SUBSET Sessions]
HistoryFrames  == [kind : {"history"}, sid : Sessions, upto : 0 .. MaxPieces]
ToolFrames     == [kind : {"tool"}, sid : Sessions]
StreamFrames   == [kind : {"stream"}, sid : Sessions, segs : Pieces, text : Pieces]
DiscreteFrames == StateFrames \cup HistoryFrames \cup ToolFrames

LEMMA FrameKinds ==
    /\ Frame = DiscreteFrames \cup StreamFrames
    /\ \A f \in DiscreteFrames : ~IsStream(f)
    /\ \A f \in StreamFrames : IsStream(f)
BY DEF Frame, DiscreteFrames, StateFrames, HistoryFrames, ToolFrames, StreamFrames, IsStream

\* What Discrete computes, from the front of the sequence on.
Keeps(r, fs, n) ==
    /\ r \in [0 .. n -> Seq(Frame)]
    /\ r[0] = <<>>
    /\ \A i \in 1 .. n : r[i] = IF IsStream(fs[i]) THEN r[i - 1] ELSE Append(r[i - 1], fs[i])

LEMMA DiscreteKeeps ==
    ASSUME NEW fs \in Seq(Frame)
    PROVE  \E r : Keeps(r, fs, Len(fs)) /\ Discrete(fs) = r[Len(fs)]
<1>1. Len(fs) \in Nat /\ \A i \in 1 .. Len(fs) : fs[i] \in Frame
    BY LenProperties
<1> DEFINE T == {n \in 0 .. Len(fs) : \E r : Keeps(r, fs, n)}
<1>2. 0 \in T
  <2>1. Keeps([i \in 0 .. 0 |-> <<>>], fs, 0)
      BY EmptySeq DEF Keeps
  <2> QED BY <1>1, <2>1
<1>3. ASSUME NEW n \in 0 .. Len(fs) - 1, n \in T PROVE n + 1 \in T
  <2>1. PICK r : Keeps(r, fs, n)
      BY <1>3
  <2> DEFINE x == n + 1
             last == IF IsStream(fs[x]) THEN r[n] ELSE Append(r[n], fs[x])
             q == [i \in 0 .. x |-> IF i = x THEN last ELSE r[i]]
  <2>2. n \in Nat /\ x \in 1 .. Len(fs) /\ fs[x] \in Frame /\ r[n] \in Seq(Frame)
      BY <1>1, <2>1 DEF Keeps
  <2>3. last \in Seq(Frame)
      BY <2>2
  <2>4. q \in [0 .. x -> Seq(Frame)] /\ q[0] = <<>> /\ q[x] = last /\ q[n] = r[n]
    <3>1. \A i \in 0 .. x : i # x => i \in 0 .. n
        BY <2>2
    <3> QED BY <3>1, <2>1, <2>2, <2>3 DEF Keeps
  <2>5. ASSUME NEW i \in 1 .. x PROVE q[i] = IF IsStream(fs[i]) THEN q[i - 1] ELSE Append(q[i - 1], fs[i])
    <3>1. CASE i = x
        BY <3>1, <2>2, <2>4
    <3>2. CASE i # x
      <4>1. i \in 1 .. n /\ i - 1 \in 0 .. x /\ i - 1 # x /\ i \in 0 .. x
          BY <2>2, <3>2
      <4>2. q[i] = r[i] /\ q[i - 1] = r[i - 1]
          BY <4>1, <3>2
      <4> QED BY <4>1, <4>2, <2>1 DEF Keeps
    <3> QED BY <3>1, <3>2
  <2>6. Keeps(q, fs, x)
      BY <2>4, <2>5 DEF Keeps
  <2> QED BY <2>2, <2>6
<1> HIDE DEF T
<1>4. Len(fs) \in T
  <2>1. Len(fs) \in Nat /\ \A n \in 0 .. Len(fs) - 1 : n \in T => n + 1 \in T
      BY <1>1, <1>3
  <2> QED BY <2>1, <1>2, UpTo
<1>5. PICK r : Keeps(r, fs, Len(fs))
    BY <1>4 DEF T
<1> DEFINE Def(g) == [n \in 0 .. Len(fs) |-> IF n = 0 THEN <<>>
                         ELSE IF IsStream(fs[n]) THEN g[n - 1] ELSE Append(g[n - 1], fs[n])]
           kept == CHOOSE g : g = Def(g)
<1>6. r = Def(r)
  <2>1. \A i \in 0 .. Len(fs) : i = 0 \/ i \in 1 .. Len(fs)
      BY <1>1
  <2>2. \A i \in 0 .. Len(fs) : r[i] = Def(r)[i]
      BY <2>1, <1>5 DEF Keeps
  <2>3. r = [i \in 0 .. Len(fs) |-> r[i]]
      BY <1>5 DEF Keeps
  <2> QED BY <2>2, <2>3
<1>7. kept = Def(kept)
    BY <1>6
<1>8. Discrete(fs) = kept[Len(fs)]
    BY DEF Discrete
<1> HIDE DEF kept
<1>9. /\ kept[0] = <<>>
      /\ \A i \in 1 .. Len(fs) : kept[i] = IF IsStream(fs[i]) THEN kept[i - 1] ELSE Append(kept[i - 1], fs[i])
  <2>1. ASSUME NEW i \in 0 .. Len(fs)
        PROVE  kept[i] = IF i = 0 THEN <<>>
                         ELSE IF IsStream(fs[i]) THEN kept[i - 1] ELSE Append(kept[i - 1], fs[i])
    <3>1. kept[i] = Def(kept)[i]
        BY <1>7
    <3> QED BY <3>1
  <2>2. 0 \in 0 .. Len(fs) /\ \A i \in 1 .. Len(fs) : i \in 0 .. Len(fs) /\ i # 0
      BY <1>1
  <2> QED BY <2>1, <2>2
<1> DEFINE E == {i \in 0 .. Len(fs) : kept[i] = r[i]}
<1>10. 0 \in E
    BY <1>1, <1>5, <1>9 DEF Keeps
<1>11. ASSUME NEW i \in 0 .. Len(fs) - 1, i \in E PROVE i + 1 \in E
  <2>1. i + 1 \in 1 .. Len(fs) /\ (i + 1) - 1 = i /\ kept[i] = r[i] /\ i + 1 \in 0 .. Len(fs)
      BY <1>1, <1>11
  <2> QED BY <2>1, <1>5, <1>9 DEF Keeps
<1> HIDE DEF E
<1>12. Len(fs) \in E
  <2>1. Len(fs) \in Nat /\ \A n \in 0 .. Len(fs) - 1 : n \in E => n + 1 \in E
      BY <1>1, <1>11
  <2> QED BY <2>1, <1>10, UpTo
<1> QED BY <1>5, <1>8, <1>12 DEF E

\* Two sequences with the same front keep the same of it.
LEMMA KeepsTheSame ==
    ASSUME NEW n \in Nat, NEW fs, NEW gs, NEW r, NEW q, Keeps(r, fs, n), NEW m \in Nat, n <= m, Keeps(q, gs, m),
           \A i \in 1 .. n : fs[i] = gs[i]
    PROVE  r[n] = q[n]
<1> DEFINE T == {i \in 0 .. n : r[i] = q[i]}
<1>1. 0 \in T
    BY DEF Keeps
<1>2. ASSUME NEW i \in 0 .. n - 1, i \in T PROVE i + 1 \in T
  <2>1. i + 1 \in 1 .. n /\ (i + 1) - 1 = i /\ r[i] = q[i] /\ i + 1 \in 0 .. n /\ i + 1 \in 1 .. m
      BY <1>2
  <2>2. fs[i + 1] = gs[i + 1]
      BY <2>1
  <2>3. r[i + 1] = IF IsStream(fs[i + 1]) THEN r[i] ELSE Append(r[i], fs[i + 1])
      BY <2>1 DEF Keeps
  <2>4. q[i + 1] = IF IsStream(gs[i + 1]) THEN q[i] ELSE Append(q[i], gs[i + 1])
      BY <2>1 DEF Keeps
  <2> QED BY <2>1, <2>2, <2>3, <2>4
<1> HIDE DEF T
<1>3. n \in T
    BY <1>1, <1>2, UpTo
<1> QED BY <1>3 DEF T

LEMMA DiscreteOfNothing == Discrete(<<>>) = <<>>
<1>1. <<>> \in Seq(Frame) /\ Len(<<>>) = 0
    BY EmptySeq
<1>2. PICK r : Keeps(r, <<>>, 0) /\ Discrete(<<>>) = r[0]
    BY <1>1, DiscreteKeeps
<1> QED BY <1>2 DEF Keeps

LEMMA DiscreteOfAppend ==
    ASSUME NEW fs \in Seq(Frame), NEW f \in Frame
    PROVE  /\ Discrete(fs) \in Seq(Frame)
           /\ Discrete(Append(fs, f)) = IF IsStream(f) THEN Discrete(fs) ELSE Append(Discrete(fs), f)
<1> DEFINE gs == Append(fs, f)
<1>1. /\ gs \in Seq(Frame) /\ Len(gs) = Len(fs) + 1 /\ Len(fs) \in Nat
      /\ gs[Len(fs) + 1] = f /\ \A i \in 1 .. Len(fs) : fs[i] = gs[i]
    BY AppendProperties, LenProperties
<1>2. PICK r : Keeps(r, fs, Len(fs)) /\ Discrete(fs) = r[Len(fs)]
    BY DiscreteKeeps
<1> HIDE DEF gs
<1>3. PICK q : Keeps(q, gs, Len(gs)) /\ Discrete(gs) = q[Len(gs)]
    BY <1>1, DiscreteKeeps
<1>4. r[Len(fs)] = q[Len(fs)]
    BY <1>1, <1>2, <1>3, KeepsTheSame
<1>5. Len(gs) \in 1 .. Len(gs) /\ Len(gs) - 1 = Len(fs) /\ Len(fs) \in 0 .. Len(fs)
    BY <1>1
<1>6. Discrete(fs) \in Seq(Frame)
    BY <1>2, <1>5 DEF Keeps
<1>7. q[Len(gs)] = IF IsStream(f) THEN q[Len(fs)] ELSE Append(q[Len(fs)], f)
    BY <1>1, <1>3, <1>5 DEF Keeps
<1> QED BY <1>2, <1>3, <1>4, <1>6, <1>7 DEF gs

\* A sequence joined to longer and longer fronts of another.
LEMMA JoinedByOne ==
    ASSUME NEW S, NEW s \in Seq(S), NEW t \in Seq(S)
    PROVE  /\ s \o SubSeq(t, 1, 0) = s /\ SubSeq(t, 1, 0) = <<>>
           /\ s \o SubSeq(t, 1, Len(t)) = s \o t /\ SubSeq(t, 1, Len(t)) = t
           /\ \A n \in 0 .. Len(t) - 1 :
                 /\ SubSeq(t, 1, n) \in Seq(S) /\ s \o SubSeq(t, 1, n) \in Seq(S)
                 /\ t[n + 1] \in S
                 /\ SubSeq(t, 1, n + 1) = Append(SubSeq(t, 1, n), t[n + 1])
                 /\ s \o SubSeq(t, 1, n + 1) = Append(s \o SubSeq(t, 1, n), t[n + 1])
<1>1. Len(t) \in Nat /\ \A i \in 1 .. Len(t) : t[i] \in S
    BY LenProperties
<1>2. SubSeq(t, 1, 0) = <<>> /\ s \o <<>> = s /\ SubSeq(t, 1, Len(t)) = t
    BY SubSeqEmpty, ConcatEmptySeq, SubSeqFull
<1>3. ASSUME NEW n \in 0 .. Len(t) - 1
      PROVE  /\ SubSeq(t, 1, n) \in Seq(S) /\ s \o SubSeq(t, 1, n) \in Seq(S)
             /\ t[n + 1] \in S
             /\ SubSeq(t, 1, n + 1) = Append(SubSeq(t, 1, n), t[n + 1])
             /\ s \o SubSeq(t, 1, n + 1) = Append(s \o SubSeq(t, 1, n), t[n + 1])
  <2> DEFINE u == SubSeq(t, 1, n)
             x == t[n + 1]
  <2>1. n + 1 \in 1 .. Len(t) /\ n \in Int /\ 1 \in Int /\ (n + 1) - 1 = n /\ x \in S /\ 1 \in 1 .. Len(t) /\ n + 1 \in 1 .. Len(t)
      BY <1>1
  <2>2. \A i \in 1 .. n : t[i] \in S
      BY <1>1, <2>1
  <2>3. u \in Seq(S)
      BY <2>1, <2>2, SubSeqProperties
  <2>4. SubSeq(t, 1, n + 1) = u \o <<x>>
      BY <2>1, SubSeqRecursiveSecond
  <2>5. Append(u, x) = u \o <<x>> /\ <<x>> \in Seq(S)
      BY <2>1, <2>3, AppendIsConcat
  <2> HIDE DEF u, x
  <2>6. s \o u \in Seq(S)
      BY <2>3, ConcatProperties
  <2>7. s \o (u \o <<x>>) = (s \o u) \o <<x>>
      BY <2>3, <2>5, ConcatAssociative
  <2>8. Append(s \o u, x) = (s \o u) \o <<x>>
      BY <2>1, <2>6, AppendIsConcat
  <2> QED BY <2>1, <2>3, <2>4, <2>5, <2>6, <2>7, <2>8 DEF u, x
<1> QED BY <1>2, <1>3

LEMMA JoinsAssociate ==
    \A s, t, u \in Seq(Frame) : (s \o t) \o u = s \o (t \o u)
BY ConcatAssociative

LEMMA DiscreteOfConcat ==
    ASSUME NEW s \in Seq(Frame), NEW t \in Seq(Frame)
    PROVE  /\ Discrete(s) \in Seq(Frame) /\ Discrete(t) \in Seq(Frame)
           /\ Discrete(s \o t) = Discrete(s) \o Discrete(t)
<1> DEFINE u(n) == SubSeq(t, 1, n)
           T == {n \in 0 .. Len(t) : Discrete(s \o u(n)) = Discrete(s) \o Discrete(u(n))}
<1>1. Len(t) \in Nat
    BY LenProperties
<1>2. \A q \in Seq(Frame) : Discrete(q) \in Seq(Frame)
  <2>1. \E f : f \in Frame
    <3>1. StateFrame([x \in Sessions |-> IdleSession]) \in Frame
        BY DEF StateFrame, IdleSession, Frame
    <3> QED BY <3>1
  <2> QED BY <2>1, DiscreteOfAppend
<1>3. 0 \in T
  <2>1. s \o u(0) = s /\ u(0) = <<>> /\ 0 \in 0 .. Len(t)
      BY <1>1, JoinedByOne
  <2>2. Discrete(s) \o <<>> = Discrete(s)
      BY <1>2, ConcatEmptySeq
  <2> HIDE DEF u
  <2> QED BY <2>1, <2>2, DiscreteOfNothing
<1>4. ASSUME NEW n \in 0 .. Len(t) - 1, n \in T PROVE n + 1 \in T
  <2> DEFINE f == t[n + 1]
             v == u(n)
  <2>1. /\ v \in Seq(Frame) /\ s \o v \in Seq(Frame) /\ f \in Frame
        /\ u(n + 1) = Append(v, f) /\ s \o u(n + 1) = Append(s \o v, f)
      BY JoinedByOne
  <2>2. Discrete(s \o v) = Discrete(s) \o Discrete(v) /\ n + 1 \in 0 .. Len(t)
      BY <1>4, <1>1
  <2> HIDE DEF f, u, v
  <2>3. Discrete(Append(v, f)) = IF IsStream(f) THEN Discrete(v) ELSE Append(Discrete(v), f)
      BY <2>1, DiscreteOfAppend
  <2>4. Discrete(Append(s \o v, f)) = IF IsStream(f) THEN Discrete(s \o v) ELSE Append(Discrete(s \o v), f)
      BY <2>1, DiscreteOfAppend
  <2>5. Discrete(s) \in Seq(Frame) /\ Discrete(v) \in Seq(Frame)
      BY <1>2, <2>1
  <2>6. Append(Discrete(s) \o Discrete(v), f) = Discrete(s) \o Append(Discrete(v), f)
    <3>1. Discrete(s) \o Discrete(v) \in Seq(Frame) /\ <<f>> \in Seq(Frame)
        BY <2>1, <2>5, ConcatProperties
    <3>2. /\ Append(Discrete(s) \o Discrete(v), f) = (Discrete(s) \o Discrete(v)) \o <<f>>
          /\ Append(Discrete(v), f) = Discrete(v) \o <<f>>
        BY <2>1, <2>5, <3>1, AppendIsConcat
    <3>3. (Discrete(s) \o Discrete(v)) \o <<f>> = Discrete(s) \o (Discrete(v) \o <<f>>)
        BY <2>5, <3>1, JoinsAssociate, Zenon
    <3> QED BY <3>2, <3>3, Zenon
  <2>7. Discrete(s \o u(n + 1)) = Discrete(s) \o Discrete(u(n + 1))
      BY <2>1, <2>2, <2>3, <2>4, <2>6
  <2> QED BY <2>2, <2>7
<1>5. Len(t) \in T
  <2> HIDE DEF T
  <2>1. Len(t) \in Nat /\ \A n \in 0 .. Len(t) - 1 : n \in T => n + 1 \in T
      BY <1>1, <1>4
  <2> QED BY <2>1, <1>3, UpTo
<1>6. u(Len(t)) = t
    BY JoinedByOne
<1> QED BY <1>2, <1>5, <1>6

\* Discrete frames are all kept, and stream frames all left out.
LEMMA DiscreteOfOneKind ==
    /\ \A t \in Seq(DiscreteFrames) : Discrete(t) = t
    /\ \A t \in Seq(StreamFrames) : Discrete(t) = <<>>
<1>1. ASSUME NEW t \in Seq(DiscreteFrames) PROVE Discrete(t) = t
  <2> DEFINE u(n) == SubSeq(t, 1, n)
             T == {n \in 0 .. Len(t) : Discrete(u(n)) = u(n)}
  <2>1. Len(t) \in Nat /\ t \in Seq(Frame)
      BY LenProperties, SeqMonotonic, FrameKinds
  <2>2. 0 \in T
    <3>1. u(0) = <<>> /\ 0 \in 0 .. Len(t)
        BY <2>1, JoinedByOne
    <3> HIDE DEF u
    <3> QED BY <3>1, DiscreteOfNothing
  <2>3. ASSUME NEW n \in 0 .. Len(t) - 1, n \in T PROVE n + 1 \in T
    <3>1. u(n) \in Seq(Frame) /\ t[n + 1] \in Frame /\ u(n + 1) = Append(u(n), t[n + 1])
        BY <2>1, JoinedByOne
    <3>2. ~IsStream(t[n + 1])
      <4>1. n + 1 \in 1 .. Len(t)
          BY <2>1
      <4>2. t[n + 1] \in DiscreteFrames
          BY <4>1, ElementOfSeq
      <4> QED BY <4>2, FrameKinds
    <3>3. Discrete(u(n)) = u(n) /\ n + 1 \in 0 .. Len(t)
        BY <2>1, <2>3
    <3> HIDE DEF u
    <3>4. Discrete(Append(u(n), t[n + 1])) = Append(u(n), t[n + 1])
        BY <3>1, <3>2, <3>3, DiscreteOfAppend
    <3> QED BY <3>1, <3>3, <3>4
  <2>4. Len(t) \in T
    <3> HIDE DEF T
    <3>1. Len(t) \in Nat /\ \A n \in 0 .. Len(t) - 1 : n \in T => n + 1 \in T
        BY <2>1, <2>3
    <3> QED BY <3>1, <2>2, UpTo
  <2>5. u(Len(t)) = t
      BY JoinedByOne
  <2> QED BY <2>4, <2>5
<1>2. ASSUME NEW t \in Seq(StreamFrames) PROVE Discrete(t) = <<>>
  <2> DEFINE u(n) == SubSeq(t, 1, n)
             T == {n \in 0 .. Len(t) : Discrete(u(n)) = <<>>}
  <2>1. Len(t) \in Nat /\ t \in Seq(Frame)
      BY LenProperties, SeqMonotonic, FrameKinds
  <2>2. 0 \in T
    <3>1. u(0) = <<>> /\ 0 \in 0 .. Len(t)
        BY <2>1, JoinedByOne
    <3> HIDE DEF u
    <3> QED BY <3>1, DiscreteOfNothing
  <2>3. ASSUME NEW n \in 0 .. Len(t) - 1, n \in T PROVE n + 1 \in T
    <3>1. u(n) \in Seq(Frame) /\ t[n + 1] \in Frame /\ u(n + 1) = Append(u(n), t[n + 1])
        BY <2>1, JoinedByOne
    <3>2. IsStream(t[n + 1])
      <4>1. n + 1 \in 1 .. Len(t)
          BY <2>1
      <4>2. t[n + 1] \in StreamFrames
          BY <4>1, ElementOfSeq
      <4> QED BY <4>2, FrameKinds
    <3>3. Discrete(u(n)) = <<>> /\ n + 1 \in 0 .. Len(t)
        BY <2>1, <2>3
    <3> HIDE DEF u
    <3>4. Discrete(Append(u(n), t[n + 1])) = <<>>
        BY <3>1, <3>2, <3>3, DiscreteOfAppend
    <3> QED BY <3>1, <3>3, <3>4
  <2>4. Len(t) \in T
    <3> HIDE DEF T
    <3>1. Len(t) \in Nat /\ \A n \in 0 .. Len(t) - 1 : n \in T => n + 1 \in T
        BY <2>1, <2>3
    <3> QED BY <3>1, <2>2, UpTo
  <2>5. u(Len(t)) = t
      BY JoinedByOne
  <2> QED BY <2>4, <2>5
<1> QED BY <1>1, <1>2

\* A frame that arrives takes its place in front with it.
LEMMA DiscreteOfTail ==
    ASSUME NEW s \in Seq(Frame), s # <<>>
    PROVE  IF IsStream(Head(s)) THEN Discrete(Tail(s)) = Discrete(s)
           ELSE Discrete(s) # <<>> /\ Head(Discrete(s)) = Head(s) /\ Discrete(Tail(s)) = Tail(Discrete(s))
<1> DEFINE h == Head(s)
           t == Tail(s)
<1>1. h \in Frame /\ t \in Seq(Frame) /\ s = <<h>> \o t /\ <<h>> \in Seq(Frame) /\ <<h>> = Append(<<>>, h)
  <2>1. h \in Frame /\ t \in Seq(Frame) /\ Len(s) \in Nat /\ Len(t) = Len(s) - 1 /\ \A i \in 1 .. Len(t) : t[i] = s[i + 1]
      BY HeadTailProperties, LenProperties
  <2>2. h = s[1] /\ <<h>> \in Seq(Frame) /\ Len(<<h>>) = 1 /\ <<h>>[1] = h /\ <<h>> = Append(<<>>, h)
      BY <2>1
  <2> HIDE DEF h, t
  <2>3. Len(<<h>> \o t) = Len(s) /\ <<h>> \o t \in Seq(Frame)
        /\ \A i \in 1 .. Len(s) : (<<h>> \o t)[i] = IF i <= 1 THEN <<h>>[i] ELSE t[i - 1]
      BY <2>1, <2>2, ConcatProperties
  <2>4. \A i \in 1 .. Len(s) : s[i] = (<<h>> \o t)[i]
    <3> SUFFICES ASSUME NEW i \in 1 .. Len(s) PROVE s[i] = (<<h>> \o t)[i]
        OBVIOUS
    <3>1. CASE i = 1
        BY <3>1, <2>2, <2>3
    <3>2. CASE i # 1
      <4>1. i - 1 \in 1 .. Len(t) /\ (i - 1) + 1 = i /\ ~(i <= 1)
          BY <2>1, <3>2
      <4> QED BY <4>1, <2>1, <2>3
    <3> QED BY <3>1, <3>2
  <2>5. s = <<h>> \o t
      BY <2>3, <2>4, SeqEqual
  <2> QED BY <2>1, <2>2, <2>5
<1> HIDE DEF h, t
<1>2. Discrete(<<h>>) = IF IsStream(h) THEN <<>> ELSE <<h>>
    BY <1>1, DiscreteOfAppend, DiscreteOfNothing, EmptySeq
<1>3. Discrete(s) = Discrete(<<h>>) \o Discrete(t) /\ Discrete(t) \in Seq(Frame)
    BY <1>1, DiscreteOfConcat
<1>4. CASE IsStream(h)
  <2>1. <<>> \o Discrete(t) = Discrete(t)
      BY <1>3, ConcatEmptySeq
  <2> QED BY <1>2, <1>3, <1>4, <2>1 DEF h, t
<1>5. CASE ~IsStream(h)
  <2> DEFINE d == Discrete(t)
  <2>1. d \in Seq(Frame) /\ Discrete(s) = <<h>> \o d
      BY <1>2, <1>3, <1>5
  <2> HIDE DEF d
  <2>2. (<<h>> \o d) # <<>> /\ Head(<<h>> \o d) = h /\ Tail(<<h>> \o d) = d
      BY <1>1, <2>1
  <2> QED BY <2>1, <2>2, <1>5 DEF d, h, t
<1> QED BY <1>4, <1>5

-----------------------------------------------------------------------------
(* The schedule: what a connection is after each call.                     *)

Conns == [up : BOOLEAN, urgent : Seq(DiscreteFrames), streams : Seq(StreamFrames),
          timer : BOOLEAN, stall : {"none", "held", "overdue"},
          wire : Seq(Frame), dropped : SUBSET Sessions]

\* The socket's buffer is never over its size, a session has one stream frame
\* in the box, and the box of a closed connection is empty.
GoodConn(c) ==
    /\ c \in Conns
    /\ Len(c.wire) <= Room
    /\ \A i, j \in DOMAIN c.streams : c.streams[i].sid = c.streams[j].sid => i = j
    /\ c.up \/ (c.urgent = <<>> /\ c.streams = <<>>)

\* The frames that will arrive if nothing breaks and no stream frame is written.
Coming(c) == c.wire \o c.urgent

\* The two ways a flush leaves a connection that it does not close: held, with
\* the same frames to come, or written out, with the first m stream frames.
Holds(c, d) ==
    d.up /\ Coming(d) = Coming(c) /\ d.streams = c.streams /\ d.dropped = c.dropped

Writes(c, d, m) ==
    /\ d.up /\ Coming(d) = Coming(c) \o First(c.streams, m)
    /\ d.streams = After(c.streams, m + 1)
    /\ d.dropped = (c.dropped \ SidsOf(First(c.streams, m)))
                       \cup {c.streams[i].sid : i \in {m + 1} \cap DOMAIN c.streams}

\* What a sequence is made of, cut at a place.
LEMMA CutInTwo ==
    ASSUME NEW S, NEW s \in Seq(S), NEW n \in 0 .. Len(s)
    PROVE  /\ First(s, n) \in Seq(S) /\ After(s, n) \in Seq(S)
           /\ Len(First(s, n)) = n /\ Len(After(s, n)) = Len(s) - n
           /\ \A i \in 1 .. n : First(s, n)[i] = s[i]
           /\ \A i \in 1 .. Len(s) - n : After(s, n)[i] = s[n + i]
           /\ First(s, n) \o After(s, n) = s
<1>1. Len(s) \in Nat /\ n \in Nat /\ n <= Len(s) /\ \A i \in 1 .. Len(s) : s[i] \in S
    BY LenProperties
<1>2. \A i \in 1 .. n : s[i] \in S
    BY <1>1
<1>3. /\ First(s, n) \in Seq(S) /\ Len(First(s, n)) = IF 1 <= n THEN n - 1 + 1 ELSE 0
      /\ \A i \in 1 .. n - 1 + 1 : First(s, n)[i] = s[1 + i - 1]
    BY <1>1, <1>2, SubSeqProperties DEF First
<1>4. \A i \in n + 1 .. Len(s) : s[i] \in S
    BY <1>1
<1>5. /\ After(s, n) \in Seq(S) /\ Len(After(s, n)) = IF n + 1 <= Len(s) THEN Len(s) - (n + 1) + 1 ELSE 0
      /\ \A i \in 1 .. Len(s) - (n + 1) + 1 : After(s, n)[i] = s[(n + 1) + i - 1]
    BY <1>1, <1>4, SubSeqProperties DEF After
<1>6. Len(First(s, n)) = n /\ Len(After(s, n)) = Len(s) - n
    BY <1>1, <1>3, <1>5
<1>7. \A i \in 1 .. n : First(s, n)[i] = s[i]
    BY <1>1, <1>3
<1>8. \A i \in 1 .. Len(s) - n : After(s, n)[i] = s[n + i]
    BY <1>1, <1>5
<1>9. First(s, n) \o After(s, n) = s
  <2> DEFINE a == First(s, n)
             b == After(s, n)
  <2>1. /\ a \in Seq(S) /\ b \in Seq(S) /\ Len(a) = n /\ Len(b) = Len(s) - n
        /\ (\A i \in 1 .. n : a[i] = s[i]) /\ \A i \in 1 .. Len(s) - n : b[i] = s[n + i]
      BY <1>3, <1>5, <1>6, <1>7, <1>8
  <2> HIDE DEF a, b
  <2>2. /\ a \o b \in Seq(S) /\ Len(a \o b) = Len(a) + Len(b)
        /\ \A i \in 1 .. Len(a) + Len(b) : (a \o b)[i] = IF i <= Len(a) THEN a[i] ELSE b[i - Len(a)]
      BY <2>1, ConcatProperties
  <2>3. Len(a \o b) = Len(s)
      BY <1>1, <2>1, <2>2
  <2>4. \A i \in 1 .. Len(s) : (a \o b)[i] = s[i]
    <3> SUFFICES ASSUME NEW i \in 1 .. Len(s) PROVE (a \o b)[i] = s[i]
        OBVIOUS
    <3>1. CASE i <= n
        BY <3>1, <1>1, <2>1, <2>2
    <3>2. CASE ~(i <= n)
      <4>1. i - n \in 1 .. Len(s) - n /\ n + (i - n) = i /\ i \in 1 .. Len(a) + Len(b)
          BY <1>1, <2>1, <3>2
      <4> QED BY <4>1, <3>2, <2>1, <2>2
    <3> QED BY <3>1, <3>2
  <2> QED BY <2>1, <2>2, <2>3, <2>4, SeqEqual DEF a, b
<1> QED BY <1>3, <1>5, <1>6, <1>7, <1>8, <1>9

LEMMA CutInTwoParts ==
    ASSUME NEW S
    PROVE  \A s \in Seq(S) : \A n \in 0 .. Len(s) :
              /\ First(s, n) \in Seq(S) /\ After(s, n) \in Seq(S)
              /\ Len(First(s, n)) = n /\ Len(After(s, n)) = Len(s) - n
              /\ \A i \in 1 .. n : First(s, n)[i] = s[i]
              /\ \A i \in 1 .. Len(s) - n : After(s, n)[i] = s[n + i]
              /\ First(s, n) \o After(s, n) = s
BY CutInTwo

\* The two queues of a connection, cut in two.
LEMMA StreamsCut ==
    \A s \in Seq(StreamFrames) : \A n \in 0 .. Len(s) :
        /\ First(s, n) \in Seq(StreamFrames) /\ After(s, n) \in Seq(StreamFrames)
        /\ Len(First(s, n)) = n /\ Len(After(s, n)) = Len(s) - n
        /\ \A i \in 1 .. Len(s) - n : After(s, n)[i] = s[n + i]
<1> DEFINE S == StreamFrames
<1> HIDE DEF S
<1>1. \A s \in Seq(S) : \A n \in 0 .. Len(s) :
        /\ First(s, n) \in Seq(S) /\ After(s, n) \in Seq(S)
        /\ Len(First(s, n)) = n /\ Len(After(s, n)) = Len(s) - n
        /\ \A i \in 1 .. Len(s) - n : After(s, n)[i] = s[n + i]
    BY CutInTwo
<1> QED BY <1>1 DEF S

LEMMA UrgentCut ==
    \A s \in Seq(DiscreteFrames) : \A n \in 0 .. Len(s) :
        /\ First(s, n) \in Seq(DiscreteFrames) /\ After(s, n) \in Seq(DiscreteFrames)
        /\ Len(First(s, n)) = n /\ Len(After(s, n)) = Len(s) - n
        /\ \A i \in 1 .. Len(s) - n : After(s, n)[i] = s[n + i]
<1> DEFINE S == DiscreteFrames
<1> HIDE DEF S
<1>1. \A s \in Seq(S) : \A n \in 0 .. Len(s) :
        /\ First(s, n) \in Seq(S) /\ After(s, n) \in Seq(S)
        /\ Len(First(s, n)) = n /\ Len(After(s, n)) = Len(s) - n
        /\ \A i \in 1 .. Len(s) - n : After(s, n)[i] = s[n + i]
    BY CutInTwo
<1> QED BY <1>1 DEF S

LEMMA FramesCut ==
    \A s \in Seq(Frame) : \A n \in 0 .. Len(s) :
        /\ First(s, n) \in Seq(Frame) /\ After(s, n) \in Seq(Frame)
        /\ Len(First(s, n)) = n /\ Len(After(s, n)) = Len(s) - n
        /\ First(s, n) \o After(s, n) = s
<1> DEFINE S == Frame
<1> HIDE DEF S
<1>1. \A s \in Seq(S) : \A n \in 0 .. Len(s) :
        /\ First(s, n) \in Seq(S) /\ After(s, n) \in Seq(S)
        /\ Len(First(s, n)) = n /\ Len(After(s, n)) = Len(s) - n
        /\ First(s, n) \o After(s, n) = s
    BY CutInTwo
<1> QED BY <1>1 DEF S

\* What fits into the buffer.
LEMMA FittingIsRight ==
    ASSUME NEW S, NEW s \in Seq(S), NEW taken \in Nat, taken <= Room
    PROVE  /\ Fitting(s, taken) \in 0 .. Len(s)
           /\ taken + Fitting(s, taken) <= Room
           /\ Fitting(s, taken) < Len(s) => taken + Fitting(s, taken) = Room
<1>1. Len(s) \in Nat /\ Room \in Nat
    BY LenProperties, RoomBound
<1> QED BY <1>1 DEF Fitting

LEMMA GoodConnParts ==
    ASSUME NEW c, GoodConn(c)
    PROVE  /\ c.wire \in Seq(Frame) /\ c.urgent \in Seq(DiscreteFrames) /\ c.urgent \in Seq(Frame)
           /\ c.streams \in Seq(StreamFrames) /\ c.streams \in Seq(Frame)
           /\ Len(c.wire) \in Nat /\ Len(c.urgent) \in Nat /\ Len(c.streams) \in Nat
           /\ Coming(c) \in Seq(Frame) /\ Len(Coming(c)) = Len(c.wire) + Len(c.urgent)
<1>1. c.wire \in Seq(Frame) /\ c.urgent \in Seq(DiscreteFrames) /\ c.streams \in Seq(StreamFrames)
    BY DEF GoodConn, Conns
<1>2. c.urgent \in Seq(Frame) /\ c.streams \in Seq(Frame)
    BY <1>1, FrameKinds, SeqMonotonic
<1>3. Coming(c) \in Seq(Frame) /\ Len(Coming(c)) = Len(c.wire) + Len(c.urgent)
    BY <1>1, <1>2, ConcatProperties DEF Coming
<1> QED BY <1>1, <1>2, <1>3, LenProperties

\* Of the stream frames the first m are written, the next is dropped, and the
\* others wait.
LEMMA StreamsAreWritten ==
    ASSUME NEW c, GoodConn(c), c.up, c.urgent = <<>>
    PROVE  /\ GoodConn(WriteStreams(c))
           /\ \E m \in 0 .. Len(c.streams) : Writes(c, WriteStreams(c), m)
           /\ WriteStreams(c).urgent = <<>>
           /\ WriteStreams(c).stall \in {"none", c.stall}
<1> DEFINE m == Fitting(c.streams, Len(c.wire))
           d == WriteStreams(c)
           a == First(c.streams, m)
           b == After(c.streams, m + 1)
<1>1. c \in Conns /\ Len(c.wire) <= Room
    BY DEF GoodConn
<1>2. /\ c.wire \in Seq(Frame) /\ c.streams \in Seq(StreamFrames) /\ c.streams \in Seq(Frame)
      /\ Len(c.wire) \in Nat /\ Len(c.streams) \in Nat
    BY GoodConnParts
<1>3. m \in 0 .. Len(c.streams) /\ Len(c.wire) + m <= Room
    BY <1>1, <1>2, FittingIsRight
<1>4. d = [c EXCEPT !.wire = @ \o a, !.streams = b, !.timer = FALSE,
                    !.stall = IF m > 0 THEN "none" ELSE @,
                    !.dropped = (@ \ SidsOf(a)) \cup {c.streams[i].sid : i \in {m + 1} \cap DOMAIN c.streams}]
    BY DEF WriteStreams
<1> HIDE DEF m, d
<1>5. a \in Seq(StreamFrames) /\ a \in Seq(Frame) /\ Len(a) = m
  <2>0. c.streams \in Seq(StreamFrames) /\ m \in 0 .. Len(c.streams)
      BY <1>2, <1>3
  <2>1. First(c.streams, m) \in Seq(StreamFrames) /\ Len(First(c.streams, m)) = m
      BY <2>0, StreamsCut, Zenon
  <2> QED BY <2>1, FrameKinds, SeqMonotonic
<1>6. b \in Seq(StreamFrames) /\ \A i \in DOMAIN b : (m + 1) + i \in DOMAIN c.streams /\ b[i] = c.streams[(m + 1) + i]
  <2>1. DOMAIN c.streams = 1 .. Len(c.streams)
      BY <1>2, LenProperties
  <2>2. CASE m < Len(c.streams)
    <3>1. m + 1 \in 0 .. Len(c.streams)
        BY <1>2, <1>3, <2>2
    <3>0. c.streams \in Seq(StreamFrames)
        BY <1>2
    <3>2. /\ b \in Seq(StreamFrames) /\ Len(b) = Len(c.streams) - (m + 1)
          /\ \A i \in 1 .. Len(c.streams) - (m + 1) : b[i] = c.streams[(m + 1) + i]
        BY <3>0, <3>1, StreamsCut, Zenon
    <3> HIDE DEF b
    <3>3. DOMAIN b = 1 .. Len(c.streams) - (m + 1)
        BY <3>2, LenProperties
    <3>4. ASSUME NEW i \in DOMAIN b PROVE (m + 1) + i \in DOMAIN c.streams
        BY <1>2, <1>3, <2>1, <3>1, <3>3
    <3> QED BY <3>2, <3>3, <3>4
  <2>3. CASE m = Len(c.streams)
    <3>1. b = <<>>
        BY <1>2, <1>3, <2>3, SubSeqEmpty DEF After
    <3> HIDE DEF b
    <3>2. b \in Seq(StreamFrames) /\ DOMAIN b = {}
        BY <3>1, EmptySeq
    <3> QED BY <3>2
  <2> QED BY <1>2, <1>3, <2>2, <2>3
<1>7. \A s \in {c.streams[i].sid : i \in {m + 1} \cap DOMAIN c.streams} : s \in Sessions
  <2>1. \A i \in DOMAIN c.streams : c.streams[i] \in StreamFrames
      BY <1>2, LenProperties
  <2> QED BY <2>1 DEF StreamFrames
<1>8. /\ d.up = c.up /\ d.urgent = <<>> /\ d.streams = b /\ d.wire = c.wire \o a
      /\ d.stall \in {"none", c.stall}
      /\ d.dropped = (c.dropped \ SidsOf(a)) \cup {c.streams[i].sid : i \in {m + 1} \cap DOMAIN c.streams}
    BY <1>1, <1>4 DEF Conns
<1> HIDE DEF a, b
<1>9. c.wire \o a \in Seq(Frame) /\ Len(c.wire \o a) = Len(c.wire) + m
    BY <1>2, <1>5, ConcatProperties
<1>10. d \in Conns
  <2> DEFINE dr == (c.dropped \ SidsOf(a)) \cup {c.streams[i].sid : i \in {m + 1} \cap DOMAIN c.streams}
             st == IF m > 0 THEN "none" ELSE c.stall
             w  == c.wire \o a
  <2>1. dr \in SUBSET Sessions /\ st \in {"none", "held", "overdue"} /\ w \in Seq(Frame)
      BY <1>1, <1>7, <1>9 DEF Conns
  <2>2. d = [c EXCEPT !.wire = w, !.streams = b, !.timer = FALSE, !.stall = st, !.dropped = dr]
      BY <1>1, <1>4 DEF Conns
  <2> HIDE DEF dr, st, w
  <2> QED BY <1>1, <1>6, <2>1, <2>2 DEF Conns
<1>11. \A i, j \in DOMAIN b : b[i].sid = b[j].sid => i = j
  <2> SUFFICES ASSUME NEW i \in DOMAIN b, NEW j \in DOMAIN b, b[i].sid = b[j].sid PROVE i = j
      OBVIOUS
  <2>1. (m + 1) + i = (m + 1) + j
      BY <1>6 DEF GoodConn
  <2>2. i \in Nat /\ j \in Nat
      BY <1>6, LenProperties
  <2> QED BY <1>3, <2>1, <2>2
<1>12. GoodConn(d)
    BY <1>3, <1>8, <1>9, <1>10, <1>11 DEF GoodConn
<1>13. Coming(d) = Coming(c) \o a
    BY <1>2, <1>8, <1>9, ConcatEmptySeq DEF Coming
<1>14. Writes(c, d, m)
    BY <1>8, <1>13 DEF Writes, a, b
<1> QED BY <1>3, <1>8, <1>12, <1>14 DEF d

\* A flush closes a client that took nothing for too long, holds what does not
\* fit, or writes everything and then streams.
Ends(c, d) == d = Closed(c) /\ c.stall = "overdue"

LEMMA ClosedIsGood ==
    ASSUME NEW c, GoodConn(c)
    PROVE  /\ GoodConn(Closed(c))
           /\ ~Closed(c).up /\ Closed(c).urgent = <<>> /\ Closed(c).streams = <<>>
           /\ Closed(c).wire = c.wire
<1>1. c \in Conns
    BY DEF GoodConn
<1>2. <<>> \in Seq(DiscreteFrames) /\ <<>> \in Seq(StreamFrames) /\ DOMAIN <<>> = {}
    BY EmptySeq
<1>3. /\ Closed(c) \in Conns /\ ~Closed(c).up /\ Closed(c).urgent = <<>>
      /\ Closed(c).streams = <<>> /\ Closed(c).wire = c.wire
    BY <1>1, <1>2 DEF Closed, Conns
<1> QED BY <1>2, <1>3 DEF GoodConn

LEMMA Flushing ==
    ASSUME NEW c, GoodConn(c), c.up, NEW d, d = FlushOutbound(c)
    PROVE  /\ GoodConn(d) /\ Len(d.urgent) <= Len(c.urgent)
           /\ \/ Ends(c, d)
              \/ Holds(c, d) /\ d.stall = "held"
              \/ /\ \E m \in 0 .. Len(c.streams) : Writes(c, d, m)
                 /\ d.urgent = <<>> /\ (c.urgent # <<>> => d.stall = "none")
<1> DEFINE n == Fitting(c.urgent, Len(c.wire))
           a == First(c.urgent, n)
           b == After(c.urgent, n)
<1>1. c \in Conns /\ Len(c.wire) <= Room
    BY DEF GoodConn
<1>2. /\ c.wire \in Seq(Frame) /\ c.urgent \in Seq(DiscreteFrames) /\ c.urgent \in Seq(Frame)
      /\ Len(c.wire) \in Nat /\ Len(c.urgent) \in Nat
    BY GoodConnParts
<1>3. n \in 0 .. Len(c.urgent) /\ Len(c.wire) + n <= Room
    BY <1>1, <1>2, FittingIsRight
<1> HIDE DEF n
<1>4. /\ a \in Seq(Frame) /\ Len(a) = n /\ a \o b = c.urgent
      /\ b \in Seq(DiscreteFrames) /\ b \in Seq(Frame) /\ Len(b) = Len(c.urgent) - n
  <2>0. c.urgent \in Seq(Frame)
      BY <1>2
  <2>1. a \in Seq(Frame) /\ Len(a) = n /\ a \o b = c.urgent /\ Len(b) = Len(c.urgent) - n /\ b \in Seq(Frame)
      BY <2>0, <1>3, FramesCut, Zenon
  <2>2. b \in Seq(DiscreteFrames)
    <3>1. c.urgent \in Seq(DiscreteFrames)
        BY <1>2
    <3> QED BY <3>1, <1>3, UrgentCut, Zenon
  <2> QED BY <2>1, <2>2
<1>5. CASE n < Len(c.urgent)
  <2>1. d = HoldUrgent(c, n)
      BY <1>5 DEF FlushOutbound, n
  <2>2. CASE n = 0 /\ c.stall = "overdue"
    <3>1. d = Closed(c)
        BY <2>1, <2>2 DEF HoldUrgent
    <3>2. GoodConn(d) /\ d.urgent = <<>> /\ Len(<<>>) = 0
        BY <3>1, ClosedIsGood, EmptySeq
    <3> QED BY <1>2, <2>2, <3>1, <3>2 DEF Ends
  <2>3. CASE ~(n = 0 /\ c.stall = "overdue")
    <3> DEFINE st == IF n = 0 /\ c.stall # "none" THEN c.stall ELSE "held"
               w  == c.wire \o a
    <3>1. st = "held"
        BY <1>1, <2>3 DEF Conns
    <3>2. d = [c EXCEPT !.urgent = b, !.wire = w, !.timer = TRUE, !.stall = st]
        BY <1>1, <2>1, <2>3 DEF HoldUrgent, Conns
    <3> HIDE DEF st, a, b
    <3>3. w \in Seq(Frame) /\ Len(w) = Len(c.wire) + n
        BY <1>2, <1>4, ConcatProperties
    <3>4. w \o b = Coming(c)
      <4>0. c.wire \in Seq(Frame) /\ a \in Seq(Frame) /\ b \in Seq(Frame)
          BY <1>2, <1>4
      <4>1. (c.wire \o a) \o b = c.wire \o (a \o b)
          BY <4>0, JoinsAssociate, Zenon
      <4> QED BY <4>1, <1>4, Zenon DEF Coming
    <3> HIDE DEF w
    <3>5. /\ d \in Conns /\ d.up = c.up /\ d.urgent = b /\ d.wire = w /\ d.stall = "held"
          /\ d.streams = c.streams /\ d.dropped = c.dropped
        BY <1>1, <1>4, <3>1, <3>2, <3>3 DEF Conns
    <3>6. GoodConn(d)
        BY <1>3, <3>3, <3>5 DEF GoodConn
    <3>7. Holds(c, d)
        BY <3>4, <3>5 DEF Holds, Coming
    <3> QED BY <1>2, <1>3, <1>4, <3>5, <3>6, <3>7
  <2> QED BY <2>2, <2>3
<1>6. CASE ~(n < Len(c.urgent))
  <2> DEFINE w  == c.wire \o c.urgent
             st == IF n > 0 THEN "none" ELSE c.stall
             e  == [c EXCEPT !.wire = w, !.urgent = <<>>, !.stall = st]
  <2>1. d = WriteStreams(e)
    <3>1. [c EXCEPT !.wire = @ \o c.urgent, !.urgent = <<>>, !.stall = IF n > 0 THEN "none" ELSE @] = e
        BY <1>1 DEF Conns
    <3> QED BY <3>1, <1>6 DEF FlushOutbound, n
  <2>2. w \in Seq(Frame) /\ Len(w) = Len(c.wire) + n
    <3>1. w \in Seq(Frame) /\ Len(w) = Len(c.wire) + Len(c.urgent)
        BY <1>2, ConcatProperties
    <3>2. Len(c.urgent) = n
        BY <1>2, <1>3, <1>6
    <3> HIDE DEF w
    <3> QED BY <3>1, <3>2, Zenon
  <2>3. st \in {"none", "held", "overdue"} /\ (c.urgent # <<>> => st = "none")
    <3>1. c.urgent # <<>> => n > 0
        BY <1>2, <1>3, <1>6, EmptySeq
    <3> QED BY <1>1, <3>1 DEF Conns
  <2>4. w = Coming(c)
      BY DEF Coming
  <2> HIDE DEF w, st
  <2>5. <<>> \in Seq(DiscreteFrames) /\ Len(<<>>) = 0
      BY EmptySeq
  <2>6. /\ e \in Conns /\ e.up = c.up /\ e.urgent = <<>> /\ e.wire = w /\ e.stall = st
        /\ e.streams = c.streams /\ e.dropped = c.dropped
      BY <1>1, <2>2, <2>3, <2>5 DEF Conns
  <2> HIDE DEF e
  <2>7. GoodConn(e)
      BY <1>3, <2>2, <2>6 DEF GoodConn
  <2>8. /\ GoodConn(d) /\ d.urgent = <<>> /\ d.stall \in {"none", st}
        /\ \E m \in 0 .. Len(c.streams) : Writes(e, d, m)
      BY <2>1, <2>6, <2>7, StreamsAreWritten
  <2>9. Coming(e) = Coming(c)
    <3>1. w \o <<>> = w
        BY <2>2, ConcatEmptySeq
    <3> QED BY <3>1, <2>4, <2>6 DEF Coming
  <2>10. \E m \in 0 .. Len(c.streams) : Writes(c, d, m)
      BY <2>6, <2>8, <2>9 DEF Writes
  <2> QED BY <1>2, <2>3, <2>5, <2>8, <2>10
<1> QED BY <1>5, <1>6

\* A discrete frame goes to the end of what is to come, and the box is flushed.
WithUrgent(c, f) == [c EXCEPT !.urgent = Append(@, f)]

LEMMA UrgentJoins ==
    ASSUME NEW c, GoodConn(c), c.up, NEW f \in DiscreteFrames
    PROVE  LET d == WithUrgent(c, f)
           IN  /\ GoodConn(d) /\ d.up /\ d.urgent # <<>> /\ Len(d.urgent) = Len(c.urgent) + 1
               /\ Coming(d) = Append(Coming(c), f)
               /\ d.streams = c.streams /\ d.dropped = c.dropped /\ d.stall = c.stall /\ d.wire = c.wire
               /\ Enqueue(c, f) = FlushOutbound(d)
<1> DEFINE d == WithUrgent(c, f)
           u == Append(c.urgent, f)
<1>1. /\ c \in Conns /\ c.urgent \in Seq(DiscreteFrames) /\ c.urgent \in Seq(Frame) /\ c.wire \in Seq(Frame)
      /\ Coming(c) \in Seq(Frame)
    BY GoodConnParts DEF GoodConn
<1>2. u \in Seq(DiscreteFrames) /\ u # <<>> /\ Len(u) = Len(c.urgent) + 1
    BY <1>1, AppendProperties
<1>3. f \in Frame /\ ~IsStream(f)
    BY FrameKinds
<1>4. c.wire \o u = Append(Coming(c), f)
  <2>1. <<f>> \in Seq(Frame) /\ u = c.urgent \o <<f>> /\ Append(Coming(c), f) = Coming(c) \o <<f>>
      BY <1>1, <1>3, AppendIsConcat
  <2>2. (c.wire \o c.urgent) \o <<f>> = c.wire \o (c.urgent \o <<f>>)
      BY <2>1, <1>1, JoinsAssociate, Zenon
  <2> HIDE DEF u
  <2> QED BY <2>1, <2>2, Zenon DEF Coming
<1>5. d = [c EXCEPT !.urgent = u]
    BY DEF WithUrgent
<1> HIDE DEF u, d
<1>6. /\ d \in Conns /\ d.up = c.up /\ d.urgent = u /\ d.wire = c.wire
      /\ d.streams = c.streams /\ d.dropped = c.dropped /\ d.stall = c.stall
    BY <1>1, <1>2, <1>5 DEF Conns
<1>7. GoodConn(d)
    BY <1>6 DEF GoodConn
<1>8. Coming(d) = Append(Coming(c), f)
    BY <1>4, <1>6 DEF Coming
<1>9. Enqueue(c, f) = FlushOutbound(d)
    BY <1>3 DEF Enqueue, d, WithUrgent
<1> QED BY <1>2, <1>6, <1>7, <1>8, <1>9 DEF d

\* A stream frame takes the place of the one of its session, or the last place.
LEMMA StreamJoins ==
    ASSUME NEW c, GoodConn(c), c.up, NEW f \in StreamFrames
    PROVE  LET d == Enqueue(c, f)
           IN  /\ GoodConn(d) /\ d.up
               /\ d.wire = c.wire /\ d.urgent = c.urgent /\ d.dropped = c.dropped /\ d.stall = c.stall
               /\ \A s : s \in SidsOf(d.streams) <=> s \in SidsOf(c.streams) \/ s = f.sid
               /\ \A i \in DOMAIN d.streams :
                     IF d.streams[i].sid = f.sid THEN d.streams[i] = f
                     ELSE i \in DOMAIN c.streams /\ d.streams[i] = c.streams[i]
<1> DEFINE q == c.streams
           p == IF f.sid \in SidsOf(q) THEN [i \in DOMAIN q |-> IF q[i].sid = f.sid THEN f ELSE q[i]]
                ELSE Append(q, f)
           d == Enqueue(c, f)
<1>1. c \in Conns /\ q \in Seq(StreamFrames) /\ Len(q) \in Nat /\ DOMAIN q = 1 .. Len(q)
    BY LenProperties DEF GoodConn, Conns
<1>2. \A i \in DOMAIN q : q[i] \in StreamFrames
    BY <1>1
<1>3. /\ p \in Seq(StreamFrames)
      /\ \A s : s \in SidsOf(p) <=> s \in SidsOf(q) \/ s = f.sid
      /\ \A i \in DOMAIN p : IF p[i].sid = f.sid THEN p[i] = f ELSE i \in DOMAIN q /\ p[i] = q[i]
      /\ \A i, j \in DOMAIN p : p[i].sid = p[j].sid => i = j
  <2>1. CASE f.sid \in SidsOf(q)
    <3>1. p = [i \in 1 .. Len(q) |-> IF q[i].sid = f.sid THEN f ELSE q[i]]
        BY <1>1, <2>1
    <3> HIDE DEF p
    <3>2. p \in Seq(StreamFrames) /\ DOMAIN p = DOMAIN q
        BY <1>1, <1>2, <3>1
    <3>3. \A i \in DOMAIN q : p[i].sid = q[i].sid
        BY <1>1, <3>1
    <3>4. SidsOf(p) = SidsOf(q)
        BY <3>2, <3>3 DEF SidsOf
    <3>5. \A i \in DOMAIN p : IF p[i].sid = f.sid THEN p[i] = f ELSE i \in DOMAIN q /\ p[i] = q[i]
        BY <1>1, <3>1
    <3> QED BY <2>1, <3>2, <3>3, <3>4, <3>5 DEF GoodConn
  <2>2. CASE f.sid \notin SidsOf(q)
    <3>1. p = Append(q, f)
        BY <2>2
    <3> HIDE DEF p
    <3>2. /\ p \in Seq(StreamFrames) /\ Len(p) = Len(q) + 1 /\ p[Len(q) + 1] = f
          /\ \A i \in 1 .. Len(q) : p[i] = q[i]
        BY <1>1, <3>1, AppendProperties
    <3>3. DOMAIN p = 1 .. Len(q) + 1
        BY <3>2, LenProperties
    <3>4. \A i \in DOMAIN p : (i \in DOMAIN q /\ p[i] = q[i] /\ p[i].sid # f.sid) \/ (i = Len(q) + 1 /\ p[i] = f)
      <4>1. \A i \in DOMAIN q : q[i].sid # f.sid
          BY <2>2 DEF SidsOf
      <4> QED BY <1>1, <3>2, <3>3, <4>1
    <3>5. \A s : s \in SidsOf(p) <=> s \in SidsOf(q) \/ s = f.sid
      <4>1. Len(q) + 1 \in DOMAIN p /\ p[Len(q) + 1].sid = f.sid
          BY <1>1, <3>2, <3>3
      <4>2. \A i \in DOMAIN q : i \in DOMAIN p /\ p[i] = q[i]
          BY <1>1, <3>2, <3>3
      <4> QED BY <3>4, <4>1, <4>2 DEF SidsOf
    <3>6. \A i, j \in DOMAIN p : p[i].sid = p[j].sid => i = j
        BY <3>4 DEF GoodConn
    <3>7. \A i \in DOMAIN p : IF p[i].sid = f.sid THEN p[i] = f ELSE i \in DOMAIN q /\ p[i] = q[i]
        BY <3>4
    <3> QED BY <3>2, <3>5, <3>6, <3>7
  <2> QED BY <2>1, <2>2
<1>4. d = [c EXCEPT !.streams = p, !.timer = TRUE]
    BY <1>1, FrameKinds DEF Enqueue, Supersede, Conns
<1> HIDE DEF p, d
<1>5. /\ d \in Conns /\ d.up = c.up /\ d.urgent = c.urgent /\ d.wire = c.wire
      /\ d.streams = p /\ d.dropped = c.dropped /\ d.stall = c.stall
    BY <1>1, <1>3, <1>4 DEF Conns
<1>6. GoodConn(d)
    BY <1>3, <1>5 DEF GoodConn
<1> QED BY <1>3, <1>5, <1>6 DEF d

-----------------------------------------------------------------------------
(* The order of the discrete frames.                                       *)

\* What the refinement mapping calls pending.
Pending(c) == Discrete(c.wire) \o c.urgent

LEMMA PendingIsDiscrete ==
    ASSUME NEW c, GoodConn(c)
    PROVE  Pending(c) = Discrete(Coming(c)) /\ Pending(c) \in Seq(Frame)
<1>1. c.wire \in Seq(Frame) /\ c.urgent \in Seq(Frame) /\ c.urgent \in Seq(DiscreteFrames)
    BY GoodConnParts
<1>2. Discrete(c.urgent) = c.urgent
    BY <1>1, DiscreteOfOneKind
<1>3. Discrete(c.wire \o c.urgent) = Discrete(c.wire) \o Discrete(c.urgent) /\ Discrete(c.wire) \in Seq(Frame)
    BY <1>1, DiscreteOfConcat
<1>4. Discrete(c.wire) \o c.urgent \in Seq(Frame)
    BY <1>1, <1>3, ConcatProperties
<1> QED BY <1>2, <1>3, <1>4 DEF Pending, Coming

\* The first sequence is a front of the second.
Opens(s, t) == \E g \in Seq(Frame) : t = s \o g

LEMMA OpensItself ==
    ASSUME NEW s \in Seq(Frame)
    PROVE  Opens(s, s)
<1>1. <<>> \in Seq(Frame) /\ s \o <<>> = s
    BY EmptySeq, ConcatEmptySeq
<1> QED BY <1>1 DEF Opens

LEMMA OpensOnward ==
    ASSUME NEW s \in Seq(Frame), NEW t, NEW u, Opens(s, t), Opens(t, u)
    PROVE  Opens(s, u)
<1>1. PICK g \in Seq(Frame) : t = s \o g
    BY DEF Opens
<1>2. PICK h \in Seq(Frame) : u = t \o h
    BY DEF Opens
<1>3. g \o h \in Seq(Frame)
    BY ConcatProperties
<1>4. (s \o g) \o h = s \o (g \o h)
    BY JoinsAssociate, Zenon
<1>5. u = s \o (g \o h)
    BY <1>1, <1>2, <1>4, Zenon
<1> QED BY <1>3, <1>5, Zenon DEF Opens

LEMMA OpensIsPrefix ==
    ASSUME NEW s \in Seq(Frame), NEW t \in Seq(Frame), Opens(s, t)
    PROVE  Feed!IsPrefix(s, t)
<1>1. PICK g \in Seq(Frame) : t = s \o g
    BY DEF Opens
<1>2. Len(s) \in Nat /\ Len(g) \in Nat
    BY LenProperties
<1>3. Len(t) = Len(s) + Len(g) /\ \A i \in 1 .. Len(s) + Len(g) : t[i] = IF i <= Len(s) THEN s[i] ELSE g[i - Len(s)]
    BY <1>1, ConcatProperties
<1>4. Len(s) <= Len(t) /\ \A i \in 1 .. Len(s) : t[i] = s[i] /\ t[i] \in Frame
    BY <1>2, <1>3, LenProperties
<1>5. SubSeq(s, 1, Len(s)) = s
    BY SubSeqFull
<1>6. SubSeq(t, 1, Len(s)) = s
  <2> DEFINE u == SubSeq(t, 1, Len(s))
  <2>1. u \in Seq(Frame) /\ Len(u) = (IF 1 <= Len(s) THEN Len(s) - 1 + 1 ELSE 0) /\ \A i \in 1 .. Len(s) - 1 + 1 : u[i] = t[1 + i - 1]
      BY <1>2, <1>4, SubSeqProperties
  <2> HIDE DEF u
  <2>2. Len(u) = Len(s)
      BY <1>2, <2>1
  <2>3. \A i \in 1 .. Len(u) : u[i] = s[i]
      BY <1>2, <1>4, <2>1, <2>2
  <2>4. u = s
      BY <2>1, <2>2, <2>3, SeqEqual
  <2> QED BY <2>4 DEF u
<1> QED BY <1>4, <1>5, <1>6 DEF Feed!IsPrefix

\* What a call may do to the order: add frames behind, or close, which only a
\* client that is overdue can be.  A call after which it is overdue added none.
Onward(c, d) ==
    /\ d.up = c.up /\ Opens(Pending(c), Pending(d))
    /\ ~c.up => d = c
    /\ d.stall = "overdue" => c.stall = "overdue" /\ Pending(d) = Pending(c)

Over(c, d) == c.up /\ c.stall = "overdue" /\ ~d.up /\ Opens(Pending(d), Pending(c))

InOrder(c, d) == Onward(c, d) \/ Over(c, d)

LEMMA InOrderOnward ==
    ASSUME NEW c, NEW d, NEW e, GoodConn(c), GoodConn(d), GoodConn(e), InOrder(c, d), InOrder(d, e)
    PROVE  InOrder(c, e)
<1>1. Pending(c) \in Seq(Frame) /\ Pending(d) \in Seq(Frame) /\ Pending(e) \in Seq(Frame)
    BY PendingIsDiscrete
<1>2. CASE Onward(c, d) /\ Onward(d, e)
  <2>1. Opens(Pending(c), Pending(e))
      BY <1>1, <1>2, OpensOnward DEF Onward
  <2> QED BY <1>2, <2>1 DEF InOrder, Onward
<1>3. CASE Onward(c, d) /\ Over(d, e)
    BY <1>3 DEF InOrder, Onward, Over
<1>4. CASE Over(c, d) /\ Onward(d, e)
    BY <1>4 DEF InOrder, Onward, Over
<1>5. CASE Over(c, d) /\ Over(d, e)
    BY <1>5 DEF Over
<1> QED BY <1>2, <1>3, <1>4, <1>5 DEF InOrder

\* A flush keeps the order, and after one that had frames to write the client
\* is not overdue.
LEMMA FlushInOrder ==
    ASSUME NEW c, GoodConn(c), c.up
    PROVE  LET d == FlushOutbound(c)
           IN  /\ GoodConn(d) /\ InOrder(c, d)
               /\ Over(c, d) => Pending(d) = Discrete(c.wire)
               /\ Onward(c, d) => Pending(d) = Pending(c) /\ (c.urgent # <<>> => d.stall # "overdue")
<1> DEFINE d == FlushOutbound(c)
<1>1. /\ GoodConn(d)
      /\ \/ Ends(c, d)
         \/ Holds(c, d) /\ d.stall = "held"
         \/ /\ \E m \in 0 .. Len(c.streams) : Writes(c, d, m)
            /\ d.urgent = <<>> /\ (c.urgent # <<>> => d.stall = "none")
    BY Flushing
<1> HIDE DEF d
<1>2. /\ Pending(c) = Discrete(Coming(c)) /\ Pending(d) = Discrete(Coming(d))
      /\ Pending(c) \in Seq(Frame) /\ Pending(d) \in Seq(Frame)
    BY <1>1, PendingIsDiscrete
<1>3. CASE Ends(c, d)
  <2>1. d.wire = c.wire /\ d.urgent = <<>> /\ ~d.up /\ c.stall = "overdue"
      BY <1>3, ClosedIsGood DEF Ends
  <2>2. c.wire \in Seq(Frame) /\ c.urgent \in Seq(Frame)
      BY GoodConnParts
  <2>3. Discrete(c.wire) \in Seq(Frame)
      BY <2>2, DiscreteOfConcat
  <2>4. Pending(d) = Discrete(c.wire)
      BY <2>1, <2>3, ConcatEmptySeq DEF Pending
  <2>5. Opens(Pending(d), Pending(c))
      BY <2>2, <2>4 DEF Opens, Pending
  <2>6. Over(c, d) /\ ~Onward(c, d)
      BY <2>1, <2>5 DEF Over, Onward
  <2> QED BY <1>1, <2>4, <2>6 DEF InOrder, d
<1>4. CASE ~Ends(c, d)
  <2>1. d.up /\ Pending(d) = Pending(c)
    <3>1. CASE Holds(c, d)
        BY <3>1, <1>2 DEF Holds
    <3>2. CASE \E m \in 0 .. Len(c.streams) : Writes(c, d, m)
      <4>1. PICK m \in 0 .. Len(c.streams) : Writes(c, d, m)
          BY <3>2
      <4> DEFINE a == First(c.streams, m)
      <4>2. c.streams \in Seq(StreamFrames) /\ Coming(c) \in Seq(Frame)
          BY GoodConnParts
      <4>3. a \in Seq(StreamFrames)
          BY <4>2, CutInTwoParts, Zenon
      <4>4. a \in Seq(Frame)
          BY <4>3, FrameKinds, SeqMonotonic
      <4>5. Coming(d) = Coming(c) \o a /\ d.up
          BY <4>1 DEF Writes
      <4> HIDE DEF a
      <4>6. Discrete(a) = <<>>
          BY <4>3, DiscreteOfOneKind
      <4>7. Discrete(Coming(d)) = Discrete(Coming(c)) \o <<>>
          BY <4>2, <4>4, <4>5, <4>6, DiscreteOfConcat
      <4>8. Pending(c) \o <<>> = Pending(c)
          BY <1>2, ConcatEmptySeq
      <4> QED BY <1>2, <4>5, <4>7, <4>8, Zenon
    <3> QED BY <1>1, <1>4, <3>1, <3>2
  <2>2. c.urgent # <<>> => d.stall # "overdue"
      BY <1>1, <1>4
  <2>3. d.stall = "overdue" => c.stall = "overdue"
    <3>1. d.stall = "overdue" => c.urgent = <<>> /\ d.stall \in {"none", c.stall}
      <4> SUFFICES ASSUME d.stall = "overdue" PROVE c.urgent = <<>> /\ d.stall \in {"none", c.stall}
          OBVIOUS
      <4>1. c.urgent = <<>>
          BY <2>2
      <4>2. c \in Conns /\ Len(c.wire) \in Nat /\ Room \in Nat /\ Len(c.wire) <= Room /\ c.wire \in Seq(Frame)
          BY GoodConnParts, RoomBound DEF GoodConn
      <4>3. Fitting(c.urgent, Len(c.wire)) = 0 /\ Len(c.urgent) = 0
          BY <4>1, <4>2, EmptySeq DEF Fitting
      <4>4. d = WriteStreams([c EXCEPT !.wire = @ \o c.urgent, !.urgent = <<>>, !.stall = @])
          BY <4>3 DEF FlushOutbound, d
      <4>5. c.wire \o c.urgent = c.wire
          BY <4>1, <4>2, ConcatEmptySeq
      <4>6. [c EXCEPT !.wire = @ \o c.urgent, !.urgent = <<>>, !.stall = @] = c
          BY <4>1, <4>2, <4>5 DEF Conns
      <4>7. d.stall \in {"none", c.stall}
          BY <4>1, <4>4, <4>6, StreamsAreWritten
      <4> QED BY <4>1, <4>7
    <3> QED BY <3>1
  <2>4. Onward(c, d) /\ ~Over(c, d)
      BY <1>2, <2>1, <2>3, OpensItself DEF Onward, Over
  <2> QED BY <1>1, <2>1, <2>2, <2>4 DEF InOrder, d
<1> QED BY <1>3, <1>4

\* So does what is broadcast.
LEMMA EnqueueInOrder ==
    ASSUME NEW c, GoodConn(c), NEW f \in Frame
    PROVE  LET d == Enqueue(c, f)
           IN  /\ GoodConn(d) /\ InOrder(c, d)
               /\ Len(d.urgent) <= Len(c.urgent) + 1
               /\ IsStream(f) => Len(d.urgent) <= Len(c.urgent)
<1> DEFINE d == Enqueue(c, f)
<1>1. Pending(c) \in Seq(Frame) /\ Len(c.urgent) \in Nat
    BY PendingIsDiscrete, GoodConnParts
<1>2. CASE ~c.up
  <2>1. d = c
      BY <1>2 DEF Enqueue
  <2>2. InOrder(c, c)
      BY <1>1, OpensItself DEF Onward, InOrder
  <2>3. GoodConn(d) /\ InOrder(c, d) /\ d.urgent = c.urgent
      BY <2>1, <2>2
  <2>4. Len(c.urgent) <= Len(c.urgent) + 1 /\ Len(c.urgent) <= Len(c.urgent)
      BY <1>1
  <2> QED BY <2>3, <2>4, Zenon
<1>3. CASE c.up /\ IsStream(f)
  <2>1. f \in StreamFrames
      BY <1>3, FrameKinds
  <2>2. GoodConn(d) /\ d.up /\ d.wire = c.wire /\ d.urgent = c.urgent /\ d.stall = c.stall
      BY <1>3, <2>1, StreamJoins
  <2> HIDE DEF d
  <2>3. Onward(c, d)
      BY <1>1, <1>3, <2>2, OpensItself DEF Onward, Pending
  <2> QED BY <1>1, <1>3, <2>2, <2>3 DEF InOrder, d
<1>4. CASE c.up /\ ~IsStream(f)
  <2> DEFINE e == WithUrgent(c, f)
  <2>1. f \in DiscreteFrames
      BY <1>4, FrameKinds
  <2>2. /\ GoodConn(e) /\ e.up /\ e.urgent # <<>> /\ Len(e.urgent) = Len(c.urgent) + 1
        /\ Coming(e) = Append(Coming(c), f)
        /\ e.stall = c.stall /\ e.wire = c.wire /\ d = FlushOutbound(e)
      BY <1>4, <2>1, UrgentJoins
  <2> HIDE DEF d, e
  <2>3. /\ GoodConn(d) /\ InOrder(e, d) /\ Len(d.urgent) <= Len(e.urgent)
        /\ Over(e, d) => Pending(d) = Discrete(c.wire)
        /\ Onward(e, d) => Pending(d) = Pending(e) /\ d.stall # "overdue"
      BY <2>2, FlushInOrder, Flushing
  <2>4. Opens(Pending(c), Pending(e))
    <3>0. Coming(c) \in Seq(Frame)
        BY GoodConnParts
    <3>1. Coming(c) \in Seq(Frame) /\ <<f>> \in Seq(Frame)
        BY <3>0
    <3>2. Discrete(Append(Coming(c), f)) = Append(Discrete(Coming(c)), f)
        BY <1>4, <3>1, DiscreteOfAppend
    <3>3. Pending(e) = Append(Pending(c), f)
        BY <2>2, <3>2, PendingIsDiscrete
    <3>4. Append(Pending(c), f) = Pending(c) \o <<f>>
        BY <1>1, AppendIsConcat
    <3> QED BY <3>1, <3>3, <3>4 DEF Opens
  <2>5. CASE Onward(e, d)
    <3>1. Onward(c, d)
        BY <1>4, <2>2, <2>3, <2>4, <2>5 DEF Onward
    <3> QED BY <1>4, <2>2, <2>3, <3>1 DEF InOrder, d
  <2>6. CASE Over(e, d)
    <3>1. c.urgent \in Seq(Frame)
        BY GoodConnParts
    <3>2. Opens(Pending(d), Pending(c))
        BY <2>3, <2>6, <3>1 DEF Opens, Pending
    <3>3. Over(c, d)
        BY <1>4, <2>2, <2>6, <3>2 DEF Over
    <3> QED BY <1>4, <2>2, <2>3, <3>3 DEF InOrder, d
  <2> QED BY <2>3, <2>5, <2>6 DEF InOrder
<1> QED BY <1>2, <1>3, <1>4

-----------------------------------------------------------------------------
(* Types.                                                                  *)

\* What was said fits the bound, and only a session that works has segments.
RecordsOK(ss) ==
    /\ ss \in [Sessions -> SessionRecord]
    /\ \A s \in Sessions : Said(ss[s]) <= MaxPieces /\ (ss[s].segs # {} => ss[s].working)

FeedTyped ==
    /\ RecordsOK(session)
    /\ late \in SUBSET Sessions
    /\ GoodConn(conn) /\ Len(conn.urgent) <= MaxHeld + 1
    /\ view \in [Sessions -> ViewRecord]
    /\ asked \subseteq Open
    /\ reply \in [Sessions -> 0 .. MaxPieces] /\ \A s \in Sessions : reply[s] # 0 => s \in Open
    /\ links \in 0 .. MaxLinks

LEMMA FeedTypedIsTypeOK == FeedTyped => FeedTypeOK
<1> SUFFICES ASSUME FeedTyped PROVE FeedTypeOK
    OBVIOUS
<1>1. conn \in Conns
    BY DEF FeedTyped, GoodConn
<1>2. conn.urgent \in Seq(Frame) /\ conn.streams \in Seq(Frame)
    BY GoodConnParts DEF FeedTyped
<1>3. conn \in [up : BOOLEAN, urgent : Seq(Frame), streams : Seq(Frame),
                timer : BOOLEAN, stall : {"none", "held", "overdue"},
                wire : Seq(Frame), dropped : SUBSET Sessions]
    BY <1>1, <1>2 DEF Conns
<1> QED BY <1>3, OpenAreSessions DEF FeedTyped, FeedTypeOK, RecordsOK, GoodConn

LEMMA SaidIsANumber ==
    ASSUME NEW r \in SessionRecord
    PROVE  /\ IsFiniteSet(r.text) /\ Cardinality(r.text) \in Nat /\ r.text \subseteq Piece
           /\ r.saved \in Nat /\ r.untold \in Nat /\ Said(r) \in Nat
           /\ Said(r) = r.saved + r.untold + Cardinality(r.text)
           /\ (r.text = {} /\ r.untold = 0 => Said(r) = r.saved)
<1>1. MaxPieces \in Nat /\ r.text \in SUBSET (1 .. MaxPieces) /\ r.saved \in Nat /\ r.untold \in Nat
    BY FeedBounds DEF SessionRecord, Pieces, Piece
<1>2. IsFiniteSet(1 .. MaxPieces)
    BY <1>1, FS_Interval
<1>3. IsFiniteSet(r.text)
    BY <1>1, <1>2, FS_Subset
<1>4. Cardinality(r.text) \in Nat /\ (r.text = {} => Cardinality(r.text) = 0)
    BY <1>3, FS_CardinalityType, FS_EmptySet
<1> QED BY <1>1, <1>3, <1>4 DEF Said, Piece

\* A record whose text is in the transcript has said the same.
LEMMA SavedRecord ==
    ASSUME NEW r \in SessionRecord, NEW q \in SessionRecord, q.saved = Said(r), q.untold = 0, q.text = {}
    PROVE  Said(q) = Said(r)
BY SaidIsANumber

LEMMA FramesAreTyped ==
    ASSUME NEW ss, RecordsOK(ss)
    PROVE  /\ StateFrame(ss) \in DiscreteFrames /\ StateFrame(ss) \in Frame
           /\ \A s \in Sessions :
                 /\ HistoryFrame(ss, s) \in DiscreteFrames /\ HistoryFrame(ss, s) \in Frame
                 /\ ToolFrame(s) \in DiscreteFrames /\ ToolFrame(s) \in Frame
                 /\ StreamFrame(ss, s) \in StreamFrames /\ StreamFrame(ss, s) \in Frame
<1>1. StateFrame(ss) \in StateFrames
    BY DEF StateFrame, StateFrames
<1>2. ASSUME NEW s \in Sessions
      PROVE  /\ HistoryFrame(ss, s) \in HistoryFrames
             /\ ToolFrame(s) \in ToolFrames
             /\ StreamFrame(ss, s) \in StreamFrames
    BY DEF RecordsOK, SessionRecord, HistoryFrame, ToolFrame, StreamFrame, HistoryFrames, ToolFrames, StreamFrames
<1> QED BY <1>1, <1>2, FrameKinds DEF DiscreteFrames

\* Frames sent one after the other.
LEMMA TwoInOrder ==
    ASSUME NEW c, GoodConn(c), NEW f \in Frame, NEW g \in Frame
    PROVE  LET d == Enqueue(Enqueue(c, f), g)
           IN  /\ GoodConn(d) /\ InOrder(c, d) /\ Len(d.urgent) <= Len(c.urgent) + 2
               /\ IsStream(f) => Len(d.urgent) <= Len(c.urgent) + 1
<1> DEFINE e == Enqueue(c, f)
           d == Enqueue(e, g)
<1>1. /\ GoodConn(e) /\ InOrder(c, e) /\ Len(e.urgent) <= Len(c.urgent) + 1
      /\ IsStream(f) => Len(e.urgent) <= Len(c.urgent)
    BY EnqueueInOrder
<1> HIDE DEF e
<1>2. GoodConn(d) /\ InOrder(e, d) /\ Len(d.urgent) <= Len(e.urgent) + 1
    BY <1>1, EnqueueInOrder
<1> HIDE DEF d
<1>3. Len(c.urgent) \in Nat /\ Len(d.urgent) \in Nat /\ Len(e.urgent) \in Nat
    BY <1>1, <1>2, GoodConnParts
<1>4. InOrder(c, d)
    BY <1>1, <1>2, InOrderOnward
<1>5. Len(d.urgent) <= Len(c.urgent) + 2 /\ (IsStream(f) => Len(d.urgent) <= Len(c.urgent) + 1)
    BY <1>1, <1>2, <1>3
<1> QED BY <1>2, <1>4, <1>5 DEF d, e

\* What a step that publishes leaves typed.
Published ==
    /\ RecordsOK(session') /\ late' \in SUBSET Sessions
    /\ GoodConn(conn') /\ InOrder(conn, conn') /\ Len(conn'.urgent) <= Len(conn.urgent) + 2

LEMMA PublishedIsTyped ==
    ASSUME FeedTyped, Published, ~Backlog, AppUnchanged
    PROVE  FeedTyped'
<1>1. Len(conn.urgent) \in Nat /\ Len(conn'.urgent) \in Nat
    BY GoodConnParts DEF FeedTyped, Published
<1>2. MaxHeld \in Nat /\ Len(conn.urgent) < MaxHeld
    BY <1>1, FeedBounds DEF Backlog
<1>3. Len(conn'.urgent) <= MaxHeld + 1
    BY <1>1, <1>2 DEF Published
<1> QED BY <1>3 DEF FeedTyped, Published, AppUnchanged

LEMMA UserMessagePublishes ==
    ASSUME FeedTyped, NEW s \in Sessions, UserMessage(s)
    PROVE  Published
<1> DEFINE r == [working |-> TRUE, saved |-> Said(session[s]), untold |-> 0, segs |-> {}, text |-> {}, turns |-> session[s].turns + 1]
<1>1. session \in [Sessions -> SessionRecord] /\ session[s] \in SessionRecord /\ Said(session[s]) <= MaxPieces
    BY DEF FeedTyped, RecordsOK
<1>2. Said(session[s]) \in 0 .. MaxPieces /\ 0 \in 0 .. MaxPieces /\ MaxMessages \in Nat
    BY <1>1, SaidIsANumber, FeedBounds
<1>3. session' = [session EXCEPT ![s] = r]
    BY DEF UserMessage
<1>4. session[s].turns + 1 \in 0 .. MaxMessages
    BY <1>1, <1>2 DEF UserMessage, SessionRecord
<1>5. r \in SessionRecord
    BY <1>2, <1>4 DEF SessionRecord, Pieces
<1>6. Said(r) <= MaxPieces
  <2>1. r.saved = Said(session[s]) /\ r.untold = 0 /\ r.text = {}
      OBVIOUS
  <2> HIDE DEF r
  <2> QED BY <1>1, <1>5, <2>1, SavedRecord
<1>7. r.segs # {} => r.working
    OBVIOUS
<1> HIDE DEF r
<1>8. RecordsOK(session')
    BY <1>1, <1>3, <1>5, <1>6, <1>7 DEF FeedTyped, RecordsOK
<1>9. /\ GoodConn(conn') /\ InOrder(conn, conn') /\ Len(conn'.urgent) <= Len(conn.urgent) + 2
    BY <1>8, FramesAreTyped, TwoInOrder DEF FeedTyped, UserMessage
<1>10. late' \in SUBSET Sessions
    BY DEF FeedTyped, UserMessage
<1> QED BY <1>8, <1>9, <1>10 DEF Published

\* One frame is sent, and the sessions stay.
LEMMA OneIsPublished ==
    ASSUME FeedTyped, RecordsOK(session'), late' \in SUBSET Sessions, NEW f \in Frame, Publish(f)
    PROVE  Published
<1>1. GoodConn(conn') /\ InOrder(conn, conn') /\ Len(conn'.urgent) <= Len(conn.urgent) + 1
    BY EnqueueInOrder DEF FeedTyped, Publish
<1>2. Len(conn.urgent) \in Nat /\ Len(conn'.urgent) \in Nat
    BY <1>1, GoodConnParts DEF FeedTyped
<1> QED BY <1>1, <1>2 DEF Published

LEMMA SteadyPublishes ==
    ASSUME FeedTyped, NEW s \in Sessions,
           LateHistory(s) \/ AssistantStarts(s) \/ ToolEnds(s)
    PROVE  Published /\ ~Backlog /\ AppUnchanged /\ session' = session
<1>1. PICK f \in Frame : Publish(f)
    BY FramesAreTyped DEF FeedTyped, LateHistory, AssistantStarts, ToolEnds
<1>2. /\ RecordsOK(session') /\ late' \in SUBSET Sessions /\ ~Backlog /\ AppUnchanged /\ session' = session
    BY DEF FeedTyped, LateHistory, AssistantStarts, ToolEnds
<1> QED BY <1>1, <1>2, OneIsPublished

LEMMA TextDeltaPublishes ==
    ASSUME FeedTyped, NEW s \in Sessions, TextDelta(s)
    PROVE  Published
<1> DEFINE x == Said(session[s]) + 1
           r == [session[s] EXCEPT !.text = @ \cup {x}]
<1>1. session \in [Sessions -> SessionRecord] /\ session[s] \in SessionRecord /\ Said(session[s]) < MaxPieces
    BY DEF FeedTyped, RecordsOK, TextDelta
<1>2. /\ IsFiniteSet(session[s].text) /\ Cardinality(session[s].text) \in Nat /\ session[s].text \subseteq Piece
      /\ session[s].saved \in Nat /\ session[s].untold \in Nat /\ Said(session[s]) \in Nat
      /\ Said(session[s]) = session[s].saved + session[s].untold + Cardinality(session[s].text) /\ MaxPieces \in Nat
    BY <1>1, SaidIsANumber, FeedBounds
<1>3. x \in Piece
    BY <1>1, <1>2 DEF Piece
<1>4. session' = [session EXCEPT ![s] = r]
    BY <1>1 DEF TextDelta
<1>5. r \in SessionRecord /\ r.text = session[s].text \cup {x} /\ r.saved = session[s].saved
      /\ r.untold = session[s].untold /\ r.segs = session[s].segs /\ r.working = session[s].working
    BY <1>1, <1>2, <1>3 DEF SessionRecord, Pieces
<1>6. Said(r) <= MaxPieces
  <2> HIDE DEF r, x
  <2>1. Cardinality(session[s].text \cup {x}) = IF x \in session[s].text THEN Cardinality(session[s].text)
                                                ELSE Cardinality(session[s].text) + 1
      BY <1>2, FS_AddElement
  <2>2. Said(r) = session[s].saved + session[s].untold + Cardinality(session[s].text \cup {x})
      BY <1>5, SaidIsANumber
  <2> QED BY <1>1, <1>2, <2>1, <2>2
<1> HIDE DEF r
<1>7. RecordsOK(session')
    BY <1>1, <1>4, <1>5, <1>6 DEF FeedTyped, RecordsOK
<1>8. StreamFrame(session', s) \in Frame /\ late' \in SUBSET Sessions /\ Publish(StreamFrame(session', s))
    BY <1>7, FramesAreTyped DEF FeedTyped, TextDelta
<1> QED BY <1>7, <1>8, OneIsPublished

\* A delta that is not streamed changes how much was said, and nothing that is shown.
LEMMA UntoldDeltaStays ==
    ASSUME FeedTyped, NEW s \in Sessions, UntoldDelta(s)
    PROVE  /\ FeedTyped' /\ conn' = conn /\ AppUnchanged
           /\ \A t \in Sessions : /\ session'[t].working = session[t].working
                                 /\ session'[t].saved = session[t].saved /\ session'[t].segs = session[t].segs
<1> DEFINE r == [session[s] EXCEPT !.untold = @ + 1]
<1>1. session \in [Sessions -> SessionRecord] /\ session[s] \in SessionRecord /\ Said(session[s]) < MaxPieces
    BY DEF FeedTyped, RecordsOK, UntoldDelta
<1>2. /\ Cardinality(session[s].text) \in Nat /\ session[s].saved \in Nat /\ session[s].untold \in Nat
      /\ Said(session[s]) = session[s].saved + session[s].untold + Cardinality(session[s].text) /\ MaxPieces \in Nat
    BY <1>1, SaidIsANumber, FeedBounds
<1>3. session' = [session EXCEPT ![s] = r]
    BY <1>1 DEF UntoldDelta
<1>4. session[s].untold + 1 \in 0 .. MaxPieces
    BY <1>1, <1>2
<1>5. /\ r \in SessionRecord /\ r.text = session[s].text /\ r.saved = session[s].saved
      /\ r.untold = session[s].untold + 1 /\ r.segs = session[s].segs /\ r.working = session[s].working
    BY <1>1, <1>4 DEF SessionRecord
<1> HIDE DEF r
<1>6. Said(r) <= MaxPieces
  <2>1. Said(r) = r.saved + r.untold + Cardinality(r.text)
      BY <1>5, SaidIsANumber
  <2> QED BY <1>1, <1>2, <1>5, <2>1
<1>7. RecordsOK(session')
    BY <1>1, <1>3, <1>5, <1>6 DEF FeedTyped, RecordsOK
<1>8. /\ conn' = conn /\ late' = late /\ AppUnchanged
    BY DEF UntoldDelta
<1>9. FeedTyped'
    BY <1>7, <1>8 DEF FeedTyped, AppUnchanged
<1>10. \A t \in Sessions : /\ session'[t].working = session[t].working
                          /\ session'[t].saved = session[t].saved /\ session'[t].segs = session[t].segs
    BY <1>1, <1>3, <1>5
<1> QED BY <1>8, <1>9, <1>10

LEMMA ToolStartsPublishes ==
    ASSUME FeedTyped, NEW s \in Sessions, ToolStarts(s)
    PROVE  Published
<1> DEFINE r == [session[s] EXCEPT !.segs = @ \cup session[s].text, !.saved = Said(session[s]), !.untold = 0, !.text = {}]
<1>1. session \in [Sessions -> SessionRecord] /\ session[s] \in SessionRecord /\ Said(session[s]) <= MaxPieces
    BY DEF FeedTyped, RecordsOK
<1>2. Said(session[s]) \in 0 .. MaxPieces /\ 0 \in 0 .. MaxPieces
    BY <1>1, SaidIsANumber, FeedBounds
<1>3. session' = [session EXCEPT ![s] = r]
    BY <1>1 DEF ToolStarts
<1>4. r \in SessionRecord /\ r.saved = Said(session[s]) /\ r.untold = 0 /\ r.text = {} /\ r.working
    BY <1>1, <1>2 DEF SessionRecord, Pieces, ToolStarts
<1> HIDE DEF r
<1>5. Said(r) <= MaxPieces
    BY <1>1, <1>4, SavedRecord
<1>6. RecordsOK(session')
    BY <1>1, <1>3, <1>4, <1>5 DEF FeedTyped, RecordsOK
<1>7. StreamFrame(session', s) \in Frame /\ ToolFrame(s) \in Frame /\ late' \in SUBSET Sessions
    BY <1>6, FramesAreTyped DEF FeedTyped, ToolStarts
<1>8. GoodConn(conn') /\ InOrder(conn, conn') /\ Len(conn'.urgent) <= Len(conn.urgent) + 2
  <2>1. CASE session[s].text = {}
    <3>1. Publish(ToolFrame(s))
        BY <2>1 DEF ToolStarts, Publish
    <3> QED BY <1>6, <1>7, <3>1, OneIsPublished DEF Published
  <2>2. CASE session[s].text # {}
    <3>1. conn' = Enqueue(Enqueue(conn, StreamFrame(session', s)), ToolFrame(s))
        BY <2>2 DEF ToolStarts
    <3> QED BY <1>7, <3>1, TwoInOrder DEF FeedTyped
  <2> QED BY <2>1, <2>2
<1> QED BY <1>6, <1>7, <1>8 DEF Published

LEMMA AgentEndsPublishes ==
    ASSUME FeedTyped, NEW s \in Sessions, AgentEnds(s)
    PROVE  Published
<1> DEFINE r == [session[s] EXCEPT !.working = FALSE, !.saved = Said(session[s]), !.untold = 0, !.segs = {}, !.text = {}]
<1>1. session \in [Sessions -> SessionRecord] /\ session[s] \in SessionRecord /\ Said(session[s]) <= MaxPieces
    BY DEF FeedTyped, RecordsOK
<1>2. Said(session[s]) \in 0 .. MaxPieces /\ 0 \in 0 .. MaxPieces
    BY <1>1, SaidIsANumber, FeedBounds
<1>3. session' = [session EXCEPT ![s] = r]
    BY <1>1 DEF AgentEnds
<1>4. r \in SessionRecord /\ r.saved = Said(session[s]) /\ r.untold = 0 /\ r.text = {} /\ r.segs = {}
    BY <1>1, <1>2 DEF SessionRecord, Pieces
<1> HIDE DEF r
<1>5. Said(r) <= MaxPieces
    BY <1>1, <1>4, SavedRecord
<1>6. RecordsOK(session')
    BY <1>1, <1>3, <1>4, <1>5 DEF FeedTyped, RecordsOK
<1> DEFINE f == StateFrame(session')
           g == HistoryFrame(session', s)
           h == StreamFrame(session', s)
           d == Enqueue(Enqueue(conn, f), g)
<1>7. f \in Frame /\ g \in Frame /\ h \in Frame /\ IsStream(h) /\ late' \in SUBSET Sessions
    BY <1>6, FramesAreTyped, FrameKinds DEF FeedTyped, AgentEnds
<1>8. conn' = Enqueue(d, h)
    BY DEF AgentEnds, TurnOver
<1> HIDE DEF f, g, h
<1>9. GoodConn(d) /\ InOrder(conn, d) /\ Len(d.urgent) <= Len(conn.urgent) + 2
    BY <1>7, TwoInOrder DEF FeedTyped
<1> HIDE DEF d
<1>10. GoodConn(conn') /\ InOrder(d, conn') /\ Len(conn'.urgent) <= Len(d.urgent)
    BY <1>7, <1>8, <1>9, EnqueueInOrder
<1>11. Len(conn.urgent) \in Nat /\ Len(conn'.urgent) \in Nat /\ Len(d.urgent) \in Nat
    BY <1>9, <1>10, GoodConnParts DEF FeedTyped
<1>12. InOrder(conn, conn')
    BY <1>9, <1>10, InOrderOnward DEF FeedTyped
<1>13. Len(conn'.urgent) <= Len(conn.urgent) + 2
    BY <1>9, <1>10, <1>11
<1> QED BY <1>6, <1>7, <1>10, <1>12, <1>13 DEF Published

LEMMA FreshIsGood ==
    ASSUME NEW ss, RecordsOK(ss)
    PROVE  /\ GoodConn(FreshConn) /\ FreshConn.up /\ FreshConn.urgent = <<>> /\ FreshConn.wire = <<>>
           /\ GoodConn(Admitted(ss)) /\ Len(Admitted(ss).urgent) <= MaxHeld + 1
           /\ InOrder(FreshConn, Admitted(ss))
<1>1. <<>> \in Seq(DiscreteFrames) /\ <<>> \in Seq(StreamFrames) /\ <<>> \in Seq(Frame) /\ Len(<<>>) = 0 /\ DOMAIN <<>> = {}
    BY EmptySeq
<1>2. Room \in Nat /\ MaxHeld \in Nat
    BY RoomBound, FeedBounds
<1>3. GoodConn(FreshConn) /\ FreshConn.up /\ FreshConn.urgent = <<>> /\ FreshConn.wire = <<>>
    BY <1>1, <1>2 DEF GoodConn, FreshConn, Conns
<1>4. StateFrame(ss) \in Frame
    BY FramesAreTyped
<1>5. GoodConn(Admitted(ss)) /\ InOrder(FreshConn, Admitted(ss)) /\ Len(Admitted(ss).urgent) <= Len(FreshConn.urgent) + 1
    BY <1>3, <1>4, EnqueueInOrder DEF Admitted
<1>6. Len(Admitted(ss).urgent) \in Nat
    BY <1>5, GoodConnParts
<1> QED BY <1>1, <1>2, <1>3, <1>5, <1>6

LEMMA FeedInitTyped == FeedInit => FeedTyped
<1> SUFFICES ASSUME FeedInit PROVE FeedTyped
    OBVIOUS
<1>1. MaxPieces \in Nat /\ MaxMessages \in Nat /\ MaxLinks \in Nat /\ Open \subseteq Sessions
    BY FeedBounds, OpenAreSessions
<1>2. IdleSession \in SessionRecord /\ Blank \in ViewRecord
    BY <1>1 DEF IdleSession, Blank, SessionRecord, ViewRecord, Pieces
<1>3. Said(IdleSession) <= MaxPieces
  <2>1. IdleSession.text = {} /\ IdleSession.untold = 0 /\ IdleSession.saved = 0
      BY DEF IdleSession
  <2>2. Said(IdleSession) = 0
      BY <1>2, <2>1, SaidIsANumber
  <2> QED BY <1>1, <2>2
<1>4. IdleSession.segs = {}
    BY DEF IdleSession
<1>5. session = [s \in Sessions |-> IdleSession]
    BY DEF FeedInit
<1>6. RecordsOK(session)
    BY <1>2, <1>3, <1>4, <1>5 DEF RecordsOK
<1>7. GoodConn(conn) /\ Len(conn.urgent) <= MaxHeld + 1
    BY <1>6, FreshIsGood DEF FeedInit
<1> QED BY <1>1, <1>2, <1>6, <1>7 DEF FeedInit, FeedTyped

\* The app's view keeps its type whatever arrives.
LEMMA PageIsApplied ==
    ASSUME NEW v \in [Sessions -> ViewRecord], NEW s \in Sessions, NEW n \in 0 .. MaxPieces
    PROVE  /\ ApplyHistory(v, s, n) \in [Sessions -> ViewRecord]
           /\ ApplyHistory(v, s, n)[s].hist = n /\ ApplyHistory(v, s, n)[s].working = v[s].working
           /\ ApplyHistory(v, s, n)[s].segs = IF v[s].working THEN v[s].segs ELSE {}
           /\ \A t \in Sessions : t # s => ApplyHistory(v, s, n)[t] = v[t]
<1> DEFINE r == IF v[s].working THEN [v[s] EXCEPT !.hist = n] ELSE [v[s] EXCEPT !.hist = n, !.segs = {}, !.text = {}]
<1>1. v[s] \in ViewRecord
    OBVIOUS
<1>2. r \in ViewRecord /\ r.hist = n /\ r.working = v[s].working /\ r.segs = IF v[s].working THEN v[s].segs ELSE {}
    BY <1>1 DEF ViewRecord, Pieces
<1>3. ApplyHistory(v, s, n) = [v EXCEPT ![s] = r]
    BY DEF ApplyHistory
<1> HIDE DEF r
<1> QED BY <1>2, <1>3

LEMMA StateIsApplied ==
    ASSUME NEW v \in [Sessions -> ViewRecord], NEW f
    PROVE  /\ ApplyState(v, f) \in [Sessions -> ViewRecord]
           /\ \A s \in Sessions : /\ ApplyState(v, f)[s].working = (s \in f.working)
                                  /\ ApplyState(v, f)[s].hist = v[s].hist
                                  /\ ApplyState(v, f)[s].segs = v[s].segs
<1>1. ASSUME NEW s \in Sessions
      PROVE  /\ [v[s] EXCEPT !.working = s \in f.working, !.text = {}] \in ViewRecord
             /\ [v[s] EXCEPT !.working = s \in f.working, !.text = {}].working = (s \in f.working)
             /\ [v[s] EXCEPT !.working = s \in f.working, !.text = {}].hist = v[s].hist
             /\ [v[s] EXCEPT !.working = s \in f.working, !.text = {}].segs = v[s].segs
  <2>1. v[s] \in ViewRecord /\ (s \in f.working) \in BOOLEAN
      OBVIOUS
  <2> QED BY <2>1 DEF ViewRecord, Pieces
<1> QED BY <1>1 DEF ApplyState

LEMMA StreamIsApplied ==
    ASSUME NEW v \in [Sessions -> ViewRecord], NEW f \in StreamFrames
    PROVE  /\ ApplyStream(v, f) \in [Sessions -> ViewRecord]
           /\ ApplyStream(v, f)[f.sid].segs = f.segs
           /\ ApplyStream(v, f)[f.sid].working = v[f.sid].working
           /\ ApplyStream(v, f)[f.sid].hist = v[f.sid].hist
           /\ \A t \in Sessions : t # f.sid => ApplyStream(v, f)[t] = v[t]
<1>1. f.sid \in Sessions /\ f.segs \in Pieces /\ f.text \in Pieces
    BY DEF StreamFrames
<1> DEFINE r == [v[f.sid] EXCEPT !.segs = f.segs, !.text = f.text]
<1>2. v[f.sid] \in ViewRecord
    BY <1>1
<1>3. r \in ViewRecord /\ r.hist = v[f.sid].hist /\ r.working = v[f.sid].working /\ r.segs = f.segs
    BY <1>1, <1>2 DEF ViewRecord
<1>4. ApplyStream(v, f) = [v EXCEPT ![f.sid] = r]
    BY <1>1, <1>2 DEF ApplyStream, ViewRecord
<1> HIDE DEF r
<1> QED BY <1>1, <1>3, <1>4

LEMMA AppliedIsOneOf ==
    ASSUME NEW v, NEW f \in Frame
    PROVE  \/ f \in StateFrames /\ Applied(v, f) = ApplyState(v, f)
           \/ f \in HistoryFrames /\ Applied(v, f) = ApplyHistory(v, f.sid, f.upto)
           \/ f \in ToolFrames /\ Applied(v, f) = v
           \/ f \in StreamFrames /\ Applied(v, f) = ApplyStream(v, f)
BY DEF Frame, StateFrames, HistoryFrames, ToolFrames, StreamFrames, Applied

LEMMA AppliedIsTyped ==
    ASSUME NEW v \in [Sessions -> ViewRecord], NEW f \in Frame
    PROVE  Applied(v, f) \in [Sessions -> ViewRecord]
<1>1. CASE f \in HistoryFrames /\ Applied(v, f) = ApplyHistory(v, f.sid, f.upto)
  <2>1. f.sid \in Sessions /\ f.upto \in 0 .. MaxPieces
      BY <1>1 DEF HistoryFrames
  <2> QED BY <1>1, <2>1, PageIsApplied
<1> QED BY <1>1, AppliedIsOneOf, StateIsApplied, StreamIsApplied

LEMMA TimerTyped == FeedTyped /\ TimerFires => FeedTyped'
<1> SUFFICES ASSUME FeedTyped, TimerFires PROVE FeedTyped'
    OBVIOUS
<1>1. GoodConn(conn') /\ Len(conn'.urgent) <= Len(conn.urgent)
    BY Flushing DEF FeedTyped, TimerFires
<1>2. Len(conn.urgent) \in Nat /\ Len(conn'.urgent) \in Nat /\ MaxHeld \in Nat
    BY <1>1, GoodConnParts, FeedBounds DEF FeedTyped
<1>3. Len(conn'.urgent) <= MaxHeld + 1
    BY <1>1, <1>2 DEF FeedTyped
<1> QED BY <1>1, <1>3 DEF FeedTyped, TimerFires, AppUnchanged

LEMMA StallTyped == FeedTyped /\ StallRunsOut => FeedTyped'
<1> SUFFICES ASSUME FeedTyped, StallRunsOut PROVE FeedTyped'
    OBVIOUS
<1>1. conn \in Conns /\ conn' = [conn EXCEPT !.stall = "overdue"]
    BY DEF FeedTyped, GoodConn, StallRunsOut
<1>2. /\ conn' \in Conns /\ conn'.wire = conn.wire /\ conn'.up = conn.up
      /\ conn'.urgent = conn.urgent /\ conn'.streams = conn.streams
    BY <1>1 DEF Conns
<1>3. GoodConn(conn') /\ Len(conn'.urgent) <= MaxHeld + 1
    BY <1>2 DEF GoodConn, FeedTyped
<1> QED BY <1>3 DEF FeedTyped, StallRunsOut, AppUnchanged

LEMMA ServeTyped == ASSUME NEW s \in Sessions PROVE FeedTyped /\ ServeHistory(s) => FeedTyped' /\ Published
<1> SUFFICES ASSUME FeedTyped, ServeHistory(s) PROVE FeedTyped' /\ Published
    OBVIOUS
<1>1. RecordsOK(session') /\ late' \in SUBSET Sessions /\ late' = late /\ session' = session
    BY DEF FeedTyped, ServeHistory
<1>2. HistoryFrame(session, s) \in Frame /\ Publish(HistoryFrame(session, s)) /\ session[s].saved \in 0 .. MaxPieces
    BY FramesAreTyped DEF FeedTyped, ServeHistory, RecordsOK, SessionRecord
<1>3. Published
    BY <1>1, <1>2, OneIsPublished
<1>4. GoodConn(conn') /\ Len(conn'.urgent) <= Len(conn.urgent) + 2
    BY <1>3 DEF Published
<1>5. Len(conn.urgent) \in Nat /\ Len(conn'.urgent) \in Nat /\ MaxHeld \in Nat
    BY <1>4, GoodConnParts, FeedBounds DEF FeedTyped
<1>6. Len(conn'.urgent) <= MaxHeld + 1
    BY <1>4, <1>5 DEF ServeHistory, Backlog
<1>7. asked' \subseteq Open /\ s \in Open
    BY DEF FeedTyped, ServeHistory
<1>8. reply' \in [Sessions -> 0 .. MaxPieces] /\ \A t \in Sessions : reply'[t] # 0 => t \in Open
    BY <1>2, <1>7 DEF FeedTyped, ServeHistory
<1> QED BY <1>1, <1>3, <1>4, <1>6, <1>7, <1>8 DEF FeedTyped, ServeHistory

\* A frame arrives: the wire, and what is to come, start with it.
LEMMA WireMoves ==
    ASSUME NEW c, GoodConn(c), c.wire # <<>>, NEW d, d = [c EXCEPT !.wire = Tail(@)]
    PROVE  /\ GoodConn(d) /\ Head(c.wire) \in Frame /\ d.wire = Tail(c.wire)
           /\ d.up = c.up /\ d.urgent = c.urgent /\ d.streams = c.streams
           /\ d.dropped = c.dropped /\ d.stall = c.stall
<1>1. c \in Conns /\ c.wire \in Seq(Frame) /\ Room \in Nat /\ Len(c.wire) <= Room
    BY RoomBound DEF GoodConn, Conns
<1>2. Head(c.wire) \in Frame /\ Tail(c.wire) \in Seq(Frame) /\ Len(Tail(c.wire)) = Len(c.wire) - 1 /\ Len(c.wire) \in Nat
    BY <1>1, HeadTailProperties, LenProperties
<1> DEFINE w == Tail(c.wire)
<1>3. d = [c EXCEPT !.wire = w]
    BY <1>1 DEF Conns
<1>4. w \in Seq(Frame) /\ Len(w) <= Room
    BY <1>1, <1>2
<1> HIDE DEF w
<1>5. /\ d \in Conns /\ d.wire = w /\ d.up = c.up /\ d.urgent = c.urgent /\ d.streams = c.streams
      /\ d.dropped = c.dropped /\ d.stall = c.stall
    BY <1>1, <1>3, <1>4 DEF Conns
<1>6. GoodConn(d)
    BY <1>4, <1>5 DEF GoodConn
<1> QED BY <1>2, <1>5, <1>6 DEF w

LEMMA DeliverTyped == FeedTyped /\ Deliver => FeedTyped'
<1> SUFFICES ASSUME FeedTyped, Deliver PROVE FeedTyped'
    OBVIOUS
<1>1. GoodConn(conn') /\ Head(conn.wire) \in Frame /\ conn'.urgent = conn.urgent
    BY WireMoves DEF FeedTyped, Deliver
<1>2. view' \in [Sessions -> ViewRecord]
    BY <1>1, AppliedIsTyped DEF FeedTyped, Deliver
<1>3. asked' \subseteq Open
    BY DEF FeedTyped, Deliver, StoppedWorking
<1> QED BY <1>1, <1>2, <1>3 DEF FeedTyped, Deliver

LEMMA ReplyTyped == ASSUME NEW s \in Sessions PROVE FeedTyped /\ ReplyArrives(s) => FeedTyped'
<1> SUFFICES ASSUME FeedTyped, ReplyArrives(s) PROVE FeedTyped'
    OBVIOUS
<1>1. view \in [Sessions -> ViewRecord] /\ reply[s] \in 0 .. MaxPieces
    BY DEF FeedTyped
<1>2. view' \in [Sessions -> ViewRecord]
    BY <1>1, PageIsApplied DEF ReplyArrives
<1>3. 0 \in 0 .. MaxPieces
    BY FeedBounds
<1>4. reply' \in [Sessions -> 0 .. MaxPieces] /\ \A t \in Sessions : reply'[t] # 0 => t \in Open
    BY <1>3 DEF FeedTyped, ReplyArrives
<1> QED BY <1>2, <1>4 DEF FeedTyped, ReplyArrives

LEMMA BreakIsGood ==
    ASSUME NEW c, GoodConn(c), NEW d, d = [Closed(c) EXCEPT !.wire = <<>>]
    PROVE  GoodConn(d) /\ ~d.up /\ d.urgent = <<>> /\ d.wire = <<>>
<1> DEFINE e == Closed(c)
<1>1. GoodConn(e) /\ ~e.up /\ e.urgent = <<>> /\ e.streams = <<>>
    BY ClosedIsGood
<1>2. d = [e EXCEPT !.wire = <<>>]
    OBVIOUS
<1> HIDE DEF e
<1>3. e \in Conns /\ <<>> \in Seq(Frame) /\ Len(<<>>) = 0 /\ Room \in Nat
    BY <1>1, EmptySeq, RoomBound DEF GoodConn
<1>4. d \in Conns /\ ~d.up /\ d.urgent = <<>> /\ d.wire = <<>> /\ d.streams = e.streams
    BY <1>1, <1>2, <1>3 DEF Conns
<1> QED BY <1>1, <1>3, <1>4 DEF GoodConn

LEMMA BreakTyped == FeedTyped /\ LinkBreaks => FeedTyped'
<1> SUFFICES ASSUME FeedTyped, LinkBreaks PROVE FeedTyped'
    OBVIOUS
<1>1. GoodConn(conn') /\ conn'.urgent = <<>>
    BY BreakIsGood DEF FeedTyped, LinkBreaks
<1>2. Len(conn'.urgent) <= MaxHeld + 1
    BY <1>1, EmptySeq, FeedBounds
<1> QED BY <1>1, <1>2 DEF FeedTyped, LinkBreaks, AppUnchanged

LEMMA RedialTyped == FeedTyped /\ Redial => FeedTyped'
<1> SUFFICES ASSUME FeedTyped, Redial PROVE FeedTyped'
    OBVIOUS
<1>1. RecordsOK(session)
    BY DEF FeedTyped
<1>2. GoodConn(conn') /\ Len(conn'.urgent) <= MaxHeld + 1
    BY <1>1, FreshIsGood DEF Redial
<1>3. links' \in 0 .. MaxLinks
    BY FeedBounds DEF FeedTyped, Redial
<1> QED BY <1>2, <1>3 DEF FeedTyped, Redial

\* What every step of a session publishes.
LEMMA SessionPublishes ==
    ASSUME FeedTyped, NEW s \in Sessions,
           \/ UserMessage(s) \/ LateHistory(s) \/ AssistantStarts(s)
           \/ TextDelta(s) \/ ToolStarts(s) \/ ToolEnds(s) \/ AgentEnds(s)
    PROVE  Published /\ FeedTyped'
<1>1. CASE UserMessage(s)
  <2>1. Published /\ ~Backlog /\ AppUnchanged
      BY <1>1, UserMessagePublishes DEF UserMessage
  <2> QED BY <2>1, PublishedIsTyped
<1>2. CASE LateHistory(s) \/ AssistantStarts(s) \/ ToolEnds(s)
  <2>1. Published /\ ~Backlog /\ AppUnchanged
      BY <1>2, SteadyPublishes
  <2> QED BY <2>1, PublishedIsTyped
<1>3. CASE TextDelta(s)
  <2>1. Published /\ ~Backlog /\ AppUnchanged
      BY <1>3, TextDeltaPublishes DEF TextDelta
  <2> QED BY <2>1, PublishedIsTyped
<1>4. CASE ToolStarts(s)
  <2>1. Published /\ ~Backlog /\ AppUnchanged
      BY <1>4, ToolStartsPublishes DEF ToolStarts
  <2> QED BY <2>1, PublishedIsTyped
<1>5. CASE AgentEnds(s)
  <2>1. Published /\ ~Backlog /\ AppUnchanged
      BY <1>5, AgentEndsPublishes DEF AgentEnds
  <2> QED BY <2>1, PublishedIsTyped
<1> QED BY <1>1, <1>2, <1>3, <1>4, <1>5

LEMMA FeedNextTyped == FeedTyped /\ [FeedNext]_feedVars => FeedTyped'
<1> SUFFICES ASSUME FeedTyped, [FeedNext]_feedVars PROVE FeedTyped'
    OBVIOUS
<1>1. ASSUME NEW s \in Sessions,
             \/ UserMessage(s) \/ LateHistory(s) \/ AssistantStarts(s)
             \/ TextDelta(s) \/ ToolStarts(s) \/ ToolEnds(s) \/ AgentEnds(s)
      PROVE  FeedTyped'
    BY <1>1, SessionPublishes
<1>2. ASSUME NEW s \in Sessions, ServeHistory(s) \/ ReplyArrives(s) PROVE FeedTyped'
    BY <1>2, ServeTyped, ReplyTyped
<1>3. CASE UNCHANGED feedVars
    BY <1>3 DEF feedVars, FeedTyped
<1> QED BY <1>1, <1>2, <1>3, UntoldDeltaStays, TimerTyped, StallTyped, DeliverTyped, BreakTyped, RedialTyped DEF FeedNext

\* Every variable keeps its type.
THEOREM FeedKeepsTypes == FeedSpec => []FeedTyped
BY FeedInitTyped, FeedNextTyped, PTL DEF FeedSpec

THEOREM FeedTypesHold == FeedSpec => []FeedTypeOK
BY FeedKeepsTypes, FeedTypedIsTypeOK, PTL

\* A frame that arrives was the first to come.
LEMMA TailOfJoined ==
    ASSUME NEW s \in Seq(Frame), s # <<>>, NEW t \in Seq(Frame)
    PROVE  /\ s \o t # <<>> /\ Head(s \o t) = Head(s) /\ Tail(s \o t) = Tail(s) \o t
<1> DEFINE h == Head(s)
           r == Tail(s)
           u == s \o t
<1>1. /\ h \in Frame /\ r \in Seq(Frame) /\ Len(s) \in Nat \ {0} /\ Len(r) = Len(s) - 1 /\ h = s[1]
      /\ \A i \in 1 .. Len(r) : r[i] = s[i + 1]
    BY HeadTailProperties, LenProperties, EmptySeq
<1>2. /\ u \in Seq(Frame) /\ Len(u) = Len(s) + Len(t) /\ Len(t) \in Nat
      /\ \A i \in 1 .. Len(s) + Len(t) : u[i] = IF i <= Len(s) THEN s[i] ELSE t[i - Len(s)]
    BY ConcatProperties, LenProperties
<1>3. /\ r \o t \in Seq(Frame) /\ Len(r \o t) = Len(r) + Len(t)
      /\ \A i \in 1 .. Len(r) + Len(t) : (r \o t)[i] = IF i <= Len(r) THEN r[i] ELSE t[i - Len(r)]
    BY <1>1, ConcatProperties
<1> HIDE DEF h, r, u
<1>4. u # <<>> /\ Len(u) > 0
    BY <1>1, <1>2, EmptySeq
<1>5. /\ Head(u) = u[1] /\ Tail(u) \in Seq(Frame) /\ Len(Tail(u)) = Len(u) - 1
      /\ \A i \in 1 .. Len(Tail(u)) : Tail(u)[i] = u[i + 1]
    BY <1>2, <1>4, HeadTailProperties
<1>6. u[1] = s[1]
  <2>1. 1 \in 1 .. Len(s) + Len(t) /\ 1 <= Len(s)
      BY <1>1, <1>2
  <2> QED BY <2>1, <1>2
<1>7. \A i \in 1 .. Len(Tail(u)) : Tail(u)[i] = (r \o t)[i]
  <2> SUFFICES ASSUME NEW i \in 1 .. Len(Tail(u)) PROVE Tail(u)[i] = (r \o t)[i]
      OBVIOUS
  <2>1. i \in 1 .. Len(r) + Len(t) /\ i + 1 \in 1 .. Len(s) + Len(t)
      BY <1>1, <1>2, <1>5
  <2>2. CASE i <= Len(r)
    <3>1. i \in 1 .. Len(r) /\ i + 1 <= Len(s)
        BY <2>1, <2>2, <1>1
    <3> QED BY <2>1, <2>2, <3>1, <1>1, <1>2, <1>3, <1>5
  <2>3. CASE ~(i <= Len(r))
    <3>1. ~(i + 1 <= Len(s)) /\ (i + 1) - Len(s) = i - Len(r)
        BY <2>1, <2>3, <1>1
    <3> QED BY <2>1, <2>3, <3>1, <1>1, <1>2, <1>3, <1>5
  <2> QED BY <2>2, <2>3
<1>8. Len(Tail(u)) = Len(r \o t)
    BY <1>1, <1>2, <1>3, <1>5
<1>9. Tail(u) = r \o t
    BY <1>3, <1>5, <1>7, <1>8, SeqEqual
<1> QED BY <1>1, <1>4, <1>5, <1>6, <1>9 DEF h, r, u

LEMMA ComingMoves ==
    ASSUME NEW c, GoodConn(c), c.wire # <<>>, NEW d, d = [c EXCEPT !.wire = Tail(@)]
    PROVE  /\ Coming(c) \in Seq(Frame) /\ Coming(c) # <<>>
           /\ Head(c.wire) = Head(Coming(c)) /\ Coming(d) = Tail(Coming(c))
<1>1. c.wire \in Seq(Frame) /\ c.urgent \in Seq(Frame) /\ Coming(c) \in Seq(Frame)
    BY GoodConnParts
<1>2. d.wire = Tail(c.wire) /\ d.urgent = c.urgent
    BY WireMoves
<1>3. /\ c.wire \o c.urgent # <<>> /\ Head(c.wire \o c.urgent) = Head(c.wire)
      /\ Tail(c.wire \o c.urgent) = Tail(c.wire) \o c.urgent
    BY <1>1, TailOfJoined
<1> QED BY <1>1, <1>2, <1>3, Zenon DEF Coming

\* What the schedule does to a connection is a step of the ordered feed.
LEMMA InOrderIsAStep ==
    ASSUME GoodConn(conn), GoodConn(conn'), InOrder(conn, conn')
    PROVE  Feed!Next
<1>1. /\ Pending(conn) \in Seq(Frame) /\ Pending(conn') \in Seq(Frame)
      /\ Pending(conn) = Discrete(conn.wire) \o conn.urgent
      /\ Pending(conn') = Discrete(conn'.wire) \o conn'.urgent
    BY PendingIsDiscrete DEF Pending
<1>2. CASE Onward(conn, conn')
  <2>1. conn'.up = conn.up /\ Feed!IsPrefix(Pending(conn), Pending(conn'))
      BY <1>1, <1>2, OpensIsPrefix DEF Onward
  <2> QED BY <1>1, <2>1 DEF Feed!Next, Feed!Broadcast
<1>3. CASE Over(conn, conn')
  <2>1. ~conn'.up /\ Feed!IsPrefix(Pending(conn'), Pending(conn))
      BY <1>1, <1>3, OpensIsPrefix DEF Over
  <2> QED BY <1>1, <2>1 DEF Feed!Next, Feed!Ends
<1> QED BY <1>2, <1>3 DEF InOrder

LEMMA DeliverInOrder ==
    ASSUME FeedTyped, FeedTyped', Deliver
    PROVE  Feed!Next
<1>1. /\ GoodConn(conn) /\ GoodConn(conn') /\ conn.wire # <<>> /\ conn' = [conn EXCEPT !.wire = Tail(@)]
      /\ conn'.up = conn.up
    BY WireMoves DEF FeedTyped, Deliver
<1> DEFINE w == Coming(conn)
<1>2. w \in Seq(Frame) /\ w # <<>> /\ Coming(conn') = Tail(w)
    BY <1>1, ComingMoves
<1>3. /\ Pending(conn) = Discrete(w) /\ Pending(conn') = Discrete(Tail(w)) /\ Pending(conn) \in Seq(Frame)
      /\ Pending(conn) = Discrete(conn.wire) \o conn.urgent
      /\ Pending(conn') = Discrete(conn'.wire) \o conn'.urgent
    BY <1>1, <1>2, PendingIsDiscrete DEF Pending
<1> HIDE DEF w
<1>4. CASE IsStream(Head(w))
  <2>1. Pending(conn') = Pending(conn)
      BY <1>2, <1>3, <1>4, DiscreteOfTail
  <2>2. Feed!IsPrefix(Pending(conn), Pending(conn'))
      BY <1>3, <2>1, OpensItself, OpensIsPrefix
  <2> QED BY <1>1, <1>3, <2>2 DEF Feed!Next, Feed!Broadcast
<1>5. CASE ~IsStream(Head(w))
  <2>1. Pending(conn) # <<>> /\ Pending(conn') = Tail(Pending(conn))
      BY <1>2, <1>3, <1>5, DiscreteOfTail
  <2> QED BY <1>1, <1>3, <2>1 DEF Feed!Next, Feed!Arrives
<1> QED BY <1>4, <1>5

LEMMA FeedStepInOrder ==
    FeedTyped /\ FeedTyped' /\ [FeedNext]_feedVars
        => [Feed!Next]_<<Discrete(conn.wire) \o conn.urgent, conn.up>>
<1> DEFINE Kept == UNCHANGED <<Discrete(conn.wire) \o conn.urgent, conn.up>>
<1> SUFFICES ASSUME FeedTyped, FeedTyped', [FeedNext]_feedVars PROVE Feed!Next \/ Kept
    OBVIOUS
<1>1. GoodConn(conn) /\ GoodConn(conn')
    BY DEF FeedTyped
<1>2. ASSUME NEW s \in Sessions,
             \/ UserMessage(s) \/ LateHistory(s) \/ AssistantStarts(s)
             \/ TextDelta(s) \/ ToolStarts(s) \/ ToolEnds(s) \/ AgentEnds(s) \/ ServeHistory(s)
      PROVE  Feed!Next
  <2>1. Published
      BY <1>2, SessionPublishes, ServeTyped
  <2> QED BY <1>1, <2>1, InOrderIsAStep DEF Published
<1>3. ASSUME NEW s \in Sessions, ReplyArrives(s) \/ UntoldDelta(s) PROVE Kept
    BY <1>3 DEF ReplyArrives, UntoldDelta
<1>4. CASE TimerFires
  <2>1. InOrder(conn, conn')
      BY <1>1, <1>4, FlushInOrder DEF TimerFires
  <2> QED BY <1>1, <2>1, InOrderIsAStep
<1>5. CASE StallRunsOut
  <2>1. conn \in Conns /\ conn' = [conn EXCEPT !.stall = "overdue"]
      BY <1>1, <1>5 DEF StallRunsOut, GoodConn
  <2>2. conn'.wire = conn.wire /\ conn'.urgent = conn.urgent /\ conn'.up = conn.up
      BY <2>1 DEF Conns
  <2> QED BY <2>2
<1>6. CASE LinkBreaks
  <2>1. ~conn'.up /\ conn'.urgent = <<>> /\ conn'.wire = <<>>
      BY <1>1, <1>6, BreakIsGood DEF LinkBreaks
  <2>2. Discrete(conn'.wire) \o conn'.urgent = <<>>
    <3>1. <<>> \in Seq(Frame) /\ <<>> \o <<>> = <<>>
        BY EmptySeq, ConcatEmptySeq
    <3> QED BY <2>1, <3>1, DiscreteOfNothing
  <2>3. Pending(conn) \in Seq(Frame) /\ <<>> \in Seq(Frame) /\ <<>> \o Pending(conn) = Pending(conn)
      BY <1>1, PendingIsDiscrete, EmptySeq, ConcatEmptySeq
  <2>4. Feed!IsPrefix(<<>>, Pending(conn))
      BY <2>3, OpensIsPrefix DEF Opens
  <2> QED BY <2>1, <2>2, <2>4 DEF Feed!Next, Feed!Ends, Pending
<1>7. CASE Redial
  <2>1. RecordsOK(session)
      BY DEF FeedTyped
  <2>2. InOrder(FreshConn, conn') /\ FreshConn.up /\ FreshConn.stall = "none"
      BY <1>7, <2>1, FreshIsGood DEF Redial, FreshConn
  <2>3. conn'.up /\ ~conn.up
      BY <1>7, <2>2 DEF InOrder, Onward, Over, Redial
  <2> QED BY <2>3 DEF Feed!Next, Feed!Begins
<1>8. CASE UNCHANGED feedVars
    BY <1>8 DEF feedVars
<1> QED BY <1>2, <1>3, <1>4, <1>5, <1>6, <1>7, <1>8, DeliverInOrder DEF FeedNext

\* Discrete frames are never reordered, lost or repeated by the schedule.
THEOREM FeedKeepsOrder == FeedSpec => FeedInOrder
BY FeedKeepsTypes, FeedStepInOrder, PTL DEF FeedSpec, FeedInOrder, Feed!Spec

-----------------------------------------------------------------------------
(* What is on its way to the app.                                          *)

\* The newest frame of a set K among those to come, or none of them.
NoneOf(W, K) == \A j \in 1 .. Len(W) : W[j] \notin K
NewestOf(W, K, i) ==
    /\ i \in 1 .. Len(W) /\ W[i] \in K
    /\ \A j \in 1 .. Len(W) : j > i => W[j] \notin K

PagesOf(s)   == {f \in HistoryFrames : f.sid = s}
StreamsOf(s) == {f \in StreamFrames : f.sid = s}

\* The newest status to come, or the one shown, is the host's.
StatusComes(ss, W, v) ==
    \/ \E i \in 1 .. Len(W) : NewestOf(W, StateFrames, i) /\ W[i] = StateFrame(ss)
    \/ NoneOf(W, StateFrames) /\ \A s \in Sessions : v[s].working = ss[s].working

\* So is the newest page of the session.
PageComes(ss, W, v, s) ==
    \/ \E i \in 1 .. Len(W) : NewestOf(W, PagesOf(s), i) /\ W[i] = HistoryFrame(ss, s)
    \/ NoneOf(W, PagesOf(s)) /\ v[s].hist = ss[s].saved

\* The app sees the session at work before it sees it stop.
WorkSeen(W, v, s) ==
    v[s].working \/ \E i \in 1 .. Len(W) : W[i] \in StateFrames /\ s \in W[i].working

\* The transcript of a session that stopped: it is asked for, or will be when
\* the app sees it stop, or no older one than the newest is on its way.
HistoryComes(ss, W, v, q, r, s) ==
    ~ss[s].working => \/ s \in q
                      \/ s \in Open /\ WorkSeen(W, v, s)
                      \/ r[s] \in {0, ss[s].saved} /\ PageComes(ss, W, v, s)

\* From the kth frame on (from now on, when k is 0) the app shows it at work.
WorkingSince(W, v, s, k) ==
    /\ k = 0 => v[s].working
    /\ k # 0 => k \in 1 .. Len(W) /\ W[k] \in StateFrames /\ s \in W[k].working
    /\ \A j \in 1 .. Len(W) : j > k /\ W[j] \in StateFrames => s \in W[j].working

WorkingBy(ss, W, v, s, i) == ss[s].segs # {} => \E k \in 0 .. i : WorkingSince(W, v, s, k)

\* What was said before the tool calls: the newest of it was dropped, waits in
\* the box, is on the wire or is shown; and a page that finds the session idle
\* cannot wipe it, for it is shown at work by then.
SegsCome(ss, c, W, v, s) ==
    \/ s \in c.dropped
    \/ s \in SidsOf(c.streams)
    \/ \E i \in 1 .. Len(W) : /\ NewestOf(W, StreamsOf(s), i) /\ W[i].segs = ss[s].segs
                              /\ WorkingBy(ss, W, v, s, i)
    \/ NoneOf(W, StreamsOf(s)) /\ v[s].segs = ss[s].segs /\ WorkingBy(ss, W, v, s, 0)

BoxIsNewest(ss, c, s) ==
    \A i \in 1 .. Len(c.streams) : c.streams[i].sid = s => c.streams[i].segs = ss[s].segs

\* The sets are apart.
LEMMA FramesApart ==
    /\ \A f \in StreamFrames : f \notin StateFrames /\ \A s : f \notin PagesOf(s)
    /\ \A f \in DiscreteFrames : \A s : f \notin StreamsOf(s)
    /\ \A f \in StateFrames : \A s : f \notin PagesOf(s)
    /\ \A f \in HistoryFrames : f \notin StateFrames /\ f \in PagesOf(f.sid) /\ \A s : s # f.sid => f \notin PagesOf(s)
    /\ \A f \in ToolFrames : f \notin StateFrames /\ \A s : f \notin PagesOf(s)
    /\ \A f \in StreamFrames : f \in StreamsOf(f.sid) /\ \A s : s # f.sid => f \notin StreamsOf(s)
BY DEF DiscreteFrames, StateFrames, HistoryFrames, ToolFrames, StreamFrames, PagesOf, StreamsOf

-----------------------------------------------------------------------------
(* More frames are on their way.                                           *)

LEMMA JoinedAt ==
    ASSUME NEW W \in Seq(Frame), NEW a \in Seq(Frame)
    PROVE  /\ W \o a \in Seq(Frame) /\ Len(W \o a) = Len(W) + Len(a) /\ Len(W) \in Nat /\ Len(a) \in Nat
           /\ \A i \in 1 .. Len(W) : i \in 1 .. Len(W \o a) /\ (W \o a)[i] = W[i]
           /\ \A i \in 1 .. Len(a) : Len(W) + i \in 1 .. Len(W \o a) /\ (W \o a)[Len(W) + i] = a[i]
           /\ \A j \in 1 .. Len(W \o a) : j \in 1 .. Len(W) \/ \E i \in 1 .. Len(a) : j = Len(W) + i
<1>1. /\ W \o a \in Seq(Frame) /\ Len(W \o a) = Len(W) + Len(a) /\ Len(W) \in Nat /\ Len(a) \in Nat
      /\ \A i \in 1 .. Len(W) + Len(a) : (W \o a)[i] = IF i <= Len(W) THEN W[i] ELSE a[i - Len(W)]
    BY ConcatProperties, LenProperties
<1> DEFINE X == W \o a
<1> HIDE DEF X
<1>2. /\ Len(X) = Len(W) + Len(a) /\ Len(W) \in Nat /\ Len(a) \in Nat
      /\ \A i \in 1 .. Len(W) + Len(a) : X[i] = IF i <= Len(W) THEN W[i] ELSE a[i - Len(W)]
    BY <1>1 DEF X
<1>3. \A i \in 1 .. Len(W) : i \in 1 .. Len(X) /\ X[i] = W[i]
    BY <1>2
<1>4. ASSUME NEW i \in 1 .. Len(a) PROVE Len(W) + i \in 1 .. Len(X) /\ X[Len(W) + i] = a[i]
  <2>1. Len(W) + i \in 1 .. Len(W) + Len(a) /\ ~(Len(W) + i <= Len(W)) /\ (Len(W) + i) - Len(W) = i
      BY <1>2
  <2> QED BY <2>1, <1>2
<1>5. ASSUME NEW j \in 1 .. Len(X), j \notin 1 .. Len(W) PROVE \E i \in 1 .. Len(a) : j = Len(W) + i
  <2>1. j - Len(W) \in 1 .. Len(a) /\ j = Len(W) + (j - Len(W))
      BY <1>2, <1>5
  <2> QED BY <2>1
<1> QED BY <1>1, <1>3, <1>4, <1>5 DEF X

\* Frames of another kind behind it leave the newest of K the newest.
LEMMA OthersBehind ==
    ASSUME NEW W \in Seq(Frame), NEW a \in Seq(Frame), NEW K, NoneOf(a, K)
    PROVE  /\ NoneOf(W, K) => NoneOf(W \o a, K)
           /\ \A i : NewestOf(W, K, i) => NewestOf(W \o a, K, i) /\ (W \o a)[i] = W[i]
<1> DEFINE X == W \o a
<1>1. /\ Len(W) \in Nat /\ Len(a) \in Nat /\ Len(X) \in Nat
      /\ \A i \in 1 .. Len(W) : i \in 1 .. Len(X) /\ X[i] = W[i]
      /\ \A i \in 1 .. Len(a) : Len(W) + i \in 1 .. Len(X) /\ X[Len(W) + i] = a[i]
      /\ \A j \in 1 .. Len(X) : j \in 1 .. Len(W) \/ \E i \in 1 .. Len(a) : j = Len(W) + i
    BY JoinedAt, LenProperties
<1> HIDE DEF X
<1>2. \A j \in 1 .. Len(X) : j \in 1 .. Len(W) \/ X[j] \notin K
    BY <1>1 DEF NoneOf
<1>3. NoneOf(W, K) => NoneOf(X, K)
    BY <1>1, <1>2 DEF NoneOf
<1>4. \A i : NewestOf(W, K, i) => NewestOf(X, K, i) /\ X[i] = W[i]
    BY <1>1, <1>2 DEF NewestOf
<1> QED BY <1>3, <1>4 DEF X

\* A frame of K behind it all is the newest.
LEMMA NewestBehind ==
    ASSUME NEW W \in Seq(Frame), NEW a \in Seq(Frame), NEW K, NEW i \in 1 .. Len(a), NewestOf(a, K, i)
    PROVE  NewestOf(W \o a, K, Len(W) + i) /\ (W \o a)[Len(W) + i] = a[i] /\ Len(W) + i \in 1 .. Len(W \o a)
<1> DEFINE X == W \o a
<1>1. /\ Len(W) \in Nat /\ Len(a) \in Nat /\ Len(X) \in Nat
      /\ \A j \in 1 .. Len(a) : Len(W) + j \in 1 .. Len(X) /\ X[Len(W) + j] = a[j]
      /\ \A j \in 1 .. Len(X) : j \in 1 .. Len(W) \/ \E k \in 1 .. Len(a) : j = Len(W) + k
    BY JoinedAt, LenProperties
<1> HIDE DEF X
<1>2. Len(W) + i \in 1 .. Len(X) /\ X[Len(W) + i] = a[i] /\ a[i] \in K
    BY <1>1 DEF NewestOf
<1>3. ASSUME NEW j \in 1 .. Len(X), j > Len(W) + i PROVE X[j] \notin K
  <2>1. PICK k \in 1 .. Len(a) : j = Len(W) + k
      BY <1>1, <1>3
  <2>2. k > i
      BY <1>1, <1>3, <2>1
  <2> QED BY <1>1, <2>1, <2>2 DEF NewestOf
<1> QED BY <1>2, <1>3 DEF NewestOf, X

LEMMA OneBehind ==
    ASSUME NEW f \in Frame, NEW K
    PROVE  /\ <<f>> \in Seq(Frame) /\ Len(<<f>>) = 1 /\ <<f>>[1] = f
           /\ f \in K => NewestOf(<<f>>, K, 1)
           /\ f \notin K => NoneOf(<<f>>, K)
BY DEF NewestOf, NoneOf

LEMMA StreamsBehind ==
    ASSUME NEW a \in Seq(StreamFrames)
    PROVE  a \in Seq(Frame) /\ NoneOf(a, StateFrames) /\ \A s : NoneOf(a, PagesOf(s))
<1>1. a \in Seq(Frame)
    BY FrameKinds, SeqMonotonic
<1>2. \A j \in 1 .. Len(a) : a[j] \in StreamFrames
    BY LenProperties
<1> QED BY <1>1, <1>2, FramesApart DEF NoneOf

LEMMA StatusGrows ==
    ASSUME NEW ss, NEW v, NEW W \in Seq(Frame), NEW a \in Seq(Frame), NoneOf(a, StateFrames),
           StatusComes(ss, W, v)
    PROVE  StatusComes(ss, W \o a, v)
<1>1. \A i : NewestOf(W, StateFrames, i) => NewestOf(W \o a, StateFrames, i) /\ (W \o a)[i] = W[i] /\ i \in 1 .. Len(W \o a)
    BY OthersBehind DEF NewestOf
<1> QED BY <1>1, OthersBehind DEF StatusComes

LEMMA StatusIsSent ==
    ASSUME NEW ss, RecordsOK(ss), NEW v, NEW W \in Seq(Frame)
    PROVE  StatusComes(ss, W \o <<StateFrame(ss)>>, v)
<1> DEFINE f == StateFrame(ss)
<1>1. f \in Frame /\ f \in StateFrames
    BY FramesAreTyped DEF StateFrame, StateFrames
<1> HIDE DEF f
<1>2. <<f>> \in Seq(Frame) /\ Len(<<f>>) = 1 /\ <<f>>[1] = f /\ NewestOf(<<f>>, StateFrames, 1) /\ 1 \in 1 .. Len(<<f>>)
    BY <1>1, OneBehind
<1>3. NewestOf(W \o <<f>>, StateFrames, Len(W) + 1) /\ (W \o <<f>>)[Len(W) + 1] = f /\ Len(W) + 1 \in 1 .. Len(W \o <<f>>)
    BY <1>2, NewestBehind
<1> QED BY <1>3 DEF StatusComes, f

LEMMA SeenGrows ==
    ASSUME NEW v, NEW s, NEW W \in Seq(Frame), NEW a \in Seq(Frame), WorkSeen(W, v, s)
    PROVE  WorkSeen(W \o a, v, s)
BY JoinedAt DEF WorkSeen

LEMMA PageGrows ==
    ASSUME NEW ss, NEW v, NEW s, NEW W \in Seq(Frame), NEW a \in Seq(Frame), NoneOf(a, PagesOf(s)),
           PageComes(ss, W, v, s)
    PROVE  PageComes(ss, W \o a, v, s)
<1>1. \A i : NewestOf(W, PagesOf(s), i) => NewestOf(W \o a, PagesOf(s), i) /\ (W \o a)[i] = W[i] /\ i \in 1 .. Len(W \o a)
    BY OthersBehind DEF NewestOf
<1> QED BY <1>1, OthersBehind DEF PageComes

LEMMA PageIsSent ==
    ASSUME NEW ss, RecordsOK(ss), NEW v, NEW s \in Sessions, NEW W \in Seq(Frame)
    PROVE  PageComes(ss, W \o <<HistoryFrame(ss, s)>>, v, s)
<1> DEFINE f == HistoryFrame(ss, s)
           K == PagesOf(s)
<1>1. f \in Frame /\ f \in K
  <2>1. ss[s].saved \in 0 .. MaxPieces
      BY DEF RecordsOK, SessionRecord
  <2> QED BY <2>1, FramesAreTyped DEF HistoryFrame, HistoryFrames, PagesOf
<1> HIDE DEF f, K
<1>2. <<f>> \in Seq(Frame) /\ Len(<<f>>) = 1 /\ <<f>>[1] = f /\ NewestOf(<<f>>, K, 1) /\ 1 \in 1 .. Len(<<f>>)
    BY <1>1, OneBehind
<1>3. NewestOf(W \o <<f>>, K, Len(W) + 1) /\ (W \o <<f>>)[Len(W) + 1] = f /\ Len(W) + 1 \in 1 .. Len(W \o <<f>>)
    BY <1>2, NewestBehind
<1> QED BY <1>3 DEF PageComes, f, K

LEMMA HistoryGrows ==
    ASSUME NEW ss, NEW v, NEW q, NEW r, NEW s, NEW W \in Seq(Frame), NEW a \in Seq(Frame), NoneOf(a, PagesOf(s)),
           HistoryComes(ss, W, v, q, r, s)
    PROVE  HistoryComes(ss, W \o a, v, q, r, s)
BY SeenGrows, PageGrows DEF HistoryComes

LEMMA SinceGrows ==
    ASSUME NEW v, NEW s, NEW k, NEW W \in Seq(Frame), NEW a \in Seq(Frame),
           \A j \in 1 .. Len(a) : a[j] \in StateFrames => s \in a[j].working,
           WorkingSince(W, v, s, k)
    PROVE  WorkingSince(W \o a, v, s, k)
<1> DEFINE X == W \o a
<1>1. /\ \A i \in 1 .. Len(W) : i \in 1 .. Len(X) /\ X[i] = W[i]
      /\ \A i \in 1 .. Len(a) : X[Len(W) + i] = a[i]
      /\ \A j \in 1 .. Len(X) : j \in 1 .. Len(W) \/ \E i \in 1 .. Len(a) : j = Len(W) + i
    BY JoinedAt
<1> HIDE DEF X
<1>2. \A j \in 1 .. Len(X) : j \in 1 .. Len(W) \/ (X[j] \in StateFrames => s \in X[j].working)
    BY <1>1
<1>3. \A j \in 1 .. Len(X) : j > k /\ X[j] \in StateFrames => s \in X[j].working
    BY <1>1, <1>2 DEF WorkingSince
<1>4. k # 0 => k \in 1 .. Len(X) /\ X[k] \in StateFrames /\ s \in X[k].working
    BY <1>1 DEF WorkingSince
<1>5. k = 0 => v[s].working
    BY DEF WorkingSince
<1>6. WorkingSince(X, v, s, k)
    BY <1>3, <1>4, <1>5 DEF WorkingSince
<1> QED BY <1>6 DEF X

LEMMA SegsGrow ==
    ASSUME NEW ss, NEW c, NEW v, NEW s, NEW W \in Seq(Frame), NEW a \in Seq(Frame), NoneOf(a, StreamsOf(s)),
           ss[s].segs # {} => \A j \in 1 .. Len(a) : a[j] \in StateFrames => s \in a[j].working,
           SegsCome(ss, c, W, v, s)
    PROVE  SegsCome(ss, c, W \o a, v, s)
<1>1. \A i : WorkingBy(ss, W, v, s, i) => WorkingBy(ss, W \o a, v, s, i)
    BY SinceGrows DEF WorkingBy
<1>2. \A i : NewestOf(W, StreamsOf(s), i) => NewestOf(W \o a, StreamsOf(s), i) /\ (W \o a)[i] = W[i] /\ i \in 1 .. Len(W \o a)
    BY OthersBehind DEF NewestOf
<1>3. NoneOf(W, StreamsOf(s)) => NoneOf(W \o a, StreamsOf(s))
    BY OthersBehind
<1> QED BY <1>1, <1>2, <1>3 DEF SegsCome

-----------------------------------------------------------------------------
(* What the schedule's calls keep of it.                                   *)

LEMMA WorkComes ==
    ASSUME NEW ss, NEW v, NEW W \in Seq(Frame), StatusComes(ss, W, v), NEW s \in Sessions, ss[s].working
    PROVE  \E k \in 0 .. Len(W) : WorkingSince(W, v, s, k)
<1>1. Len(W) \in Nat
    BY LenProperties
<1>2. CASE \E i \in 1 .. Len(W) : NewestOf(W, StateFrames, i) /\ W[i] = StateFrame(ss)
  <2>1. PICK i \in 1 .. Len(W) : NewestOf(W, StateFrames, i) /\ W[i] = StateFrame(ss)
      BY <1>2
  <2>2. s \in W[i].working
      BY <2>1 DEF StateFrame
  <2>3. WorkingSince(W, v, s, i)
      BY <1>1, <2>1, <2>2 DEF WorkingSince, NewestOf
  <2> QED BY <1>1, <2>3
<1>3. CASE NoneOf(W, StateFrames) /\ \A t \in Sessions : v[t].working = ss[t].working
  <2>1. WorkingSince(W, v, s, 0)
      BY <1>3 DEF WorkingSince, NoneOf
  <2> QED BY <1>1, <2>1
<1> QED BY <1>2, <1>3 DEF StatusComes

\* The stream frames of a box that are written.
LEMMA BoxParts ==
    ASSUME NEW c, GoodConn(c), NEW m \in 0 .. Len(c.streams)
    PROVE  LET a == First(c.streams, m)
           IN  /\ a \in Seq(StreamFrames) /\ a \in Seq(Frame) /\ Len(a) = m
               /\ \A i \in 1 .. m : i \in 1 .. Len(c.streams) /\ a[i] = c.streams[i]
               /\ \A i \in 1 .. Len(c.streams) : c.streams[i] \in StreamFrames
               /\ DOMAIN c.streams = 1 .. Len(c.streams) /\ Len(c.streams) \in Nat
               /\ \A s \in SidsOf(c.streams) :
                     s \in SidsOf(a) \/ s \in SidsOf(After(c.streams, m + 1))
                     \/ s \in {c.streams[i].sid : i \in {m + 1} \cap DOMAIN c.streams}
               /\ \A i \in 1 .. Len(After(c.streams, m + 1)) :
                     \E j \in 1 .. Len(c.streams) : After(c.streams, m + 1)[i] = c.streams[j]
<1> DEFINE q == c.streams
           a == First(q, m)
           b == After(q, m + 1)
<1>1. q \in Seq(StreamFrames) /\ Len(q) \in Nat
    BY GoodConnParts
<1>2. DOMAIN q = 1 .. Len(q) /\ \A i \in 1 .. Len(q) : q[i] \in StreamFrames
    BY <1>1, LenProperties
<1>3. a \in Seq(StreamFrames) /\ Len(a) = m /\ \A i \in 1 .. m : a[i] = q[i]
    BY <1>1, CutInTwoParts, Zenon
<1>4. a \in Seq(Frame)
    BY <1>3, FrameKinds, SeqMonotonic
<1>5. CASE m < Len(q)
  <2>1. m + 1 \in 0 .. Len(q)
      BY <1>1, <1>5
  <2>2. b \in Seq(StreamFrames) /\ Len(b) = Len(q) - (m + 1) /\ \A i \in 1 .. Len(q) - (m + 1) : b[i] = q[(m + 1) + i]
      BY <1>1, <2>1, CutInTwoParts, Zenon
  <2>3. DOMAIN a = 1 .. m /\ DOMAIN b = 1 .. Len(b)
      BY <1>3, <2>2, LenProperties
  <2> HIDE DEF a, b, q
  <2>4. ASSUME NEW i \in 1 .. Len(b) PROVE \E j \in 1 .. Len(q) : b[i] = q[j]
    <3>1. (m + 1) + i \in 1 .. Len(q) /\ b[i] = q[(m + 1) + i]
        BY <1>1, <2>2
    <3> QED BY <3>1
  <2>5. ASSUME NEW i \in 1 .. Len(q)
        PROVE  \/ i \in 1 .. m
               \/ i = m + 1
               \/ i - (m + 1) \in 1 .. Len(b) /\ b[i - (m + 1)] = q[i]
    <3>1. CASE i > m + 1
      <4>1. i - (m + 1) \in 1 .. Len(q) - (m + 1) /\ (m + 1) + (i - (m + 1)) = i
          BY <1>1, <3>1
      <4> QED BY <4>1, <2>2
    <3>2. CASE ~(i > m + 1)
        BY <1>1, <3>2
    <3> QED BY <3>1, <3>2
  <2>6. \A s \in SidsOf(q) : s \in SidsOf(a) \/ s \in SidsOf(b) \/ s \in {q[i].sid : i \in {m + 1} \cap DOMAIN q}
      BY <1>2, <1>3, <2>3, <2>5 DEF SidsOf
  <2>7. \A i \in 1 .. m : i \in 1 .. Len(q)
      BY <1>1, <1>5
  <2> QED BY <1>1, <1>2, <1>3, <1>4, <2>4, <2>6, <2>7 DEF a, b, q
<1>6. CASE ~(m < Len(q))
  <2>0. m = Len(q)
      BY <1>1, <1>6
  <2>1. a = q
      BY <2>0, <1>1, SubSeqFull DEF First
  <2>2. b = <<>>
      BY <1>1, <2>0, SubSeqEmpty DEF After
  <2> HIDE DEF a, b, q
  <2>3. Len(b) = 0
      BY <2>2
  <2> QED BY <1>1, <1>2, <1>3, <1>4, <2>0, <2>1, <2>3 DEF a, b, q
<1> QED BY <1>5, <1>6

LEMMA BoxStays ==
    ASSUME NEW c, GoodConn(c), c.up, NEW ss, NEW s, BoxIsNewest(ss, c, s)
    PROVE  BoxIsNewest(ss, FlushOutbound(c), s)
<1> DEFINE d == FlushOutbound(c)
<1>1. \/ Ends(c, d)
      \/ Holds(c, d)
      \/ \E m \in 0 .. Len(c.streams) : Writes(c, d, m)
    BY Flushing
<1> HIDE DEF d
<1>2. CASE Ends(c, d)
  <2>1. Len(d.streams) = 0
      BY <1>2, ClosedIsGood DEF Ends
  <2> QED BY <2>1 DEF BoxIsNewest, d
<1>3. CASE Holds(c, d)
    BY <1>3 DEF BoxIsNewest, Holds, d
<1>4. CASE \E m \in 0 .. Len(c.streams) : Writes(c, d, m)
  <2>1. PICK m \in 0 .. Len(c.streams) : Writes(c, d, m)
      BY <1>4
  <2>2. \A i \in 1 .. Len(After(c.streams, m + 1)) :
            \E j \in 1 .. Len(c.streams) : After(c.streams, m + 1)[i] = c.streams[j]
      BY BoxParts
  <2>3. d.streams = After(c.streams, m + 1)
      BY <2>1 DEF Writes
  <2> DEFINE b == After(c.streams, m + 1)
  <2> HIDE DEF b
  <2>4. (\A i \in 1 .. Len(b) : \E j \in 1 .. Len(c.streams) : b[i] = c.streams[j]) /\ d.streams = b
      BY <2>2, <2>3 DEF b
  <2>5. BoxIsNewest(ss, d, s)
      BY <2>4 DEF BoxIsNewest
  <2> QED BY <2>5 DEF d
<1> QED BY <1>1, <1>2, <1>3, <1>4

\* Stream frames that are written bring the newest, at a time when the session
\* is shown at work if it has any.
LEMMA SegsAreWritten ==
    ASSUME NEW c, GoodConn(c), NEW d, NEW m \in 0 .. Len(c.streams), Writes(c, d, m),
           NEW ss, RecordsOK(ss), NEW v, NEW s \in Sessions,
           BoxIsNewest(ss, c, s), StatusComes(ss, Coming(c), v), SegsCome(ss, c, Coming(c), v, s)
    PROVE  SegsCome(ss, d, Coming(d), v, s)
<1> DEFINE W == Coming(c)
           q == c.streams
           a == First(q, m)
           b == After(q, m + 1)
           l == {q[i].sid : i \in {m + 1} \cap DOMAIN q}
<1>1. W \in Seq(Frame) /\ Len(W) \in Nat
    BY GoodConnParts, LenProperties
<1>2. /\ a \in Seq(StreamFrames) /\ a \in Seq(Frame) /\ Len(a) = m
      /\ \A i \in 1 .. m : i \in 1 .. Len(q) /\ a[i] = q[i]
      /\ \A i \in 1 .. Len(q) : q[i] \in StreamFrames
      /\ DOMAIN q = 1 .. Len(q) /\ Len(q) \in Nat
      /\ \A t \in SidsOf(q) : t \in SidsOf(a) \/ t \in SidsOf(b) \/ t \in l
    BY BoxParts
<1>3. Coming(d) = W \o a /\ d.streams = b /\ d.dropped = (c.dropped \ SidsOf(a)) \cup l
    BY DEF Writes
<1>4. \A i, j \in DOMAIN q : q[i].sid = q[j].sid => i = j
    BY DEF GoodConn
<1>5. BoxIsNewest(ss, c, s) /\ StatusComes(ss, W, v) /\ SegsCome(ss, c, W, v, s)
    OBVIOUS
<1>5a. \A i \in 1 .. Len(q) : q[i].sid = s => q[i].segs = ss[s].segs
    BY DEF BoxIsNewest
<1>5b. s \in SidsOf(c.streams) <=> s \in SidsOf(q)
    OBVIOUS
<1> HIDE DEF W, q, a, b, l
<1>6. NoneOf(a, StateFrames) /\ \A j \in 1 .. Len(a) : a[j] \in StateFrames => s \in a[j].working
    BY <1>2, StreamsBehind DEF NoneOf
<1>7. CASE s \in SidsOf(a)
  <2>1. PICK p \in DOMAIN a : a[p].sid = s
      BY <1>7 DEF SidsOf
  <2>2. p \in 1 .. m /\ DOMAIN a = 1 .. m
      BY <1>2, LenProperties
  <2>3. a[p] = q[p] /\ a[p].segs = ss[s].segs /\ a[p] \in StreamsOf(s)
      BY <1>2, <1>5a, <2>1, <2>2 DEF StreamsOf
  <2>4. \A j \in 1 .. m : a[j] \in StreamsOf(s) => j = p
      BY <1>2, <1>4, <2>1, <2>2 DEF StreamsOf
  <2>5. NewestOf(a, StreamsOf(s), p)
      BY <1>2, <2>2, <2>3, <2>4 DEF NewestOf
  <2>6. /\ NewestOf(W \o a, StreamsOf(s), Len(W) + p) /\ (W \o a)[Len(W) + p].segs = ss[s].segs
        /\ Len(W) + p \in 1 .. Len(W \o a)
      BY <1>1, <1>2, <2>2, <2>3, <2>5, NewestBehind
  <2>7. WorkingBy(ss, W \o a, v, s, Len(W) + p)
    <3> SUFFICES ASSUME ss[s].segs # {} PROVE \E k \in 0 .. Len(W) + p : WorkingSince(W \o a, v, s, k)
        BY DEF WorkingBy
    <3>1. ss[s].working
        BY DEF RecordsOK
    <3>2. PICK k \in 0 .. Len(W) : WorkingSince(W, v, s, k)
        BY <1>1, <1>5, <3>1, WorkComes
    <3>3. WorkingSince(W \o a, v, s, k)
        BY <1>1, <1>2, <1>6, <3>2, SinceGrows
    <3>4. k \in 0 .. Len(W) + p
        BY <1>1, <2>2, <3>2
    <3> QED BY <3>3, <3>4
  <2> QED BY <1>3, <2>6, <2>7 DEF SegsCome
<1>8. CASE s \notin SidsOf(a)
  <2>1. CASE s \in c.dropped
      BY <1>3, <1>8, <2>1 DEF SegsCome
  <2>2. CASE s \in SidsOf(q)
    <3>1. s \in SidsOf(b) \/ s \in l
        BY <1>2, <1>8, <2>2
    <3> QED BY <1>3, <3>1 DEF SegsCome
  <2>3. CASE s \notin c.dropped /\ s \notin SidsOf(q)
    <3>1. NoneOf(a, StreamsOf(s))
      <4>1. DOMAIN a = 1 .. Len(a)
          BY <1>2, LenProperties
      <4> QED BY <4>1, <1>8 DEF NoneOf, StreamsOf, SidsOf
    <3>2. SegsCome(ss, c, W \o a, v, s)
        BY <1>1, <1>2, <1>5, <1>6, <3>1, SegsGrow
    <3> QED BY <1>3, <1>5b, <2>3, <3>2 DEF SegsCome
  <2> QED BY <2>1, <2>2, <2>3
<1> QED BY <1>7, <1>8

\* What a flush keeps.
LEMMA FlushKeeps ==
    ASSUME NEW c, GoodConn(c), c.up, NEW d, d = FlushOutbound(c), d.up
    PROVE  /\ \E a \in Seq(StreamFrames) : Coming(d) = Coming(c) \o a
           /\ \A ss, v : RecordsOK(ss) /\ StatusComes(ss, Coming(c), v) =>
                 \A s \in Sessions : BoxIsNewest(ss, c, s) /\ SegsCome(ss, c, Coming(c), v, s)
                                        => SegsCome(ss, d, Coming(d), v, s)
<1>1. \/ Ends(c, d)
      \/ Holds(c, d)
      \/ \E m \in 0 .. Len(c.streams) : Writes(c, d, m)
    BY Flushing
<1>2. CASE Ends(c, d)
    BY <1>2, ClosedIsGood DEF Ends
<1>3. CASE Holds(c, d)
  <2>1. Coming(c) \in Seq(Frame) /\ <<>> \in Seq(StreamFrames)
      BY GoodConnParts, EmptySeq
  <2>2. Coming(c) \o <<>> = Coming(c)
      BY <2>1, ConcatEmptySeq
  <2>3. Coming(d) = Coming(c) \o <<>>
      BY <2>2, <1>3 DEF Holds
  <2>4. Coming(d) = Coming(c) /\ d.streams = c.streams /\ d.dropped = c.dropped
      BY <1>3 DEF Holds
  <2>5. ASSUME NEW ss, NEW v, NEW s, SegsCome(ss, c, Coming(c), v, s) PROVE SegsCome(ss, d, Coming(d), v, s)
      BY <2>4, <2>5 DEF SegsCome
  <2> QED BY <2>1, <2>3, <2>5
<1>4. CASE \E m \in 0 .. Len(c.streams) : Writes(c, d, m)
  <2>1. PICK m \in 0 .. Len(c.streams) : Writes(c, d, m)
      BY <1>4
  <2>2. First(c.streams, m) \in Seq(StreamFrames) /\ Coming(d) = Coming(c) \o First(c.streams, m)
      BY <2>1, BoxParts DEF Writes
  <2> QED BY <2>1, <2>2, SegsAreWritten
<1> QED BY <1>1, <1>2, <1>3, <1>4

\* The three claims of a connection that is up.
StatusOK(ss, c, v)           == c.up => StatusComes(ss, Coming(c), v)
SegsOK(ss, c, v, s)          == c.up => SegsCome(ss, c, Coming(c), v, s)
HistoryOK(ss, c, v, q, r, s) == c.up => HistoryComes(ss, Coming(c), v, q, r, s)

\* A flush keeps them all.
LEMMA FlushKeepsClaims ==
    ASSUME NEW c, GoodConn(c), c.up, NEW d, d = FlushOutbound(c), NEW ss, NEW v
    PROVE  /\ GoodConn(d)
           /\ \A s : BoxIsNewest(ss, c, s) => BoxIsNewest(ss, d, s)
           /\ StatusOK(ss, c, v) => StatusOK(ss, d, v)
           /\ RecordsOK(ss) /\ StatusOK(ss, c, v) =>
                 \A s \in Sessions : BoxIsNewest(ss, c, s) /\ SegsOK(ss, c, v, s) => SegsOK(ss, d, v, s)
           /\ \A q, r, s : HistoryOK(ss, c, v, q, r, s) => HistoryOK(ss, d, v, q, r, s)
           /\ \A s : d.up /\ PageComes(ss, Coming(c), v, s) => PageComes(ss, Coming(d), v, s)
           /\ \A s : d.up /\ WorkSeen(Coming(c), v, s) => WorkSeen(Coming(d), v, s)
<1>1. GoodConn(d)
    BY Flushing
<1>2. \A s : BoxIsNewest(ss, c, s) => BoxIsNewest(ss, d, s)
    BY BoxStays
<1>3. Coming(c) \in Seq(Frame)
    BY GoodConnParts
<1>4. CASE d.up
  <2>1. PICK a \in Seq(StreamFrames) : Coming(d) = Coming(c) \o a
      BY <1>4, FlushKeeps
  <2>2. a \in Seq(Frame) /\ NoneOf(a, StateFrames) /\ \A s : NoneOf(a, PagesOf(s))
      BY StreamsBehind
  <2>3. StatusOK(ss, c, v) => StatusOK(ss, d, v)
    <3> SUFFICES ASSUME StatusOK(ss, c, v) PROVE StatusComes(ss, Coming(d), v)
        BY DEF StatusOK
    <3>1. StatusComes(ss, Coming(c), v)
        BY DEF StatusOK
    <3>2. StatusComes(ss, Coming(c) \o a, v)
        BY <1>3, <2>2, <3>1, StatusGrows
    <3> QED BY <2>1, <3>2, Zenon
  <2>4. \A q, r, s : HistoryOK(ss, c, v, q, r, s) => HistoryOK(ss, d, v, q, r, s)
    <3> SUFFICES ASSUME NEW q, NEW r, NEW s, HistoryOK(ss, c, v, q, r, s) PROVE HistoryComes(ss, Coming(d), v, q, r, s)
        BY DEF HistoryOK
    <3>1. HistoryComes(ss, Coming(c), v, q, r, s)
        BY DEF HistoryOK
    <3>2. HistoryComes(ss, Coming(c) \o a, v, q, r, s)
        BY <1>3, <2>2, <3>1, HistoryGrows
    <3> QED BY <2>1, <3>2, Zenon
  <2>5. ASSUME RecordsOK(ss), StatusOK(ss, c, v), NEW s \in Sessions, BoxIsNewest(ss, c, s), SegsOK(ss, c, v, s)
        PROVE  SegsOK(ss, d, v, s)
    <3>1. StatusComes(ss, Coming(c), v) /\ SegsCome(ss, c, Coming(c), v, s)
        BY <2>5 DEF StatusOK, SegsOK
    <3>2. SegsCome(ss, d, Coming(d), v, s)
        BY <1>4, <2>5, <3>1, FlushKeeps
    <3> QED BY <3>2 DEF SegsOK
  <2>6. ASSUME NEW s, PageComes(ss, Coming(c), v, s) PROVE PageComes(ss, Coming(d), v, s)
    <3>1. PageComes(ss, Coming(c) \o a, v, s)
        BY <1>3, <2>2, <2>6, PageGrows
    <3> QED BY <2>1, <3>1, Zenon
  <2>7. ASSUME NEW s, WorkSeen(Coming(c), v, s) PROVE WorkSeen(Coming(d), v, s)
    <3>1. WorkSeen(Coming(c) \o a, v, s)
        BY <1>3, <2>2, <2>7, SeenGrows
    <3> QED BY <2>1, <3>1, Zenon
  <2> QED BY <1>1, <1>2, <2>3, <2>4, <2>5, <2>6, <2>7
<1>5. CASE ~d.up
    BY <1>1, <1>2, <1>5 DEF StatusOK, SegsOK, HistoryOK
<1> QED BY <1>4, <1>5

\* A discrete frame, before and after the flush that follows it.
LEMMA UrgentIsBehind ==
    ASSUME NEW c, GoodConn(c), c.up, NEW f \in DiscreteFrames
    PROVE  LET e == WithUrgent(c, f)
           IN  /\ GoodConn(e) /\ e.up /\ Enqueue(c, f) = FlushOutbound(e)
               /\ Coming(e) = Coming(c) \o <<f>> /\ Coming(c) \in Seq(Frame)
               /\ e.streams = c.streams /\ e.dropped = c.dropped
<1> DEFINE e == WithUrgent(c, f)
<1>1. /\ GoodConn(e) /\ e.up /\ Enqueue(c, f) = FlushOutbound(e) /\ Coming(e) = Append(Coming(c), f)
      /\ e.streams = c.streams /\ e.dropped = c.dropped
    BY UrgentJoins
<1>2. Coming(c) \in Seq(Frame) /\ f \in Frame
    BY GoodConnParts, FrameKinds
<1> HIDE DEF e
<1>3. Append(Coming(c), f) = Coming(c) \o <<f>>
    BY <1>2, AppendIsConcat
<1> QED BY <1>1, <1>2, <1>3 DEF e

LEMMA DownStaysDown ==
    ASSUME NEW c, GoodConn(c), ~c.up, NEW f
    PROVE  Enqueue(c, f) = c /\ \A ss, s : BoxIsNewest(ss, c, s)
<1>1. Len(c.streams) = 0
    BY EmptySeq DEF GoodConn
<1> QED BY <1>1 DEF Enqueue, BoxIsNewest

\* The snapshot.
LEMMA StateSent ==
    ASSUME NEW c, GoodConn(c), NEW ss, RecordsOK(ss), NEW d, d = Enqueue(c, StateFrame(ss)), NEW v
    PROVE  /\ GoodConn(d) /\ (d.up => c.up)
           /\ \A s : BoxIsNewest(ss, c, s) => BoxIsNewest(ss, d, s)
           /\ StatusOK(ss, d, v)
           /\ \A s \in Sessions : BoxIsNewest(ss, c, s) /\ SegsOK(ss, c, v, s) => SegsOK(ss, d, v, s)
           /\ \A q, r, s : HistoryOK(ss, c, v, q, r, s) => HistoryOK(ss, d, v, q, r, s)
           /\ \A s : d.up /\ WorkSeen(Coming(c), v, s) => WorkSeen(Coming(d), v, s)
<1> DEFINE f == StateFrame(ss)
           e == WithUrgent(c, f)
<1>1. f \in StateFrames /\ f \in DiscreteFrames /\ f \in Frame /\ \A s : f \notin StreamsOf(s) /\ f \notin PagesOf(s)
    BY FramesAreTyped, FramesApart DEF StateFrame, StateFrames
<1>1a. \A s \in Sessions : ss[s].segs # {} => s \in f.working
    BY DEF StateFrame, RecordsOK
<1>2. CASE ~c.up
    BY <1>2, DownStaysDown DEF StatusOK, SegsOK, HistoryOK
<1>3. CASE c.up
  <2> HIDE DEF f
  <2>1. /\ GoodConn(e) /\ e.up /\ d = FlushOutbound(e) /\ Coming(e) = Coming(c) \o <<f>> /\ Coming(c) \in Seq(Frame)
        /\ e.streams = c.streams /\ e.dropped = c.dropped
      BY <1>1, <1>3, UrgentIsBehind DEF f
  <2> HIDE DEF e
  <2>2. <<f>> \in Seq(Frame) /\ Len(<<f>>) = 1 /\ <<f>>[1] = f /\ \A K : f \notin K => NoneOf(<<f>>, K)
      BY <1>1, OneBehind
  <2>3. StatusOK(ss, e, v)
      BY <2>1, StatusIsSent DEF StatusOK, f
  <2>4. \A s : BoxIsNewest(ss, c, s) => BoxIsNewest(ss, e, s)
      BY <2>1 DEF BoxIsNewest
  <2>5. ASSUME NEW s \in Sessions, SegsOK(ss, c, v, s) PROVE SegsOK(ss, e, v, s)
    <3>1. SegsCome(ss, c, Coming(c), v, s)
        BY <1>3, <2>5 DEF SegsOK
    <3>2. NoneOf(<<f>>, StreamsOf(s))
        BY <1>1, <2>2
    <3>3. ss[s].segs # {} => \A j \in 1 .. Len(<<f>>) : <<f>>[j] \in StateFrames => s \in <<f>>[j].working
        BY <1>1a, <2>2
    <3>4. SegsCome(ss, c, Coming(c) \o <<f>>, v, s)
        BY <2>1, <2>2, <3>1, <3>2, <3>3, SegsGrow
    <3> QED BY <2>1, <3>4 DEF SegsOK, SegsCome
  <2>6. ASSUME NEW q, NEW r, NEW s, HistoryOK(ss, c, v, q, r, s) PROVE HistoryOK(ss, e, v, q, r, s)
    <3>1. HistoryComes(ss, Coming(c), v, q, r, s)
        BY <1>3, <2>6 DEF HistoryOK
    <3>2. NoneOf(<<f>>, PagesOf(s))
        BY <1>1, <2>2
    <3>3. HistoryComes(ss, Coming(c) \o <<f>>, v, q, r, s)
        BY <2>1, <2>2, <3>1, <3>2, HistoryGrows
    <3> QED BY <2>1, <3>3 DEF HistoryOK
  <2>7. ASSUME NEW s, WorkSeen(Coming(c), v, s) PROVE WorkSeen(Coming(e), v, s)
      BY <2>1, <2>2, <2>7, SeenGrows
  <2> QED BY <1>3, <2>1, <2>3, <2>4, <2>5, <2>6, <2>7, FlushKeepsClaims
<1> QED BY <1>2, <1>3

\* A page of history or a tool's frame.
LEMMA PlainSent ==
    ASSUME NEW c, GoodConn(c), NEW ss, RecordsOK(ss), NEW f \in HistoryFrames \cup ToolFrames,
           NEW d, d = Enqueue(c, f), NEW v
    PROVE  /\ GoodConn(d) /\ (d.up => c.up)
           /\ \A s : BoxIsNewest(ss, c, s) => BoxIsNewest(ss, d, s)
           /\ StatusOK(ss, c, v) => StatusOK(ss, d, v)
           /\ StatusOK(ss, c, v) =>
                 \A s \in Sessions : BoxIsNewest(ss, c, s) /\ SegsOK(ss, c, v, s) => SegsOK(ss, d, v, s)
           /\ \A q, r, s : f \notin PagesOf(s) /\ HistoryOK(ss, c, v, q, r, s) => HistoryOK(ss, d, v, q, r, s)
           /\ \A s \in Sessions : d.up /\ f = HistoryFrame(ss, s) => PageComes(ss, Coming(d), v, s)
           /\ \A s : d.up /\ WorkSeen(Coming(c), v, s) => WorkSeen(Coming(d), v, s)
<1> DEFINE e == WithUrgent(c, f)
<1>1. f \notin StateFrames /\ f \in DiscreteFrames /\ f \in Frame /\ \A s : f \notin StreamsOf(s)
  <2>1. f \in DiscreteFrames /\ f \in Frame
      BY FrameKinds DEF DiscreteFrames
  <2> QED BY <2>1, FramesApart
<1>2. CASE ~c.up
    BY <1>2, DownStaysDown DEF StatusOK, SegsOK, HistoryOK
<1>3. CASE c.up
  <2>1. /\ GoodConn(e) /\ e.up /\ d = FlushOutbound(e) /\ Coming(e) = Coming(c) \o <<f>> /\ Coming(c) \in Seq(Frame)
        /\ e.streams = c.streams /\ e.dropped = c.dropped
      BY <1>1, <1>3, UrgentIsBehind
  <2> HIDE DEF e
  <2>2. <<f>> \in Seq(Frame) /\ Len(<<f>>) = 1 /\ <<f>>[1] = f /\ \A K : f \notin K => NoneOf(<<f>>, K)
      BY <1>1, OneBehind
  <2>3. ASSUME StatusOK(ss, c, v) PROVE StatusOK(ss, e, v)
    <3>1. NoneOf(<<f>>, StateFrames) /\ StatusComes(ss, Coming(c), v)
        BY <1>1, <1>3, <2>2, <2>3 DEF StatusOK
    <3>2. StatusComes(ss, Coming(c) \o <<f>>, v)
        BY <2>1, <2>2, <3>1, StatusGrows
    <3> QED BY <2>1, <3>2 DEF StatusOK
  <2>4. \A s : BoxIsNewest(ss, c, s) => BoxIsNewest(ss, e, s)
      BY <2>1 DEF BoxIsNewest
  <2>5. ASSUME NEW s \in Sessions, SegsOK(ss, c, v, s) PROVE SegsOK(ss, e, v, s)
    <3>1. SegsCome(ss, c, Coming(c), v, s)
        BY <1>3, <2>5 DEF SegsOK
    <3>2. NoneOf(<<f>>, StreamsOf(s))
        BY <1>1, <2>2
    <3>3. \A j \in 1 .. Len(<<f>>) : <<f>>[j] \in StateFrames => s \in <<f>>[j].working
        BY <1>1, <2>2
    <3>4. SegsCome(ss, c, Coming(c) \o <<f>>, v, s)
        BY <2>1, <2>2, <3>1, <3>2, <3>3, SegsGrow
    <3> QED BY <2>1, <3>4 DEF SegsOK, SegsCome
  <2>6. ASSUME NEW q, NEW r, NEW s, f \notin PagesOf(s), HistoryOK(ss, c, v, q, r, s) PROVE HistoryOK(ss, e, v, q, r, s)
    <3>1. HistoryComes(ss, Coming(c), v, q, r, s)
        BY <1>3, <2>6 DEF HistoryOK
    <3>2. NoneOf(<<f>>, PagesOf(s))
        BY <2>2, <2>6
    <3>3. HistoryComes(ss, Coming(c) \o <<f>>, v, q, r, s)
        BY <2>1, <2>2, <3>1, <3>2, HistoryGrows
    <3> QED BY <2>1, <3>3 DEF HistoryOK
  <2>7. ASSUME NEW s \in Sessions, f = HistoryFrame(ss, s) PROVE PageComes(ss, Coming(e), v, s)
      BY <2>1, <2>7, PageIsSent
  <2>8. ASSUME NEW s, WorkSeen(Coming(c), v, s) PROVE WorkSeen(Coming(e), v, s)
      BY <2>1, <2>2, <2>8, SeenGrows
  <2> QED BY <1>3, <2>1, <2>3, <2>4, <2>5, <2>6, <2>7, <2>8, FlushKeepsClaims
<1> QED BY <1>2, <1>3

\* What a session streams waits in the box.
LEMMA StreamSent ==
    ASSUME NEW c, GoodConn(c), NEW ss, RecordsOK(ss), NEW s \in Sessions,
           NEW d, d = Enqueue(c, StreamFrame(ss, s)), NEW v
    PROVE  /\ GoodConn(d) /\ d.up = c.up /\ Coming(d) = Coming(c)
           /\ BoxIsNewest(ss, d, s) /\ SegsOK(ss, d, v, s)
           /\ \A t : t # s /\ BoxIsNewest(ss, c, t) => BoxIsNewest(ss, d, t)
           /\ \A t : t # s /\ SegsOK(ss, c, v, t) => SegsOK(ss, d, v, t)
<1> DEFINE f == StreamFrame(ss, s)
<1>1. f \in StreamFrames /\ f.sid = s /\ f.segs = ss[s].segs
    BY FramesAreTyped DEF StreamFrame
<1>2. CASE ~c.up
    BY <1>2, DownStaysDown DEF SegsOK
<1>3. CASE c.up
  <2>0. d = Enqueue(c, f)
      OBVIOUS
  <2> HIDE DEF f
  <2>1. /\ GoodConn(d) /\ d.up
        /\ d.wire = c.wire /\ d.urgent = c.urgent /\ d.dropped = c.dropped
        /\ \A t : t \in SidsOf(d.streams) <=> t \in SidsOf(c.streams) \/ t = f.sid
        /\ \A i \in DOMAIN d.streams :
              IF d.streams[i].sid = f.sid THEN d.streams[i] = f
              ELSE i \in DOMAIN c.streams /\ d.streams[i] = c.streams[i]
      BY <1>1, <1>3, <2>0, StreamJoins
  <2>2. DOMAIN d.streams = 1 .. Len(d.streams) /\ DOMAIN c.streams = 1 .. Len(c.streams)
      BY <2>1, GoodConnParts, LenProperties
  <2>3. Coming(d) = Coming(c)
      BY <2>1 DEF Coming
  <2>4. BoxIsNewest(ss, d, s) /\ SegsOK(ss, d, v, s)
    <3>1. s \in SidsOf(d.streams)
        BY <1>1, <2>1
    <3>2. BoxIsNewest(ss, d, s)
        BY <1>1, <2>1, <2>2 DEF BoxIsNewest
    <3> QED BY <3>1, <3>2 DEF SegsOK, SegsCome
  <2>5. \A t : t # s /\ BoxIsNewest(ss, c, t) => BoxIsNewest(ss, d, t)
      BY <1>1, <2>1, <2>2 DEF BoxIsNewest
  <2>6. ASSUME NEW t, t # s, SegsOK(ss, c, v, t) PROVE SegsOK(ss, d, v, t)
    <3>1. SegsCome(ss, c, Coming(c), v, t)
        BY <1>3, <2>6 DEF SegsOK
    <3>2. t \in SidsOf(c.streams) => t \in SidsOf(d.streams)
        BY <2>1
    <3> QED BY <2>1, <2>3, <3>1, <3>2 DEF SegsOK, SegsCome
  <2> QED BY <1>3, <2>1, <2>3, <2>4, <2>5, <2>6
<1> QED BY <1>2, <1>3

FirstLink ==
    links = 0 => /\ StatusOK(session, conn, view)
                 /\ \A s \in Sessions : /\ HistoryOK(session, conn, view, asked, reply, s)
                                        /\ SegsOK(session, conn, view, s)

FeedInv == FeedTyped /\ (\A s \in Sessions : BoxIsNewest(session, conn, s)) /\ FirstLink

\* The claims are about what a session shows of itself.
LEMMA SameSession ==
    ASSUME NEW ss, NEW zz, NEW t \in Sessions, NEW c, NEW v
    PROVE  /\ ss[t].segs = zz[t].segs /\ BoxIsNewest(ss, c, t) => BoxIsNewest(zz, c, t)
           /\ ss[t].segs = zz[t].segs /\ SegsOK(ss, c, v, t) => SegsOK(zz, c, v, t)
           /\ \A q, r : ss[t].working = zz[t].working /\ ss[t].saved = zz[t].saved /\ HistoryOK(ss, c, v, q, r, t)
                           => HistoryOK(zz, c, v, q, r, t)
<1>1. ss[t].saved = zz[t].saved => HistoryFrame(ss, t) = HistoryFrame(zz, t)
    BY DEF HistoryFrame
<1>2. ss[t].saved = zz[t].saved => \A W : PageComes(ss, W, v, t) => PageComes(zz, W, v, t)
    BY <1>1 DEF PageComes
<1>3. \A q, r : ss[t].working = zz[t].working /\ ss[t].saved = zz[t].saved /\ HistoryOK(ss, c, v, q, r, t)
                   => HistoryOK(zz, c, v, q, r, t)
    BY <1>2 DEF HistoryOK, HistoryComes
<1>4. ss[t].segs = zz[t].segs => \A W, i : WorkingBy(ss, W, v, t, i) => WorkingBy(zz, W, v, t, i)
    BY DEF WorkingBy
<1>5. ss[t].segs = zz[t].segs /\ SegsOK(ss, c, v, t) => SegsOK(zz, c, v, t)
    BY <1>4 DEF SegsOK, SegsCome
<1>6. ss[t].segs = zz[t].segs /\ BoxIsNewest(ss, c, t) => BoxIsNewest(zz, c, t)
    BY DEF BoxIsNewest
<1> QED BY <1>3, <1>5, <1>6

LEMMA SameStatus ==
    ASSUME NEW ss, NEW zz, \A t \in Sessions : ss[t].working = zz[t].working, NEW c, NEW v, StatusOK(ss, c, v)
    PROVE  StatusOK(zz, c, v)
<1>1. StateFrame(ss) = StateFrame(zz)
    BY DEF StateFrame
<1> QED BY <1>1 DEF StatusOK, StatusComes

\* A page is sent: what was asked and replied is no older.
LEMMA PageServes ==
    ASSUME NEW c, GoodConn(c), NEW ss, RecordsOK(ss), NEW s \in Sessions, NEW d, d = Enqueue(c, HistoryFrame(ss, s)),
           NEW v, NEW q, NEW r,
           c.up /\ ~ss[s].working => \/ s \in q
                                     \/ s \in Open /\ WorkSeen(Coming(c), v, s)
                                     \/ r[s] \in {0, ss[s].saved}
    PROVE  HistoryOK(ss, d, v, q, r, s)
<1>1. HistoryFrame(ss, s) \in HistoryFrames
    BY DEF HistoryFrame, HistoryFrames, RecordsOK, SessionRecord
<1>2. /\ d.up => c.up /\ PageComes(ss, Coming(d), v, s)
      /\ d.up /\ WorkSeen(Coming(c), v, s) => WorkSeen(Coming(d), v, s)
    BY <1>1, PlainSent
<1> QED BY <1>2 DEF HistoryOK, HistoryComes

LEMMA SeenAtWork ==
    ASSUME NEW ss, NEW v, NEW W \in Seq(Frame), StatusComes(ss, W, v), NEW s \in Sessions, ss[s].working
    PROVE  WorkSeen(W, v, s)
<1>1. PICK k \in 0 .. Len(W) : WorkingSince(W, v, s, k)
    BY WorkComes
<1> QED BY <1>1 DEF WorkingSince, WorkSeen

\* What a step keeps when the app's side stays.
Kept ==
    /\ \A s \in Sessions : BoxIsNewest(session', conn', s)
    /\ links = 0 => /\ StatusOK(session', conn', view)
                    /\ \A s \in Sessions : /\ HistoryOK(session', conn', view, asked, reply, s)
                                           /\ SegsOK(session', conn', view, s)

LEMMA KeptIsInv ==
    ASSUME Kept, FeedTyped', AppUnchanged
    PROVE  FeedInv'
BY DEF Kept, FeedInv, FirstLink, AppUnchanged

LEMMA LateHistoryKeeps ==
    ASSUME FeedInv, NEW s \in Sessions, LateHistory(s)
    PROVE  Kept
<1> DEFINE f == HistoryFrame(session, s)
<1>1. GoodConn(conn) /\ RecordsOK(session) /\ session' = session /\ conn' = Enqueue(conn, f)
    BY DEF FeedInv, FeedTyped, LateHistory, Publish
<1>2. f \in HistoryFrames /\ \A t \in Sessions : t # s => f \notin PagesOf(t)
    BY <1>1 DEF HistoryFrame, HistoryFrames, PagesOf, RecordsOK, SessionRecord
<1>2a. f \in HistoryFrames \cup ToolFrames
    BY <1>2
<1> HIDE DEF f
<1>3. \A t \in Sessions : BoxIsNewest(session', conn', t)
    BY <1>1, <1>2a, PlainSent DEF FeedInv
<1>4. ASSUME links = 0 PROVE StatusOK(session', conn', view) /\ \A t \in Sessions : SegsOK(session', conn', view, t)
    BY <1>1, <1>2a, <1>4, PlainSent DEF FeedInv, FirstLink
<1>5. ASSUME links = 0, NEW t \in Sessions PROVE HistoryOK(session', conn', view, asked, reply, t)
  <2>1. HistoryOK(session, conn, view, asked, reply, t)
      BY <1>5 DEF FeedInv, FirstLink
  <2>2. CASE t # s
      BY <1>1, <1>2, <1>2a, <2>1, <2>2, PlainSent
  <2>3. CASE t = s
    <3>1. conn.up /\ ~session[s].working => \/ s \in asked
                                            \/ s \in Open /\ WorkSeen(Coming(conn), view, s)
                                            \/ reply[s] \in {0, session[s].saved}
        BY <2>1, <2>3 DEF HistoryOK, HistoryComes
    <3>2. HistoryOK(session, conn', view, asked, reply, s)
        BY <1>1, <3>1, PageServes DEF f
    <3> QED BY <1>1, <2>3, <3>2
  <2> QED BY <2>2, <2>3
<1> QED BY <1>3, <1>4, <1>5 DEF Kept

LEMMA AssistantStartsKeeps ==
    ASSUME FeedInv, NEW s \in Sessions, AssistantStarts(s)
    PROVE  Kept
<1>1. GoodConn(conn) /\ RecordsOK(session) /\ session' = session /\ conn' = Enqueue(conn, StateFrame(session))
    BY DEF FeedInv, FeedTyped, AssistantStarts, Publish
<1>2. \A t \in Sessions : BoxIsNewest(session', conn', t)
    BY <1>1, StateSent DEF FeedInv
<1>3. ASSUME links = 0
      PROVE  /\ StatusOK(session', conn', view)
             /\ \A t \in Sessions : /\ HistoryOK(session', conn', view, asked, reply, t)
                                    /\ SegsOK(session', conn', view, t)
    BY <1>1, <1>3, StateSent DEF FeedInv, FirstLink
<1> QED BY <1>2, <1>3 DEF Kept

LEMMA ToolEndsKeeps ==
    ASSUME FeedInv, NEW s \in Sessions, ToolEnds(s)
    PROVE  Kept
<1> DEFINE f == ToolFrame(s)
<1>1. GoodConn(conn) /\ RecordsOK(session) /\ session' = session /\ conn' = Enqueue(conn, f)
    BY DEF FeedInv, FeedTyped, ToolEnds, Publish
<1>2. f \in HistoryFrames \cup ToolFrames /\ \A t : f \notin PagesOf(t)
    BY FramesApart DEF ToolFrame, ToolFrames
<1> HIDE DEF f
<1>3. \A t \in Sessions : BoxIsNewest(session', conn', t)
    BY <1>1, <1>2, PlainSent DEF FeedInv
<1>4. ASSUME links = 0
      PROVE  /\ StatusOK(session', conn', view)
             /\ \A t \in Sessions : /\ HistoryOK(session', conn', view, asked, reply, t)
                                    /\ SegsOK(session', conn', view, t)
    BY <1>1, <1>2, <1>4, PlainSent DEF FeedInv, FirstLink
<1> QED BY <1>3, <1>4 DEF Kept

LEMMA UserMessageKeeps ==
    ASSUME FeedInv, NEW s \in Sessions, UserMessage(s)
    PROVE  Kept
<1> DEFINE e == Enqueue(conn, StreamFrame(session', s))
<1>1. GoodConn(conn) /\ RecordsOK(session') /\ session \in [Sessions -> SessionRecord] /\ session[s] \in SessionRecord
    BY UserMessagePublishes DEF FeedInv, FeedTyped, Published, RecordsOK
<1>2. /\ session'[s].working /\ \A t \in Sessions : t # s => session'[t] = session[t]
    BY <1>1 DEF UserMessage
<1>3. conn' = Enqueue(e, StateFrame(session'))
    BY DEF UserMessage
<1>4. /\ GoodConn(e) /\ e.up = conn.up /\ Coming(e) = Coming(conn)
      /\ BoxIsNewest(session', e, s) /\ SegsOK(session', e, view, s)
      /\ \A t : t # s /\ BoxIsNewest(session', conn, t) => BoxIsNewest(session', e, t)
      /\ \A t : t # s /\ SegsOK(session', conn, view, t) => SegsOK(session', e, view, t)
    BY <1>1, StreamSent
<1> HIDE DEF e
<1>5. /\ \A t \in Sessions : BoxIsNewest(session', e, t) => BoxIsNewest(session', conn', t)
      /\ StatusOK(session', conn', view)
      /\ \A t \in Sessions : BoxIsNewest(session', e, t) /\ SegsOK(session', e, view, t) => SegsOK(session', conn', view, t)
      /\ \A t \in Sessions : HistoryOK(session', e, view, asked, reply, t) => HistoryOK(session', conn', view, asked, reply, t)
    BY <1>1, <1>3, <1>4, StateSent
<1>6. ASSUME NEW t \in Sessions PROVE BoxIsNewest(session', e, t)
  <2>1. CASE t = s
      BY <2>1, <1>4
  <2>2. CASE t # s
      BY <2>2, <1>2, <1>4, SameSession DEF FeedInv
  <2> QED BY <2>1, <2>2
<1>7. ASSUME links = 0, NEW t \in Sessions
      PROVE  SegsOK(session', e, view, t) /\ HistoryOK(session', e, view, asked, reply, t)
  <2>1. CASE t = s
      BY <2>1, <1>2, <1>4 DEF HistoryOK, HistoryComes
  <2>2. CASE t # s
    <3>1. SegsOK(session', conn, view, t) /\ HistoryOK(session', conn, view, asked, reply, t)
        BY <1>2, <1>7, <2>2, SameSession DEF FeedInv, FirstLink
    <3> QED BY <2>2, <3>1, <1>4 DEF HistoryOK
  <2> QED BY <2>1, <2>2
<1> QED BY <1>5, <1>6, <1>7 DEF Kept

LEMMA TextDeltaKeeps ==
    ASSUME FeedInv, NEW s \in Sessions, TextDelta(s)
    PROVE  Kept
<1>1. GoodConn(conn) /\ RecordsOK(session') /\ session \in [Sessions -> SessionRecord] /\ session[s] \in SessionRecord
    BY TextDeltaPublishes DEF FeedInv, FeedTyped, Published, RecordsOK
<1>2. /\ \A t \in Sessions : session'[t].working = session[t].working /\ session'[t].saved = session[t].saved
      /\ \A t \in Sessions : t # s => session'[t] = session[t]
  <2>1. session' = [session EXCEPT ![s] = [session[s] EXCEPT !.text = @ \cup {Said(session[s]) + 1}]]
      BY <1>1 DEF TextDelta
  <2> QED BY <1>1, <2>1 DEF SessionRecord
<1>3. conn' = Enqueue(conn, StreamFrame(session', s))
    BY DEF TextDelta, Publish
<1>4. /\ conn'.up = conn.up /\ Coming(conn') = Coming(conn)
      /\ BoxIsNewest(session', conn', s) /\ SegsOK(session', conn', view, s)
      /\ \A t : t # s /\ BoxIsNewest(session', conn, t) => BoxIsNewest(session', conn', t)
      /\ \A t : t # s /\ SegsOK(session', conn, view, t) => SegsOK(session', conn', view, t)
    BY <1>1, <1>3, StreamSent
<1>5. ASSUME NEW t \in Sessions PROVE BoxIsNewest(session', conn', t)
  <2>1. CASE t = s
      BY <2>1, <1>4
  <2>2. CASE t # s
      BY <2>2, <1>2, <1>4, SameSession DEF FeedInv
  <2> QED BY <2>1, <2>2
<1>6. ASSUME links = 0, NEW t \in Sessions PROVE SegsOK(session', conn', view, t)
  <2>1. CASE t = s
      BY <2>1, <1>4
  <2>2. CASE t # s
    <3>1. SegsOK(session', conn, view, t)
        BY <1>2, <1>6, <2>2, SameSession DEF FeedInv, FirstLink
    <3> QED BY <2>2, <3>1, <1>4
  <2> QED BY <2>1, <2>2
<1>7. ASSUME links = 0, NEW t \in Sessions PROVE HistoryOK(session', conn', view, asked, reply, t)
  <2>1. HistoryOK(session', conn, view, asked, reply, t)
      BY <1>2, <1>7, SameSession DEF FeedInv, FirstLink
  <2> QED BY <2>1, <1>4 DEF HistoryOK
<1>8. ASSUME links = 0 PROVE StatusOK(session', conn', view)
  <2>1. StatusOK(session', conn, view)
      BY <1>2, <1>8, SameStatus DEF FeedInv, FirstLink
  <2> QED BY <2>1, <1>4 DEF StatusOK
<1> QED BY <1>5, <1>6, <1>7, <1>8 DEF Kept

LEMMA UntoldDeltaKeeps ==
    ASSUME FeedInv, NEW s \in Sessions, UntoldDelta(s)
    PROVE  Kept /\ AppUnchanged
<1>1. /\ conn' = conn /\ AppUnchanged
      /\ \A t \in Sessions : /\ session'[t].working = session[t].working
                            /\ session'[t].saved = session[t].saved /\ session'[t].segs = session[t].segs
    BY UntoldDeltaStays DEF FeedInv
<1>2. \A t \in Sessions : BoxIsNewest(session', conn', t)
    BY <1>1, SameSession DEF FeedInv
<1>3. ASSUME links = 0, NEW t \in Sessions
      PROVE  HistoryOK(session', conn', view, asked, reply, t) /\ SegsOK(session', conn', view, t)
    BY <1>1, <1>3, SameSession DEF FeedInv, FirstLink
<1>4. ASSUME links = 0 PROVE StatusOK(session', conn', view)
    BY <1>1, <1>4, SameStatus DEF FeedInv, FirstLink
<1> QED BY <1>1, <1>2, <1>3, <1>4 DEF Kept

LEMMA ToolStartsKeeps ==
    ASSUME FeedInv, NEW s \in Sessions, ToolStarts(s)
    PROVE  Kept
<1> DEFINE f == ToolFrame(s)
           e == IF session[s].text = {} THEN conn ELSE Enqueue(conn, StreamFrame(session', s))
<1>1. GoodConn(conn) /\ RecordsOK(session') /\ session \in [Sessions -> SessionRecord] /\ session[s] \in SessionRecord
    BY ToolStartsPublishes DEF FeedInv, FeedTyped, Published, RecordsOK
<1>2. /\ \A t \in Sessions : session'[t].working = session[t].working
      /\ \A t \in Sessions : t # s => session'[t] = session[t]
      /\ session'[s].segs = session[s].segs \cup session[s].text
      /\ session[s].working
  <2>1. session' = [session EXCEPT ![s] = [session[s] EXCEPT !.segs = @ \cup session[s].text,
                                              !.saved = Said(session[s]), !.untold = 0, !.text = {}]]
      BY <1>1 DEF ToolStarts
  <2>2. session[s].working
      BY DEF ToolStarts
  <2> QED BY <1>1, <2>1, <2>2 DEF SessionRecord
<1>3. conn' = Enqueue(e, f)
    BY DEF ToolStarts
<1>4. f \in HistoryFrames \cup ToolFrames /\ \A t : f \notin PagesOf(t)
    BY FramesApart DEF ToolFrame, ToolFrames
<1> HIDE DEF f
<1>5. /\ GoodConn(e) /\ e.up = conn.up /\ Coming(e) = Coming(conn)
      /\ \A t : t # s /\ BoxIsNewest(session', conn, t) => BoxIsNewest(session', e, t)
      /\ \A t : t # s /\ SegsOK(session', conn, view, t) => SegsOK(session', e, view, t)
      /\ BoxIsNewest(session', e, s)
      /\ links = 0 => SegsOK(session', e, view, s)
  <2>1. CASE session[s].text = {}
    <3>1. e = conn /\ session'[s].segs = session[s].segs
        BY <1>2, <2>1
    <3> HIDE DEF e
    <3>2. BoxIsNewest(session', conn, s) /\ (links = 0 => SegsOK(session', conn, view, s))
        BY <3>1, SameSession DEF FeedInv, FirstLink
    <3> QED BY <1>1, <3>1, <3>2
  <2>2. CASE session[s].text # {}
    <3>1. e = Enqueue(conn, StreamFrame(session', s))
        BY <2>2
    <3> HIDE DEF e
    <3> QED BY <1>1, <3>1, StreamSent
  <2> QED BY <2>1, <2>2
<1> HIDE DEF e
<1>6. /\ \A t \in Sessions : BoxIsNewest(session', e, t) => BoxIsNewest(session', conn', t)
      /\ StatusOK(session', e, view) => StatusOK(session', conn', view)
      /\ StatusOK(session', e, view) =>
            \A t \in Sessions : BoxIsNewest(session', e, t) /\ SegsOK(session', e, view, t) => SegsOK(session', conn', view, t)
      /\ \A t \in Sessions : HistoryOK(session', e, view, asked, reply, t) => HistoryOK(session', conn', view, asked, reply, t)
    BY <1>1, <1>3, <1>4, <1>5, PlainSent
<1>7. ASSUME NEW t \in Sessions PROVE BoxIsNewest(session', e, t)
  <2>1. CASE t = s
      BY <2>1, <1>5
  <2>2. CASE t # s
      BY <2>2, <1>2, <1>5, SameSession DEF FeedInv
  <2> QED BY <2>1, <2>2
<1>8. ASSUME links = 0, NEW t \in Sessions
      PROVE  SegsOK(session', e, view, t) /\ HistoryOK(session', e, view, asked, reply, t)
  <2>1. CASE t = s
      BY <2>1, <1>2, <1>5, <1>8 DEF HistoryOK, HistoryComes
  <2>2. CASE t # s
    <3>1. SegsOK(session', conn, view, t) /\ HistoryOK(session', conn, view, asked, reply, t)
        BY <1>2, <1>8, <2>2, SameSession DEF FeedInv, FirstLink
    <3> QED BY <2>2, <3>1, <1>5 DEF HistoryOK
  <2> QED BY <2>1, <2>2
<1>9. ASSUME links = 0 PROVE StatusOK(session', e, view)
  <2>1. StatusOK(session', conn, view)
      BY <1>2, <1>9, SameStatus DEF FeedInv, FirstLink
  <2> QED BY <2>1, <1>5 DEF StatusOK
<1> QED BY <1>6, <1>7, <1>8, <1>9 DEF Kept

LEMMA AgentEndsKeeps ==
    ASSUME FeedInv, NEW s \in Sessions, AgentEnds(s)
    PROVE  Kept
<1> DEFINE zz == session'
           f == HistoryFrame(zz, s)
           d == Enqueue(conn, StateFrame(zz))
           e == Enqueue(d, f)
<1>1. /\ GoodConn(conn) /\ RecordsOK(zz) /\ session \in [Sessions -> SessionRecord] /\ session[s] \in SessionRecord
      /\ \A t \in Sessions : reply[t] # 0 => t \in Open
    BY AgentEndsPublishes DEF FeedInv, FeedTyped, Published, RecordsOK
<1>2. session[s].working /\ \A t \in Sessions : t # s => zz[t] = session[t]
    BY <1>1 DEF AgentEnds
<1>3. conn' = Enqueue(e, StreamFrame(zz, s))
    BY DEF AgentEnds, TurnOver
<1>4. f \in HistoryFrames \cup ToolFrames /\ \A t \in Sessions : t # s => f \notin PagesOf(t)
    BY <1>1 DEF HistoryFrame, HistoryFrames, PagesOf, RecordsOK, SessionRecord
<1> HIDE DEF zz
<1>5. /\ GoodConn(d) /\ (d.up => conn.up)
      /\ \A t : BoxIsNewest(zz, conn, t) => BoxIsNewest(zz, d, t)
      /\ StatusOK(zz, d, view)
      /\ \A t \in Sessions : BoxIsNewest(zz, conn, t) /\ SegsOK(zz, conn, view, t) => SegsOK(zz, d, view, t)
      /\ \A t : HistoryOK(zz, conn, view, asked, reply, t) => HistoryOK(zz, d, view, asked, reply, t)
      /\ \A t : d.up /\ WorkSeen(Coming(conn), view, t) => WorkSeen(Coming(d), view, t)
    BY <1>1, StateSent
<1> HIDE DEF d
<1>6. /\ GoodConn(e)
      /\ \A t : BoxIsNewest(zz, d, t) => BoxIsNewest(zz, e, t)
      /\ StatusOK(zz, e, view)
      /\ \A t \in Sessions : BoxIsNewest(zz, d, t) /\ SegsOK(zz, d, view, t) => SegsOK(zz, e, view, t)
      /\ \A t \in Sessions : t # s /\ HistoryOK(zz, d, view, asked, reply, t) => HistoryOK(zz, e, view, asked, reply, t)
    BY <1>1, <1>4, <1>5, PlainSent
<1>7. ASSUME links = 0 PROVE HistoryOK(zz, e, view, asked, reply, s)
  <2>1. ASSUME d.up, s \in Open PROVE WorkSeen(Coming(d), view, s)
    <3>1. StatusComes(session, Coming(conn), view) /\ Coming(conn) \in Seq(Frame)
        BY <1>1, <1>5, <1>7, <2>1, GoodConnParts DEF FeedInv, FirstLink, StatusOK
    <3>2. WorkSeen(Coming(conn), view, s)
        BY <1>2, <3>1, SeenAtWork
    <3> QED BY <1>5, <2>1, <3>2
  <2>2. s \notin Open => reply[s] \in {0, zz[s].saved}
      BY <1>1
  <2> QED BY <1>1, <1>5, <2>1, <2>2, PageServes
<1> HIDE DEF e, f
<1>8. /\ conn'.up = e.up /\ Coming(conn') = Coming(e)
      /\ BoxIsNewest(zz, conn', s) /\ SegsOK(zz, conn', view, s)
      /\ \A t : t # s /\ BoxIsNewest(zz, e, t) => BoxIsNewest(zz, conn', t)
      /\ \A t : t # s /\ SegsOK(zz, e, view, t) => SegsOK(zz, conn', view, t)
    BY <1>1, <1>3, <1>6, StreamSent
<1>9. ASSUME NEW t \in Sessions, t # s PROVE BoxIsNewest(zz, conn, t) /\ BoxIsNewest(zz, conn', t)
    BY <1>2, <1>5, <1>6, <1>8, <1>9, SameSession DEF FeedInv
<1>10. ASSUME links = 0, NEW t \in Sessions, t # s
       PROVE  SegsOK(zz, conn', view, t) /\ HistoryOK(zz, conn', view, asked, reply, t)
  <2>1. SegsOK(zz, conn, view, t) /\ HistoryOK(zz, conn, view, asked, reply, t)
      BY <1>2, <1>10, SameSession DEF FeedInv, FirstLink
  <2>2. SegsOK(zz, e, view, t) /\ HistoryOK(zz, e, view, asked, reply, t)
      BY <1>5, <1>6, <1>9, <1>10, <2>1
  <2> QED BY <1>8, <1>10, <2>2 DEF HistoryOK
<1>11. ASSUME links = 0 PROVE HistoryOK(zz, conn', view, asked, reply, s) /\ StatusOK(zz, conn', view)
    BY <1>6, <1>7, <1>8, <1>11 DEF HistoryOK, StatusOK
<1>12. \A t \in Sessions : BoxIsNewest(zz, conn', t)
    BY <1>8, <1>9
<1>13. links = 0 => /\ StatusOK(zz, conn', view)
                    /\ \A t \in Sessions : HistoryOK(zz, conn', view, asked, reply, t) /\ SegsOK(zz, conn', view, t)
    BY <1>8, <1>10, <1>11
<1> QED BY <1>12, <1>13 DEF Kept, zz

LEMMA TimerKeeps ==
    ASSUME FeedInv, TimerFires
    PROVE  Kept
<1>1. GoodConn(conn) /\ RecordsOK(session) /\ session' = session /\ conn.up /\ conn' = FlushOutbound(conn)
    BY DEF FeedInv, FeedTyped, TimerFires
<1>2. \A t \in Sessions : BoxIsNewest(session', conn', t)
    BY <1>1, FlushKeepsClaims DEF FeedInv
<1>3. ASSUME links = 0
      PROVE  /\ StatusOK(session', conn', view)
             /\ \A t \in Sessions : /\ HistoryOK(session', conn', view, asked, reply, t)
                                    /\ SegsOK(session', conn', view, t)
    BY <1>1, <1>3, FlushKeepsClaims DEF FeedInv, FirstLink
<1> QED BY <1>2, <1>3 DEF Kept

LEMMA StallKeeps ==
    ASSUME FeedInv, StallRunsOut
    PROVE  Kept
<1>1. conn \in Conns /\ conn' = [conn EXCEPT !.stall = "overdue"] /\ session' = session
    BY DEF FeedInv, FeedTyped, GoodConn, StallRunsOut
<1>2. /\ conn'.wire = conn.wire /\ conn'.urgent = conn.urgent /\ conn'.up = conn.up
      /\ conn'.streams = conn.streams /\ conn'.dropped = conn.dropped
    BY <1>1 DEF Conns
<1>3. Coming(conn') = Coming(conn)
    BY <1>2 DEF Coming
<1> QED BY <1>1, <1>2, <1>3 DEF Kept, FeedInv, FirstLink, StatusOK, SegsOK, HistoryOK, SegsCome, BoxIsNewest

LEMMA BreakKeeps ==
    ASSUME FeedInv, LinkBreaks
    PROVE  Kept
<1>1. GoodConn(conn') /\ ~conn'.up
    BY BreakIsGood DEF FeedInv, FeedTyped, LinkBreaks
<1>2. \A ss, s : BoxIsNewest(ss, conn', s)
    BY <1>1, DownStaysDown
<1> QED BY <1>1, <1>2 DEF Kept, StatusOK, SegsOK, HistoryOK

LEMMA AdmittedBox ==
    ASSUME NEW ss, RecordsOK(ss), NEW s
    PROVE  BoxIsNewest(ss, Admitted(ss), s)
<1>1. BoxIsNewest(ss, FreshConn, s)
    BY EmptySeq DEF BoxIsNewest, FreshConn
<1> QED BY <1>1, FreshIsGood, StateSent DEF Admitted

LEMMA RedialKeeps ==
    ASSUME FeedInv, Redial
    PROVE  FeedInv'
<1>1. FeedTyped' /\ session' = session /\ RecordsOK(session) /\ conn' = Admitted(session)
    BY RedialTyped DEF FeedInv, FeedTyped, Redial
<1>2. links' # 0
    BY FeedBounds DEF FeedInv, FeedTyped, Redial
<1> QED BY <1>1, <1>2, AdmittedBox DEF FeedInv, FirstLink

LEMMA FeedInitInv == FeedInit => FeedInv
<1> SUFFICES ASSUME FeedInit PROVE FeedInv
    OBVIOUS
<1> DEFINE c == FreshConn
<1>1. FeedTyped /\ RecordsOK(session) /\ conn = Enqueue(c, StateFrame(session))
    BY FeedInitTyped DEF FeedTyped, FeedInit, Admitted
<1>2. \A s \in Sessions : BoxIsNewest(session, conn, s)
    BY <1>1, AdmittedBox DEF FeedInit
<1>3. GoodConn(c) /\ c.up /\ Len(Coming(c)) = 0 /\ Len(c.streams) = 0
  <2>1. GoodConn(c) /\ c.up /\ c.urgent = <<>> /\ c.wire = <<>> /\ c.streams = <<>>
      BY <1>1, FreshIsGood DEF FreshConn
  <2>2. <<>> \in Seq(Frame) /\ Len(<<>>) = 0 /\ <<>> \o <<>> = <<>>
      BY EmptySeq, ConcatEmptySeq
  <2> QED BY <2>1, <2>2 DEF Coming
<1>4. \A s \in Sessions : /\ session[s].segs = {} /\ ~session[s].working /\ session[s].saved = 0
                          /\ view[s].segs = {} /\ view[s].hist = 0 /\ ~view[s].working
    BY DEF FeedInit, IdleSession, Blank
<1> HIDE DEF c
<1>5. ASSUME NEW s \in Sessions
      PROVE  BoxIsNewest(session, c, s) /\ SegsOK(session, c, view, s) /\ HistoryOK(session, c, view, asked, reply, s)
  <2>1. NoneOf(Coming(c), StreamsOf(s)) /\ NoneOf(Coming(c), PagesOf(s)) /\ BoxIsNewest(session, c, s)
      BY <1>3 DEF NoneOf, BoxIsNewest
  <2>2. SegsOK(session, c, view, s)
      BY <1>4, <2>1 DEF SegsOK, SegsCome, WorkingBy
  <2>3. PageComes(session, Coming(c), view, s) /\ reply[s] = 0
      BY <1>4, <2>1 DEF PageComes, FeedInit
  <2> QED BY <2>1, <2>2, <2>3 DEF HistoryOK, HistoryComes
<1>6. FirstLink
    BY <1>1, <1>3, <1>5, StateSent DEF FirstLink
<1> QED BY <1>1, <1>2, <1>6 DEF FeedInv

\* The reply over HTTP: it is no older than the transcript of a session that
\* stopped, and a session with segments is shown at work when none are to come.
LEMMA ReplyKeeps ==
    ASSUME FeedInv, NEW s \in Sessions, ReplyArrives(s)
    PROVE  FeedInv'
<1>1. /\ FeedTyped /\ FeedTyped' /\ session' = session /\ conn' = conn /\ asked' = asked /\ links' = links
      /\ reply[s] # 0 /\ reply' = [reply EXCEPT ![s] = 0] /\ view' = ApplyHistory(view, s, reply[s])
    BY ReplyTyped DEF FeedInv, ReplyArrives
<1>2. view \in [Sessions -> ViewRecord] /\ reply \in [Sessions -> 0 .. MaxPieces]
    BY <1>1 DEF FeedTyped
<1>3. /\ view'[s].hist = reply[s] /\ view'[s].working = view[s].working
      /\ view'[s].segs = IF view[s].working THEN view[s].segs ELSE {}
      /\ \A t \in Sessions : t # s => view'[t] = view[t]
      /\ reply'[s] = 0 /\ \A t \in Sessions : t # s => reply'[t] = reply[t]
    BY <1>1, <1>2, PageIsApplied
<1>4. \A t \in Sessions : view'[t].working = view[t].working
    BY <1>3
<1>5. \A t \in Sessions : BoxIsNewest(session', conn', t)
    BY <1>1 DEF FeedInv
<1> DEFINE W == Coming(conn)
<1> HIDE DEF W
<1>6. ASSUME links = 0, conn.up PROVE StatusComes(session, W, view')
    BY <1>4, <1>6 DEF FeedInv, FirstLink, StatusOK, StatusComes, W
<1>7. ASSUME links = 0, conn.up, NEW t \in Sessions PROVE HistoryComes(session, W, view', asked, reply', t)
  <2>1. HistoryComes(session, W, view, asked, reply, t)
      BY <1>7 DEF FeedInv, FirstLink, HistoryOK, W
  <2>2. WorkSeen(W, view, t) => WorkSeen(W, view', t)
      BY <1>4 DEF WorkSeen
  <2>3. CASE t # s
      BY <1>3, <2>1, <2>2, <2>3 DEF HistoryComes, PageComes
  <2>4. CASE t = s
    <3>1. reply[s] \in {0, session[s].saved} /\ PageComes(session, W, view, s) => PageComes(session, W, view', s)
        BY <1>1, <1>3 DEF PageComes
    <3> QED BY <1>3, <2>1, <2>2, <2>4, <3>1 DEF HistoryComes
  <2> QED BY <2>3, <2>4
<1>8. ASSUME links = 0, conn.up, NEW t \in Sessions PROVE SegsCome(session, conn, W, view', t)
  <2>1. SegsCome(session, conn, W, view, t)
      BY <1>8 DEF FeedInv, FirstLink, SegsOK, W
  <2>2. \A i : WorkingBy(session, W, view, t, i) => WorkingBy(session, W, view', t, i)
      BY <1>4 DEF WorkingBy, WorkingSince
  <2>3. view[t].segs = session[t].segs /\ WorkingBy(session, W, view, t, 0) => view'[t].segs = session[t].segs
    <3>1. CASE t # s
        BY <1>3, <3>1
    <3>2. CASE t = s
      <4>1. CASE session[s].segs # {}
        <5>1. WorkingBy(session, W, view, s, 0) => view[s].working
            BY <4>1 DEF WorkingBy, WorkingSince
        <5> QED BY <1>3, <3>2, <5>1
      <4>2. CASE session[s].segs = {}
          BY <1>3, <3>2, <4>2
      <4> QED BY <4>1, <4>2
    <3> QED BY <3>1, <3>2
  <2> QED BY <2>1, <2>2, <2>3 DEF SegsCome
<1>9. links' = 0 => /\ StatusOK(session', conn', view')
                    /\ \A t \in Sessions : /\ HistoryOK(session', conn', view', asked', reply', t)
                                           /\ SegsOK(session', conn', view', t)
    BY <1>1, <1>6, <1>7, <1>8 DEF StatusOK, HistoryOK, SegsOK, W
<1> QED BY <1>1, <1>5, <1>9 DEF FeedInv, FirstLink

-----------------------------------------------------------------------------
(* The first frame arrives.                                                *)

LEMMA TailAt ==
    ASSUME NEW W \in Seq(Frame), W # <<>>
    PROVE  /\ Tail(W) \in Seq(Frame) /\ Head(W) = W[1] /\ W[1] \in Frame /\ 1 \in 1 .. Len(W) /\ Len(W) \in Nat
           /\ Len(Tail(W)) \in Nat
           /\ \A i \in 1 .. Len(Tail(W)) : i + 1 \in 1 .. Len(W) /\ Tail(W)[i] = W[i + 1]
           /\ \A i \in 1 .. Len(W) : i # 1 => i - 1 \in 1 .. Len(Tail(W)) /\ Tail(W)[i - 1] = W[i]
<1> DEFINE X == Tail(W)
<1>1. /\ Head(W) = W[1] /\ X \in Seq(Frame) /\ Len(X) = Len(W) - 1 /\ \A i \in 1 .. Len(X) : X[i] = W[i + 1]
      /\ Len(W) \in Nat /\ Head(W) \in Frame
    BY HeadTailProperties, LenProperties
<1>2. Len(X) \in Nat
    BY <1>1, LenProperties
<1> HIDE DEF X
<1>3. 1 \in 1 .. Len(W)
    BY <1>1, <1>2
<1>4. ASSUME NEW i \in 1 .. Len(W), i # 1 PROVE i - 1 \in 1 .. Len(X) /\ X[i - 1] = W[i]
  <2>1. i - 1 \in 1 .. Len(X) /\ (i - 1) + 1 = i
      BY <1>1, <1>4
  <2> QED BY <1>1, <2>1
<1>5. \A i \in 1 .. Len(X) : i + 1 \in 1 .. Len(W)
    BY <1>1
<1> QED BY <1>1, <1>2, <1>3, <1>4, <1>5 DEF X

LEMMA NewestMoves ==
    ASSUME NEW W \in Seq(Frame), W # <<>>, NEW K
    PROVE  /\ NoneOf(W, K) => NoneOf(Tail(W), K) /\ W[1] \notin K
           /\ NewestOf(W, K, 1) => NoneOf(Tail(W), K) /\ W[1] \in K
           /\ \A i : NewestOf(W, K, i) /\ i # 1 =>
                 i - 1 \in 1 .. Len(Tail(W)) /\ NewestOf(Tail(W), K, i - 1) /\ Tail(W)[i - 1] = W[i]
<1> DEFINE X == Tail(W)
<1>1. /\ 1 \in 1 .. Len(W) /\ Len(W) \in Nat /\ Len(X) \in Nat
      /\ \A i \in 1 .. Len(X) : i + 1 \in 1 .. Len(W) /\ X[i] = W[i + 1]
      /\ \A i \in 1 .. Len(W) : i # 1 => i - 1 \in 1 .. Len(X) /\ X[i - 1] = W[i]
    BY TailAt
<1> HIDE DEF X
<1>2. NoneOf(W, K) => NoneOf(X, K) /\ W[1] \notin K
    BY <1>1 DEF NoneOf
<1>3. NewestOf(W, K, 1) => NoneOf(X, K) /\ W[1] \in K
  <2> SUFFICES ASSUME NewestOf(W, K, 1) PROVE NoneOf(X, K) /\ W[1] \in K
      OBVIOUS
  <2>1. \A i \in 1 .. Len(X) : i + 1 > 1
      OBVIOUS
  <2> QED BY <1>1, <2>1 DEF NoneOf, NewestOf
<1>4. ASSUME NEW i, NewestOf(W, K, i), i # 1
      PROVE  i - 1 \in 1 .. Len(X) /\ NewestOf(X, K, i - 1) /\ X[i - 1] = W[i]
  <2>1. i \in 1 .. Len(W) /\ W[i] \in K /\ i - 1 \in 1 .. Len(X) /\ X[i - 1] = W[i]
      BY <1>1, <1>4 DEF NewestOf
  <2>2. ASSUME NEW j \in 1 .. Len(X), j > i - 1 PROVE X[j] \notin K
    <3>1. j + 1 \in 1 .. Len(W) /\ j + 1 > i /\ X[j] = W[j + 1]
        BY <1>1, <2>1, <2>2
    <3> QED BY <1>4, <3>1 DEF NewestOf
  <2> QED BY <2>1, <2>2 DEF NewestOf
<1> QED BY <1>2, <1>3, <1>4 DEF X

\* What a frame does to the view of each session.
LEMMA Effects ==
    ASSUME NEW v \in [Sessions -> ViewRecord], NEW f \in Frame, NEW s \in Sessions
    PROVE  /\ Applied(v, f)[s].working \in BOOLEAN /\ v[s].working \in BOOLEAN
           /\ f \in StateFrames => (Applied(v, f)[s].working <=> s \in f.working)
           /\ f \notin StateFrames => Applied(v, f)[s].working = v[s].working
           /\ f \in PagesOf(s) => Applied(v, f)[s].hist = f.upto
           /\ f \notin PagesOf(s) => Applied(v, f)[s].hist = v[s].hist
           /\ f \in StreamsOf(s) => Applied(v, f)[s].segs = f.segs
           /\ f \notin StreamsOf(s) => \/ Applied(v, f)[s].segs = v[s].segs
                                       \/ ~v[s].working /\ Applied(v, f)[s].segs = {}
<1>0. Applied(v, f)[s].working \in BOOLEAN /\ v[s].working \in BOOLEAN
    BY AppliedIsTyped DEF ViewRecord
<1>1. CASE f \in StateFrames /\ Applied(v, f) = ApplyState(v, f)
  <2>1. f \notin PagesOf(s) /\ f \notin StreamsOf(s)
      BY <1>1, FramesApart DEF DiscreteFrames
  <2> QED BY <1>0, <1>1, <2>1, StateIsApplied
<1>2. CASE f \in HistoryFrames /\ Applied(v, f) = ApplyHistory(v, f.sid, f.upto)
  <2>1. f \notin StateFrames /\ f \notin StreamsOf(s) /\ (f \in PagesOf(s) <=> f.sid = s)
      BY <1>2, FramesApart DEF DiscreteFrames, PagesOf
  <2>2. f.sid \in Sessions /\ f.upto \in 0 .. MaxPieces
      BY <1>2 DEF HistoryFrames
  <2>3. CASE f.sid = s
      BY <1>0, <1>2, <2>1, <2>2, <2>3, PageIsApplied
  <2>4. CASE f.sid # s
      BY <1>0, <1>2, <2>1, <2>2, <2>4, PageIsApplied
  <2> QED BY <2>3, <2>4
<1>3. CASE f \in ToolFrames /\ Applied(v, f) = v
  <2>1. f \notin StateFrames /\ f \notin StreamsOf(s) /\ f \notin PagesOf(s)
      BY <1>3, FramesApart DEF DiscreteFrames
  <2> QED BY <1>0, <1>3, <2>1
<1>4. CASE f \in StreamFrames /\ Applied(v, f) = ApplyStream(v, f)
  <2>1. f \notin StateFrames /\ f \notin PagesOf(s) /\ (f \in StreamsOf(s) <=> f.sid = s)
      BY <1>4, FramesApart DEF StreamsOf
  <2>2. CASE f.sid = s
      BY <1>0, <1>4, <2>1, <2>2, StreamIsApplied
  <2>3. CASE f.sid # s
      BY <1>0, <1>4, <2>1, <2>3, StreamIsApplied
  <2> QED BY <2>2, <2>3
<1> QED BY <1>1, <1>2, <1>3, <1>4, AppliedIsOneOf

LEMMA StatusArrives ==
    ASSUME NEW ss, RecordsOK(ss), NEW v \in [Sessions -> ViewRecord], NEW W \in Seq(Frame), W # <<>>,
           StatusComes(ss, W, v)
    PROVE  StatusComes(ss, Tail(W), Applied(v, W[1]))
<1>1. W[1] \in Frame
    BY TailAt
<1>2. CASE \E i \in 1 .. Len(W) : NewestOf(W, StateFrames, i) /\ W[i] = StateFrame(ss)
  <2>1. PICK i \in 1 .. Len(W) : NewestOf(W, StateFrames, i) /\ W[i] = StateFrame(ss)
      BY <1>2
  <2>2. CASE i = 1
    <3>1. NoneOf(Tail(W), StateFrames) /\ W[1] \in StateFrames
        BY <2>1, <2>2, NewestMoves
    <3>2. \A s \in Sessions : /\ Applied(v, W[1])[s].working <=> s \in W[1].working
                              /\ Applied(v, W[1])[s].working \in BOOLEAN
        BY <1>1, <3>1, Effects
    <3>3. \A s \in Sessions : /\ s \in W[1].working <=> ss[s].working
                              /\ ss[s].working \in BOOLEAN
        BY <2>1, <2>2 DEF StateFrame, RecordsOK, SessionRecord
    <3> QED BY <3>1, <3>2, <3>3 DEF StatusComes
  <2>3. CASE i # 1
      BY <2>1, <2>3, NewestMoves DEF StatusComes
  <2> QED BY <2>2, <2>3
<1>3. CASE NoneOf(W, StateFrames) /\ \A s \in Sessions : v[s].working = ss[s].working
  <2>1. NoneOf(Tail(W), StateFrames) /\ W[1] \notin StateFrames
      BY <1>3, NewestMoves
  <2> QED BY <1>1, <1>3, <2>1, Effects DEF StatusComes
<1> QED BY <1>2, <1>3 DEF StatusComes

LEMMA PageArrives ==
    ASSUME NEW ss, NEW v \in [Sessions -> ViewRecord], NEW W \in Seq(Frame), W # <<>>, NEW s \in Sessions,
           PageComes(ss, W, v, s)
    PROVE  PageComes(ss, Tail(W), Applied(v, W[1]), s)
<1>1. W[1] \in Frame
    BY TailAt
<1>2. CASE \E i \in 1 .. Len(W) : NewestOf(W, PagesOf(s), i) /\ W[i] = HistoryFrame(ss, s)
  <2>1. PICK i \in 1 .. Len(W) : NewestOf(W, PagesOf(s), i) /\ W[i] = HistoryFrame(ss, s)
      BY <1>2
  <2>2. CASE i = 1
    <3>1. NoneOf(Tail(W), PagesOf(s)) /\ W[1] \in PagesOf(s)
        BY <2>1, <2>2, NewestMoves
    <3>2. Applied(v, W[1])[s].hist = ss[s].saved
        BY <1>1, <2>1, <2>2, <3>1, Effects DEF HistoryFrame
    <3> QED BY <3>1, <3>2 DEF PageComes
  <2>3. CASE i # 1
      BY <2>1, <2>3, NewestMoves DEF PageComes
  <2> QED BY <2>2, <2>3
<1>3. CASE NoneOf(W, PagesOf(s)) /\ v[s].hist = ss[s].saved
  <2>1. NoneOf(Tail(W), PagesOf(s)) /\ W[1] \notin PagesOf(s)
      BY <1>3, NewestMoves
  <2> QED BY <1>1, <1>3, <2>1, Effects DEF PageComes
<1> QED BY <1>2, <1>3 DEF PageComes

\* The app sees it at work still, or sees it stop now.
LEMMA SeenArrives ==
    ASSUME NEW v \in [Sessions -> ViewRecord], NEW W \in Seq(Frame), W # <<>>, NEW s \in Sessions,
           WorkSeen(W, v, s)
    PROVE  WorkSeen(Tail(W), Applied(v, W[1]), s) \/ (v[s].working /\ ~Applied(v, W[1])[s].working)
<1> DEFINE X == Tail(W)
           u == Applied(v, W[1])
<1>1. /\ u[s].working \in BOOLEAN /\ v[s].working \in BOOLEAN
      /\ W[1] \in StateFrames => (u[s].working <=> s \in W[1].working)
      /\ \A i \in 1 .. Len(W) : i # 1 => i - 1 \in 1 .. Len(X) /\ X[i - 1] = W[i]
    BY TailAt, Effects
<1> HIDE DEF X, u
<1>2. CASE v[s].working
  <2>1. u[s].working => WorkSeen(X, u, s)
      BY DEF WorkSeen
  <2> QED BY <1>1, <1>2, <2>1 DEF X, u
<1>3. CASE \E i \in 1 .. Len(W) : W[i] \in StateFrames /\ s \in W[i].working
  <2>1. PICK i \in 1 .. Len(W) : W[i] \in StateFrames /\ s \in W[i].working
      BY <1>3
  <2>2. CASE i = 1
    <3>1. u[s].working
        BY <1>1, <2>1, <2>2
    <3>2. WorkSeen(X, u, s)
        BY <3>1 DEF WorkSeen
    <3> QED BY <3>2 DEF X, u
  <2>3. CASE i # 1
    <3>1. i - 1 \in 1 .. Len(X) /\ X[i - 1] \in StateFrames /\ s \in X[i - 1].working
        BY <1>1, <2>1, <2>3
    <3>2. WorkSeen(X, u, s)
        BY <3>1 DEF WorkSeen
    <3> QED BY <3>2 DEF X, u
  <2> QED BY <2>2, <2>3
<1> QED BY <1>2, <1>3 DEF WorkSeen

LEMMA SinceArrives ==
    ASSUME NEW v \in [Sessions -> ViewRecord], NEW W \in Seq(Frame), W # <<>>, NEW s \in Sessions,
           NEW k \in Nat, WorkingSince(W, v, s, k)
    PROVE  WorkingSince(Tail(W), Applied(v, W[1]), s, IF k = 0 THEN 0 ELSE k - 1)
<1> DEFINE X == Tail(W)
           u == Applied(v, W[1])
<1>1. /\ W[1] \in Frame /\ 1 \in 1 .. Len(W) /\ Len(W) \in Nat /\ Len(X) \in Nat
      /\ \A i \in 1 .. Len(X) : i + 1 \in 1 .. Len(W) /\ X[i] = W[i + 1]
      /\ \A i \in 1 .. Len(W) : i # 1 => i - 1 \in 1 .. Len(X) /\ X[i - 1] = W[i]
    BY TailAt
<1>2. /\ W[1] \in StateFrames => (u[s].working <=> s \in W[1].working)
      /\ W[1] \notin StateFrames => u[s].working = v[s].working
    BY <1>1, Effects
<1> HIDE DEF X, u
<1>3. k = 0 => v[s].working
    BY DEF WorkingSince
<1>4. k # 0 => k \in 1 .. Len(W) /\ W[k] \in StateFrames /\ s \in W[k].working
    BY DEF WorkingSince
<1>5. \A j \in 1 .. Len(W) : j > k /\ W[j] \in StateFrames => s \in W[j].working
    BY DEF WorkingSince
<1>6. CASE k = 0
  <2>1. u[s].working
    <3>1. 1 > k /\ v[s].working
        BY <1>3, <1>6
    <3>2. W[1] \in StateFrames => s \in W[1].working
        BY <1>1, <1>5, <3>1
    <3> QED BY <1>2, <3>1, <3>2
  <2>2. ASSUME NEW j \in 1 .. Len(X), X[j] \in StateFrames PROVE s \in X[j].working
    <3>1. j + 1 \in 1 .. Len(W) /\ X[j] = W[j + 1] /\ j + 1 > k
        BY <1>1, <1>6
    <3> QED BY <1>5, <2>2, <3>1
  <2>3. WorkingSince(X, u, s, 0)
      BY <2>1, <2>2 DEF WorkingSince
  <2> QED BY <1>6, <2>3 DEF X, u
<1>7. CASE k # 0
  <2> DEFINE l == k - 1
  <2>1. l = 0 => u[s].working
    <3> SUFFICES ASSUME l = 0 PROVE u[s].working
        OBVIOUS
    <3>1. k = 1
        BY <1>7
    <3>2. W[1] \in StateFrames /\ s \in W[1].working
        BY <1>4, <3>1
    <3> QED BY <1>2, <3>2
  <2>2. l # 0 => l \in 1 .. Len(X) /\ X[l] \in StateFrames /\ s \in X[l].working
    <3> SUFFICES ASSUME l # 0 PROVE l \in 1 .. Len(X) /\ X[l] \in StateFrames /\ s \in X[l].working
        OBVIOUS
    <3>1. k # 1
        OBVIOUS
    <3> QED BY <1>1, <1>4, <1>7, <3>1
  <2>3. ASSUME NEW j \in 1 .. Len(X), j > l, X[j] \in StateFrames PROVE s \in X[j].working
    <3>1. j + 1 \in 1 .. Len(W) /\ X[j] = W[j + 1] /\ j + 1 > k
        BY <1>1, <2>3
    <3> QED BY <1>5, <2>3, <3>1
  <2> HIDE DEF l
  <2>4. WorkingSince(X, u, s, l)
      BY <2>1, <2>2, <2>3 DEF WorkingSince
  <2> QED BY <1>7, <2>4 DEF X, u, l
<1> QED BY <1>6, <1>7

LEMMA WorkArrives ==
    ASSUME NEW ss, NEW v \in [Sessions -> ViewRecord], NEW W \in Seq(Frame), W # <<>>, NEW s \in Sessions,
           NEW i \in Nat, WorkingBy(ss, W, v, s, i)
    PROVE  /\ WorkingBy(ss, Tail(W), Applied(v, W[1]), s, i)
           /\ i # 0 => WorkingBy(ss, Tail(W), Applied(v, W[1]), s, i - 1)
<1> DEFINE X == Tail(W)
           u == Applied(v, W[1])
<1>1. ASSUME ss[s].segs # {}, NEW n \in Nat, n = i \/ (i # 0 /\ n = i - 1)
      PROVE  \E l \in 0 .. n : WorkingSince(X, u, s, l)
  <2>1. PICK k \in 0 .. i : WorkingSince(W, v, s, k)
      BY <1>1 DEF WorkingBy
  <2> DEFINE l == IF k = 0 THEN 0 ELSE k - 1
  <2>2. WorkingSince(X, u, s, l)
      BY <2>1, SinceArrives
  <2> HIDE DEF X, u
  <2>3. l \in 0 .. n
      BY <1>1, <2>1
  <2> HIDE DEF l
  <2> QED BY <2>2, <2>3
<1> HIDE DEF X, u
<1>2. WorkingBy(ss, X, u, s, i)
    BY <1>1 DEF WorkingBy
<1>3. ASSUME i # 0 PROVE WorkingBy(ss, X, u, s, i - 1)
  <2>1. i - 1 \in Nat
      BY <1>3
  <2> QED BY <1>1, <1>3, <2>1 DEF WorkingBy
<1> QED BY <1>2, <1>3 DEF X, u

LEMMA SegsArrive ==
    ASSUME NEW ss, NEW c, NEW d, d.streams = c.streams, d.dropped = c.dropped,
           NEW v \in [Sessions -> ViewRecord], NEW W \in Seq(Frame), W # <<>>, NEW s \in Sessions,
           SegsCome(ss, c, W, v, s)
    PROVE  SegsCome(ss, d, Tail(W), Applied(v, W[1]), s)
<1> DEFINE X == Tail(W)
           u == Applied(v, W[1])
<1>1. W[1] \in Frame /\ Len(W) \in Nat
    BY TailAt
<1>2. CASE s \in c.dropped \/ s \in SidsOf(c.streams)
    BY <1>2 DEF SegsCome
<1>3. CASE \E i \in 1 .. Len(W) : /\ NewestOf(W, StreamsOf(s), i) /\ W[i].segs = ss[s].segs
                                  /\ WorkingBy(ss, W, v, s, i)
  <2>1. PICK i \in 1 .. Len(W) : /\ NewestOf(W, StreamsOf(s), i) /\ W[i].segs = ss[s].segs
                                 /\ WorkingBy(ss, W, v, s, i)
      BY <1>3
  <2>2. WorkingBy(ss, X, u, s, i - 1)
    <3>1. i \in Nat /\ i # 0
        BY <1>1
    <3> QED BY <2>1, <3>1, WorkArrives
  <2>3. CASE i = 1
    <3>1. NoneOf(X, StreamsOf(s)) /\ W[1] \in StreamsOf(s)
        BY <2>1, <2>3, NewestMoves
    <3>2. u[s].segs = ss[s].segs
        BY <1>1, <2>1, <2>3, <3>1, Effects
    <3>3. WorkingBy(ss, X, u, s, 0)
      <4>1. i - 1 = 0
          BY <2>3
      <4> QED BY <2>2, <4>1, Zenon
    <3> QED BY <3>1, <3>2, <3>3 DEF SegsCome
  <2>4. CASE i # 1
    <3>1. i - 1 \in 1 .. Len(X) /\ NewestOf(X, StreamsOf(s), i - 1) /\ X[i - 1] = W[i]
      <4>1. \A n : NewestOf(W, StreamsOf(s), n) /\ n # 1 =>
                     n - 1 \in 1 .. Len(X) /\ NewestOf(X, StreamsOf(s), n - 1) /\ X[n - 1] = W[n]
          BY NewestMoves
      <4> HIDE DEF X, u
      <4> QED BY <2>1, <2>4, <4>1, Zenon
    <3>2. X[i - 1].segs = ss[s].segs
        BY <2>1, <3>1
    <3> HIDE DEF X, u
    <3>3. \E n \in 1 .. Len(X) : /\ NewestOf(X, StreamsOf(s), n) /\ X[n].segs = ss[s].segs
                                 /\ WorkingBy(ss, X, u, s, n)
        BY <2>2, <3>1, <3>2
    <3>4. SegsCome(ss, d, X, u, s)
        BY <3>3 DEF SegsCome
    <3> QED BY <3>4 DEF X, u
  <2> QED BY <2>3, <2>4
<1>4. CASE NoneOf(W, StreamsOf(s)) /\ v[s].segs = ss[s].segs /\ WorkingBy(ss, W, v, s, 0)
  <2>1. NoneOf(X, StreamsOf(s)) /\ W[1] \notin StreamsOf(s)
      BY <1>4, NewestMoves
  <2>2. WorkingBy(ss, X, u, s, 0)
      BY <1>4, WorkArrives
  <2>3. u[s].segs = v[s].segs \/ (~v[s].working /\ u[s].segs = {})
      BY <1>1, <2>1, Effects
  <2>4. ss[s].segs # {} => v[s].working
      BY <1>4 DEF WorkingBy, WorkingSince
  <2>5. u[s].segs = ss[s].segs
      BY <1>4, <2>3, <2>4
  <2> QED BY <2>1, <2>2, <2>5 DEF SegsCome
<1> QED BY <1>2, <1>3, <1>4 DEF SegsCome

LEMMA DeliverKeeps ==
    ASSUME FeedInv, Deliver
    PROVE  FeedInv'
<1> DEFINE W == Coming(conn)
<1>1. /\ FeedTyped /\ FeedTyped' /\ RecordsOK(session) /\ view \in [Sessions -> ViewRecord]
      /\ session' = session /\ reply' = reply /\ links' = links
      /\ asked' = asked \cup StoppedWorking /\ view' = Applied(view, Head(conn.wire))
      /\ GoodConn(conn) /\ conn.wire # <<>> /\ conn' = [conn EXCEPT !.wire = Tail(@)]
    BY DeliverTyped DEF FeedInv, FeedTyped, Deliver
<1>2. conn'.up = conn.up /\ conn'.streams = conn.streams /\ conn'.dropped = conn.dropped
    BY <1>1, WireMoves
<1>3. W \in Seq(Frame) /\ W # <<>> /\ Head(conn.wire) = Head(W) /\ Coming(conn') = Tail(W)
    BY <1>1, ComingMoves
<1>4. view' = Applied(view, W[1])
    BY <1>1, <1>3, TailAt
<1>5. \A s \in Sessions : BoxIsNewest(session', conn', s)
    BY <1>1, <1>2 DEF FeedInv, BoxIsNewest
<1>6. links = 0 /\ conn.up => StatusComes(session, W, view)
    BY DEF FeedInv, FirstLink, StatusOK
<1>7. links = 0 /\ conn.up => \A s \in Sessions : HistoryComes(session, W, view, asked, reply, s)
    BY DEF FeedInv, FirstLink, HistoryOK
<1>8. links = 0 /\ conn.up => \A s \in Sessions : SegsCome(session, conn, W, view, s)
    BY DEF FeedInv, FirstLink, SegsOK
<1>8a. Coming(conn') = Tail(W)
    BY <1>3
<1> HIDE DEF W
<1>9. ASSUME links = 0, conn.up PROVE StatusComes(session, Tail(W), view')
    BY <1>1, <1>3, <1>4, <1>6, <1>9, StatusArrives
<1>10. ASSUME links = 0, conn.up, NEW s \in Sessions PROVE SegsCome(session, conn', Tail(W), view', s)
    BY <1>2, <1>1, <1>3, <1>4, <1>8, <1>10, SegsArrive
<1>11. ASSUME links = 0, conn.up, NEW s \in Sessions PROVE HistoryComes(session, Tail(W), view', asked', reply, s)
  <2>1. HistoryComes(session, W, view, asked, reply, s)
      BY <1>7, <1>11
  <2>2. PageComes(session, W, view, s) => PageComes(session, Tail(W), view', s)
      BY <1>1, <1>3, <1>4, PageArrives
  <2>3. s \in Open /\ WorkSeen(W, view, s) => WorkSeen(Tail(W), view', s) \/ s \in asked'
    <3>1. s \in Open /\ view[s].working /\ ~view'[s].working => s \in asked'
        BY <1>1 DEF StoppedWorking
    <3> QED BY <1>1, <1>3, <1>4, <3>1, SeenArrives
  <2>4. s \in asked => s \in asked'
      BY <1>1
  <2> QED BY <2>1, <2>2, <2>3, <2>4 DEF HistoryComes
<1>12. links' = 0 => /\ StatusOK(session', conn', view')
                     /\ \A s \in Sessions : /\ HistoryOK(session', conn', view', asked', reply', s)
                                            /\ SegsOK(session', conn', view', s)
    BY <1>1, <1>2, <1>8a, <1>9, <1>10, <1>11 DEF StatusOK, HistoryOK, SegsOK
<1> QED BY <1>1, <1>5, <1>12 DEF FeedInv, FirstLink

LEMMA ServeKeeps ==
    ASSUME FeedInv, NEW s \in Sessions, ServeHistory(s)
    PROVE  FeedInv'
<1> DEFINE f == HistoryFrame(session, s)
<1>1. /\ FeedTyped' /\ GoodConn(conn) /\ RecordsOK(session) /\ session' = session /\ conn' = Enqueue(conn, f)
      /\ view' = view /\ links' = links
      /\ reply' = [reply EXCEPT ![s] = session[s].saved] /\ asked' = asked \ {s}
      /\ reply \in [Sessions -> 0 .. MaxPieces]
    BY ServeTyped DEF FeedInv, FeedTyped, ServeHistory, Publish
<1>2. f \in HistoryFrames \cup ToolFrames /\ \A t \in Sessions : t # s => f \notin PagesOf(t)
    BY <1>1 DEF HistoryFrame, HistoryFrames, PagesOf, RecordsOK, SessionRecord
<1> HIDE DEF f
<1>3. \A t \in Sessions : BoxIsNewest(session', conn', t)
    BY <1>1, <1>2, PlainSent DEF FeedInv
<1>4. ASSUME links = 0 PROVE StatusOK(session', conn', view) /\ \A t \in Sessions : SegsOK(session', conn', view, t)
    BY <1>1, <1>2, <1>4, PlainSent DEF FeedInv, FirstLink
<1>5. ASSUME links = 0, NEW t \in Sessions PROVE HistoryOK(session', conn', view, asked', reply', t)
  <2>1. CASE t # s
    <3>1. HistoryOK(session, conn', view, asked, reply, t)
        BY <1>1, <1>2, <1>5, <2>1, PlainSent DEF FeedInv, FirstLink
    <3>2. reply'[t] = reply[t] /\ (t \in asked => t \in asked')
        BY <1>1, <2>1
    <3> QED BY <1>1, <3>1, <3>2 DEF HistoryOK, HistoryComes
  <2>2. CASE t = s
    <3>1. reply'[s] \in {0, session[s].saved}
        BY <1>1
    <3>2. HistoryOK(session, conn', view, asked', reply', s)
        BY <1>1, <3>1, PageServes DEF f
    <3> QED BY <1>1, <2>2, <3>2
  <2> QED BY <2>1, <2>2
<1>6. FirstLink'
    BY <1>1, <1>4, <1>5 DEF FirstLink
<1> QED BY <1>1, <1>3, <1>6 DEF FeedInv

LEMMA FeedNextInv == FeedInv /\ [FeedNext]_feedVars => FeedInv'
<1> SUFFICES ASSUME FeedInv, [FeedNext]_feedVars PROVE FeedInv'
    OBVIOUS
<1>0. FeedTyped'
    BY FeedNextTyped DEF FeedInv
<1>1. ASSUME NEW s \in Sessions,
             \/ UserMessage(s) \/ LateHistory(s) \/ AssistantStarts(s)
             \/ TextDelta(s) \/ ToolStarts(s) \/ ToolEnds(s) \/ AgentEnds(s)
      PROVE  FeedInv'
  <2>1. Kept
      BY <1>1, UserMessageKeeps, LateHistoryKeeps, AssistantStartsKeeps, TextDeltaKeeps, ToolStartsKeeps,
         ToolEndsKeeps, AgentEndsKeeps
  <2>2. AppUnchanged
      BY <1>1 DEF UserMessage, LateHistory, AssistantStarts, TextDelta, ToolStarts, ToolEnds, AgentEnds
  <2> QED BY <1>0, <2>1, <2>2, KeptIsInv
<1>2. ASSUME NEW s \in Sessions, ServeHistory(s) \/ ReplyArrives(s) PROVE FeedInv'
    BY <1>2, ServeKeeps, ReplyKeeps
<1>2a. ASSUME NEW s \in Sessions, UntoldDelta(s) PROVE FeedInv'
    BY <1>0, <1>2a, UntoldDeltaKeeps, KeptIsInv
<1>3. CASE TimerFires \/ StallRunsOut \/ LinkBreaks
  <2>1. Kept
      BY <1>3, TimerKeeps, StallKeeps, BreakKeeps
  <2>2. AppUnchanged
      BY <1>3 DEF TimerFires, StallRunsOut, LinkBreaks
  <2> QED BY <1>0, <2>1, <2>2, KeptIsInv
<1>4. CASE UNCHANGED feedVars
    BY <1>0, <1>4 DEF feedVars, FeedInv, FirstLink
<1> QED BY <1>1, <1>2, <1>2a, <1>3, <1>4, DeliverKeeps, RedialKeeps DEF FeedNext

\* Nothing left to come: what is shown is the host's.
LEMMA InvIsSound == FeedInv => FeedIsSound
<1> SUFFICES ASSUME FeedInv PROVE FeedIsSound
    OBVIOUS
<1>1. FeedTypeOK
    BY FeedTypedIsTypeOK DEF FeedInv
<1>2. ASSUME links = 0, Quiet, NEW s \in Sessions
      PROVE  /\ view[s].working = session[s].working
             /\ ~session[s].working => view[s].hist = session[s].saved
             /\ s \notin conn.dropped => view[s].segs = session[s].segs
  <2>1. Len(Coming(conn)) = 0 /\ conn.up /\ SidsOf(conn.streams) = {}
    <3>1. conn.wire = <<>> /\ conn.urgent = <<>> /\ conn.streams = <<>> /\ conn.up
        BY <1>2 DEF Quiet
    <3>2. <<>> \in Seq(Frame) /\ <<>> \o <<>> = <<>> /\ Len(<<>>) = 0 /\ DOMAIN <<>> = {}
        BY EmptySeq, ConcatEmptySeq
    <3> QED BY <3>1, <3>2 DEF Coming, SidsOf
  <2> DEFINE W == Coming(conn)
  <2>2. StatusComes(session, W, view) /\ HistoryComes(session, W, view, asked, reply, s)
        /\ SegsCome(session, conn, W, view, s)
      BY <1>2, <2>1 DEF FeedInv, FirstLink, StatusOK, HistoryOK, SegsOK
  <2> HIDE DEF W
  <2>3. \A i : i \notin 1 .. Len(W)
      BY <2>1 DEF W
  <2>4. view[s].working = session[s].working
      BY <2>2, <2>3 DEF StatusComes
  <2>5. s \notin asked
      BY <1>2 DEF Quiet
  <2>6. ~session[s].working => view[s].hist = session[s].saved
      BY <2>2, <2>3, <2>4, <2>5 DEF HistoryComes, PageComes, WorkSeen
  <2>7. s \notin conn.dropped => view[s].segs = session[s].segs
      BY <2>1, <2>2, <2>3 DEF SegsCome
  <2> QED BY <2>4, <2>6, <2>7
<1> QED BY <1>1, <1>2 DEF FeedIsSound, SettledViewAgrees

\* The state keeps its types, and what has settled agrees with the host.
THEOREM FeedSound == FeedSpec => []FeedIsSound
BY FeedInitInv, FeedNextInv, InvIsSound, PTL DEF FeedSpec

=============================================================================
