----------------------------- MODULE HostQueue -----------------------------
(***************************************************************************)
(* The user's words on the machine, from their acceptance to the           *)
(* transcript (server/src/session-submit.ts, submit.ts, supervisor.ts wire,*)
(* session-command-handler.ts): a chain that submits one message after the *)
(* other, the agent's own queues of steers and follow-ups, the mirror of   *)
(* them the clients are shown, and a stop that hands the queue back.       *)
(*                                                                         *)
(* The agent (pi) is external.  A prompt to an idle agent is prepared for  *)
(* a while before the agent counts as running, and a second prompt that    *)
(* comes meanwhile is thrown away with an error (submit.ts:5).             *)
(***************************************************************************)
EXTENDS Naturals, Sequences, FiniteSets, SequencesExt

CONSTANTS
    Msgs,        \* user messages
    FollowUps,   \* those sent as follow-ups; the others are steers
    None,
    ReportFirst, \* external: the agent reports a shorter queue (queue_update)
                 \* before it announces the message (message_start), or after
    MaxCopies    \* bound: how often a message is accepted

ASSUME FollowUpsKnown == FollowUps \subseteq Msgs
ASSUME NoneNew == None \notin Msgs
ASSUME ReportOrder == ReportFirst \in BOOLEAN
ASSUME CopiesBound == MaxCopies \in Nat

VARIABLES
    chain,       \* messages the submitter has not sent, in order
    gate,        \* "waiting": the one sent last is given time to start its turn
    turnStarted, \* between the first message_start of a run and its agent_end
    pi,          \* the agent: at what it is, its queues, the message it begins
    mirror,      \* pending: the queue as the clients are shown it
    transcript,  \* the user messages of the session file
    accepted,    \* how many copies of a message were accepted
    voided,      \* copies whose prompt failed or clashed, and was reported
    returned,    \* copies a stop took out of the queue, for the composer
    clash,       \* a prompt was thrown away because one the submitter had sent
                 \* was being prepared
    slow,        \* a start outlasted the five seconds of the gate
    hidden       \* messages the agent had queued while the mirror did not show them

host == <<chain, gate, turnStarted, pi, mirror, transcript, accepted, voided,
          returned, clash, slow, hidden>>

\* "restarting": a deletion sent the message again, and nobody waits for its
\* promise; "ended": the process is gone.
Agent == [state : {"idle", "starting", "restarting", "running", "aborting", "ended"},
          steer : Seq(Msgs), follow : Seq(Msgs), cur : Msgs \cup {None}]

Count == [Msgs -> 0 .. MaxCopies]
NoCopies == [m \in Msgs |-> 0]

HostTypeOK ==
    /\ chain \in Seq(Msgs) /\ gate \in {"open", "waiting"} /\ turnStarted \in BOOLEAN
    /\ pi \in Agent /\ mirror \in Seq(Msgs) /\ transcript \in Seq(Msgs)
    /\ {accepted, voided, returned} \subseteq Count
    /\ clash \in BOOLEAN /\ slow \in BOOLEAN /\ hidden \in SUBSET Msgs

HostInit ==
    /\ chain = <<>> /\ gate = "open" /\ turnStarted = FALSE
    /\ pi = [state |-> "idle", steer |-> <<>>, follow |-> <<>>, cur |-> None]
    /\ mirror = <<>> /\ transcript = <<>>
    /\ accepted = NoCopies /\ voided = NoCopies /\ returned = NoCopies
    /\ clash = FALSE /\ slow = FALSE /\ hidden = {}

Copies(m, s) == Cardinality({i \in DOMAIN s : s[i] = m})
Queue(p)     == p.steer \o p.follow
Add(f, m)    == [f EXCEPT ![m] = @ + 1]
AddAll(f, s) == [m \in Msgs |-> f[m] + Copies(m, s)]

\* What agent p has queued and s does not show.
Missing(p, s) == {m \in Msgs : Copies(m, s) # Copies(m, Queue(p))}

-----------------------------------------------------------------------------
(* Submission.                                                             *)

\* submitUserMessage: the message joins the chain.
Submit(m) ==
    /\ accepted[m] < MaxCopies
    /\ pi.state # "ended"
    /\ accepted' = Add(accepted, m)
    /\ chain' = Append(chain, m)
    /\ UNCHANGED <<gate, turnStarted, pi, mirror, transcript, voided, returned, clash, slow, hidden>>

\* pi.prompt(m, deliverAs).
Prompt(m) ==
    \/ /\ pi.state = "idle"
       /\ pi' = [pi EXCEPT !.state = "starting", !.cur = m]
       /\ UNCHANGED <<mirror, voided, clash>>
    \/ /\ pi.state \in {"starting", "restarting"}
       /\ voided' = Add(voided, m)
       /\ clash' = (clash \/ pi.state = "starting")
       /\ UNCHANGED <<pi, mirror>>
    \/ /\ pi.state \in {"running", "aborting"}
       /\ pi' = IF m \in FollowUps THEN [pi EXCEPT !.follow = Append(@, m)]
                                   ELSE [pi EXCEPT !.steer = Append(@, m)]
       /\ mirror' = Queue(pi')                              \* queue_update
       /\ UNCHANGED <<voided, clash>>

Send ==
    /\ chain # <<>> /\ gate = "open"
    /\ chain' = Tail(chain)
    /\ Prompt(Head(chain))
    /\ gate' = IF turnStarted THEN "open" ELSE "waiting"
    /\ UNCHANGED <<turnStarted, transcript, accepted, returned, slow, hidden>>

GateOpens ==
    /\ gate = "waiting" /\ turnStarted
    /\ gate' = "open"
    /\ UNCHANGED <<chain, turnStarted, pi, mirror, transcript, accepted, voided, returned, clash, slow, hidden>>

\* A failed start must not wedge the queue.
GateExpires ==
    /\ gate = "waiting" /\ ~turnStarted
    /\ gate' = "open"
    /\ slow' = (slow \/ pi.state = "starting")
    /\ UNCHANGED <<chain, turnStarted, pi, mirror, transcript, accepted, voided, returned, clash, hidden>>

-----------------------------------------------------------------------------
(* The agent, and what its events do.                                      *)

\* popPending: a message that begins is shown as queued no longer; one that is
\* not in the list takes the oldest with it.
Popped(s, m) ==
    IF m \in ToSet(s) THEN RemoveFirst(s, m) ELSE IF s = <<>> THEN s ELSE Tail(s)

StartFails ==
    /\ pi.state = "starting"
    /\ voided' = Add(voided, pi.cur)                        \* an error is broadcast
    /\ pi' = [pi EXCEPT !.state = "idle", !.cur = None]
    /\ UNCHANGED <<chain, gate, turnStarted, mirror, transcript, accepted, returned, clash, slow, hidden>>

MessageStart ==
    /\ pi.state \in {"starting", "restarting"}
    /\ pi' = [pi EXCEPT !.state = "running"]
    /\ turnStarted' = TRUE
    /\ mirror' = Popped(mirror, pi.cur)
    /\ UNCHANGED <<chain, gate, transcript, accepted, voided, returned, clash, slow, hidden>>

\* crash.ts: a rejection nobody catches ends the process, and what it held with it.
Ends ==
    /\ pi' = [state |-> "ended", steer |-> <<>>, follow |-> <<>>, cur |-> None]
    /\ chain' = <<>> /\ mirror' = <<>> /\ gate' = "open" /\ turnStarted' = FALSE
    /\ UNCHANGED <<transcript, accepted, voided, returned, clash, slow, hidden>>

RestartFails == pi.state = "restarting" /\ Ends

\* Between two steps a steer is taken up, and at the end of the turn a follow-up.
Dequeue ==
    /\ pi.state = "running" /\ pi.cur = None /\ Queue(pi) # <<>>
    /\ pi' = IF pi.steer # <<>>
               THEN [pi EXCEPT !.steer = Tail(@), !.cur = Head(pi.steer)]
               ELSE [pi EXCEPT !.follow = Tail(@), !.cur = Head(pi.follow)]
    /\ mirror' = IF ReportFirst THEN Popped(Queue(pi'), pi'.cur) ELSE Queue(pi')
    /\ turnStarted' = TRUE
    /\ hidden' = hidden \cup Missing(pi', mirror')
    /\ UNCHANGED <<chain, gate, transcript, accepted, voided, returned, clash, slow>>

\* message_end: the agent has recorded the message.
MessageEnd ==
    /\ pi.state \in {"running", "aborting"} /\ pi.cur # None
    /\ transcript' = Append(transcript, pi.cur)
    /\ pi' = [pi EXCEPT !.cur = None]
    /\ UNCHANGED <<chain, gate, turnStarted, mirror, accepted, voided, returned, clash, slow, hidden>>

\* agent_end.  An aborted run leaves what was queued since to the next one.
RunEnds ==
    /\ pi.cur = None
    /\ pi.state = "aborting" \/ (pi.state = "running" /\ Queue(pi) = <<>>)
    /\ pi' = [pi EXCEPT !.state = "idle"]
    /\ turnStarted' = FALSE
    /\ mirror' = <<>>
    /\ hidden' = hidden \cup Missing(pi', <<>>)
    /\ UNCHANGED <<chain, gate, transcript, accepted, voided, returned, clash, slow>>

-----------------------------------------------------------------------------
(* The user's hand in the queue.                                           *)

\* Mutant of Stop: the agent keeps what is handed back to the composer.
StopKeepsQueue ==
    /\ returned' = AddAll(returned, mirror)
    /\ mirror' = <<>>
    /\ pi' = [pi EXCEPT !.state = IF @ = "running" THEN "aborting" ELSE @]
    /\ UNCHANGED <<chain, gate, turnStarted, transcript, accepted, voided, clash, slow, hidden>>

\* cancel: the queue goes back, and then the run is aborted.
Stop ==
    /\ returned' = AddAll(returned, mirror)
    /\ mirror' = <<>>
    /\ pi' = [pi EXCEPT !.steer = <<>>, !.follow = <<>>,
                        !.state = IF @ = "running" THEN "aborting" ELSE @]
    /\ UNCHANGED <<chain, gate, turnStarted, transcript, accepted, voided, clash, slow, hidden>>

\* queue_delete.  The command names a place in the queue and the handler compares
\* words, which it has not got: nothing matches, and every message is taken out and
\* prompted again.  A working agent queues them as they were; a calm one begins the
\* first, and those after it are thrown away.
QueueDelete ==
    \/ /\ pi.state \in {"running", "aborting"} \/ Queue(pi) = <<>>
       /\ mirror' = Queue(pi)                               \* syncQueue
       /\ UNCHANGED <<chain, gate, turnStarted, pi, transcript, accepted, voided, returned, clash, slow, hidden>>
    \/ /\ pi.state = "idle" /\ Len(Queue(pi)) = 1
       /\ pi' = [state |-> "restarting", steer |-> <<>>, follow |-> <<>>, cur |-> Head(Queue(pi))]
       /\ mirror' = <<>>
       /\ UNCHANGED <<chain, gate, turnStarted, transcript, accepted, voided, returned, clash, slow, hidden>>
    \/ /\ \/ pi.state = "idle" /\ Len(Queue(pi)) > 1
          \/ pi.state \in {"starting", "restarting"} /\ Queue(pi) # <<>>
       /\ Ends

\* The submitter runs, and an agent that does not fail to prepare a prompt begins it.
HostFairness ==
    WF_host(Send) /\ WF_host(GateOpens \/ GateExpires) /\ WF_host(MessageStart)

-----------------------------------------------------------------------------
(* Properties.                                                             *)

Found(m) == Copies(m, chain) + Copies(m, Queue(pi))
              + (IF pi.cur = m THEN 1 ELSE 0) + Copies(m, transcript)
              + voided[m] + returned[m]

\* No copy of a message is doubled on the machine, and none lost, whatever the
\* user stops or deletes while it moves: each one accepted is waiting, recorded,
\* reported as failed, or out of the agent's hands and back in the user's.  A stop
\* returns what the mirror shows.  What it did not show, because an aborted run
\* left the message to the next one or because a message that began was taken out
\* twice, may be lost, as may what the process held when it ended; nothing is
\* doubled even then.
CopiesAccounted ==
    \A m \in Msgs : /\ Found(m) <= accepted[m]
                    /\ m \notin hidden /\ pi.state # "ended" => Found(m) = accepted[m]

\* Two messages sent in quick succession do not cost one of them, unless the
\* agent takes more than the five seconds of the gate to begin ("the second then
\* takes the full prompt path and agent.prompt() throws", submit.ts:8).  For a
\* message that a deletion sends again, past the submitter, nobody waits.
QuickIsSafe == clash => slow

\* Every message accepted reaches the agent, also after one whose start failed.
ChainDrains == (chain # <<>>) ~> (chain = <<>>)

=============================================================================
