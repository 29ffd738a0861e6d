---------------------------- MODULE TaskPromise -----------------------------
(***************************************************************************)
(* What a session that left work in the background is promised: it is told *)
(* of an end once, never while the work goes on, and never of an end that  *)
(* somebody asked for.                                                     *)
(***************************************************************************)
CONSTANT Tasks

VARIABLES
    running,    \* commands that have not come to an end
    stopped,    \* commands that somebody stopped
    unread,     \* reports on their way to the session
    heard       \* reports the session has had, or never will

vars == <<running, stopped, unread, heard>>

Init == running = {} /\ stopped = {} /\ unread = {} /\ heard = {}

Fresh == Tasks \ (running \cup stopped \cup unread \cup heard)

Start(t) == t \in Fresh /\ running' = running \cup {t} /\ UNCHANGED <<stopped, unread, heard>>

\* Ends that are not reported, and reports that reach the session.  The turn
\* that waited for a command has its result, a reload ends several at once, and
\* a stop ends the command of a turn and discards the reports that wait for it.
Settle(S, R) == /\ S \subseteq running /\ R \subseteq unread
                /\ running' = running \ S /\ unread' = unread \ R
                /\ heard' = heard \cup R /\ UNCHANGED stopped

Stop(t) == /\ t \in running
           /\ running' = running \ {t} /\ stopped' = stopped \cup {t}
           /\ UNCHANGED <<unread, heard>>

Reportable == Tasks \ (stopped \cup unread \cup heard)

Report(t) == /\ t \in Reportable /\ running' = running \ {t}
             /\ \/ unread' = unread \cup {t} /\ UNCHANGED heard
                \/ heard' = heard \cup {t} /\ UNCHANGED unread
             /\ UNCHANGED stopped

Next == \/ \E t \in Tasks : Start(t) \/ Stop(t) \/ Report(t)
        \/ \E S, R \in SUBSET Tasks : Settle(S, R)

Spec == Init /\ [][Next]_vars
=============================================================================
