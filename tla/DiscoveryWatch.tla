--------------------------- MODULE DiscoveryWatch ---------------------------
(***************************************************************************)
(* How the host learns of a change of the discovery document               *)
(* (discovery-watch.ts): a push listener that is rebuilt when it dies      *)
(* (firestore-listen.ts), or a poll whose reads may overlap.  A document   *)
(* is the number of its version.  Who is told is the business of the       *)
(* module that extends this one.                                           *)
(***************************************************************************)
EXTENDS Naturals, FiniteSets

CONSTANTS
    MaxReads,   \* bound: polls in flight at once
    MaxErrors,  \* bound: listeners and reads that fail
    WaitMax     \* WATCH_RETRY_MAX_MS, in multiples of WATCH_RETRY_MIN_MS

ASSUME WaitAssumption == WaitMax \in Nat \ {0}

VARIABLES
    mode,       \* "push" or "poll": what createDiscoveryWatch chose
    watch,      \* [on, listener, seen, timer, backoff]
    reads,      \* the versions polls in flight have read
    version,    \* the version of the document
    errors      \* bound: failures so far

watchVars == <<mode, watch, reads, version, errors>>

Smaller(a, b) == IF a < b THEN a ELSE b

\* seen is the version the listener delivered last; a new listener delivers the document at once.
NotWatching == [on |-> FALSE, listener |-> FALSE, seen |-> 0, timer |-> FALSE, backoff |-> 1]

WatchInit ==
    /\ mode \in {"push", "poll"}
    /\ watch = NotWatching /\ reads = {} /\ version = 1 /\ errors = 0

\* arm: at most one listener.
Armed(w) == IF ~w.on \/ w.listener THEN w ELSE [w EXCEPT !.listener = TRUE, !.seen = 0]

\* start: a poll reads at once and then at every tick.
WatchStarts ==
    /\ ~watch.on
    /\ watch' = IF mode = "push" THEN Armed([watch EXCEPT !.on = TRUE]) ELSE [watch EXCEPT !.on = TRUE, !.timer = TRUE]
    /\ reads' = IF mode = "push" THEN reads ELSE reads \cup {version}
    /\ UNCHANGED <<mode, version, errors>>

\* stop: a read in flight goes on, and is delivered.
WatchStops ==
    /\ watch' = [watch EXCEPT !.on = FALSE, !.listener = FALSE, !.timer = FALSE]
    /\ UNCHANGED <<mode, reads, version, errors>>

\* A delivered snapshot is proof of life.
Snapshot(v) ==
    /\ watch.listener /\ watch.seen # version /\ v = version
    /\ watch' = [watch EXCEPT !.seen = version, !.backoff = 1]
    /\ UNCHANGED <<mode, reads, version, errors>>

\* The error handler, called once: the listener is detached and a rebuild scheduled.
ListenerDies ==
    /\ watch.listener /\ errors < MaxErrors
    /\ errors' = errors + 1
    /\ watch' = [watch EXCEPT !.listener = FALSE, !.timer = TRUE, !.backoff = Smaller(2 * @, WaitMax)]
    /\ UNCHANGED <<mode, reads, version>>

Rebuild ==
    /\ mode = "push" /\ watch.timer
    /\ watch' = Armed([watch EXCEPT !.timer = FALSE])
    /\ UNCHANGED <<mode, reads, version, errors>>

\* The interval: it does not wait for the read before.
Tick ==
    /\ mode = "poll" /\ watch.timer
    /\ version \notin reads /\ Cardinality(reads) < MaxReads
    /\ reads' = reads \cup {version}
    /\ UNCHANGED <<mode, watch, version, errors>>

\* A read's answer, also one that was overtaken and one that comes after stop.
ReadArrives(v) ==
    /\ v \in reads
    /\ reads' = reads \ {v}
    /\ UNCHANGED <<mode, watch, version, errors>>

ReadFails ==
    /\ errors < MaxErrors /\ errors' = errors + 1
    /\ \E v \in reads : reads' = reads \ {v}
    /\ UNCHANGED <<mode, watch, version>>
=============================================================================
