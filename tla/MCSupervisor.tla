---------------------------- MODULE MCSupervisor -----------------------------
(***************************************************************************)
(* Small instances of Supervisor for TLC, three in one run.  In "custody"  *)
(* there is one session and every event that moves it, reloads in the      *)
(* middle of operations included.  In "hosting" there are two sessions,    *)
(* whose operations neither overlap nor are caught by a reload, so that    *)
(* what the app is shown can be held to; in "setting" one such session     *)
(* whose model is changed too.                                             *)
(***************************************************************************)
EXTENDS Supervisor, TLC

Hosting == [sessions |-> Sessions, agents |-> 3,
            events |-> {"spawn", "resume", "despawn", "clear", "refusal", "reload", "crash"}]
Custody == [s \in Sessions |->
               [sessions |-> {s}, agents |-> 2,
                events |-> {"spawn", "resume", "despawn", "clear", "reload", "overlap",
                            "busy reload", "deadline", "stall", "failure"}]]
Setting == [s \in Sessions |->
               [sessions |-> {s}, agents |-> 3,
                events |-> {"spawn", "resume", "despawn", "clear", "model", "refusal", "reload", "crash"}]]
MCScopes == {Hosting} \cup {Custody[s] : s \in Sessions} \cup {Setting[s] : s \in Sessions}

\* Sessions are interchangeable: nothing orders them.
SessionSymmetry == Permutations(Sessions)
=============================================================================
