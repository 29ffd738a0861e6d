--------------------------- MODULE MCReachability ---------------------------
(***************************************************************************)
(* Small instances of Reachability for TLC, all of them in one run.  Two   *)
(* starts meet under every provider and a write that fails; three, so that *)
(* a retry is owed after one start cleared the flag another had set.       *)
(***************************************************************************)
EXTENDS Reachability

Pair  == [starts |-> 2, providers |-> Providers, failures |-> 1]
Trio  == [starts |-> 3, providers |-> {"ngrok", "tailscale", "off"}, failures |-> 1]
MCScopes == {Pair, Trio}
=============================================================================
