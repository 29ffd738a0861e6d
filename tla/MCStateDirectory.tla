--------------------------- MODULE MCStateDirectory ---------------------------
(***************************************************************************)
(* What a machine keeps in its state directory, for TLC: the sign-in       *)
(* (SignIn), the registry and the record of one host (Machine, as M), and  *)
(* the socket several hosts claim (Machine again, as S).  A behaviour is   *)
(* of one of the three, chosen at first.                                   *)
(***************************************************************************)
EXTENDS SignIn, TLC

CONSTANTS Hosts, Peers, Ids, MaxLoads

VARIABLES of, running, mem, file, history, removal, report, record, socket, claims, loads

M == INSTANCE Machine WITH host <- running
S == INSTANCE Machine WITH host <- running, Hosts <- Peers

\* None is nothing else.  The registry and the record are looked at with one host (what several
\* write over each other is in the README), the socket with as many as there are.
ASSUME MachineAssumption ==
    /\ \E h \in Hosts : Hosts = {h}
    /\ MaxLoads \in Nat
    /\ None \notin M!Instances \cup M!Records \cup M!Removals \cup M!Reports

records == <<running, mem, file, history, removal, report, record, socket, claims, loads>>

Identity == of = "identity" /\ UNCHANGED <<of, records>>
Records  == of = "records" /\ UNCHANGED <<of, vars>>
Sockets  == of = "sockets" /\ UNCHANGED <<of, vars>>

\* The part that is not looked at is at rest.
MCInit ==
    /\ Init
    /\ \/ of = "identity" /\ M!Init /\ \A i \in Ids : file[i] = "none"
       \/ of = "records" /\ M!Init /\ mode.kind = "none" /\ ~mode.tui /\ registry = None /\ cache = None
       \/ /\ of = "sockets" /\ S!Init /\ \A i \in Ids : file[i] = "none"
          /\ mode.kind = "none" /\ ~mode.tui /\ registry = None /\ cache = None

MCNext ==
    \/ Identity /\ Bootstrap
    \/ Identity /\ PinestAuth
    \/ Identity /\ NotSignedIn
    \/ Identity /\ Restart
    \/ Identity /\ Found
    \/ \E c \in Writers : Identity /\ Renew(c)
    \/ \E c \in Callers : Identity /\ Exchanged(c)
    \/ \E c \in Callers : Identity /\ Refused(c)
    \/ \E c \in Callers : Identity /\ Unanswered(c)
    \/ \E c \in Callers : Identity /\ Renewed(c)
    \/ \E u \in Uids : Identity /\ Posted(u)
    \/ \E u \in Uids : Identity /\ Read(u)
    \/ \E u \in Uids : Identity /\ SignedIn(u)
    \/ \E s \in SignIns : Identity /\ Revoke(s)
    \/ \E h \in Hosts : Records /\ M!Start(h)
    \/ \E h \in Hosts : Records /\ M!Reload(h)
    \/ \E h \in Hosts : Records /\ M!End(h)
    \/ \E h \in Hosts : Records /\ M!Kill(h)
    \/ \E h \in Hosts : Records /\ M!Boots(h)
    \/ \E h \in Hosts : Records /\ M!Loaded(h)
    \/ \E h \in Hosts : Records /\ M!LoadFails(h)
    \/ \E h \in Hosts : Records /\ M!Child(h)
    \/ \E h \in Hosts : Records /\ M!TunnelMoves(h)
    \/ \E h \in Hosts : Records /\ M!ServeLocalAgents(h)
    \/ \E c \in claims : Records /\ M!Takes(c)
    \/ \E c \in claims : Records /\ M!Listens(c)
    \/ \E h \in Hosts, i \in Ids, row \in {"live", "closed"} : Records /\ M!Upsert(h, i, row)
    \/ \E h \in Hosts, i \in Ids : Records /\ M!Removes(h, i)
    \/ \E h \in Hosts : Records /\ M!Secures(h)
    \/ \E h \in Hosts : Records /\ M!Saves(h)
    \/ \E h \in Hosts : Records /\ M!Unlinks(h)
    \/ \E h \in Peers : Sockets /\ S!Start(h)
    \/ \E h \in Peers : Sockets /\ S!Reload(h)
    \/ \E h \in Peers : Sockets /\ S!End(h)
    \/ \E h \in Peers : Sockets /\ S!Kill(h)
    \/ \E h \in Peers : Sockets /\ S!Boots(h)
    \/ \E h \in Peers : Sockets /\ S!Loaded(h)
    \/ \E h \in Peers : Sockets /\ S!LoadFails(h)
    \/ \E h \in Peers : Sockets /\ S!ServeLocalAgents(h)
    \/ \E c \in claims : Sockets /\ S!Takes(c)
    \/ \E c \in claims : Sockets /\ S!Listens(c)

MCSpec == MCInit /\ [][MCNext]_<<of, records, vars>> /\ Fairness

\* The record of the running host tells the truth (runtime-record.ts).
StateIsSound == of # "sockets" => M!StateIsSound

\* The removal of a history is a transaction (registry.ts).
RemovalIsSound == M!RemovalIsSound

\* Who was first to bind the agents' socket keeps it (local-agents.ts), among any number of hosts.
FirstKeepsItsSocket == S!FirstKeepsItsSocket
=============================================================================
