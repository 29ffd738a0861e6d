------------------------------- MODULE SignIn -------------------------------
(***************************************************************************)
(* Who owns this machine: the sign-in kept on disk (auth-cache.ts), how a  *)
(* bootstrap finds the owner in it, in the local account or in a browser   *)
(* (auth.ts, browser-login.ts, host-identity.ts), how /pinest-auth         *)
(* replaces it on a running host (owner-runtime.ts) and how the registry   *)
(* of sessions stays bound to its first owner (registry.ts).               *)
(*                                                                         *)
(* A bootstrap makes a client of its own (_fb); /pinest-auth uses another  *)
(* one (fbAsync), so the token the first holds in memory survives a        *)
(* sign-in through the second.  Both share the file.                       *)
(***************************************************************************)
EXTENDS Naturals, FiniteSets

CONSTANTS
    Uids,           \* Google accounts
    None,           \* no account, no sign-in, no request
    Writers,        \* discovery requests that may need a fresh token at once
    MaxSignIns,     \* bound: sign-ins through a browser
    MaxRestarts     \* bound: restarts of the process

VARIABLES
    mode,       \* how the machine is set up: it never changes
    cache,      \* auth.json
    machine,    \* machineToken of the bootstrap's client, _fb
    registry,   \* ownerUid of the registry file
    host,       \* the bootstrap's phase and _ownerUid
    calls,      \* requests to Google that have not been answered
    login,      \* the loopback server a browser signs in through; the port admits one
    minted,     \* sign-ins so far: each has a refresh token of its own
    dead,       \* sign-ins whose refresh token Google no longer accepts
    restarts    \* bound: restarts so far

vars == <<mode, cache, machine, registry, host, calls, login, minted, dead, restarts>>

\* A sign-in: the account, and which refresh token (0 for none: the Admin backend keeps none).
SignIns == [uid : Uids, token : 0..(MaxSignIns + 1)]
Owners == Uids \cup {None}

\* step: a refresh token is being exchanged, the new token's account looked up, or (Admin) the
\* cached account or the local one looked up; with: the sign-in or account asked about; cached: the
\* account that was in the cache when the request was made.
Callers == Writers \cup {"boot"}
Calls == [step : {"token", "lookup", "user", "auto"}, with : SignIns, cached : Owners]

\* login.owner: the account forceReLogin insists on; reading, verifying: posts past the check of
\* nonceConsumed, posts Google is asked about.
Logins == [by : {"boot", "auth"}, owner : Owners, reading : SUBSET Uids, verifying : SUBSET Uids]

\* None is nothing else, and a bootstrap no discovery request.
ASSUME SignInAssumption ==
    /\ None \notin Uids \cup SignIns \cup Calls \cup Logins /\ "boot" \notin Writers
    /\ MaxSignIns \in Nat /\ MaxRestarts \in Nat

\* kind: the hosted project, a service account, or discovery "none"; tui: a person is there;
\* auto: the account detectAutoEmail finds.
Modes == {m \in [kind : {"hosted", "admin", "none"}, tui : BOOLEAN, auto : Owners] :
              m.kind # "admin" => m.auto = None}

Init ==
    /\ mode \in Modes
    /\ registry \in Owners
    /\ cache \in {None} \cup {s \in SignIns : /\ registry \in {None, s.uid}
                                              /\ s.token = IF mode.kind = "admin" THEN 0 ELSE 1}
    /\ machine = None /\ login = None
    /\ host = [phase |-> "down", uid |-> None]
    /\ calls = [c \in Callers |-> None]
    /\ minted = 1 /\ dead = {} /\ restarts = 0

-----------------------------------------------------------------------------
(* The bootstrap.                                                          *)

\* claimOwner: a claimed registry is its owner's, an unclaimed one becomes theirs if it can be saved.
Bound(u, saved) == registry = u \/ (registry = None /\ saved)

\* resolveHostIdentity has the owner: _ownerUid is set first, then the registry is claimed.
Resolved(u) ==
    \E saved \in BOOLEAN :
        /\ host' = [uid |-> u, phase |-> IF Bound(u, saved) THEN "online" ELSE "failed"]
        /\ registry' = IF Bound(u, saved) THEN u ELSE registry

Failed == host' = [host EXCEPT !.phase = "failed"] /\ UNCHANGED registry

\* The last resort of a bootstrap: a browser, if a person is there and the port is free.
OpensBrowser ==
    IF mode.tui /\ login = None
    THEN /\ login' = [by |-> "boot", owner |-> None, reading |-> {}, verifying |-> {}]
         /\ host' = [host EXCEPT !.phase = "resolving"]
         /\ UNCHANGED registry
    ELSE Failed /\ UNCHANGED login

Request(step, with, cached) == [step |-> step, with |-> with, cached |-> cached]
Account(u) == [uid |-> u, token |-> 0]

\* What a client whose file holds f asks first: to renew the sign-in, or to look an account up.
FirstRequest(f) ==
    CASE mode.kind = "hosted" /\ f # None /\ f.token # 0 -> Request("token", f, f.uid)
      [] mode.kind = "admin" /\ f # None -> Request("user", Account(f.uid), f.uid)
      [] mode.kind = "admin" /\ f = None /\ mode.auto # None -> Request("auto", Account(mode.auto), None)
      [] OTHER -> None

\* Mutant of NeedsBrowser: a run nobody sits at waits for a sign-in as if it had been opened.
NeedsBrowserTui(f) == mode.kind # "none" /\ mode.tui /\ FirstRequest(f) = None

NeedsBrowser(f) == mode.kind # "none" /\ FirstRequest(f) = None

\* bootstrap by the owner uid (None before one is known), with a client of its own and f on disk:
\* the owner is read there when discovery is off, and otherwise asked for.
BootsWith(uid, f) ==
    /\ calls' = [calls EXCEPT !["boot"] = FirstRequest(f)]
    /\ CASE mode.kind # "none" -> host' = [phase |-> "resolving", uid |-> uid] /\ UNCHANGED registry
         [] mode.kind = "none" /\ f # None -> Resolved(f.uid)
         [] OTHER -> Failed

\* session_start.
Bootstrap ==
    /\ host.phase = "down"
    /\ IF NeedsBrowser(cache) THEN OpensBrowser /\ UNCHANGED calls
       ELSE BootsWith(None, cache) /\ UNCHANGED login
    /\ UNCHANGED <<mode, cache, machine, minted, dead, restarts>>

\* The request c has failed: a discovery request throws, a bootstrap goes on to the next way.
GivesUp(c) ==
    IF c # "boot" THEN /\ calls' = [calls EXCEPT ![c] = None]
                       /\ UNCHANGED <<host, registry, login>>
    ELSE IF calls[c].step = "user" /\ mode.auto # None
    THEN /\ calls' = [calls EXCEPT ![c] = Request("auto", Account(mode.auto), None)]
         /\ UNCHANGED <<host, registry, login>>
    ELSE /\ calls' = [calls EXCEPT ![c] = None]
         /\ OpensBrowser

-----------------------------------------------------------------------------
(* Requests to Google.                                                     *)

\* refreshMachineToken of _fb, for a discovery request whose token is about to expire or was
\* refused: the token in memory goes before the one on disk.
Renew(c) ==
    /\ mode.kind = "hosted" /\ host.phase = "online"
    /\ calls[c] = None
    /\ machine # None \/ (cache # None /\ cache.token # 0)
    /\ calls' = [calls EXCEPT ![c] = Request("token", IF machine # None THEN machine ELSE cache,
                                             IF cache = None THEN None ELSE cache.uid)]
    /\ UNCHANGED <<mode, cache, machine, registry, host, login, minted, dead, restarts>>

\* securetokenRefresh: a new token; its account is looked up next.
Exchanged(c) ==
    /\ calls[c] # None /\ calls[c].step = "token" /\ calls[c].with \notin dead
    /\ calls' = [calls EXCEPT ![c].step = "lookup"]
    /\ UNCHANGED <<mode, cache, machine, registry, host, login, minted, dead, restarts>>

\* securetokenRefresh or identityToolkitLookup answers with an error status, of whatever kind, or
\* the account is not the one the cache held: the sign-in on disk is deleted.
Refused(c) ==
    /\ calls[c] # None /\ calls[c].step \in {"token", "lookup"}
    /\ cache' = None
    /\ GivesUp(c)
    /\ UNCHANGED <<mode, machine, minted, dead, restarts>>

\* No answer at all: fetch throws before anything is cleared.  The Admin lookups fail this way too.
Unanswered(c) ==
    /\ calls[c] # None
    /\ GivesUp(c)
    /\ UNCHANGED <<mode, cache, machine, minted, dead, restarts>>

\* The account looked up is the one the cache held when the request was made.
SameAccount(c) == calls[c].cached \in {None, calls[c].with.uid}

\* The account is confirmed: the token is kept in memory and on disk.
Renewed(c) ==
    /\ calls[c] # None /\ calls[c].step = "lookup"
    /\ SameAccount(c)
    /\ machine' = calls[c].with /\ cache' = calls[c].with
    /\ calls' = [calls EXCEPT ![c] = None]
    /\ IF c = "boot" THEN Resolved(calls[c].with.uid) ELSE UNCHANGED <<host, registry>>
    /\ UNCHANGED <<mode, login, minted, dead, restarts>>

\* Admin: getUser confirms the cached account; getUserByEmail finds the local one, which is written
\* to the cache when a person is there.
Found ==
    /\ calls["boot"] # None /\ calls["boot"].step \in {"user", "auto"}
    /\ Resolved(calls["boot"].with.uid)
    /\ cache' = IF calls["boot"].step = "auto" /\ mode.tui THEN calls["boot"].with ELSE cache
    /\ calls' = [calls EXCEPT !["boot"] = None]
    /\ UNCHANGED <<mode, machine, login, minted, dead, restarts>>

-----------------------------------------------------------------------------
(* A browser.                                                              *)

\* Mutant of Insisted: the command does not pass the owner on.
InsistedOnCache == IF cache # None THEN cache.uid ELSE None

\* forceReLogin(currentUid): the owner we are, or else the one the cache remembers.
Insisted == IF host.uid # None THEN host.uid ELSE IF cache # None THEN cache.uid ELSE None

\* /pinest-auth.  Another sign-in that holds the port makes it fail.
PinestAuth ==
    /\ login = None /\ host.phase # "down"
    /\ login' = [by |-> "auth", owner |-> Insisted, reading |-> {}, verifying |-> {}]
    /\ UNCHANGED <<mode, cache, machine, registry, host, calls, minted, dead, restarts>>

\* A page posts the account u chosen in it; the nonce has not been used when the request arrives.
Posted(u) ==
    /\ login # None /\ login.verifying = {} /\ u \notin login.reading
    /\ login' = [login EXCEPT !.reading = @ \cup {u}]
    /\ UNCHANGED <<mode, cache, machine, registry, host, calls, minted, dead, restarts>>

\* Its body has been read: the nonce is used, whether or not another post used it meanwhile.
Read(u) ==
    /\ login # None /\ u \in login.reading
    /\ login' = [login EXCEPT !.reading = @ \ {u}, !.verifying = @ \cup {u}]
    /\ UNCHANGED <<mode, cache, machine, registry, host, calls, minted, dead, restarts>>

\* Closed without a sign-in: a refused post, five minutes, a browser that cannot be opened.
NotSignedIn ==
    /\ login # None
    /\ login' = None
    /\ IF login.by = "boot" THEN Failed ELSE UNCHANGED <<host, registry>>
    /\ UNCHANGED <<mode, cache, machine, calls, minted, dead, restarts>>

\* The pair of tokens the account u posts belongs together and to the account insisted on.
Confirmed(u) == minted <= MaxSignIns /\ login.owner \in {None, u}

\* What is written: the Admin backend drops the refresh token.
SignInOf(u) == [uid |-> u, token |-> IF mode.kind = "admin" THEN 0 ELSE minted + 1]

\* Google confirms the first post to be answered; what a second one is told changes nothing.  The
\* sign-in is written; a bootstrap has its owner, and a command sets the owner and boots the host
\* unless the remote stack is there or on its way.
SignedIn(u) ==
    /\ login # None /\ u \in login.verifying /\ Confirmed(u)
    /\ cache' = SignInOf(u)
    /\ login' = None
    /\ \/ /\ login.by = "boot"
          /\ machine' = None
          /\ Resolved(u)
          /\ UNCHANGED calls
       \/ /\ login.by = "auth" /\ host.phase \in {"online", "resolving"}
          /\ host' = [host EXCEPT !.uid = u]
          /\ UNCHANGED <<machine, registry, calls>>
       \/ /\ login.by = "auth" /\ host.phase = "failed"
          /\ BootsWith(u, cache')
          /\ UNCHANGED machine
    /\ minted' = minted + 1
    /\ UNCHANGED <<mode, dead, restarts>>

-----------------------------------------------------------------------------
(* Around it.                                                              *)

\* The owner revokes access, changes the password, or the token is too old.
Revoke(s) ==
    /\ s \in {cache, machine} \ {None} /\ s.token # 0 /\ s \notin dead
    /\ dead' = dead \cup {s}
    /\ UNCHANGED <<mode, cache, machine, registry, host, calls, login, minted, restarts>>

\* pi ends and starts again: the files stay.
Restart ==
    /\ restarts < MaxRestarts /\ restarts' = restarts + 1
    /\ host' = [phase |-> "down", uid |-> None]
    /\ machine' = None /\ login' = None
    /\ calls' = [c \in Callers |-> None]
    /\ UNCHANGED <<mode, cache, registry, minted, dead>>

Next ==
    \/ Bootstrap \/ PinestAuth \/ NotSignedIn \/ Restart \/ Found
    \/ \E c \in Writers : Renew(c)
    \/ \E c \in Callers : Exchanged(c) \/ Refused(c) \/ Unanswered(c) \/ Renewed(c)
    \/ \E u \in Uids : Posted(u) \/ Read(u) \/ SignedIn(u)
    \/ \E s \in SignIns : Revoke(s)

\* fetch answers or throws in the end, and the five minutes of a sign-in pass.
Fairness ==
    /\ WF_vars(Bootstrap)
    /\ WF_vars(NotSignedIn)
    /\ \A c \in Callers : WF_vars(Exchanged(c) \/ Refused(c) \/ Unanswered(c) \/ Renewed(c) \/ (c = "boot" /\ Found))

Spec == Init /\ [][Next]_vars /\ Fairness

-----------------------------------------------------------------------------
(* Properties.                                                             *)

TypeOK ==
    /\ mode \in Modes
    /\ cache \in SignIns \cup {None} /\ machine \in SignIns \cup {None}
    /\ registry \in Owners
    /\ host \in [phase : {"down", "resolving", "online", "failed"}, uid : Owners]
    /\ \A c \in Callers : calls[c] # None => calls[c] \in Calls
    /\ login # None => login \in Logins
    /\ minted \in 1..(MaxSignIns + 1) /\ dead \subseteq SignIns /\ restarts \in 0..MaxRestarts

\* A host that is online serves the owner its registry belongs to, and the token in memory and the
\* sign-in on disk are that owner's: whatever was signed in, renewed, refused or revoked meanwhile
\* (claimOwner, forceReLogin's expectedUid, the identity check of refreshMachineToken).  A local
\* account that is found by itself is excepted: see the README.
OneOwner ==
    host.phase = "online" /\ mode.auto = None =>
        /\ host.uid = registry
        /\ machine # None => machine.uid = registry
        /\ cache # None => cache.uid = registry

\* The state is of its type and has one owner.
OwnerIsSound == TypeOK /\ OneOwner

\* A bootstrap ends online or failed, and the port a sign-in holds is free again, although a
\* browser may never post and Google may refuse or not answer (resolveOwner, browserLogin).
SignInSettles ==
    /\ (host.phase = "resolving") ~> (host.phase # "resolving")
    /\ (login # None) ~> (login = None)

-----------------------------------------------------------------------------
(* What the code's own comments and tests say of it, and it does not do:   *)
(* TLC refutes each of these (the README names the instance).              *)

\* What a refused exchange deletes is the sign-in that was refused: "session expired - run
\* /pinest-auth to sign in again".  It is not: the running client keeps the old token in memory, so
\* the sign-in /pinest-auth has just written is deleted with its next exchange.
RefusedIsForgotten ==
    [][\A c \in Callers : cache # None /\ cache' = None /\ Refused(c) => calls[c].with = cache]_vars

\* A sign-in that is asked of the user can be the registry's owner's: a host that is offline says
\* "run /pinest-auth to sign in".  Signing in once with another account makes it impossible.
OwnerMaySignIn ==
    login # None /\ registry # None => login.owner \in {None, registry}
=============================================================================
