------------------------ MODULE StateDirectoryProofs ------------------------
(***************************************************************************)
(* Proofs about what a machine keeps in its state directory, for any       *)
(* accounts, sessions and loads: the sign-in and the registry's owner      *)
(* (SignIn), the registry and the record of one host (Machine, which       *)
(* MCStateDirectory takes as M), and the socket of any number of hosts     *)
(* (which it takes as S).                                                  *)
(***************************************************************************)
EXTENDS MCStateDirectory, TLAPS

-----------------------------------------------------------------------------
(* SignIn: the invariant.                                                  *)

\* What is asked about on behalf of whom: the bootstrap asks while it resolves, a discovery request
\* once the host is online, for the owner alone.
CallsKnowTheOwner ==
    /\ calls["boot"] # None => host.phase = "resolving"
    /\ \A c \in Callers \ {"boot"} : calls[c] # None => host.phase = "online" /\ calls[c].with.uid = registry

\* A bootstrap asks about the account on disk, and about no other than the owner it knows.
BootAsksForTheCache ==
    calls["boot"] # None => /\ cache # None /\ cache.uid = calls["boot"].with.uid
                            /\ host.uid \in {None, calls["boot"].with.uid}

\* A sign-in by command insists on the owner of the host, and on the account a bootstrap asks about.
LoginInsists ==
    login # None =>
        /\ login.by = "boot" => host.phase = "resolving" /\ calls["boot"] = None
        /\ login.by = "auth" => /\ host.phase # "down"
                                /\ host.uid # None => login.owner = host.uid
                                /\ calls["boot"] # None => login.owner = calls["boot"].with.uid

\* The token in memory is of the owner the host knows.
TokenOfTheOwner == machine # None => machine.uid = host.uid

\* A host that is down has nothing in memory.
DownIsEmpty == host.phase = "down" => machine = None /\ login = None /\ calls = [c \in Callers |-> None]

OnlineServesTheOwner ==
    host.phase = "online" => /\ host.uid = registry /\ host.uid \in Uids
                             /\ cache # None => cache.uid = registry

Owned ==
    /\ CallsKnowTheOwner /\ BootAsksForTheCache /\ LoginInsists
    /\ TokenOfTheOwner /\ DownIsEmpty /\ OnlineServesTheOwner

\* The type invariant, with the domain of the calls.
Typed == TypeOK /\ calls \in [Callers -> Calls \cup {None}]

Inductive == Typed /\ (mode.auto = None => Owned)

-----------------------------------------------------------------------------
(* SignIn: what the parts of an action give.                               *)

HostStates == [phase : {"down", "resolving", "online", "failed"}, uid : Owners]

\* What of the state a step keeps in its type, besides the calls.
LEMMA TypedIsParts ==
    ASSUME mode \in Modes, cache \in SignIns \cup {None}, machine \in SignIns \cup {None}, registry \in Owners,
           host \in HostStates, calls \in [Callers -> Calls \cup {None}], login # None => login \in Logins,
           minted \in 1..(MaxSignIns + 1), dead \subseteq SignIns, restarts \in 0..MaxRestarts
    PROVE  Typed
  BY DEF Typed, TypeOK, HostStates

LEMMA TypedHasParts ==
    ASSUME Typed
    PROVE  /\ mode \in Modes /\ cache \in SignIns \cup {None} /\ machine \in SignIns \cup {None}
           /\ registry \in Owners /\ host \in HostStates /\ calls \in [Callers -> Calls \cup {None}]
           /\ login # None => login \in Logins
           /\ minted \in 1..(MaxSignIns + 1) /\ dead \subseteq SignIns /\ restarts \in 0..MaxRestarts
  BY DEF Typed, TypeOK, HostStates

\* An owner found is the host's, and the host is online only if the registry is theirs.
LEMMA ResolvedGives ==
    ASSUME Typed, NEW u \in Uids, Resolved(u)
    PROVE  /\ host' \in HostStates /\ registry' \in Owners
           /\ host'.uid = u /\ host'.phase \in {"online", "failed"}
           /\ host'.phase = "online" => registry' = u
  <1>1. PICK saved \in BOOLEAN :
          /\ host' = [uid |-> u, phase |-> IF Bound(u, saved) THEN "online" ELSE "failed"]
          /\ registry' = IF Bound(u, saved) THEN u ELSE registry
    BY DEF Resolved
  <1>2. registry \in Owners /\ u \in Owners
    BY TypedHasParts DEF Owners
  <1>3. CASE Bound(u, saved)
    BY <1>1, <1>2, <1>3 DEF HostStates
  <1>4. CASE ~Bound(u, saved)
    BY <1>1, <1>2, <1>4 DEF HostStates
  <1>. QED
    BY <1>3, <1>4

LEMMA FailedGives ==
    ASSUME Typed, Failed
    PROVE  /\ host' \in HostStates /\ host'.uid = host.uid /\ host'.phase = "failed"
           /\ registry' = registry
  BY TypedHasParts DEF Failed, HostStates

LEMMA OpensBrowserGives ==
    ASSUME Typed, OpensBrowser
    PROVE  /\ host' \in HostStates /\ host'.uid = host.uid /\ registry' = registry
           /\ login' # None => login' \in Logins
           /\ \/ login = None /\ login' # None /\ login'.by = "boot" /\ host'.phase = "resolving"
              \/ login' = login /\ host'.phase = "failed"
  <1>1. CASE mode.tui /\ login = None
    <2>1. /\ login' = [by |-> "boot", owner |-> None, reading |-> {}, verifying |-> {}]
          /\ host' = [host EXCEPT !.phase = "resolving"] /\ registry' = registry
      BY <1>1 DEF OpensBrowser
    <2>2. login' \in Logins /\ login'.by = "boot"
      BY <2>1 DEF Logins, Owners
    <2>3. host' \in HostStates /\ host'.uid = host.uid /\ host'.phase = "resolving"
      BY <2>1, TypedHasParts DEF HostStates
    <2>. QED
      BY <1>1, <2>1, <2>2, <2>3, SignInAssumption
  <1>2. CASE ~(mode.tui /\ login = None)
    BY <1>2, FailedGives, TypedHasParts DEF OpensBrowser
  <1>. QED
    BY <1>1, <1>2

\* A request is made for the account on disk, unless it is the local one.
LEMMA FirstRequestGives ==
    ASSUME Typed, NEW f \in SignIns \cup {None}
    PROVE  /\ FirstRequest(f) \in Calls \cup {None}
           /\ mode.auto = None /\ FirstRequest(f) # None =>
                 f # None /\ f.uid \in Uids /\ FirstRequest(f).with.uid = f.uid
           /\ mode.kind = "none" => FirstRequest(f) = None
  <1>1. mode \in Modes /\ mode.auto \in Owners /\ mode.kind \in {"hosted", "admin", "none"}
    BY TypedHasParts DEF Modes
  <1>2. CASE mode.kind = "hosted" /\ f # None /\ f.token # 0
    <2>1. FirstRequest(f) = Request("token", f, f.uid)
      BY <1>2 DEF FirstRequest
    <2>2. f \in SignIns /\ f.uid \in Uids
      BY <1>2 DEF SignIns
    <2>. QED
      BY <1>2, <2>1, <2>2 DEF Request, Calls, Owners
  <1>3. CASE mode.kind = "admin" /\ f # None
    <2>1. FirstRequest(f) = Request("user", Account(f.uid), f.uid)
      BY <1>3 DEF FirstRequest
    <2>2. f \in SignIns /\ f.uid \in Uids
      BY <1>3 DEF SignIns
    <2>3. Account(f.uid) \in SignIns /\ Account(f.uid).uid = f.uid
      BY <2>2, SignInAssumption DEF Account, SignIns
    <2>. QED
      BY <1>3, <2>1, <2>2, <2>3 DEF Request, Calls, Owners
  <1>4. CASE mode.kind = "admin" /\ f = None /\ mode.auto # None
    <2>1. FirstRequest(f) = Request("auto", Account(mode.auto), None)
      BY <1>4 DEF FirstRequest
    <2>2. Account(mode.auto) \in SignIns
      BY <1>1, <1>4, SignInAssumption DEF Account, SignIns, Owners
    <2>. QED
      BY <1>4, <2>1, <2>2 DEF Request, Calls, Owners
  <1>5. CASE /\ ~(mode.kind = "hosted" /\ f # None /\ f.token # 0)
             /\ ~(mode.kind = "admin" /\ f # None)
             /\ ~(mode.kind = "admin" /\ f = None /\ mode.auto # None)
    BY <1>5 DEF FirstRequest
  <1>. QED
    BY <1>2, <1>3, <1>4, <1>5

\* One call is replaced.
LEMMA CallReplaced ==
    ASSUME Typed, NEW c \in Callers, NEW v \in Calls \cup {None}, calls' = [calls EXCEPT ![c] = v]
    PROVE  /\ calls' \in [Callers -> Calls \cup {None}]
           /\ calls'[c] = v
           /\ \A d \in Callers \ {c} : calls'[d] = calls[d]
  BY TypedHasParts

\* A call that fails is over; the bootstrap's opens a browser or fails, if no local account is left
\* to try.
LEMMA GivesUpGives ==
    ASSUME Typed, NEW c \in Callers, GivesUp(c)
    PROVE  /\ calls' \in [Callers -> Calls \cup {None}] /\ host' \in HostStates
           /\ registry' = registry /\ host'.uid = host.uid
           /\ login' # None => login' \in Logins
           /\ \A d \in Callers \ {c} : calls'[d] = calls[d]
           /\ c # "boot" => calls'[c] = None /\ host' = host /\ login' = login
           /\ c = "boot" /\ mode.auto = None =>
                 /\ calls'[c] = None
                 /\ \/ login = None /\ login' # None /\ login'.by = "boot" /\ host'.phase = "resolving"
                    \/ login' = login /\ host'.phase = "failed"
  <1>1. CASE c # "boot"
    BY <1>1, CallReplaced, TypedHasParts DEF GivesUp
  <1>2. CASE c = "boot" /\ calls[c].step = "user" /\ mode.auto # None
    <2>1. /\ calls' = [calls EXCEPT ![c] = Request("auto", Account(mode.auto), None)]
          /\ UNCHANGED <<host, registry, login>>
      BY <1>2 DEF GivesUp
    <2>2. mode.auto \in Uids
      BY <1>2, TypedHasParts DEF Modes, Owners
    <2>3. Account(mode.auto) \in SignIns
      BY <2>2, SignInAssumption DEF Account, SignIns
    <2>4. Request("auto", Account(mode.auto), None) \in Calls
      BY <2>3 DEF Request, Calls, Owners
    <2>. QED
      BY <1>2, <2>1, <2>4, CallReplaced, TypedHasParts
  <1>3. CASE c = "boot" /\ ~(calls[c].step = "user" /\ mode.auto # None)
    <2>1. calls' = [calls EXCEPT ![c] = None] /\ OpensBrowser
      BY <1>3 DEF GivesUp
    <2>. QED
      BY <1>3, <2>1, CallReplaced, OpensBrowserGives
  <1>. QED
    BY <1>1, <1>2, <1>3

-----------------------------------------------------------------------------
(* SignIn: each step keeps the invariant.                                  *)

LEMMA BootIsACaller == "boot" \in Callers /\ \A c \in Writers : c \in Callers \ {"boot"}
  BY SignInAssumption DEF Callers

\* What BootsWith gives a bootstrap by the owner u, with f on disk, while nothing else is asked.
LEMMA BootsWithGives ==
    ASSUME Typed, NEW u \in Owners, NEW f \in SignIns \cup {None}, BootsWith(u, f)
    PROVE  /\ calls' \in [Callers -> Calls \cup {None}] /\ host' \in HostStates /\ registry' \in Owners
           /\ calls'["boot"] = FirstRequest(f)
           /\ \A d \in Callers \ {"boot"} : calls'[d] = calls[d]
           /\ \/ host'.phase = "resolving" /\ host'.uid = u
              \/ /\ mode.kind = "none" /\ f # None /\ host'.uid = f.uid
                 /\ host'.phase = "failed" \/ (host'.phase = "online" /\ registry' = f.uid)
              \/ mode.kind = "none" /\ f = None /\ host'.uid = host.uid /\ host'.phase = "failed"
  <1>1. calls' = [calls EXCEPT !["boot"] = FirstRequest(f)]
    BY DEF BootsWith
  <1>2. /\ calls' \in [Callers -> Calls \cup {None}] /\ calls'["boot"] = FirstRequest(f)
        /\ \A d \in Callers \ {"boot"} : calls'[d] = calls[d]
    BY <1>1, FirstRequestGives, CallReplaced, BootIsACaller
  <1>3. CASE mode.kind # "none"
    BY <1>2, <1>3, TypedHasParts DEF BootsWith, HostStates
  <1>4. CASE mode.kind = "none" /\ f # None
    <2>1. Resolved(f.uid) /\ f.uid \in Uids
      BY <1>4 DEF BootsWith, SignIns
    <2>2. /\ host' \in HostStates /\ registry' \in Owners
          /\ host'.uid = f.uid /\ host'.phase \in {"online", "failed"}
          /\ host'.phase = "online" => registry' = f.uid
      BY <2>1, ResolvedGives
    <2>. QED
      BY <1>2, <1>4, <2>2
  <1>5. CASE mode.kind = "none" /\ f = None
    <2>1. Failed
      BY <1>5 DEF BootsWith
    <2>. QED
      BY <1>2, <1>5, <2>1, FailedGives, TypedHasParts
  <1>. QED
    BY <1>3, <1>4, <1>5

LEMMA BootstrapKeeps == ASSUME Inductive, Bootstrap PROVE Inductive'
  <1>1. Typed /\ host.phase = "down"
    BY DEF Inductive, Bootstrap
  <1>2. UNCHANGED <<mode, cache, machine, minted, dead, restarts>>
    BY DEF Bootstrap
  <1>3. CASE NeedsBrowser(cache)
    <2>1. OpensBrowser /\ calls' = calls
      BY <1>3 DEF Bootstrap
    <2>2. Typed'
      BY <1>1, <1>2, <2>1, OpensBrowserGives, TypedHasParts, TypedIsParts DEF Typed, TypeOK, HostStates
    <2>3. ASSUME mode.auto = None PROVE Owned'
      <3>1. /\ Owned /\ machine = None /\ login = None /\ calls = [c \in Callers |-> None]
        BY <1>1, <2>3 DEF Inductive, Owned, DownIsEmpty
      <3>2. \A c \in Callers : calls'[c] = None
        BY <2>1, <3>1
      <3>3. /\ host'.phase \in {"resolving", "failed"} /\ (login' # None => login'.by = "boot" /\ host'.phase = "resolving")
        BY <1>1, <2>1, <3>1, OpensBrowserGives
      <3>. QED
        BY <1>2, <3>1, <3>2, <3>3, BootIsACaller
        DEF Owned, CallsKnowTheOwner, BootAsksForTheCache, LoginInsists, TokenOfTheOwner, DownIsEmpty, OnlineServesTheOwner
    <2>. QED
      BY <1>2, <2>2, <2>3 DEF Inductive
  <1>4. CASE ~NeedsBrowser(cache)
    <2>1. BootsWith(None, cache) /\ login' = login
      BY <1>4 DEF Bootstrap
    <2>2. None \in Owners /\ cache \in SignIns \cup {None}
      BY <1>1, TypedHasParts DEF Owners
    <2>3. Typed'
      BY <1>1, <1>2, <2>1, <2>2, BootsWithGives, TypedHasParts DEF Typed, TypeOK, HostStates
    <2>4. ASSUME mode.auto = None PROVE Owned'
      <3>1. /\ machine = None /\ login = None /\ calls = [c \in Callers |-> None]
        BY <1>1, <2>4 DEF Inductive, Owned, DownIsEmpty
      <3>2. /\ \A d \in Callers \ {"boot"} : calls'[d] = None
            /\ calls'["boot"] = FirstRequest(cache)
        BY <1>1, <2>1, <2>2, <3>1, BootsWithGives
      <3>3. /\ FirstRequest(cache) # None => cache # None /\ FirstRequest(cache).with.uid = cache.uid
            /\ mode.kind = "none" => FirstRequest(cache) = None
        BY <1>1, <2>2, <2>4, FirstRequestGives
      <3>4. /\ host' \in HostStates
            /\ \/ host'.phase = "resolving" /\ host'.uid = None
               \/ /\ mode.kind = "none" /\ cache # None /\ host'.uid = cache.uid
                  /\ host'.phase = "failed" \/ (host'.phase = "online" /\ registry' = cache.uid)
               \/ mode.kind = "none" /\ host'.phase = "failed"
        BY <1>1, <2>1, <2>2, BootsWithGives
      <3>5. cache # None => cache.uid \in Uids
        BY <2>2 DEF SignIns
      <3>. QED
        BY <1>2, <2>1, <3>1, <3>2, <3>3, <3>4, <3>5
        DEF Owned, CallsKnowTheOwner, BootAsksForTheCache, LoginInsists, TokenOfTheOwner, DownIsEmpty, OnlineServesTheOwner
    <2>. QED
      BY <1>2, <2>3, <2>4 DEF Inductive
  <1>. QED
    BY <1>3, <1>4

\* A request to Google is answered or given up: another call may be made in its place.
LEMMA RenewKeeps == ASSUME Inductive, NEW c \in Writers, Renew(c) PROVE Inductive'
  <1>. DEFINE s == IF machine # None THEN machine ELSE cache
              u == IF cache = None THEN None ELSE cache.uid
  <1>1. Typed /\ c \in Callers /\ c # "boot"
    BY BootIsACaller DEF Inductive
  <1>2. /\ calls' = [calls EXCEPT ![c] = Request("token", s, u)]
        /\ UNCHANGED <<mode, cache, machine, registry, host, login, minted, dead, restarts>>
        /\ host.phase = "online" /\ s # None
    BY DEF Renew
  <1>3. s \in SignIns /\ u \in Owners
    BY <1>1, <1>2, TypedHasParts DEF SignIns, Owners
  <1>4. Request("token", s, u) \in Calls /\ Request("token", s, u).with = s
    BY <1>3 DEF Request, Calls
  <1>5. /\ calls' \in [Callers -> Calls \cup {None}] /\ calls'[c].with = s
        /\ \A d \in Callers \ {c} : calls'[d] = calls[d]
    BY <1>1, <1>2, <1>4, CallReplaced
  <1>6. Typed'
    BY <1>1, <1>2, <1>5 DEF Typed, TypeOK
  <1>7. ASSUME mode.auto = None PROVE Owned'
    <2>1. Owned
      BY <1>7 DEF Inductive
    <2>2. s.uid = registry
      BY <1>2, <2>1 DEF Owned, OnlineServesTheOwner, TokenOfTheOwner
    <2>3. calls'["boot"] = calls["boot"]
      BY <1>1, <1>5, BootIsACaller
    <2>. QED
      BY <1>1, <1>2, <1>5, <2>1, <2>2, <2>3, BootIsACaller
      DEF Owned, CallsKnowTheOwner, BootAsksForTheCache, LoginInsists, TokenOfTheOwner, DownIsEmpty, OnlineServesTheOwner
  <1>. QED
    BY <1>2, <1>6, <1>7 DEF Inductive

LEMMA ExchangedKeeps == ASSUME Inductive, NEW c \in Callers, Exchanged(c) PROVE Inductive'
  <1>. DEFINE v == [calls[c] EXCEPT !.step = "lookup"]
  <1>1. /\ Typed /\ calls[c] # None /\ calls[c] \in Calls
        /\ UNCHANGED <<mode, cache, machine, registry, host, login, minted, dead, restarts>>
    BY TypedHasParts DEF Inductive, Exchanged
  <1>2. calls' = [calls EXCEPT ![c] = v]
    BY DEF Exchanged
  <1>3. v \in Calls /\ v.with = calls[c].with
    BY <1>1 DEF Calls
  <1>. HIDE DEF v
  <1>4. /\ calls' \in [Callers -> Calls \cup {None}] /\ calls'[c] = v
        /\ \A d \in Callers \ {c} : calls'[d] = calls[d]
    BY <1>1, <1>2, <1>3, CallReplaced
  <1>5. \A d \in Callers : /\ calls'[d] # None => calls[d] # None /\ calls'[d].with = calls[d].with
                           /\ calls[d] = None => calls'[d] = None
    BY <1>1, <1>3, <1>4
  <1>6. Typed'
    BY <1>1, <1>4 DEF Typed, TypeOK
  <1>7. ASSUME mode.auto = None PROVE Owned'
    <2>1. Owned /\ host.phase # "down"
      BY <1>1, <1>7 DEF Inductive, Owned, DownIsEmpty
    <2>. QED
      BY <1>1, <1>5, <2>1, BootIsACaller
      DEF Owned, CallsKnowTheOwner, BootAsksForTheCache, LoginInsists, TokenOfTheOwner, DownIsEmpty, OnlineServesTheOwner
  <1>. QED
    BY <1>1, <1>6, <1>7 DEF Inductive

\* Refused or Unanswered: the sign-in on disk may be deleted with it.
LEMMA GivesUpKeeps ==
    ASSUME Inductive, NEW c \in Callers, calls[c] # None, GivesUp(c), cache' \in {cache, None},
           UNCHANGED <<mode, machine, minted, dead, restarts>>
    PROVE  Inductive'
  <1>1. Typed
    BY DEF Inductive
  <1>2. Typed'
    BY <1>1, GivesUpGives, TypedHasParts DEF Typed, TypeOK, HostStates
  <1>3. ASSUME mode.auto = None PROVE Owned'
    <2>1. Owned /\ host.phase # "down"
      BY <1>3, TypedHasParts DEF Inductive, Owned, DownIsEmpty
    <2>2. /\ registry' = registry /\ host'.uid = host.uid
          /\ \A d \in Callers \ {c} : calls'[d] = calls[d]
          /\ calls'[c] = None
      BY <1>1, <1>3, GivesUpGives
    <2>3. CASE c # "boot"
      <3>1. host' = host /\ login' = login
        BY <1>1, <2>3, GivesUpGives
      <3>2. calls["boot"] # None => host.phase = "resolving"
        BY <2>1 DEF Owned, CallsKnowTheOwner
      <3>3. host.phase = "online" /\ calls["boot"] = None /\ calls'["boot"] = None
        BY <2>1, <2>2, <2>3, <3>2, BootIsACaller DEF Owned, CallsKnowTheOwner
      <3>. QED
        BY <2>1, <2>2, <2>3, <3>1, <3>3, BootIsACaller
        DEF Owned, CallsKnowTheOwner, BootAsksForTheCache, LoginInsists, TokenOfTheOwner, DownIsEmpty, OnlineServesTheOwner
    <2>4. CASE c = "boot"
      <3>1. \/ login = None /\ login' # None /\ login'.by = "boot" /\ host'.phase = "resolving"
            \/ login' = login /\ host'.phase = "failed"
        BY <1>1, <1>3, <2>4, GivesUpGives
      <3>2. \A d \in Callers : calls'[d] = None
        BY <2>1, <2>2, <2>4 DEF Owned, CallsKnowTheOwner
      <3>3. login # None => login.by # "boot"
        BY <2>1, <2>4 DEF Owned, LoginInsists
      <3>. QED
        BY <2>1, <2>2, <3>1, <3>2, <3>3, BootIsACaller
        DEF Owned, CallsKnowTheOwner, BootAsksForTheCache, LoginInsists, TokenOfTheOwner, DownIsEmpty, OnlineServesTheOwner
    <2>. QED
      BY <2>3, <2>4
  <1>. QED
    BY <1>2, <1>3 DEF Inductive

\* The account is confirmed: of the bootstrap, whose owner it is, or of the owner.
LEMMA RenewedKeeps == ASSUME Inductive, NEW c \in Callers, Renewed(c) PROVE Inductive'
  <1>1. /\ Typed /\ calls[c] # None /\ calls[c] \in Calls
        /\ machine' = calls[c].with /\ cache' = calls[c].with
        /\ UNCHANGED <<mode, login, minted, dead, restarts>>
    BY TypedHasParts DEF Inductive, Renewed
  <1>2. calls[c].with \in SignIns /\ calls[c].with.uid \in Uids
    BY <1>1 DEF Calls, SignIns
  <1>3. calls' = [calls EXCEPT ![c] = None]
    BY DEF Renewed
  <1>4. /\ calls' \in [Callers -> Calls \cup {None}] /\ calls'[c] = None
        /\ \A d \in Callers \ {c} : calls'[d] = calls[d]
    BY <1>1, <1>3, CallReplaced
  <1>5. /\ c = "boot" => /\ host' \in HostStates /\ registry' \in Owners /\ host'.uid = calls[c].with.uid
                         /\ host'.phase \in {"online", "failed"}
                         /\ host'.phase = "online" => registry' = calls[c].with.uid
        /\ c # "boot" => host' = host /\ registry' = registry
    BY <1>1, <1>2, ResolvedGives DEF Renewed
  <1>6. Typed'
    BY <1>1, <1>2, <1>4, <1>5, TypedHasParts DEF Typed, TypeOK, HostStates
  <1>7. ASSUME mode.auto = None PROVE Owned'
    <2>1. Owned
      BY <1>7 DEF Inductive
    <2>2. CASE c # "boot"
      <3>1. host.phase = "online" /\ calls[c].with.uid = registry
        BY <1>1, <2>1, <2>2 DEF Owned, CallsKnowTheOwner
      <3>2. calls["boot"] = None /\ calls'["boot"] = None
        BY <1>4, <2>1, <2>2, <3>1, BootIsACaller DEF Owned, CallsKnowTheOwner
      <3>. QED
        BY <1>1, <1>2, <1>4, <1>5, <2>1, <2>2, <3>1, <3>2, BootIsACaller
        DEF Owned, CallsKnowTheOwner, BootAsksForTheCache, LoginInsists, TokenOfTheOwner, DownIsEmpty, OnlineServesTheOwner
    <2>3. CASE c = "boot"
      <3>1. \A d \in Callers : calls'[d] = None
        BY <1>1, <1>4, <2>1, <2>3 DEF Owned, CallsKnowTheOwner
      <3>2. login # None => login.by # "boot" /\ (login.by = "auth" => login.owner = calls[c].with.uid)
        BY <1>1, <2>1, <2>3 DEF Owned, LoginInsists
      <3>. QED
        BY <1>1, <1>2, <1>5, <2>3, <3>1, <3>2, BootIsACaller
        DEF Owned, CallsKnowTheOwner, BootAsksForTheCache, LoginInsists, TokenOfTheOwner, DownIsEmpty, OnlineServesTheOwner
    <2>. QED
      BY <2>2, <2>3
  <1>. QED
    BY <1>1, <1>6, <1>7 DEF Inductive

LEMMA FoundKeeps == ASSUME Inductive, Found PROVE Inductive'
  <1>. DEFINE s == calls["boot"].with
  <1>1. /\ Typed /\ calls["boot"] # None /\ calls["boot"] \in Calls /\ Resolved(s.uid)
        /\ cache' \in {cache, s} /\ calls' = [calls EXCEPT !["boot"] = None]
        /\ UNCHANGED <<mode, machine, login, minted, dead, restarts>>
    BY TypedHasParts, BootIsACaller DEF Inductive, Found
  <1>2. s \in SignIns /\ s.uid \in Uids
    BY <1>1 DEF Calls, SignIns
  <1>. HIDE DEF s
  <1>4. /\ calls' \in [Callers -> Calls \cup {None}] /\ calls'["boot"] = None
        /\ \A d \in Callers \ {"boot"} : calls'[d] = calls[d]
    BY <1>1, CallReplaced, BootIsACaller
  <1>5. /\ host' \in HostStates /\ registry' \in Owners /\ host'.uid = s.uid
        /\ host'.phase \in {"online", "failed"}
        /\ host'.phase = "online" => registry' = s.uid
    BY <1>1, <1>2, ResolvedGives
  <1>6. Typed'
    BY <1>1, <1>2, <1>4, <1>5, TypedHasParts DEF Typed, TypeOK, HostStates
  <1>7. ASSUME mode.auto = None PROVE Owned'
    <2>1. Owned
      BY <1>7 DEF Inductive
    <2>2. \A d \in Callers : calls'[d] = None
      BY <1>1, <1>4, <2>1, BootIsACaller DEF Owned, CallsKnowTheOwner
    <2>3. /\ login # None => login.by # "boot" /\ (login.by = "auth" => login.owner = s.uid)
          /\ cache # None /\ cache.uid = s.uid /\ host.uid \in {None, s.uid}
      BY <1>1, <2>1 DEF Owned, LoginInsists, BootAsksForTheCache, s
    <2>4. machine # None => machine.uid \in Uids /\ machine.uid = host.uid
      BY <1>1, <2>1, TypedHasParts DEF Owned, TokenOfTheOwner, SignIns
    <2>5. machine # None => machine.uid = s.uid
      BY <2>3, <2>4, SignInAssumption
    <2>. QED
      BY <1>1, <1>2, <1>5, <2>2, <2>3, <2>5, BootIsACaller
      DEF Owned, CallsKnowTheOwner, BootAsksForTheCache, LoginInsists, TokenOfTheOwner, DownIsEmpty, OnlineServesTheOwner
  <1>. QED
    BY <1>1, <1>6, <1>7 DEF Inductive

\* The command insists on the owner of the host; before there is one, on the account on disk, which
\* is the one a bootstrap asks about.
LEMMA PinestAuthKeeps == ASSUME Inductive, PinestAuth PROVE Inductive'
  <1>1. /\ Typed /\ host.phase # "down"
        /\ login' = [by |-> "auth", owner |-> Insisted, reading |-> {}, verifying |-> {}]
        /\ UNCHANGED <<mode, cache, machine, registry, host, calls, minted, dead, restarts>>
    BY DEF Inductive, PinestAuth
  <1>2. Insisted \in Owners
    BY <1>1, TypedHasParts DEF Insisted, Owners, SignIns, HostStates
  <1>3. login' \in Logins /\ login'.by = "auth" /\ login'.owner = Insisted
    BY <1>1, <1>2 DEF Logins
  <1>4. Typed'
    BY <1>1, <1>3 DEF Typed, TypeOK
  <1>5. ASSUME mode.auto = None PROVE Owned'
    <2>1. Owned
      BY <1>5 DEF Inductive
    <2>2. host.uid # None => Insisted = host.uid
      BY DEF Insisted
    <2>3. calls["boot"] # None => Insisted = calls["boot"].with.uid
      BY <2>1 DEF Insisted, Owned, BootAsksForTheCache
    <2>. QED
      BY <1>1, <1>3, <2>1, <2>2, <2>3
      DEF Owned, CallsKnowTheOwner, BootAsksForTheCache, LoginInsists, TokenOfTheOwner, DownIsEmpty, OnlineServesTheOwner
  <1>. QED
    BY <1>1, <1>4, <1>5 DEF Inductive

\* A post changes neither who a sign-in is for nor whom it insists on.
LEMMA PostKeeps ==
    ASSUME Inductive, login # None, login' \in Logins, login'.by = login.by, login'.owner = login.owner,
           UNCHANGED <<mode, cache, machine, registry, host, calls, minted, dead, restarts>>
    PROVE  Inductive'
  <1>1. Typed'
    BY DEF Inductive, Typed, TypeOK
  <1>2. ASSUME mode.auto = None PROVE Owned'
    BY <1>2 DEF Inductive, Owned, CallsKnowTheOwner, BootAsksForTheCache, LoginInsists, TokenOfTheOwner,
       DownIsEmpty, OnlineServesTheOwner
  <1>. QED
    BY <1>1, <1>2 DEF Inductive

LEMMA PostedKeeps == ASSUME Inductive, NEW u \in Uids, Posted(u) PROVE Inductive'
  <1>. DEFINE r == login.reading \cup {u}
  <1>1. login # None /\ login \in Logins /\ login' = [login EXCEPT !.reading = r]
    BY DEF Inductive, Typed, TypeOK, Posted
  <1>2. r \in SUBSET Uids
    BY <1>1 DEF Logins
  <1>. HIDE DEF r
  <1>3. login' \in Logins /\ login'.by = login.by /\ login'.owner = login.owner
    BY <1>1, <1>2 DEF Logins
  <1>. QED
    BY <1>1, <1>3, PostKeeps DEF Posted

LEMMA ReadKeeps == ASSUME Inductive, NEW u \in Uids, Read(u) PROVE Inductive'
  <1>. DEFINE r == login.reading \ {u}
              v == login.verifying \cup {u}
  <1>1. login # None /\ login \in Logins /\ login' = [login EXCEPT !.reading = r, !.verifying = v]
    BY DEF Inductive, Typed, TypeOK, Read
  <1>2. r \in SUBSET Uids /\ v \in SUBSET Uids
    BY <1>1 DEF Logins
  <1>. HIDE DEF r, v
  <1>3. login' \in Logins /\ login'.by = login.by /\ login'.owner = login.owner
    BY <1>1, <1>2 DEF Logins
  <1>. QED
    BY <1>1, <1>3, PostKeeps DEF Read

LEMMA NotSignedInKeeps == ASSUME Inductive, NotSignedIn PROVE Inductive'
  <1>1. /\ Typed /\ login # None /\ login' = None
        /\ UNCHANGED <<mode, cache, machine, calls, minted, dead, restarts>>
    BY DEF Inductive, NotSignedIn
  <1>2. /\ host' \in HostStates /\ host'.uid = host.uid /\ registry' = registry
        /\ login.by = "boot" => host'.phase = "failed"
        /\ login.by # "boot" => host' = host
    BY <1>1, FailedGives, TypedHasParts DEF NotSignedIn
  <1>3. Typed'
    BY <1>1, <1>2, TypedHasParts DEF Typed, TypeOK, HostStates
  <1>4. ASSUME mode.auto = None PROVE Owned'
    <2>1. Owned
      BY <1>4 DEF Inductive
    <2>2. CASE login.by # "boot"
      BY <1>1, <1>2, <2>1, <2>2
      DEF Owned, CallsKnowTheOwner, BootAsksForTheCache, LoginInsists, TokenOfTheOwner, DownIsEmpty, OnlineServesTheOwner
    <2>3. CASE login.by = "boot"
      <3>1. host.phase = "resolving" /\ calls["boot"] = None
        BY <1>1, <2>1, <2>3 DEF Owned, LoginInsists
      <3>. QED
        BY <1>1, <1>2, <2>1, <2>3, <3>1
        DEF Owned, CallsKnowTheOwner, BootAsksForTheCache, LoginInsists, TokenOfTheOwner, DownIsEmpty, OnlineServesTheOwner
    <2>. QED
      BY <2>2, <2>3
  <1>. QED
    BY <1>1, <1>3, <1>4 DEF Inductive

LEMMA SignInOfGives ==
    ASSUME Typed, NEW u \in Uids, minted <= MaxSignIns
    PROVE  SignInOf(u) \in SignIns /\ SignInOf(u).uid = u /\ minted + 1 \in 1..(MaxSignIns + 1)
  BY TypedHasParts, SignInAssumption DEF SignInOf, SignIns

\* The account that signs in is the one insisted on: it replaces nobody else's sign-in.
LEMMA SignedInKeeps == ASSUME Inductive, NEW u \in Uids, SignedIn(u) PROVE Inductive'
  <1>1. /\ Typed /\ login # None /\ login \in Logins /\ minted <= MaxSignIns /\ login.owner \in {None, u}
        /\ cache' = SignInOf(u) /\ login' = None /\ minted' = minted + 1
        /\ UNCHANGED <<mode, dead, restarts>>
    BY TypedHasParts DEF Inductive, SignedIn, Confirmed
  <1>2. cache' \in SignIns /\ cache'.uid = u /\ cache' # None /\ minted' \in 1..(MaxSignIns + 1)
    BY <1>1, SignInOfGives, SignInAssumption
  <1>3. CASE login.by = "boot" /\ machine' = None /\ Resolved(u) /\ UNCHANGED calls
    <2>1. /\ host' \in HostStates /\ registry' \in Owners /\ host'.uid = u
          /\ host'.phase \in {"online", "failed"} /\ (host'.phase = "online" => registry' = u)
      BY <1>1, <1>3, ResolvedGives
    <2>2. Typed'
      BY <1>1, <1>2, <1>3, <2>1, TypedHasParts DEF Typed, TypeOK, HostStates
    <2>3. ASSUME mode.auto = None PROVE Owned'
      <3>1. \A d \in Callers : calls'[d] = None
        BY <1>1, <1>3, <2>3 DEF Inductive, Owned, CallsKnowTheOwner, LoginInsists
      <3>. QED
        BY <1>1, <1>2, <1>3, <2>1, <3>1, BootIsACaller
        DEF Owned, CallsKnowTheOwner, BootAsksForTheCache, LoginInsists, TokenOfTheOwner, DownIsEmpty, OnlineServesTheOwner
    <2>. QED
      BY <1>1, <2>2, <2>3 DEF Inductive
  <1>4. CASE /\ login.by = "auth" /\ host.phase \in {"online", "resolving"}
             /\ host' = [host EXCEPT !.uid = u] /\ UNCHANGED <<machine, registry, calls>>
    <2>1. host' \in HostStates /\ host'.uid = u /\ host'.phase = host.phase
      BY <1>1, <1>4, TypedHasParts DEF HostStates, Owners
    <2>2. Typed'
      BY <1>1, <1>2, <1>4, <2>1, TypedHasParts DEF Typed, TypeOK, HostStates
    <2>3. ASSUME mode.auto = None PROVE Owned'
      <3>1. Owned
        BY <2>3 DEF Inductive
      <3>2. host.uid # None => host.uid = u
        BY <1>1, <1>4, <3>1, SignInAssumption DEF Owned, LoginInsists
      <3>3. calls["boot"] # None => calls["boot"].with.uid = u
        <4>1. calls["boot"] # None => calls["boot"].with.uid \in Uids
          BY <1>1, TypedHasParts, BootIsACaller, SignInAssumption DEF Calls, SignIns
        <4>. QED
          BY <1>1, <1>4, <3>1, <4>1, SignInAssumption DEF Owned, LoginInsists
      <3>4. machine # None => machine.uid = u
        <4>1. machine # None => machine.uid \in Uids
          BY <1>1, TypedHasParts DEF SignIns
        <4>. QED
          BY <3>1, <3>2, <4>1, SignInAssumption DEF Owned, TokenOfTheOwner
      <3>5. host.phase = "online" => registry = u
        BY <3>1, <3>2, SignInAssumption DEF Owned, OnlineServesTheOwner
      <3>. QED
        BY <1>1, <1>2, <1>4, <2>1, <3>1, <3>3, <3>4, <3>5
        DEF Owned, CallsKnowTheOwner, BootAsksForTheCache, LoginInsists, TokenOfTheOwner, DownIsEmpty, OnlineServesTheOwner
    <2>. QED
      BY <1>1, <2>2, <2>3 DEF Inductive
  <1>5. CASE login.by = "auth" /\ host.phase = "failed" /\ BootsWith(u, cache') /\ UNCHANGED machine
    <2>1. u \in Owners /\ cache' \in SignIns \cup {None}
      BY <1>2 DEF Owners
    <2>2. PICK f \in SignIns \cup {None} : f = cache'
      BY <2>1
    <2>3. /\ calls' \in [Callers -> Calls \cup {None}] /\ host' \in HostStates /\ registry' \in Owners
          /\ calls'["boot"] = FirstRequest(f)
          /\ \A d \in Callers \ {"boot"} : calls'[d] = calls[d]
          /\ \/ host'.phase = "resolving" /\ host'.uid = u
             \/ /\ mode.kind = "none" /\ f # None /\ host'.uid = f.uid
                /\ host'.phase = "failed" \/ (host'.phase = "online" /\ registry' = f.uid)
             \/ mode.kind = "none" /\ f = None /\ host'.uid = host.uid /\ host'.phase = "failed"
      <3>1. BootsWith(u, f)
        BY <1>5, <2>2
      <3>. QED
        BY <1>1, <2>1, <3>1, BootsWithGives
    <2>4. Typed'
      BY <1>1, <1>2, <1>5, <2>3, TypedHasParts DEF Typed, TypeOK, HostStates
    <2>5. ASSUME mode.auto = None PROVE Owned'
      <3>1. Owned
        BY <2>5 DEF Inductive
      <3>2. \A d \in Callers \ {"boot"} : calls'[d] = None
        BY <1>5, <2>3, <3>1 DEF Owned, CallsKnowTheOwner
      <3>3. /\ FirstRequest(f) # None => FirstRequest(f).with.uid = f.uid
            /\ mode.kind = "none" => FirstRequest(f) = None
        BY <1>1, <2>5, FirstRequestGives
      <3>4. machine # None => machine.uid = u
        <4>1. machine # None => machine.uid \in Uids
          BY <1>1, TypedHasParts DEF SignIns
        <4>2. host.uid # None => host.uid = u
          BY <1>1, <1>5, <3>1, SignInAssumption DEF Owned, LoginInsists
        <4>. QED
          BY <3>1, <4>1, <4>2, SignInAssumption DEF Owned, TokenOfTheOwner
      <3>5. /\ host'.uid = u /\ host'.phase \in {"resolving", "failed", "online"}
            /\ host'.phase = "online" => registry' = u
            /\ calls'["boot"] # None => host'.phase = "resolving" /\ calls'["boot"].with.uid = u
        BY <1>2, <2>2, <2>3, <3>3
      <3>. QED
        BY <1>1, <1>2, <1>5, <3>2, <3>4, <3>5
        DEF Owned, CallsKnowTheOwner, BootAsksForTheCache, LoginInsists, TokenOfTheOwner, DownIsEmpty, OnlineServesTheOwner
    <2>. QED
      BY <1>1, <2>4, <2>5 DEF Inductive
  <1>. QED
    BY <1>3, <1>4, <1>5 DEF SignedIn

LEMMA RevokeKeeps == ASSUME Inductive, NEW s \in SignIns, Revoke(s) PROVE Inductive'
  <1>1. Typed'
    BY DEF Inductive, Typed, TypeOK, Revoke
  <1>. QED
    BY <1>1 DEF Revoke, Inductive, Owned, CallsKnowTheOwner, BootAsksForTheCache, LoginInsists, TokenOfTheOwner,
       DownIsEmpty, OnlineServesTheOwner

LEMMA RestartKeeps == ASSUME Inductive, Restart PROVE Inductive'
  <1>1. /\ Typed /\ host' = [phase |-> "down", uid |-> None] /\ machine' = None /\ login' = None
        /\ calls' = [c \in Callers |-> None] /\ restarts' \in 0..MaxRestarts
        /\ UNCHANGED <<mode, cache, registry, minted, dead>>
    BY TypedHasParts, SignInAssumption DEF Inductive, Restart
  <1>2. host' \in HostStates /\ calls' \in [Callers -> Calls \cup {None}]
    BY <1>1 DEF HostStates, Owners
  <1>3. Typed'
    BY <1>1, <1>2, TypedHasParts DEF Typed, TypeOK, HostStates
  <1>. QED
    BY <1>1, <1>3, BootIsACaller DEF Inductive, Owned, CallsKnowTheOwner, BootAsksForTheCache, LoginInsists,
       TokenOfTheOwner, DownIsEmpty, OnlineServesTheOwner

-----------------------------------------------------------------------------
(* SignIn: the specification keeps the invariant.                          *)

LEMMA InitIsInductive == Init => Inductive
  <1>. SUFFICES ASSUME Init PROVE Inductive
    OBVIOUS
  <1>1. /\ mode \in Modes /\ registry \in Owners /\ cache \in SignIns \cup {None}
        /\ machine = None /\ login = None /\ host = [phase |-> "down", uid |-> None]
        /\ calls = [c \in Callers |-> None]
    BY DEF Init
  <1>2. host \in HostStates /\ calls \in [Callers -> Calls \cup {None}]
    BY <1>1 DEF HostStates, Owners
  <1>3. minted \in 1..(MaxSignIns + 1) /\ dead \subseteq SignIns /\ restarts \in 0..MaxRestarts
    BY SignInAssumption DEF Init
  <1>4. Typed
    BY <1>1, <1>2, <1>3, TypedIsParts
  <1>. QED
    BY <1>1, <1>4, BootIsACaller DEF Inductive, Owned, CallsKnowTheOwner, BootAsksForTheCache, LoginInsists,
       TokenOfTheOwner, DownIsEmpty, OnlineServesTheOwner

LEMMA StepIsInductive == Inductive /\ [Next]_vars => Inductive'
  <1>. SUFFICES ASSUME Inductive, [Next]_vars PROVE Inductive'
    OBVIOUS
  <1>1. CASE UNCHANGED vars
    <2>1. Typed'
      BY <1>1 DEF vars, Inductive, Typed, TypeOK
    <2>. QED
      BY <1>1, <2>1 DEF vars, Inductive, Owned, CallsKnowTheOwner, BootAsksForTheCache, LoginInsists,
         TokenOfTheOwner, DownIsEmpty, OnlineServesTheOwner
  <1>2. CASE Bootstrap \/ PinestAuth \/ NotSignedIn \/ Restart \/ Found
    BY <1>2, BootstrapKeeps, PinestAuthKeeps, NotSignedInKeeps, RestartKeeps, FoundKeeps
  <1>3. CASE \E c \in Writers : Renew(c)
    BY <1>3, RenewKeeps
  <1>4. ASSUME NEW c \in Callers, Exchanged(c) \/ Refused(c) \/ Unanswered(c) \/ Renewed(c) PROVE Inductive'
    <2>1. CASE Exchanged(c)
      BY <2>1, ExchangedKeeps
    <2>2. CASE Refused(c)
      BY <2>2, GivesUpKeeps DEF Refused
    <2>3. CASE Unanswered(c)
      BY <2>3, GivesUpKeeps DEF Unanswered
    <2>4. CASE Renewed(c)
      BY <2>4, RenewedKeeps
    <2>. QED
      BY <1>4, <2>1, <2>2, <2>3, <2>4
  <1>5. CASE \E u \in Uids : Posted(u) \/ Read(u) \/ SignedIn(u)
    BY <1>5, PostedKeeps, ReadKeeps, SignedInKeeps
  <1>6. CASE \E s \in SignIns : Revoke(s)
    BY <1>6, RevokeKeeps
  <1>. QED
    BY <1>1, <1>2, <1>3, <1>4, <1>5, <1>6 DEF Next

\* A sign-in that is online serves the registry's owner.
LEMMA InductiveIsEnough == Inductive => OwnerIsSound
  BY DEF Inductive, Typed, OwnerIsSound, OneOwner, Owned, TokenOfTheOwner, OnlineServesTheOwner

\* Whatever is signed in, renewed, refused, revoked or left unanswered, by however many accounts and
\* over any restarts: a host that is online serves the owner its registry is bound to, and the token
\* in memory and the sign-in on disk are that owner's (claimOwner, forceReLogin's expectedUid and the
\* identity check of refreshMachineToken do it together).
THEOREM OneOwnerAlways == Spec => []OwnerIsSound
  <1>1. Init => Inductive
    BY InitIsInductive
  <1>2. Inductive /\ [Next]_vars => Inductive'
    BY StepIsInductive
  <1>3. Inductive => OwnerIsSound
    BY InductiveIsEnough
  <1>. QED
    BY <1>1, <1>2, <1>3, PTL DEF Spec

-----------------------------------------------------------------------------
(* Machine: the invariant.                                                 *)

\* A host that is up has a pid and an instance, and loads counts them.
HostsAreNumbered ==
    /\ loads \in 0..MaxLoads
    /\ \A h \in Hosts : running[h].phase # "down" => running[h].pid \in 1..MaxLoads /\ running[h].instance \in 1..MaxLoads

\* What a removal has done so far: its row is in memory and on disk as it was until the save, its
\* history is where it was moved to, and it goes only after the row.
Removing(h, r) ==
    /\ running[h].phase = "ok" /\ r.row # "none"
    /\ r.step \in {"secure", "save"} => /\ mem[h][r.id] = r.row
                                        /\ r.onDisk => file[r.id] # "none"
                                        /\ r.moved => history[r.id] = "quarantined"
    /\ r.step \in {"secure", "unlink"} => r.moved
    /\ r.step = "unlink" => file[r.id] = "none"

RemovalsAreOnTheirWay == \A h \in Hosts : removal[h] # None => Removing(h, removal[h])

Processes == [pid : 0..MaxLoads, instance : 0..MaxLoads, url : 0..2,
              phase : {"down", "entered", "booting", "ok", "failed"}]

\* The invariant falls into what the processes, the registry and the socket have of it.
HostPart ==
    /\ running \in [Hosts -> Processes] /\ record \in M!Records \cup {None}
    /\ HostsAreNumbered /\ M!RecordKnowsTheHost
RegistryPart ==
    /\ mem \in [Hosts -> [Ids -> M!Rows]] /\ file \in [Ids -> M!Rows] /\ history \in [Ids -> M!Places]
    /\ removal \in [Hosts -> M!Removals \cup {None}] /\ report \in [Hosts -> M!Reports \cup {None}]
    /\ RemovalsAreOnTheirWay
SocketPart ==
    /\ socket \in M!Instances \cup {None}
    /\ claims \subseteq [host : Hosts, instance : M!Instances, first : BOOLEAN,
                         step : {"probed", "bound", "serving", "declined"}]

MInductive == HostPart /\ RegistryPart /\ SocketPart

-----------------------------------------------------------------------------
(* Machine: the processes and the record.                                  *)

LEMMA OneHost == \A h, g \in Hosts : h = g
  BY MachineAssumption

\* The record and the other parts see the phase and the address of the one host only.
LEMMA HostMoves ==
    ASSUME HostPart, NEW h \in Hosts, NEW new \in Processes, running' = [running EXCEPT ![h] = new],
           record' \in M!Records \cup {None}, loads' \in 0..MaxLoads,
           new.phase # "down" => new.pid \in 1..MaxLoads /\ new.instance \in 1..MaxLoads,
           new.phase = "ok" => record' = M!Says(new.pid, "ok", new.instance, new.url)
    PROVE  HostPart' /\ \A g \in Hosts : running'[g] = new
  <1>1. \A g \in Hosts : running'[g] = new
    BY OneHost DEF HostPart
  <1>2. running' \in [Hosts -> Processes]
    BY DEF HostPart
  <1>. QED
    BY <1>1, <1>2 DEF HostPart, HostsAreNumbered, M!RecordKnowsTheHost

LEMMA HostStays ==
    ASSUME HostPart, UNCHANGED <<running, record, loads>>
    PROVE  HostPart'
  BY DEF HostPart, HostsAreNumbered, M!RecordKnowsTheHost

LEMMA SaysIsRecord ==
    ASSUME NEW pid \in 1..MaxLoads, NEW load \in {"pending", "skipped", "ok", "failed"},
           NEW port \in 0..MaxLoads, NEW url \in 0..2
    PROVE  M!Says(pid, load, port, url) \in M!Records
  BY DEF M!Says, M!Records

LEMMA OutcomeIsRecord ==
    ASSUME HostPart, NEW pid \in 1..MaxLoads, NEW load \in {"ok", "failed"},
           NEW port \in 0..MaxLoads, NEW url \in 0..2
    PROVE  /\ M!Outcome(pid, load, port, url) \in M!Records
           /\ load = "ok" => M!Outcome(pid, load, port, url) = M!Says(pid, "ok", port, url)
  <1>. DEFINE had == IF record = None THEN M!Entered(pid) ELSE record
  <1>1. had \in M!Records
    BY SaysIsRecord, MachineAssumption DEF HostPart, M!Entered
  <1>2. had.port \in 0..MaxLoads /\ had.url \in 0..2
    BY <1>1 DEF M!Records
  <1>3. M!Outcome(pid, load, port, url) =
          M!Says(pid, load, IF load = "ok" THEN port ELSE had.port, IF load = "ok" THEN url ELSE had.url)
    BY DEF M!Outcome
  <1>. HIDE DEF had
  <1>4. CASE load = "ok"
    BY <1>3, <1>4, SaysIsRecord
  <1>5. CASE load # "ok"
    BY <1>2, <1>3, <1>5, SaysIsRecord
  <1>. QED
    BY <1>4, <1>5

\* A new instance.
LEMMA EntersKeeps ==
    ASSUME HostPart, NEW h \in Hosts, NEW pid \in 1..MaxLoads, M!Enters(h, pid)
    PROVE  HostPart'
  <1>. DEFINE new == [pid |-> pid, instance |-> loads + 1, phase |-> "entered", url |-> 0]
  <1>1. loads + 1 \in 1..MaxLoads /\ loads' = loads + 1
    BY MachineAssumption DEF M!Enters, HostPart, HostsAreNumbered
  <1>2. new \in Processes
    BY <1>1 DEF Processes
  <1>3. record' \in M!Records
    BY SaysIsRecord, MachineAssumption DEF M!Enters, M!Entered
  <1>4. running' = [running EXCEPT ![h] = new] /\ new.phase = "entered" /\ new.pid = pid /\ new.instance = loads + 1
    BY DEF M!Enters
  <1>. HIDE DEF new
  <1>. QED
    <2>1. loads' \in 0..MaxLoads /\ record' \in M!Records \cup {None}
      BY <1>1, <1>3
    <2>2. new.pid \in 1..MaxLoads /\ new.instance \in 1..MaxLoads /\ new.phase # "ok"
      BY <1>1, <1>4
    <2>. QED
      BY <1>2, <1>4, <2>1, <2>2, HostMoves

\* An end or a kill.
LEMMA GoesDownKeeps ==
    ASSUME HostPart, NEW h \in Hosts, running' = [running EXCEPT ![h] = M!Down], UNCHANGED <<record, loads>>
    PROVE  HostPart'
  <1>1. M!Down \in Processes /\ M!Down.phase = "down"
    BY MachineAssumption DEF M!Down, Processes
  <1>. QED
    BY <1>1, HostMoves DEF HostPart, HostsAreNumbered

\* A host that is up moves on to another phase than "ok", and the record with it or not.
LEMMA PhaseMoves ==
    ASSUME HostPart, NEW h \in Hosts, running[h].phase # "down", NEW phase \in {"booting", "failed", "ok"},
           running' = [running EXCEPT ![h].phase = phase], record' \in M!Records \cup {None}, UNCHANGED loads,
           phase = "ok" => record' = M!Says(running[h].pid, "ok", running[h].instance, running[h].url)
    PROVE  HostPart'
  <1>. DEFINE new == [running[h] EXCEPT !.phase = phase]
  <1>1. running[h] \in Processes /\ running[h].pid \in 1..MaxLoads /\ running[h].instance \in 1..MaxLoads
    BY DEF HostPart, HostsAreNumbered
  <1>2. /\ new \in Processes /\ new.phase = phase /\ new.pid = running[h].pid /\ new.url = running[h].url
        /\ new.instance = running[h].instance
    BY <1>1 DEF Processes
  <1>3. running' = [running EXCEPT ![h] = new] /\ loads' \in 0..MaxLoads
    BY DEF HostPart, HostsAreNumbered
  <1>. HIDE DEF new
  <1>. QED
    BY <1>1, <1>2, <1>3, HostMoves

LEMMA LoadedKeepsHost == ASSUME HostPart, NEW h \in Hosts, M!Loaded(h) PROVE HostPart'
  <1>1. /\ running[h] \in Processes /\ running[h].phase = "booting"
        /\ running[h].pid \in 1..MaxLoads /\ running[h].instance \in 1..MaxLoads
        /\ running' = [running EXCEPT ![h].phase = "ok"] /\ UNCHANGED loads
        /\ record' = M!Outcome(running[h].pid, "ok", running[h].instance, running[h].url)
    BY DEF M!Loaded, HostPart, HostsAreNumbered
  <1>2. running[h].url \in 0..2 /\ running[h].instance \in 0..MaxLoads
    BY <1>1 DEF Processes
  <1>3. /\ record' \in M!Records
        /\ record' = M!Says(running[h].pid, "ok", running[h].instance, running[h].url)
    BY <1>1, <1>2, OutcomeIsRecord
  <1>. QED
    BY <1>1, <1>3, PhaseMoves

LEMMA LoadFailsKeepsHost == ASSUME HostPart, NEW h \in Hosts, M!LoadFails(h) PROVE HostPart'
  <1>1. /\ running[h].phase # "down"
        /\ running[h].pid \in 1..MaxLoads
        /\ running' = [running EXCEPT ![h].phase = "failed"] /\ UNCHANGED loads
        /\ record' = M!Outcome(running[h].pid, "failed", 0, 0)
    BY DEF M!LoadFails, HostPart, HostsAreNumbered
  <1>2. record' \in M!Records
    BY <1>1, OutcomeIsRecord, MachineAssumption
  <1>. QED
    BY <1>1, <1>2, PhaseMoves

\* A child session finds a record and leaves it as it is.
LEMMA ChildKeepsHost == ASSUME HostPart, NEW h \in Hosts, M!Child(h) PROVE HostPart'
  <1>1. /\ running[h].phase # "down" /\ running[h].pid \in 1..MaxLoads
        /\ UNCHANGED <<running, loads>> /\ record' = M!Declined(running[h].pid)
    BY DEF M!Child, HostPart, HostsAreNumbered
  <1>2. CASE record = None
    <2>1. record' \in M!Records
      BY <1>1, <1>2, SaysIsRecord, MachineAssumption DEF M!Declined
    <2>2. \A g \in Hosts : running[g].phase # "ok"
      <3>. SUFFICES ASSUME NEW g \in Hosts, running[g].phase = "ok" PROVE FALSE
        OBVIOUS
      <3>1. /\ running[g].pid \in 1..MaxLoads /\ running[g].instance \in 0..MaxLoads /\ running[g].url \in 0..2
            /\ record = M!Says(running[g].pid, "ok", running[g].instance, running[g].url)
        BY DEF HostPart, HostsAreNumbered, M!RecordKnowsTheHost, Processes
      <3>2. record \in M!Records
        BY <3>1, SaysIsRecord
      <3>. QED
        BY <1>2, <3>2, MachineAssumption
    <2>. QED
      BY <1>1, <2>1, <2>2 DEF HostPart, HostsAreNumbered, M!RecordKnowsTheHost
  <1>3. CASE record # None
    BY <1>1, <1>3, HostStays DEF M!Declined
  <1>. QED
    BY <1>2, <1>3

LEMMA TunnelMovesKeepsHost == ASSUME HostPart, NEW h \in Hosts, M!TunnelMoves(h) PROVE HostPart'
  <1>. DEFINE url == running[h].url + 1
              new == [running[h] EXCEPT !.url = url]
  <1>1. /\ running[h] \in Processes /\ running[h].phase \in {"booting", "ok"} /\ url \in 0..2
        /\ running[h].pid \in 1..MaxLoads /\ running[h].instance \in 1..MaxLoads
        /\ running' = [running EXCEPT ![h] = new] /\ UNCHANGED loads
        /\ record' = M!Moved(running[h].pid, url)
    BY DEF M!TunnelMoves, HostPart, HostsAreNumbered, Processes
  <1>. HIDE DEF url
  <1>2. /\ new \in Processes /\ new.phase = running[h].phase /\ new.pid = running[h].pid /\ new.url = url
        /\ new.instance = running[h].instance
    BY <1>1 DEF Processes
  <1>. HIDE DEF new
  <1>3. record' \in M!Records \cup {None}
    <2>1. CASE record # None /\ record.pid = running[h].pid
      BY <1>1, <2>1 DEF M!Moved, M!Records, HostPart
    <2>2. CASE ~(record # None /\ record.pid = running[h].pid)
      BY <1>1, <2>2 DEF M!Moved, HostPart
    <2>. QED BY <2>1, <2>2
  <1>4. new.phase = "ok" => record' = M!Says(new.pid, "ok", new.instance, new.url)
    <2>. SUFFICES ASSUME running[h].phase = "ok" PROVE record' = M!Says(new.pid, "ok", new.instance, new.url)
      BY <1>2
    <2>1. record = M!Says(running[h].pid, "ok", running[h].instance, running[h].url)
      BY DEF HostPart, M!RecordKnowsTheHost
    <2>2. record \in M!Records
      <3>1. running[h].instance \in 0..MaxLoads /\ running[h].url \in 0..2
        BY <1>1 DEF Processes
      <3>. QED
        BY <1>1, <2>1, <3>1, SaysIsRecord
    <2>3. record # None /\ record.pid = running[h].pid
      BY <2>1, <2>2, MachineAssumption DEF M!Says
    <2>. QED
      BY <1>1, <1>2, <2>1, <2>3 DEF M!Moved, M!Says
  <1>5. loads' \in 0..MaxLoads
    BY <1>1 DEF HostPart, HostsAreNumbered
  <1>. QED
    BY <1>1, <1>2, <1>3, <1>4, <1>5, HostMoves

-----------------------------------------------------------------------------
(* Machine: the socket.                                                    *)

LEMMA SocketStays ==
    ASSUME SocketPart, UNCHANGED <<socket, claims>>
    PROVE  SocketPart'
  BY DEF SocketPart

LEMMA ClaimsGo ==
    ASSUME SocketPart, claims' \subseteq claims, socket' \in {socket, None}
    PROVE  SocketPart'
  BY DEF SocketPart

LEMMA StoppedKeeps == ASSUME SocketPart, NEW h \in Hosts, M!Stopped(h) PROVE SocketPart'
  BY ClaimsGo DEF M!Stopped

LEMMA ServeKeeps ==
    ASSUME HostPart, SocketPart, NEW h \in Hosts, M!ServeLocalAgents(h)
    PROVE  SocketPart'
  <1>. DEFINE new == M!Claim(h, M!Probe(h))
  <1>1. /\ running[h].instance \in M!Instances /\ claims' = claims \cup {new}
        /\ socket' = IF M!Probe(h) = "bound" THEN running[h].instance ELSE socket
    BY DEF M!ServeLocalAgents, HostPart, HostsAreNumbered, M!Instances
  <1>2. M!Probe(h) \in {"bound", "declined", "probed"}
    BY DEF M!Probe
  <1>3. new \in [host : Hosts, instance : M!Instances, first : BOOLEAN,
                 step : {"probed", "bound", "serving", "declined"}]
    BY <1>1, <1>2 DEF M!Claim
  <1>. HIDE DEF new
  <1>. QED
    BY <1>1, <1>3 DEF SocketPart

LEMMA ClaimsMove ==
    ASSUME SocketPart, NEW c \in claims, M!Takes(c) \/ M!Listens(c)
    PROVE  SocketPart'
  <1>. DEFINE Claims == [host : Hosts, instance : M!Instances, first : BOOLEAN,
                         step : {"probed", "bound", "serving", "declined"}]
  <1>1. c \in Claims /\ claims \subseteq Claims /\ socket \in M!Instances \cup {None}
    BY DEF SocketPart
  <1>2. ASSUME M!Takes(c) PROVE SocketPart'
    <2>. DEFINE new == [c EXCEPT !.step = "bound", !.first = M!Quiet(claims \ {c})]
    <2>1. claims' = (claims \ {c}) \cup {new} /\ socket' = c.instance
      BY <1>2 DEF M!Takes
    <2>2. new \in Claims /\ c.instance \in M!Instances
      BY <1>1 DEF M!Quiet
    <2>. HIDE DEF new
    <2>. QED
      BY <1>1, <2>1, <2>2 DEF SocketPart
  <1>3. ASSUME M!Listens(c) PROVE SocketPart'
    <2>. DEFINE new == [c EXCEPT !.step = "serving"]
    <2>1. claims' = (claims \ {c}) \cup {new} /\ socket' = socket
      BY <1>3 DEF M!Listens
    <2>2. new \in Claims
      BY <1>1
    <2>. HIDE DEF new
    <2>. QED
      BY <1>1, <2>1, <2>2 DEF SocketPart
  <1>. QED
    BY <1>2, <1>3

-----------------------------------------------------------------------------
(* Machine: the registry.                                                  *)

LEMMA RegistryStays ==
    ASSUME RegistryPart, UNCHANGED <<mem, file, history, removal, report>>,
           \A h \in Hosts : running[h].phase = "ok" => running'[h].phase = "ok" \/ removal[h] = None
    PROVE  RegistryPart'
  BY DEF RegistryPart, RemovalsAreOnTheirWay, Removing

\* No removal is going on afterwards.
LEMMA NoRemovalAfter ==
    ASSUME mem' \in [Hosts -> [Ids -> M!Rows]], file' \in [Ids -> M!Rows], history' \in [Ids -> M!Places],
           removal' \in [Hosts -> M!Removals \cup {None}], report' \in [Hosts -> M!Reports \cup {None}],
           \A g \in Hosts : removal'[g] = None
    PROVE  RegistryPart'
  BY DEF RegistryPart, RemovalsAreOnTheirWay

\* One removal goes on afterwards, as it may.
LEMMA OneRemovalAfter ==
    ASSUME mem' \in [Hosts -> [Ids -> M!Rows]], file' \in [Ids -> M!Rows], history' \in [Ids -> M!Places],
           NEW h \in Hosts, NEW r \in M!Removals, report' \in [Hosts -> M!Reports \cup {None}],
           RegistryPart, removal' = [removal EXCEPT ![h] = r], Removing(h, r)'
    PROVE  RegistryPart'
  <1>1. removal' \in [Hosts -> M!Removals \cup {None}] /\ removal'[h] = r
    BY DEF RegistryPart
  <1>2. \A g \in Hosts : g = h
    BY OneHost
  <1>. QED
    BY <1>1, <1>2 DEF RegistryPart, RemovalsAreOnTheirWay

LEMMA TellsGives ==
    ASSUME RegistryPart, NEW h \in Hosts, NEW i \in Ids, NEW how \in {"deleted", "restored", "incomplete"},
           NEW place \in M!Places, M!Tells(h, i, how, place)
    PROVE  /\ removal' \in [Hosts -> M!Removals \cup {None}] /\ report' \in [Hosts -> M!Reports \cup {None}]
           /\ \A g \in Hosts : removal'[g] = None
           /\ report'[h] = [id |-> i, how |-> how, place |-> place]
  <1>1. [id |-> i, how |-> how, place |-> place] \in M!Reports
    BY DEF M!Reports
  <1>. QED
    BY <1>1, OneHost DEF M!Tells, RegistryPart

\* What a step owes the two properties of a removal.
ReportTrue(h) ==
    removal[h] # None /\ removal'[h] = None /\ report'[h] # None =>
        LET i == removal[h].id
            said == report'[h]
        IN CASE said.how = "deleted" -> file'[i] = "none" /\ (removal[h].moved => history'[i] = "gone")
             [] said.how = "restored" -> /\ mem'[h][i] = removal[h].row
                                         /\ removal[h].onDisk => file'[i] # "none"
                                         /\ removal[h].moved => history'[i] = "there"
             [] OTHER -> mem'[h][i] = removal[h].row /\ history'[i] = said.place

DeletesLast == \A i \in Ids : history[i] # "gone" /\ history'[i] = "gone" => file[i] = "none"

RegistryStep == RegistryPart' /\ DeletesLast /\ \A h \in Hosts : ReportTrue(h)

\* A report that is made, by what it says.
LEMMA ReportTold ==
    ASSUME RegistryPart, NEW h \in Hosts, NEW how \in {"deleted", "restored", "incomplete"}, NEW place \in M!Places,
           removal[h] # None, M!Tells(h, removal[h].id, how, place),
           how = "deleted" => /\ file'[removal[h].id] = "none"
                              /\ removal[h].moved => history'[removal[h].id] = "gone",
           how = "restored" => /\ mem'[h][removal[h].id] = removal[h].row
                               /\ removal[h].onDisk => file'[removal[h].id] # "none"
                               /\ removal[h].moved => history'[removal[h].id] = "there",
           how = "incomplete" => mem'[h][removal[h].id] = removal[h].row /\ history'[removal[h].id] = place
    PROVE  \A g \in Hosts : ReportTrue(g)
  <1>. DEFINE i == removal[h].id
  <1>1. i \in Ids
    BY DEF RegistryPart, M!Removals
  <1>2. report'[h] = [id |-> i, how |-> how, place |-> place]
    BY <1>1, TellsGives
  <1>3. report'[h].how = how /\ report'[h].place = place
    BY <1>2
  <1>4. CASE how = "deleted"
    BY <1>3, <1>4, OneHost DEF ReportTrue
  <1>5. CASE how = "restored"
    BY <1>3, <1>5, OneHost DEF ReportTrue
  <1>6. CASE how = "incomplete"
    BY <1>3, <1>6, OneHost DEF ReportTrue
  <1>. QED
    BY <1>4, <1>5, <1>6

\* A step that leaves the registry alone.
LEMMA RegistryIdle ==
    ASSUME RegistryPart, UNCHANGED <<mem, file, history, removal, report>>,
           \A h \in Hosts : running[h].phase = "ok" => running'[h].phase = "ok" \/ removal[h] = None
    PROVE  RegistryStep
  BY RegistryStays DEF RegistryStep, DeletesLast, ReportTrue

LEMMA KillStep ==
    ASSUME RegistryPart, NEW h \in Hosts, M!Kill(h)
    PROVE  RegistryStep
  <1>1. /\ UNCHANGED <<mem, file, history>>
        /\ removal' = [removal EXCEPT ![h] = None] /\ report' = [report EXCEPT ![h] = None]
    BY DEF M!Kill
  <1>2. /\ removal' \in [Hosts -> M!Removals \cup {None}] /\ report' \in [Hosts -> M!Reports \cup {None}]
        /\ \A g \in Hosts : removal'[g] = None /\ report'[g] = None
    BY <1>1, OneHost DEF RegistryPart
  <1>3. RegistryPart'
    BY <1>1, <1>2, NoRemovalAfter DEF RegistryPart
  <1>. QED
    BY <1>1, <1>2, <1>3 DEF RegistryStep, DeletesLast, ReportTrue

\* The bootstrap reads the registry before any removal.
LEMMA BootsStep ==
    ASSUME RegistryPart, NEW h \in Hosts, M!Boots(h)
    PROVE  RegistryStep
  <1>1. /\ UNCHANGED <<file, history, removal, report>> /\ mem' = [mem EXCEPT ![h] = file]
        /\ running[h].phase = "entered"
    BY DEF M!Boots
  <1>2. \A g \in Hosts : removal[g] = None /\ removal'[g] = None
    BY <1>1, OneHost DEF RegistryPart, RemovalsAreOnTheirWay, Removing
  <1>3. RegistryPart'
    BY <1>1, <1>2, NoRemovalAfter DEF RegistryPart
  <1>. QED
    BY <1>1, <1>2, <1>3 DEF RegistryStep, DeletesLast, ReportTrue

LEMMA UpsertStep ==
    ASSUME RegistryPart, NEW h \in Hosts, NEW i \in Ids, NEW row \in {"live", "closed"}, M!Upsert(h, i, row)
    PROVE  RegistryStep
  <1>1. /\ \A g \in Hosts : removal[g] = None /\ removal'[g] = None
        /\ UNCHANGED <<removal, report>>
        /\ mem' = [mem EXCEPT ![h][i] = row]
        /\ file' \in {mem'[h], file} /\ history' \in {history, [history EXCEPT ![i] = "there"]}
    BY OneHost DEF M!Upsert, M!Ready
  <1>2. row \in M!Rows /\ "there" \in M!Places
    BY DEF M!Rows, M!Places
  <1>3. mem' \in [Hosts -> [Ids -> M!Rows]]
    BY <1>1, <1>2 DEF RegistryPart
  <1>4. file' \in [Ids -> M!Rows] /\ history' \in [Ids -> M!Places]
    BY <1>1, <1>2, <1>3 DEF RegistryPart
  <1>5. RegistryPart'
    BY <1>1, <1>3, <1>4, NoRemovalAfter DEF RegistryPart
  <1>6. DeletesLast
    BY <1>1 DEF DeletesLast, RegistryPart
  <1>. QED
    BY <1>1, <1>5, <1>6 DEF RegistryStep, ReportTrue

LEMMA RemovesStep ==
    ASSUME RegistryPart, NEW h \in Hosts, NEW i \in Ids, M!Removes(h, i)
    PROVE  RegistryStep
  <1>1. /\ running[h].phase = "ok" /\ mem[h][i] # "none" /\ UNCHANGED <<mem, file, running>>
        /\ \A g \in Hosts : removal[g] = None
        /\ mem[h][i] \in M!Rows
    BY OneHost DEF M!Removes, M!Ready, RegistryPart
  <1>. DEFINE r(step, moved) == M!At(h, i, step, moved, mem[h][i])
  <1>2. ASSUME NEW step \in {"secure", "save"}, NEW moved \in BOOLEAN, removal' = [removal EXCEPT ![h] = r(step, moved)],
               history' \in [Ids -> M!Places], moved => history'[i] = "quarantined", step = "secure" => moved,
               report' = report
        PROVE  RegistryPart'
    <2>1. /\ r(step, moved) \in M!Removals
          /\ r(step, moved).id = i /\ r(step, moved).step = step /\ r(step, moved).row = mem[h][i]
          /\ r(step, moved).moved = moved /\ r(step, moved).onDisk = (file[i] # "none")
      BY <1>1 DEF M!At, M!Removals
    <2>2. PICK q \in M!Removals : q = r(step, moved)
      BY <2>1
    <2>. HIDE DEF r
    <2>3. Removing(h, q)'
      BY <1>1, <1>2, <2>1, <2>2 DEF Removing
    <2>. QED
      BY <1>1, <1>2, <2>2, <2>3, OneRemovalAfter DEF RegistryPart
  <1>3. \A g \in Hosts : ReportTrue(g)
    BY <1>1 DEF ReportTrue
  <1>4. CASE removal' = [removal EXCEPT ![h] = r("save", FALSE)] /\ UNCHANGED <<history, report>>
    <2>1. RegistryPart'
      BY <1>2, <1>4 DEF RegistryPart
    <2>. QED
      BY <1>3, <1>4, <2>1 DEF RegistryStep, DeletesLast
  <1>5. CASE /\ history[i] = "there" /\ history' = [history EXCEPT ![i] = "quarantined"]
             /\ removal' = [removal EXCEPT ![h] = r("secure", TRUE)] /\ UNCHANGED report
    <2>1. history' \in [Ids -> M!Places] /\ history'[i] = "quarantined"
      BY <1>5 DEF RegistryPart, M!Places
    <2>2. RegistryPart'
      BY <1>2, <1>5, <2>1
    <2>3. DeletesLast
      BY <1>5 DEF DeletesLast, RegistryPart
    <2>. QED
      BY <1>3, <2>2, <2>3 DEF RegistryStep
  <1>6. CASE history[i] = "there" /\ M!Tells(h, i, "restored", "there") /\ UNCHANGED history
    <2>1. "there" \in M!Places
      BY DEF M!Places
    <2>2. RegistryPart'
      BY <1>1, <1>6, <2>1, TellsGives, NoRemovalAfter DEF RegistryPart
    <2>. QED
      BY <1>3, <1>6, <2>2 DEF RegistryStep, DeletesLast
  <1>. QED
    BY <1>4, <1>5, <1>6 DEF M!Removes

\* What is moved is put back, before the save: the row is as it was.
LEMMA PutsBackStep ==
    ASSUME RegistryPart, NEW h \in Hosts, removal[h] # None, removal[h].step \in {"secure", "save"},
           removal[h].moved, M!PutsBack(h, removal[h].id), UNCHANGED <<mem, file>>
    PROVE  RegistryStep
  <1>. DEFINE i == removal[h].id
  <1>1. /\ i \in Ids /\ mem[h][i] = removal[h].row /\ (removal[h].onDisk => file[i] # "none")
    BY DEF RegistryPart, M!Removals, RemovalsAreOnTheirWay, Removing
  <1>2. {"there", "quarantined"} \subseteq M!Places
    BY DEF M!Places
  <1>3. CASE history' = [history EXCEPT ![i] = "there"] /\ M!Tells(h, i, "restored", "there")
    <2>1. history' \in [Ids -> M!Places] /\ history'[i] = "there" /\ DeletesLast
      BY <1>1, <1>2, <1>3 DEF RegistryPart, DeletesLast
    <2>2. RegistryPart'
      BY <1>1, <1>2, <1>3, <2>1, TellsGives, NoRemovalAfter DEF RegistryPart
    <2>3. \A g \in Hosts : ReportTrue(g)
      BY <1>1, <1>2, <1>3, <2>1, ReportTold
    <2>. QED
      BY <2>1, <2>2, <2>3 DEF RegistryStep
  <1>4. CASE UNCHANGED history /\ M!Tells(h, i, "incomplete", "quarantined")
    <2>1. RegistryPart'
      BY <1>1, <1>2, <1>4, TellsGives, NoRemovalAfter DEF RegistryPart
    <2>2. history'[i] = "quarantined"
      BY <1>4 DEF RegistryPart, RemovalsAreOnTheirWay, Removing
    <2>3. \A g \in Hosts : ReportTrue(g)
      BY <1>1, <1>2, <1>4, <2>2, ReportTold
    <2>. QED
      BY <1>4, <2>1, <2>3 DEF RegistryStep, DeletesLast
  <1>. QED
    BY <1>3, <1>4 DEF M!PutsBack

LEMMA SecuresStep ==
    ASSUME RegistryPart, NEW h \in Hosts, M!Secures(h)
    PROVE  RegistryStep
  <1>1. /\ removal[h] # None /\ removal[h] \in M!Removals /\ removal[h].step = "secure"
        /\ Removing(h, removal[h]) /\ UNCHANGED <<mem, file, running>>
    BY DEF M!Secures, RegistryPart, RemovalsAreOnTheirWay
  <1>2. CASE removal' = [removal EXCEPT ![h].step = "save"] /\ UNCHANGED <<history, report>>
    <2>1. PICK r \in M!Removals : /\ r.step = "save" /\ r.row = removal[h].row /\ r.id = removal[h].id
                                  /\ r.moved = removal[h].moved /\ r.onDisk = removal[h].onDisk
                                  /\ r = [removal[h] EXCEPT !.step = "save"]
      BY <1>1 DEF M!Removals
    <2>2. Removing(h, r)'
      BY <1>1, <1>2, <2>1 DEF Removing
    <2>3. removal' = [removal EXCEPT ![h] = r]
      BY <1>2, <2>1
    <2>4. RegistryPart'
      BY <1>1, <1>2, <2>2, <2>3, OneRemovalAfter DEF RegistryPart
    <2>5. \A g \in Hosts : removal'[g] # None
      BY <2>3, OneHost, MachineAssumption DEF RegistryPart
    <2>. QED
      BY <1>2, <2>4, <2>5 DEF RegistryStep, DeletesLast, ReportTrue
  <1>3. CASE M!PutsBack(h, removal[h].id)
    BY <1>1, <1>3, PutsBackStep DEF Removing
  <1>. QED
    BY <1>2, <1>3 DEF M!Secures

LEMMA SavesStep ==
    ASSUME RegistryPart, NEW h \in Hosts, M!Saves(h)
    PROVE  RegistryStep
  <1>. DEFINE i == removal[h].id
  <1>1. /\ removal[h] # None /\ removal[h] \in M!Removals /\ removal[h].step = "save" /\ i \in Ids
        /\ Removing(h, removal[h]) /\ UNCHANGED running
    BY DEF M!Saves, RegistryPart, RemovalsAreOnTheirWay, M!Removals
  <1>2. history[i] \in M!Places /\ "there" \in M!Places
    BY <1>1 DEF RegistryPart, M!Places
  <1>3. CASE /\ file' = M!Without(mem[h], i) /\ mem' = [mem EXCEPT ![h][i] = "none"] /\ UNCHANGED history
             /\ IF removal[h].moved
                THEN removal' = [removal EXCEPT ![h].step = "unlink"] /\ UNCHANGED report
                ELSE M!Tells(h, i, "deleted", history[i])
    <2>1. "none" \in M!Rows
      BY DEF M!Rows
    <2>2. file' \in [Ids -> M!Rows] /\ file'[i] = "none" /\ mem' \in [Hosts -> [Ids -> M!Rows]]
      BY <1>1, <1>3, <2>1 DEF RegistryPart, M!Without
    <2>3. CASE removal[h].moved
      <3>1. PICK r \in M!Removals : /\ r.step = "unlink" /\ r.row = removal[h].row /\ r.id = i /\ r.moved
                                    /\ r = [removal[h] EXCEPT !.step = "unlink"]
        BY <1>1, <2>3 DEF M!Removals
      <3>2. Removing(h, r)'
        BY <1>1, <1>3, <2>2, <3>1 DEF Removing
      <3>3. removal' = [removal EXCEPT ![h] = r]
        BY <1>3, <2>3, <3>1
      <3>4. RegistryPart'
        BY <1>3, <2>2, <2>3, <3>2, <3>3, OneRemovalAfter DEF RegistryPart
      <3>5. \A g \in Hosts : removal'[g] # None
        BY <3>3, OneHost, MachineAssumption DEF RegistryPart
      <3>. QED
        BY <1>3, <3>4, <3>5 DEF RegistryStep, DeletesLast, ReportTrue
    <2>4. CASE ~removal[h].moved
      <3>1. M!Tells(h, i, "deleted", history[i])
        BY <1>3, <2>4
      <3>2. RegistryPart'
        BY <1>1, <1>2, <1>3, <2>2, <3>1, TellsGives, NoRemovalAfter DEF RegistryPart
      <3>3. \A g \in Hosts : ReportTrue(g)
        BY <1>1, <1>2, <2>2, <2>4, <3>1, ReportTold
      <3>. QED
        BY <1>3, <3>2, <3>3 DEF RegistryStep, DeletesLast
    <2>. QED
      BY <2>3, <2>4
  <1>4. CASE M!Unsaved(h, i, removal[h].moved) /\ UNCHANGED <<mem, file>>
    <2>1. CASE removal[h].moved
      BY <1>1, <1>4, <2>1, PutsBackStep DEF M!Unsaved
    <2>2. CASE ~removal[h].moved
      <3>1. M!Tells(h, i, "restored", history[i]) /\ UNCHANGED history
        BY <1>4, <2>2 DEF M!Unsaved
      <3>2. RegistryPart'
        BY <1>1, <1>2, <1>4, <3>1, TellsGives, NoRemovalAfter DEF RegistryPart
      <3>3. mem'[h][i] = removal[h].row /\ (removal[h].onDisk => file'[i] # "none")
        BY <1>1, <1>4 DEF Removing
      <3>4. \A g \in Hosts : ReportTrue(g)
        BY <1>1, <1>2, <2>2, <3>1, <3>3, ReportTold
      <3>. QED
        BY <3>1, <3>2, <3>4 DEF RegistryStep, DeletesLast
    <2>. QED
      BY <2>1, <2>2
  <1>. QED
    BY <1>3, <1>4 DEF M!Saves

\* The row is off the disk when its history goes.
LEMMA UnlinksStep ==
    ASSUME RegistryPart, NEW h \in Hosts, M!Unlinks(h)
    PROVE  RegistryStep
  <1>. DEFINE i == removal[h].id
              back == [mem[h] EXCEPT ![i] = removal[h].row]
  <1>1. /\ removal[h] # None /\ removal[h] \in M!Removals /\ removal[h].step = "unlink" /\ i \in Ids
        /\ removal[h].row \in M!Rows
        /\ removal[h].row # "none" /\ removal[h].moved /\ file[i] = "none"
    BY DEF M!Unlinks, RegistryPart, RemovalsAreOnTheirWay, Removing, M!Removals
  <1>2. {"gone", "there", "quarantined"} \subseteq M!Places
    BY DEF M!Places
  <1>3. CASE history' = [history EXCEPT ![i] = "gone"] /\ M!Tells(h, i, "deleted", "gone") /\ UNCHANGED <<mem, file>>
    <2>1. history' \in [Ids -> M!Places] /\ history'[i] = "gone" /\ DeletesLast
      BY <1>1, <1>2, <1>3 DEF RegistryPart, DeletesLast
    <2>2. RegistryPart'
      BY <1>1, <1>2, <1>3, <2>1, TellsGives, NoRemovalAfter DEF RegistryPart
    <2>3. \A g \in Hosts : ReportTrue(g)
      BY <1>1, <1>2, <1>3, <2>1, ReportTold
    <2>. QED
      BY <2>1, <2>2, <2>3 DEF RegistryStep
  <1>4. ASSUME NEW restored \in BOOLEAN, NEW saved \in BOOLEAN,
               mem' = [mem EXCEPT ![h] = back],
               history' = [history EXCEPT ![i] = IF restored THEN "there" ELSE "quarantined"],
               file' = IF saved THEN back ELSE file,
               M!Tells(h, i, IF restored /\ saved THEN "restored" ELSE "incomplete", history'[i])
        PROVE  RegistryStep
    <2>1. back \in [Ids -> M!Rows] /\ back[i] = removal[h].row
      BY <1>1 DEF RegistryPart
    <2>2. /\ mem' \in [Hosts -> [Ids -> M!Rows]] /\ file' \in [Ids -> M!Rows]
          /\ mem'[h][i] = removal[h].row /\ (saved => file'[i] # "none")
      BY <1>1, <1>4, <2>1 DEF RegistryPart
    <2>3. /\ history' \in [Ids -> M!Places] /\ history'[i] \in M!Places
          /\ restored => history'[i] = "there"
      BY <1>1, <1>2, <1>4 DEF RegistryPart
    <2>4. DeletesLast
      BY <1>1, <1>4 DEF RegistryPart, DeletesLast
    <2>5. PICK how \in {"deleted", "restored", "incomplete"} : how = IF restored /\ saved THEN "restored" ELSE "incomplete"
      OBVIOUS
    <2>6. PICK place \in M!Places : place = history'[i]
      BY <2>3
    <2>7. M!Tells(h, i, how, place)
      BY <1>4, <2>5, <2>6
    <2>8. RegistryPart'
      BY <1>1, <2>2, <2>3, <2>7, TellsGives, NoRemovalAfter
    <2>9. \A g \in Hosts : ReportTrue(g)
      BY <1>1, <2>2, <2>3, <2>5, <2>6, <2>7, ReportTold
    <2>. QED
      BY <2>4, <2>8, <2>9 DEF RegistryStep
  <1>. QED
    BY <1>3, <1>4 DEF M!Unlinks

-----------------------------------------------------------------------------
(* Machine: each step.                                                     *)

MStep == HostPart' /\ RegistryStep /\ SocketPart'

LEMMA StartStep == ASSUME MInductive, NEW h \in Hosts, M!Start(h) PROVE MStep
  <1>1. /\ M!Enters(h, loads + 1) /\ UNCHANGED <<mem, file, history, removal, report, socket, claims>>
        /\ running[h].phase = "down"
    BY DEF M!Start, M!registry
  <1>2. loads + 1 \in 1..MaxLoads
    BY <1>1, MachineAssumption DEF MInductive, HostPart, HostsAreNumbered, M!Enters
  <1>3. HostPart'
    BY <1>1, <1>2, EntersKeeps DEF MInductive
  <1>4. RegistryStep
    BY <1>1, OneHost, RegistryIdle DEF MInductive
  <1>. QED
    BY <1>1, <1>3, <1>4, SocketStays DEF MInductive, MStep

LEMMA ReloadStep == ASSUME MInductive, NEW h \in Hosts, M!Reload(h) PROVE MStep
  <1>1. /\ M!Enters(h, running[h].pid) /\ M!Stopped(h) /\ UNCHANGED <<mem, file, history, removal, report>>
        /\ running[h].phase # "down" /\ removal[h] = None
    BY DEF M!Reload, M!registry
  <1>2. running[h].pid \in 1..MaxLoads
    BY <1>1 DEF MInductive, HostPart, HostsAreNumbered
  <1>3. HostPart'
    BY <1>1, <1>2, EntersKeeps DEF MInductive
  <1>4. RegistryStep
    BY <1>1, OneHost, RegistryIdle DEF MInductive
  <1>. QED
    BY <1>1, <1>3, <1>4, StoppedKeeps DEF MInductive, MStep

LEMMA EndStep == ASSUME MInductive, NEW h \in Hosts, M!End(h) PROVE MStep
  <1>1. /\ M!Stopped(h) /\ UNCHANGED <<mem, file, history, removal, report, record, loads>>
        /\ running' = [running EXCEPT ![h] = M!Down] /\ removal[h] = None
    BY DEF M!End, M!registry
  <1>2. HostPart'
    BY <1>1, GoesDownKeeps DEF MInductive
  <1>3. RegistryStep
    BY <1>1, OneHost, RegistryIdle DEF MInductive
  <1>. QED
    BY <1>1, <1>2, <1>3, StoppedKeeps DEF MInductive, MStep

LEMMA KillLeavesTheSocket == ASSUME MInductive, NEW h \in Hosts, M!Kill(h) PROVE MStep
  <1>1. /\ UNCHANGED <<record, socket, loads>> /\ running' = [running EXCEPT ![h] = M!Down]
        /\ claims' = {c \in claims : c.host # h}
    BY DEF M!Kill
  <1>2. HostPart'
    BY <1>1, GoesDownKeeps DEF MInductive
  <1>3. RegistryStep
    BY KillStep DEF MInductive
  <1>4. SocketPart'
    BY <1>1, ClaimsGo DEF MInductive
  <1>. QED
    BY <1>1, <1>2, <1>3, <1>4 DEF MStep

\* A step of the process alone.
LEMMA ProcessStep ==
    ASSUME MInductive, NEW h \in Hosts, UNCHANGED <<mem, file, history, removal, report, socket, claims>>, HostPart',
           running[h].phase = "ok" => running'[h].phase = "ok"
    PROVE  MStep
  <1>1. RegistryStep
    BY OneHost, RegistryIdle DEF MInductive
  <1>. QED
    BY <1>1, SocketStays DEF MInductive, MStep

LEMMA BootsKeepsAll == ASSUME MInductive, NEW h \in Hosts, M!Boots(h) PROVE MStep
  <1>1. HostPart'
    BY PhaseMoves DEF M!Boots, MInductive, HostPart
  <1>. QED
    BY <1>1, BootsStep, SocketStays DEF M!Boots, MInductive, MStep

LEMMA ProcessSteps ==
    ASSUME MInductive, NEW h \in Hosts, M!Loaded(h) \/ M!LoadFails(h) \/ M!Child(h) \/ M!TunnelMoves(h)
    PROVE  MStep
  <1>1. running \in [Hosts -> Processes]
    BY DEF MInductive, HostPart
  <1>2. CASE M!Loaded(h)
    <2>1. HostPart'
      BY <1>2, LoadedKeepsHost DEF MInductive
    <2>. QED
      BY <1>1, <1>2, <2>1, ProcessStep DEF M!Loaded, M!registry
  <1>3. CASE M!LoadFails(h)
    <2>1. HostPart'
      BY <1>3, LoadFailsKeepsHost DEF MInductive
    <2>. QED
      BY <1>1, <1>3, <2>1, ProcessStep DEF M!LoadFails, M!registry
  <1>4. CASE M!Child(h)
    <2>1. HostPart'
      BY <1>4, ChildKeepsHost DEF MInductive
    <2>. QED
      BY <1>1, <1>4, <2>1, ProcessStep DEF M!Child, M!registry
  <1>5. CASE M!TunnelMoves(h)
    <2>1. HostPart'
      BY <1>5, TunnelMovesKeepsHost DEF MInductive
    <2>2. running'[h].phase = running[h].phase
      BY <1>1, <1>5 DEF M!TunnelMoves, Processes
    <2>. QED
      BY <1>5, <2>1, <2>2, ProcessStep DEF M!TunnelMoves, M!registry
  <1>. QED
    BY <1>2, <1>3, <1>4, <1>5

\* A step of the socket alone.
LEMMA SocketStep ==
    ASSUME MInductive, UNCHANGED <<mem, file, history, removal, report, running, record, loads>>, SocketPart'
    PROVE  MStep
  <1>1. RegistryStep
    BY RegistryIdle DEF MInductive
  <1>. QED
    BY <1>1, HostStays DEF MInductive, MStep

LEMMA SocketSteps ==
    /\ MInductive => \A h \in Hosts : M!ServeLocalAgents(h) => MStep
    /\ MInductive => \A c \in claims : M!Takes(c) \/ M!Listens(c) => MStep
  <1>1. ASSUME MInductive, NEW h \in Hosts, M!ServeLocalAgents(h) PROVE MStep
    <2>1. SocketPart'
      BY <1>1, ServeKeeps DEF MInductive
    <2>. QED
      BY <1>1, <2>1, SocketStep DEF M!ServeLocalAgents, M!registry
  <1>2. ASSUME MInductive, NEW c \in claims, M!Takes(c) \/ M!Listens(c) PROVE MStep
    <2>1. SocketPart'
      BY <1>2, ClaimsMove DEF MInductive
    <2>. QED
      BY <1>2, <2>1, SocketStep DEF M!Takes, M!Listens, M!registry
  <1>. QED
    BY <1>1, <1>2

\* A step of the registry alone.
LEMMA RegistryAlone ==
    ASSUME MInductive, RegistryStep, UNCHANGED <<running, record, socket, claims, loads>>
    PROVE  MStep
  BY HostStays, SocketStays DEF MInductive, MStep

LEMMA RegistrySteps ==
    /\ MInductive => \A h \in Hosts, i \in Ids, row \in {"live", "closed"} : M!Upsert(h, i, row) => MStep
    /\ MInductive => \A h \in Hosts, i \in Ids : M!Removes(h, i) => MStep
    /\ MInductive => \A h \in Hosts : M!Secures(h) \/ M!Saves(h) \/ M!Unlinks(h) => MStep
  <1>. SUFFICES ASSUME MInductive
                PROVE  /\ \A h \in Hosts, i \in Ids, row \in {"live", "closed"} : M!Upsert(h, i, row) => MStep
                       /\ \A h \in Hosts, i \in Ids : M!Removes(h, i) => MStep
                       /\ \A h \in Hosts : M!Secures(h) \/ M!Saves(h) \/ M!Unlinks(h) => MStep
    OBVIOUS
  <1>1. ASSUME NEW h \in Hosts, NEW i \in Ids, NEW row \in {"live", "closed"}, M!Upsert(h, i, row) PROVE MStep
    BY <1>1, UpsertStep, RegistryAlone DEF MInductive, M!Upsert
  <1>2. ASSUME NEW h \in Hosts, NEW i \in Ids, M!Removes(h, i) PROVE MStep
    BY <1>2, RemovesStep, RegistryAlone DEF MInductive, M!Removes
  <1>3. ASSUME NEW h \in Hosts, M!Secures(h) PROVE MStep
    BY <1>3, SecuresStep, RegistryAlone DEF MInductive, M!Secures
  <1>4. ASSUME NEW h \in Hosts, M!Saves(h) PROVE MStep
    BY <1>4, SavesStep, RegistryAlone DEF MInductive, M!Saves
  <1>5. ASSUME NEW h \in Hosts, M!Unlinks(h) PROVE MStep
    BY <1>5, UnlinksStep, RegistryAlone DEF MInductive, M!Unlinks
  <1>. QED
    BY <1>1, <1>2, <1>3, <1>4, <1>5

-----------------------------------------------------------------------------
(* Machine: the specification keeps the invariant.                         *)

LEMMA MInit == M!Init => MInductive
  <1>. SUFFICES ASSUME M!Init PROVE MInductive
    OBVIOUS
  <1>1. M!Down \in Processes /\ M!Down.phase = "down"
    BY MachineAssumption DEF M!Down, Processes
  <1>2. running \in [Hosts -> Processes] /\ \A h \in Hosts : running[h].phase = "down"
    BY <1>1 DEF M!Init
  <1>3. HostPart
    BY <1>2, MachineAssumption DEF M!Init, HostPart, HostsAreNumbered, M!RecordKnowsTheHost
  <1>4. RegistryPart
    BY DEF M!Init, RegistryPart, RemovalsAreOnTheirWay, M!Rows, M!Places
  <1>5. SocketPart
    BY DEF M!Init, SocketPart
  <1>. QED
    BY <1>3, <1>4, <1>5 DEF MInductive

LEMMA MNextIsStep == MInductive /\ [M!Next]_(M!vars) => MStep
  <1>. SUFFICES ASSUME MInductive, [M!Next]_(M!vars) PROVE MStep
    OBVIOUS
  <1>1. CASE UNCHANGED M!vars
    BY <1>1, SocketStays, SocketStep DEF MInductive, M!vars
  <1>2. CASE \E h \in Hosts : \/ M!Start(h) \/ M!Reload(h) \/ M!End(h) \/ M!Kill(h) \/ M!Boots(h) \/ M!Loaded(h)
                              \/ M!LoadFails(h)
    BY <1>2, StartStep, ReloadStep, EndStep, KillLeavesTheSocket, BootsKeepsAll, ProcessSteps
  <1>3. CASE \E h \in Hosts : M!Child(h) \/ M!TunnelMoves(h) \/ M!ServeLocalAgents(h)
    BY <1>3, ProcessSteps, SocketSteps
  <1>4. CASE \E c \in claims : M!Takes(c) \/ M!Listens(c)
    BY <1>4, SocketSteps
  <1>5. CASE \E h \in Hosts, i \in Ids, row \in {"live", "closed"} : M!Upsert(h, i, row)
    BY <1>5, RegistrySteps
  <1>6. CASE \E h \in Hosts, i \in Ids : M!Removes(h, i)
    BY <1>6, RegistrySteps
  <1>7. CASE \E h \in Hosts : M!Secures(h) \/ M!Saves(h) \/ M!Unlinks(h)
    BY <1>7, RegistrySteps
  <1>. QED
    BY <1>1, <1>2, <1>3, <1>4, <1>5, <1>6, <1>7 DEF M!Next

LEMMA MStepIsInductive == MStep => MInductive'
  BY DEF MStep, MInductive, RegistryStep

LEMMA MInductiveIsEnough == MInductive => StateIsSound /\ M!StateIsSound
  BY DEF MInductive, HostPart, RegistryPart, SocketPart, StateIsSound, M!StateIsSound, M!TypeOK, Processes

LEMMA MSpecIsInductive == M!Spec => []MInductive
  <1>1. M!Init => MInductive
    BY MInit
  <1>2. MInductive /\ [M!Next]_(M!vars) => MInductive'
    BY MNextIsStep, MStepIsInductive
  <1>. QED
    BY <1>1, <1>2, PTL DEF M!Spec

\* Whatever loads, fails, is reloaded, ended or killed and whenever child sessions enter: the state
\* keeps its types, and while a host is up runtime.json names its process, its port and the address
\* of its tunnel (recordFactoryEntry and recordLoadOutcome, runtime-record.ts).
THEOREM RecordTellsTheTruth == M!Spec => [](StateIsSound /\ M!StateIsSound)
  <1>1. MInductive => StateIsSound /\ M!StateIsSound
    BY MInductiveIsEnough
  <1>. QED
    BY <1>1, MSpecIsInductive, PTL

\* A removal is a transaction wherever it fails or is cut off: what its caller is told is so, and a
\* history is deleted only when its row is off the disk (remove, registry.ts).
THEOREM RemovalIsATransaction == M!Spec => RemovalIsSound
  <1>1. MInductive /\ [M!Next]_(M!vars) =>
          [\A h \in Hosts : removal[h] # None /\ removal'[h] = None /\ report'[h] # None =>
              LET i == removal[h].id
                  said == report'[h]
              IN CASE said.how = "deleted" -> file'[i] = "none" /\ (removal[h].moved => history'[i] = "gone")
                   [] said.how = "restored" -> /\ mem'[h][i] = removal[h].row
                                               /\ removal[h].onDisk => file'[i] # "none"
                                               /\ removal[h].moved => history'[i] = "there"
                   [] OTHER -> mem'[h][i] = removal[h].row /\ history'[i] = said.place]_(M!vars)
    BY MNextIsStep DEF MStep, RegistryStep, ReportTrue
  <1>2. MInductive /\ [M!Next]_(M!vars) =>
          [\A i \in Ids : history[i] # "gone" /\ history'[i] = "gone" => file[i] = "none"]_(M!vars)
    BY MNextIsStep DEF MStep, RegistryStep, DeletesLast
  <1>. QED
    BY <1>1, <1>2, MSpecIsInductive, PTL DEF M!Spec, RemovalIsSound, M!RemovalIsSound, M!ReportIsTrue, M!DeletedAfterItsRow

-----------------------------------------------------------------------------
(* Machine: the socket, of any number of hosts.                            *)

PeersAreNumbered ==
    /\ running \in [Peers -> Processes] /\ loads \in 0..MaxLoads
    /\ \A h \in Peers : running[h].phase # "down" => running[h].pid \in 1..MaxLoads /\ running[h].instance \in 1..MaxLoads

\* The first has its file, and whoever else has asked was declined; None is no instance.
SInductive ==
    /\ PeersAreNumbered
    /\ \A c \in claims : c.instance \in 1..MaxLoads
    /\ FirstKeepsItsSocket

\* A claim that is gone takes its own file with it, or leaves it.
LEMMA FewerClaims ==
    ASSUME FirstKeepsItsSocket, claims' \subseteq claims,
           socket' = socket \/ \E c \in claims \ claims' : c.step = "serving"
    PROVE  FirstKeepsItsSocket'
  <1>. SUFFICES ASSUME NEW c \in claims', S!Serving(c), c.first
                PROVE  socket' = c.instance /\ \A d \in claims' \ {c} : d.step = "declined"
    BY DEF FirstKeepsItsSocket, S!FirstKeepsItsSocket, S!Quiet, S!Serving
  <1>1. socket = c.instance /\ \A d \in claims \ {c} : d.step = "declined"
    BY DEF FirstKeepsItsSocket, S!FirstKeepsItsSocket, S!Quiet
  <1>2. socket' = socket
    BY <1>1
  <1>. QED
    BY <1>1, <1>2

LEMMA SameClaims ==
    ASSUME SInductive, PeersAreNumbered', UNCHANGED <<socket, claims>>
    PROVE  SInductive'
  BY DEF SInductive, FirstKeepsItsSocket, S!FirstKeepsItsSocket, S!Quiet, S!Serving

\* A process moves on.
LEMMA PeerMoves ==
    ASSUME PeersAreNumbered, NEW h \in Peers, NEW new \in Processes, running' = [running EXCEPT ![h] = new],
           loads' \in 0..MaxLoads,
           new.phase # "down" => new.pid \in 1..MaxLoads /\ new.instance \in 1..MaxLoads
    PROVE  PeersAreNumbered'
  BY DEF PeersAreNumbered

LEMMA PeerPhase ==
    ASSUME PeersAreNumbered, NEW h \in Peers, running[h].phase # "down", NEW phase \in {"booting", "failed", "ok"},
           running' = [running EXCEPT ![h].phase = phase], UNCHANGED loads
    PROVE  PeersAreNumbered'
  <1>. DEFINE new == [running[h] EXCEPT !.phase = phase]
  <1>1. running[h] \in Processes /\ running[h].pid \in 1..MaxLoads /\ running[h].instance \in 1..MaxLoads
    BY DEF PeersAreNumbered
  <1>2. new \in Processes /\ new.phase = phase /\ new.pid = running[h].pid /\ new.instance = running[h].instance
    BY <1>1 DEF Processes
  <1>3. running' = [running EXCEPT ![h] = new] /\ loads' \in 0..MaxLoads
    BY DEF PeersAreNumbered
  <1>. HIDE DEF new
  <1>. QED
    BY <1>1, <1>2, <1>3, PeerMoves

LEMMA PeerEnters ==
    ASSUME PeersAreNumbered, NEW h \in Peers, NEW pid \in 1..MaxLoads, S!Enters(h, pid)
    PROVE  PeersAreNumbered'
  <1>. DEFINE new == [pid |-> pid, instance |-> loads + 1, phase |-> "entered", url |-> 0]
  <1>1. loads + 1 \in 1..MaxLoads /\ loads' = loads + 1
    BY MachineAssumption DEF S!Enters, PeersAreNumbered
  <1>2. new \in Processes /\ new.pid = pid /\ new.instance = loads + 1
    BY <1>1 DEF Processes
  <1>3. running' = [running EXCEPT ![h] = new] /\ loads' \in 0..MaxLoads
    BY <1>1 DEF S!Enters
  <1>. HIDE DEF new
  <1>. QED
    BY <1>1, <1>2, <1>3, PeerMoves

LEMMA PeerGoesDown ==
    ASSUME PeersAreNumbered, NEW h \in Peers, running' = [running EXCEPT ![h] = S!Down], UNCHANGED loads
    PROVE  PeersAreNumbered'
  <1>1. S!Down \in Processes /\ S!Down.phase = "down"
    BY MachineAssumption DEF S!Down, Processes
  <1>2. loads' \in 0..MaxLoads
    BY DEF PeersAreNumbered
  <1>. QED
    BY <1>1, <1>2, PeerMoves

LEMMA StoppedKeepsFirst ==
    ASSUME SInductive, NEW h \in Peers, S!Stopped(h), PeersAreNumbered'
    PROVE  SInductive'
  <1>1. /\ claims' \subseteq claims
        /\ socket' = socket \/ \E c \in claims \ claims' : c.step = "serving"
    BY DEF S!Stopped
  <1>2. FirstKeepsItsSocket'
    BY <1>1, FewerClaims DEF SInductive
  <1>. QED
    BY <1>1, <1>2 DEF SInductive

\* Who asks while the first listens finds its file, and it answers.
LEMMA AskingKeepsFirst == ASSUME SInductive, NEW h \in Peers, S!ServeLocalAgents(h) PROVE SInductive'
  <1>. DEFINE new == S!Claim(h, S!Probe(h))
  <1>1. /\ running[h].instance \in 1..MaxLoads /\ claims' = claims \cup {new}
        /\ socket' = IF S!Probe(h) = "bound" THEN running[h].instance ELSE socket
        /\ UNCHANGED <<running, loads>>
    BY DEF S!ServeLocalAgents, SInductive, PeersAreNumbered
  <1>2. /\ new.instance = running[h].instance /\ new.step = S!Probe(h)
        /\ new.first => S!Probe(h) = "bound" /\ \A d \in claims : d.step = "declined"
    BY DEF S!Claim, S!Quiet
  <1>. HIDE DEF new
  <1>3. ASSUME NEW c \in claims, S!Serving(c), c.first
        PROVE  /\ S!Probe(h) = "declined" /\ socket = c.instance
               /\ \A d \in claims \ {c} : d.step = "declined"
    <2>1. socket = c.instance /\ \A d \in claims \ {c} : d.step = "declined"
      BY <1>3 DEF SInductive, FirstKeepsItsSocket, S!FirstKeepsItsSocket, S!Quiet
    <2>2. socket # None
      BY <2>1, MachineAssumption DEF SInductive, M!Instances
    <2>. QED
      BY <1>3, <2>1, <2>2 DEF S!Probe
  <1>4. FirstKeepsItsSocket'
    <2>. SUFFICES ASSUME NEW c \in claims', S!Serving(c), c.first
                  PROVE  socket' = c.instance /\ \A d \in claims' \ {c} : d.step = "declined"
      BY DEF FirstKeepsItsSocket, S!FirstKeepsItsSocket, S!Quiet, S!Serving
    <2>1. CASE c = new
      BY <1>1, <1>2, <2>1
    <2>2. CASE c \in claims
      BY <1>1, <1>2, <1>3, <2>2
    <2>. QED
      BY <1>1, <2>1, <2>2
  <1>5. PeersAreNumbered'
    BY <1>1 DEF SInductive, PeersAreNumbered
  <1>. QED
    BY <1>1, <1>2, <1>4, <1>5 DEF SInductive

\* A claim that was not declined goes on only where nobody is first.
LEMMA GoingOnKeepsFirst ==
    ASSUME SInductive, NEW c \in claims, S!Takes(c) \/ S!Listens(c)
    PROVE  SInductive'
  <1>1. /\ UNCHANGED <<running, loads>> /\ c.instance \in 1..MaxLoads
        /\ c.step \in {"probed", "bound"}
    BY DEF S!Takes, S!Listens, SInductive
  <1>2. PeersAreNumbered'
    BY <1>1 DEF SInductive, PeersAreNumbered
  <1>3. ASSUME S!Takes(c) PROVE SInductive'
    <2>. DEFINE new == [c EXCEPT !.step = "bound", !.first = S!Quiet(claims \ {c})]
    <2>1. claims' = (claims \ {c}) \cup {new} /\ socket' = c.instance /\ c.step = "probed"
      BY <1>3 DEF S!Takes
    <2>2. new.instance = c.instance /\ new.step = "bound" /\ (new.first => \A d \in claims \ {c} : d.step = "declined")
      BY DEF S!Quiet
    <2>. HIDE DEF new
    <2>3. \A d \in claims \ {c} : ~(S!Serving(d) /\ d.first)
      BY <2>1 DEF SInductive, FirstKeepsItsSocket, S!FirstKeepsItsSocket, S!Quiet
    <2>4. FirstKeepsItsSocket'
      BY <2>1, <2>2, <2>3 DEF FirstKeepsItsSocket, S!FirstKeepsItsSocket, S!Quiet, S!Serving
    <2>. QED
      BY <1>1, <1>2, <2>1, <2>2, <2>4 DEF SInductive
  <1>4. ASSUME S!Listens(c) PROVE SInductive'
    <2>. DEFINE new == [c EXCEPT !.step = "serving"]
    <2>1. claims' = (claims \ {c}) \cup {new} /\ socket' = socket /\ c.step = "bound"
      BY <1>4 DEF S!Listens
    <2>2. new.instance = c.instance /\ new.step = "serving" /\ new.first = c.first
      OBVIOUS
    <2>. HIDE DEF new
    <2>3. \A d \in claims \ {c} : ~(S!Serving(d) /\ d.first)
      BY <2>1 DEF SInductive, FirstKeepsItsSocket, S!FirstKeepsItsSocket, S!Quiet
    <2>4. c.first => socket = c.instance /\ \A d \in claims \ {c} : d.step = "declined"
      BY <2>1 DEF SInductive, FirstKeepsItsSocket, S!FirstKeepsItsSocket, S!Quiet, S!Serving
    <2>5. FirstKeepsItsSocket'
      BY <2>1, <2>2, <2>3, <2>4 DEF FirstKeepsItsSocket, S!FirstKeepsItsSocket, S!Quiet, S!Serving
    <2>. QED
      BY <1>1, <1>2, <2>1, <2>2, <2>5 DEF SInductive
  <1>. QED
    BY <1>3, <1>4

\* A process that goes on touches no claim.
LEMMA ProcessesKeepFirst ==
    ASSUME SInductive, NEW h \in Peers,
           S!Start(h) \/ S!Boots(h) \/ S!Loaded(h) \/ S!LoadFails(h) \/ S!Child(h) \/ S!TunnelMoves(h)
    PROVE  SInductive'
  <1>1. UNCHANGED <<socket, claims>>
    BY DEF S!Start, S!Boots, S!Loaded, S!LoadFails, S!Child, S!TunnelMoves
  <1>2. PeersAreNumbered
    BY DEF SInductive
  <1>3. CASE S!Start(h)
    <2>1. S!Enters(h, loads + 1) /\ loads + 1 \in 1..MaxLoads
      BY <1>2, <1>3, MachineAssumption DEF S!Start, S!Enters, PeersAreNumbered
    <2>. QED
      BY <1>1, <1>2, <2>1, PeerEnters, SameClaims
  <1>4. CASE S!Boots(h) \/ S!Loaded(h) \/ S!LoadFails(h)
    <2>1. PICK phase \in {"booting", "failed", "ok"} : running' = [running EXCEPT ![h].phase = phase]
      BY <1>4 DEF S!Boots, S!Loaded, S!LoadFails
    <2>2. running[h].phase # "down" /\ UNCHANGED loads
      BY <1>4 DEF S!Boots, S!Loaded, S!LoadFails
    <2>. QED
      BY <1>1, <1>2, <2>1, <2>2, PeerPhase, SameClaims
  <1>5. CASE S!TunnelMoves(h)
    <2>. DEFINE new == [running[h] EXCEPT !.url = running[h].url + 1]
    <2>1. running[h] \in Processes /\ running[h].phase # "down" /\ running[h].url \in 0..1
      BY <1>2, <1>5 DEF S!TunnelMoves, PeersAreNumbered, Processes
    <2>2. new \in Processes /\ new.pid = running[h].pid /\ new.instance = running[h].instance
      BY <2>1 DEF Processes
    <2>3. running' = [running EXCEPT ![h] = new] /\ loads' \in 0..MaxLoads
      BY <1>2, <1>5 DEF S!TunnelMoves, PeersAreNumbered
    <2>. HIDE DEF new
    <2>4. new.pid \in 1..MaxLoads /\ new.instance \in 1..MaxLoads
      BY <1>2, <2>1, <2>2 DEF PeersAreNumbered
    <2>. QED
      BY <1>1, <1>2, <2>2, <2>3, <2>4, PeerMoves, SameClaims
  <1>6. CASE S!Child(h)
    BY <1>1, <1>2, <1>6, SameClaims DEF S!Child, PeersAreNumbered
  <1>. QED
    BY <1>3, <1>4, <1>5, <1>6

LEMMA EndsKeepFirst ==
    ASSUME SInductive, NEW h \in Peers, S!Reload(h) \/ S!End(h) \/ S!Kill(h)
    PROVE  SInductive'
  <1>1. PeersAreNumbered
    BY DEF SInductive
  <1>2. CASE S!Reload(h)
    <2>1. S!Stopped(h) /\ S!Enters(h, running[h].pid) /\ running[h].pid \in 1..MaxLoads
      BY <1>1, <1>2 DEF S!Reload, PeersAreNumbered
    <2>. QED
      BY <1>1, <2>1, PeerEnters, StoppedKeepsFirst
  <1>3. CASE S!End(h)
    BY <1>1, <1>3, PeerGoesDown, StoppedKeepsFirst DEF S!End
  <1>4. CASE S!Kill(h)
    <2>1. claims' \subseteq claims /\ socket' = socket /\ PeersAreNumbered'
      BY <1>1, <1>4, PeerGoesDown DEF S!Kill
    <2>2. FirstKeepsItsSocket'
      BY <2>1, FewerClaims DEF SInductive
    <2>. QED
      BY <2>1, <2>2 DEF SInductive
  <1>. QED
    BY <1>2, <1>3, <1>4

LEMMA SNext == SInductive /\ [S!Next]_(S!vars) => SInductive'
  <1>. SUFFICES ASSUME SInductive, [S!Next]_(S!vars) PROVE SInductive'
    OBVIOUS
  <1>1. CASE UNCHANGED S!vars
    BY <1>1, SameClaims DEF S!vars, SInductive, PeersAreNumbered
  <1>2. CASE \E h \in Peers : \/ S!Start(h) \/ S!Reload(h) \/ S!End(h) \/ S!Kill(h) \/ S!Boots(h) \/ S!Loaded(h)
                              \/ S!LoadFails(h)
    BY <1>2, ProcessesKeepFirst, EndsKeepFirst
  <1>3. CASE \E h \in Peers : S!Child(h) \/ S!TunnelMoves(h) \/ S!ServeLocalAgents(h)
    BY <1>3, ProcessesKeepFirst, AskingKeepsFirst
  <1>4. CASE \E c \in claims : S!Takes(c) \/ S!Listens(c)
    BY <1>4, GoingOnKeepsFirst
  <1>5. CASE \/ \E h \in Peers, i \in Ids, row \in {"live", "closed"} : S!Upsert(h, i, row)
             \/ \E h \in Peers, i \in Ids : S!Removes(h, i)
             \/ \E h \in Peers : S!Secures(h) \/ S!Saves(h) \/ S!Unlinks(h)
    <2>1. UNCHANGED <<running, loads, socket, claims>>
      BY <1>5 DEF S!Upsert, S!Removes, S!Secures, S!Saves, S!Unlinks
    <2>. QED
      BY <2>1, SameClaims DEF SInductive, PeersAreNumbered
  <1>. QED
    BY <1>1, <1>2, <1>3, <1>4, <1>5 DEF S!Next

\* However many hosts start, ask, reload, end or are killed, and whatever file was left behind: who
\* bound the agents' socket while nobody else asked for it or listened has it as long as it listens
\* (claimSocketPath, local-agents.ts).
THEOREM TheFirstIsKept == S!Spec => []FirstKeepsItsSocket
  <1>1. S!Init => SInductive
    <2>. SUFFICES ASSUME S!Init PROVE SInductive
      OBVIOUS
    <2>1. S!Down \in Processes /\ S!Down.phase = "down"
      BY MachineAssumption DEF S!Down, Processes
    <2>. QED
      BY <2>1, MachineAssumption DEF S!Init, SInductive, PeersAreNumbered, FirstKeepsItsSocket, S!FirstKeepsItsSocket
  <1>2. SInductive => FirstKeepsItsSocket
    BY DEF SInductive
  <1>. QED
    BY <1>1, <1>2, SNext, PTL DEF S!Spec
=============================================================================
