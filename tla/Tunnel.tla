------------------------------- MODULE Tunnel -------------------------------
(***************************************************************************)
(* The public name of the control port: the providers' processes and their *)
(* proof (server/src/tunnel.ts) and the server's one tunnel                *)
(* (startTunnel, restartTunnel and stop of server/src/wsserver.ts).        *)
(*                                                                         *)
(* A start takes from seconds to six minutes.  Its steps run between those *)
(* of other starts and of a teardown; what a promise settles runs in the   *)
(* same step, since no timer or event comes between microtasks.            *)
(* The preferred provider is always one of PROVIDERS, so a start tries one *)
(* (config.ts has a default); the parsing of their output is left out.     *)
(***************************************************************************)
EXTENDS Naturals, FiniteSets

CONSTANTS
    MaxStarts,      \* bound: tunnels started in one behaviour
    Providers       \* the providers that are installed, or "off"

ASSUME StartBound == MaxStarts \in Nat \ {0}
ASSUME ProvidersKnown == Providers \subseteq {"cloudflared", "ngrok", "tailscale", "off"}

Starts == 1 .. MaxStarts
None   == 0
\* The name a start's process was given first, and the one it moved to.
First(i) == i
Moved(i) == MaxStarts + i
Names    == 0 .. 2 * MaxStarts

VARIABLES
    start,      \* each call of startTunnel, and the process it spawned
    tracked,    \* wsserver: tunnelAttempts
    tunnel,     \* wsserver: the start whose result is this.tunnel
    tunnelUrl,  \* wsserver: the name shown and published
    stopped     \* wsserver: stop() has run

tunnelVars == <<start, tracked, tunnel, tunnelUrl, stopped>>

Attempt == [by : {"nobody", "first", "heartbeat", "user"},
            provider : Providers \cup {"none"},
            stage : {"none", "trying", "proving", "done"},
            alive : BOOLEAN,        \* its process, or tailscale's funnel
            abandoned : BOOLEAN,    \* SpawnedAttempt.cancelled()
            url : Names]            \* the handle's url

NoAttempt == [by |-> "nobody", provider |-> "none", stage |-> "none",
              alive |-> FALSE, abandoned |-> FALSE, url |-> None]

TunnelTypeOK ==
    /\ start \in [Starts -> Attempt]
    /\ tracked \in SUBSET Starts
    /\ tunnel \in Starts \cup {None}
    /\ tunnelUrl \in Names
    /\ stopped \in BOOLEAN

TunnelInit ==
    /\ start = [i \in Starts |-> NoAttempt]
    /\ tracked = {}
    /\ tunnel = None
    /\ tunnelUrl = None
    /\ stopped = FALSE

Unused  == {i \in Starts : start[i].stage = "none"}
Next1   == CHOOSE i \in Unused : TRUE
Pending == {i \in Starts : start[i].stage \in {"trying", "proving"}}

(***************************************************************************)
(* What a settled start leaves behind.                                     *)
(***************************************************************************)
\* Kill is idempotent.  The exit event it causes is GivesUp.
Kill(s, K) == [i \in Starts |-> IF i \in K THEN [s[i] EXCEPT !.alive = FALSE] ELSE s[i]]

\* Mutant of Adopt: a result is taken without a look at whether the server is there.
AdoptsAfterStop(i, s, name) ==
    /\ start' = [s EXCEPT ![i].stage = "done"]
    /\ tunnel' = IF name = None THEN None ELSE i
    /\ tunnelUrl' = name
    /\ tracked' = {}

\* The result of start i reaches the server: a tunnel with a name, or nothing.
\* Whatever this.tunnel was is overwritten, and the attempts of every start
\* are forgotten; a stopped server takes nothing and kills what it was given.
Adopt(i, s, name) ==
    LET done == [s EXCEPT ![i].stage = "done"]
    IN  IF stopped
          THEN /\ start' = Kill(done, {i})
               /\ tunnel' = None
               /\ UNCHANGED <<tunnelUrl, tracked>>
          ELSE /\ start' = done
               /\ tunnel' = IF name = None THEN None ELSE i
               /\ tunnelUrl' = name
               /\ tracked' = {}

\* A provider that fails kills what it spawned.
Failed(i) == Adopt(i, Kill(start, {i}), None)

\* A provider that succeeds after its owner left is stopped, not adopted.
Succeeded(i) ==
    IF start[i].abandoned THEN Failed(i) ELSE Adopt(i, start, start[i].url)

(***************************************************************************)
(* A start, from restartTunnel (which first stops the tunnel there is) or  *)
(* from the bootstrap (which does not look).                               *)
(***************************************************************************)
Spawned(by, p) ==
    [NoAttempt EXCEPT !.by = by, !.provider = p, !.stage = "trying", !.alive = TRUE]

\* Until it settles, a restart leaves no tunnel and the first start what is there.
NoneYet(by) ==
    /\ tunnel' = IF by = "first" THEN tunnel ELSE None
    /\ tunnelUrl' = IF by = "first" THEN tunnelUrl ELSE None

\* Nothing is started: the provider is off, or its program is missing or fails.
StartsNothing(i, s, p) ==
    /\ start' = [s EXCEPT ![i] = [NoAttempt EXCEPT !.by = s[i].by, !.provider = p, !.stage = "done"]]
    /\ tunnel' = None
    /\ tunnelUrl' = None
    /\ tracked' = IF stopped THEN tracked ELSE {}

\* cloudflared reports its process at once, and a stopped server kills it.
StartsCloudflared(i, s) ==
    /\ start' = IF stopped
                  THEN Kill([s EXCEPT ![i].abandoned = TRUE], {i})
                  ELSE s
    /\ tracked' = IF stopped THEN tracked ELSE tracked \cup {i}
    /\ NoneYet(s[i].by)

\* ngrok does not report its process: nobody can end it before it settles.
StartsNgrok(i, s) ==
    /\ start' = s
    /\ NoneYet(s[i].by)
    /\ UNCHANGED tracked

\* tailscale's funnel is set by a synchronous call and has its name at once.
StartsTailscale(i, s) ==
    LET named == [s EXCEPT ![i].url = First(i), ![i].stage = "done"]
    IN  IF stopped
          THEN /\ start' = Kill(named, {i})
               /\ tunnel' = None
               /\ tunnelUrl' = None
               /\ UNCHANGED tracked
          ELSE /\ start' = named
               /\ tunnel' = i
               /\ tunnelUrl' = First(i)
               /\ tracked' = {}

StartTunnel(by, p) ==
    LET i == Next1
        s == [IF by = "first" THEN start ELSE Kill(start, {tunnel})
              EXCEPT ![i] = Spawned(by, p)]
    IN  /\ Unused # {}
        /\ UNCHANGED stopped
        /\ \/ StartsNothing(i, s, p)
           \/ p = "cloudflared" /\ StartsCloudflared(i, s)
           \/ p = "ngrok" /\ StartsNgrok(i, s)
           \/ p = "tailscale" /\ StartsTailscale(i, s)

(***************************************************************************)
(* The steps of a start that is under way.  Each ends with Settled(i) when *)
(* the call returns to who made it.                                        *)
(***************************************************************************)
\* The first name in the output.  cloudflared's must answer first.
Banner(i) ==
    /\ start[i].stage = "trying" /\ start[i].alive
    /\ start[i].provider = "cloudflared"
    /\ start' = [start EXCEPT ![i].stage = "proving", ![i].url = First(i)]
    /\ UNCHANGED <<tracked, tunnel, tunnelUrl, stopped>>

NgrokAccepts(i) ==
    /\ start[i].stage = "trying" /\ start[i].alive
    /\ start[i].provider = "ngrok"
    /\ Adopt(i, [start EXCEPT ![i].url = First(i)], First(i))
    /\ UNCHANGED stopped

\* A request through the public path was answered; the answer may have been
\* under way when the process was killed.
Proved(i) ==
    /\ start[i].stage = "proving"
    /\ Succeeded(i)
    /\ UNCHANGED stopped

\* The process ended, by itself or because it was killed, its name never
\* answered, or there was no name in time.
GivesUp(i) ==
    /\ i \in Pending
    /\ Failed(i)
    /\ UNCHANGED stopped

\* The process of a settled start ends by itself.  The handle's onDead is
\* called, and nobody set it: startTunnel returns a new object with the
\* handle's url and stop, and the server sets its hooks on that object.
Dies(i) ==
    /\ start[i].stage = "done" /\ start[i].alive
    /\ start[i].provider # "tailscale"
    /\ start' = Kill(start, {i})
    /\ UNCHANGED <<tracked, tunnel, tunnelUrl, stopped>>

\* A quick tunnel registers again under another name.  The handle moves with
\* it; the server, as above, is not told.
Renamed(i) ==
    /\ start[i].alive /\ start[i].provider = "cloudflared"
    /\ start[i].url = First(i)
    /\ start' = [start EXCEPT ![i].url = Moved(i)]
    /\ UNCHANGED <<tracked, tunnel, tunnelUrl, stopped>>

\* stop(): the attempts it knows and the tunnel end with the server.
StopServer ==
    /\ ~stopped
    /\ stopped' = TRUE
    /\ start' = [i \in Starts |->
                   IF i \in tracked
                     THEN [start[i] EXCEPT !.alive = FALSE, !.abandoned = TRUE]
                     ELSE Kill(start, {tunnel})[i]]
    /\ tracked' = {}
    /\ tunnel' = None
    /\ tunnelUrl' = None
=============================================================================
