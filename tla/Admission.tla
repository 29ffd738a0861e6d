----------------------------- MODULE Admission -----------------------------
(***************************************************************************)
(* Who may talk to the control server, and for how long                    *)
(* (server/src/wsserver.ts, local-agents.ts): one chain of frames per      *)
(* socket, the owner's token verified by a service while the socket may    *)
(* close, time out or see the server stop, the expiry of the token, the    *)
(* sweep that pings, and a new sign-in that sends every client away        *)
(* (owner-runtime.ts).                                                     *)
(*                                                                         *)
(* Frames are what the handler tells apart.  How outbound frames are       *)
(* scheduled is OutboundBox; here a ping may reach the client or be held.  *)
(***************************************************************************)
EXTENDS Integers, Sequences, FiniteSets

CONSTANTS
    Sockets,            \* connections, each used once
    Local,              \* those made to the Unix socket of this machine
    MaxFrames,          \* MAX_QUEUED_FRAMES
    MaxUnauthenticated, \* MAX_UNAUTHENTICATED_SOCKETS
    MaxInFlight,        \* MAX_CONCURRENT_VERIFICATIONS
    MaxPerWindow,       \* MAX_VERIFICATIONS_PER_WINDOW
    MaxLogins,          \* bound: new sign-ins
    Sends               \* bound: the frames each peer sends, a set per socket

ASSUME LocalSockets == Local \subseteq Sockets
ASSUME Caps == {MaxFrames, MaxUnauthenticated, MaxInFlight, MaxPerWindow, MaxLogins} \subseteq Nat

\* "command" stands for every frame that needs an authenticated peer and
\* changes nothing here: commands, polls, pings and pongs.
Frames == {"auth", "auth_local", "subscribe", "command", "unreadable"}
ASSUME SentFrames == Sends \in [Sockets -> SUBSET Frames]

Reasons == {"none", "server busy", "authentication timeout", "too many frames",
            "protocol", "already attempted", "subscribe before authentication",
            "authentication busy", "rate limit", "auth failed", "keepalive",
            "expired", "reauthentication", "stopped", "left"}

VARIABLES
    socket,     \* each socket: the connection and the fields of AuthedSocket
    unauthenticated, clients,       \* the server's two sets of sockets
    inFlight,   \* verificationsInFlight
    attempts,   \* verificationAttempts: how many the window holds
    serverStopped,
    logins

serverVars == <<socket, unauthenticated, clients, inFlight, attempts, serverStopped, logins>>

Socket == [state : {"none", "open", "closed"},
           gone : BOOLEAN,              \* the peer is gone, the socket says open
           accepting : BOOLEAN, authed : BOOLEAN,
           attempted : BOOLEAN, awaitingPong : BOOLEAN,
           chain : Seq(Frames),         \* frames not handled, the first perhaps under way
           verifying : BOOLEAN,         \* the first is an auth frame whose token is being verified
           expires : {"never", "later", "past"},  \* the token it was admitted with
           timer : BOOLEAN,             \* the timer of that token
           heard : BOOLEAN,             \* a frame was handled since the last sweep
           reason : Reasons]

NewSocket == [state |-> "none", gone |-> FALSE, accepting |-> FALSE, authed |-> FALSE,
              attempted |-> FALSE, awaitingPong |-> FALSE, chain |-> <<>>,
              verifying |-> FALSE, expires |-> "never", timer |-> FALSE,
              heard |-> FALSE, reason |-> "none"]

ServerTypeOK ==
    /\ socket \in [Sockets -> Socket]
    /\ unauthenticated \in SUBSET Sockets /\ clients \in SUBSET Sockets
    /\ inFlight \in 0 .. MaxInFlight
    /\ attempts \in 0 .. MaxPerWindow
    /\ serverStopped \in BOOLEAN /\ logins \in 0 .. MaxLogins

ServerInit ==
    /\ socket = [s \in Sockets |-> NewSocket]
    /\ unauthenticated = {} /\ clients = {}
    /\ inFlight = 0 /\ attempts = 0
    /\ serverStopped = FALSE /\ logins = 0

Open(s) == socket[s].state = "open"

(***************************************************************************)
(* The end of a socket.                                                    *)
(***************************************************************************)
\* forgetSocket, from any path: every flag and both timers.  Only a verification
\* goes on, and the frame it is for stays at the head of the chain.
Closed(r, reason) ==
    [NewSocket EXCEPT !.state = "closed", !.reason = reason,
                      !.verifying = r.verifying,
                      !.chain = IF r.verifying THEN <<Head(r.chain)>> ELSE <<>>]

CloseAll(S, reason) ==
    /\ socket' = [s \in Sockets |-> IF s \in S THEN Closed(socket[s], reason) ELSE socket[s]]
    /\ unauthenticated' = unauthenticated \ S
    /\ clients' = clients \ S

CloseSocket(s, r, reason) ==
    /\ socket' = [socket EXCEPT ![s] = Closed(r, reason)]
    /\ unauthenticated' = unauthenticated \ {s}
    /\ clients' = clients \ {s}

\* The client goes, with a close or without one.
PeerCloses(s) ==
    /\ Open(s)
    /\ CloseSocket(s, socket[s], "left")
    /\ UNCHANGED <<inFlight, attempts, serverStopped, logins>>

PeerVanishes(s) ==
    /\ Open(s) /\ ~socket[s].gone
    /\ socket' = [socket EXCEPT ![s].gone = TRUE]
    /\ UNCHANGED <<unauthenticated, clients, inFlight, attempts, serverStopped, logins>>

(***************************************************************************)
(* Connection and frames.                                                  *)
(***************************************************************************)
Connect(s) ==
    LET r == [NewSocket EXCEPT !.state = "open", !.accepting = TRUE]
    IN  /\ socket[s].state = "none" /\ ~serverStopped
        /\ IF Cardinality(unauthenticated) >= MaxUnauthenticated
             THEN CloseSocket(s, r, "server busy")
             ELSE /\ socket' = [socket EXCEPT ![s] = r]
                  /\ unauthenticated' = unauthenticated \cup {s}
                  /\ UNCHANGED clients
        /\ UNCHANGED <<inFlight, attempts, serverStopped, logins>>

\* Ten seconds without an admission, also while a token is being verified.
AuthDeadline(s) ==
    /\ s \in unauthenticated
    /\ CloseSocket(s, socket[s], "authentication timeout")
    /\ UNCHANGED <<inFlight, attempts, serverStopped, logins>>

\* A frame arrives, and waits for those before it.
EnqueueFrame(s, f) ==
    /\ Open(s) /\ ~socket[s].gone /\ socket[s].accepting
    /\ IF Len(socket[s].chain) >= MaxFrames
         THEN CloseSocket(s, socket[s], "too many frames")
         ELSE /\ socket' = [socket EXCEPT ![s].chain = Append(@, f)]
              /\ UNCHANGED <<unauthenticated, clients>>
    /\ UNCHANGED <<inFlight, attempts, serverStopped, logins>>

(***************************************************************************)
(* Admission.                                                              *)
(***************************************************************************)
\* The client is in, and starts with the state and everyone's frames.
Admit(s, r, expires) ==
    /\ socket' = [socket EXCEPT ![s] = [r EXCEPT !.authed = TRUE, !.expires = expires,
                                               !.timer = expires # "never"]]
    /\ unauthenticated' = unauthenticated \ {s}
    /\ clients' = clients \cup {s}

\* Attempts older than the window leave it.
WindowPasses ==
    /\ attempts > 0
    /\ attempts' = 0
    /\ UNCHANGED <<socket, unauthenticated, clients, inFlight, serverStopped, logins>>

\* A token goes to the service if there is a slot and the window has room.
Authenticate(s, r) ==
    \/ /\ inFlight >= MaxInFlight
       /\ CloseSocket(s, r, "authentication busy")
       /\ UNCHANGED <<inFlight, attempts>>
    \/ /\ inFlight < MaxInFlight /\ attempts >= MaxPerWindow
       /\ CloseSocket(s, r, "rate limit")
       /\ UNCHANGED <<inFlight, attempts>>
    \/ /\ inFlight < MaxInFlight /\ attempts < MaxPerWindow
       /\ inFlight' = inFlight + 1 /\ attempts' = attempts + 1
       /\ socket' = [socket EXCEPT ![s] = [r EXCEPT !.verifying = TRUE, !.chain = socket[s].chain]]
       /\ UNCHANGED <<unauthenticated, clients>>

Dropped(s) == [socket[s] EXCEPT !.chain = Tail(@)]

\* Mutant of Verdict: the socket is not looked at again after the wait.
VerdictUnchecked(s, ok) ==
    LET r == [Dropped(s) EXCEPT !.verifying = FALSE]
    IN  /\ socket[s].verifying
        /\ inFlight' = inFlight - 1
        /\ IF ok THEN Admit(s, r, "later") ELSE CloseSocket(s, r, "auth failed")
        /\ UNCHANGED <<attempts, serverStopped, logins>>

\* The answer of the service.  The socket may be gone by now, and then the
\* answer is for nobody; it may also have been refused a token that expired.
Verdict(s, ok) ==
    LET r == [Dropped(s) EXCEPT !.verifying = FALSE]
    IN  /\ socket[s].verifying
        /\ inFlight' = inFlight - 1
        /\ \/ /\ serverStopped \/ ~socket[s].accepting
              /\ socket' = [socket EXCEPT ![s] = r]
              /\ UNCHANGED <<unauthenticated, clients>>
           \/ /\ ~serverStopped /\ socket[s].accepting
              /\ IF ok THEN Admit(s, r, "later") ELSE CloseSocket(s, r, "auth failed")
        /\ UNCHANGED <<attempts, serverStopped, logins>>

(***************************************************************************)
(* The first frame of a chain is handled, whole, unless it waits for a     *)
(* verdict.  Any frame but an authentication proves an authenticated peer. *)
(***************************************************************************)
Handled(s) ==
    [Dropped(s) EXCEPT !.awaitingPong = IF socket[s].authed THEN FALSE ELSE @,
                       !.heard = socket[s].authed]

AuthFrame(s, f) ==
    LET r == [Dropped(s) EXCEPT !.attempted = TRUE]
    IN  \/ /\ socket[s].attempted
           /\ CloseSocket(s, Dropped(s), "already attempted")
           /\ UNCHANGED <<inFlight, attempts>>
        \/ /\ ~socket[s].attempted /\ f = "auth_local"
           /\ UNCHANGED <<inFlight, attempts>>
           /\ \/ s \in Local /\ Admit(s, r, "never")
              \/ CloseSocket(s, r, "auth failed")       \* also a wrong local token
        \/ ~socket[s].attempted /\ f = "auth" /\ Authenticate(s, r)

OtherFrame(s, f) ==
    /\ UNCHANGED <<inFlight, attempts>>
    /\ \/ /\ f = "unreadable"
          /\ CloseSocket(s, Dropped(s), "protocol")
       \/ /\ f = "subscribe" /\ ~socket[s].authed
          /\ CloseSocket(s, Dropped(s), "subscribe before authentication")
       \/ /\ f = "command" \/ (f = "subscribe" /\ socket[s].authed)
          /\ socket' = [socket EXCEPT ![s] = Handled(s)]
          /\ UNCHANGED <<unauthenticated, clients>>

\* Mutant of HandleMessage: frames are handled while a token is being verified.
HandleAtOnce(s) ==
    /\ Len(socket[s].chain) > (IF socket[s].verifying THEN 1 ELSE 0)
    /\ socket[s].accepting /\ ~serverStopped
    /\ LET f == IF socket[s].verifying THEN socket[s].chain[2] ELSE socket[s].chain[1]
       IN  IF f \in {"auth", "auth_local"} THEN AuthFrame(s, f) ELSE OtherFrame(s, f)
    /\ UNCHANGED <<serverStopped, logins>>

HandleMessage(s) ==
    /\ socket[s].chain # <<>> /\ ~socket[s].verifying
    /\ socket[s].accepting /\ ~serverStopped
    /\ LET f == Head(socket[s].chain)
       IN  IF f \in {"auth", "auth_local"} THEN AuthFrame(s, f) ELSE OtherFrame(s, f)
    /\ UNCHANGED <<serverStopped, logins>>

(***************************************************************************)
(* What ends an authenticated connection.                                  *)
(***************************************************************************)
TokenExpires(s) ==
    /\ socket[s].authed /\ socket[s].expires = "later"
    /\ socket' = [socket EXCEPT ![s].expires = "past"]
    /\ UNCHANGED <<unauthenticated, clients, inFlight, attempts, serverStopped, logins>>

ExpiryTimer(s) ==
    /\ socket[s].timer /\ socket[s].expires = "past"
    /\ CloseSocket(s, socket[s], "expired")
    /\ UNCHANGED <<inFlight, attempts, serverStopped, logins>>

\* Mutant of PingClients: the ping is sent and its answer not awaited.
PingOnly ==
    /\ ~serverStopped /\ clients # {}
    /\ socket' = [s \in Sockets |-> IF s \in clients THEN [socket[s] EXCEPT !.heard = FALSE] ELSE socket[s]]
    /\ UNCHANGED <<clients, unauthenticated, inFlight, attempts, serverStopped, logins>>

\* Every 25 seconds: who has not answered since the last sweep is closed.
PingClients ==
    LET silent == {s \in clients : socket[s].awaitingPong}
    IN  /\ ~serverStopped /\ clients # {}
        /\ socket' = [s \in Sockets |->
                      IF s \in silent THEN Closed(socket[s], "keepalive")
                      ELSE IF s \in clients
                        THEN [socket[s] EXCEPT !.awaitingPong = TRUE, !.heard = FALSE]
                        ELSE socket[s]]
        /\ clients' = clients \ silent
        /\ UNCHANGED <<unauthenticated, inFlight, attempts, serverStopped, logins>>

\* reauthenticateRemoteOwner: every client has to present a new token.
CloseAuthenticatedClients ==
    /\ ~serverStopped /\ logins < MaxLogins /\ logins' = logins + 1
    /\ CloseAll(clients, "reauthentication")
    /\ UNCHANGED <<inFlight, attempts, serverStopped>>

Stop ==
    /\ ~serverStopped
    /\ serverStopped' = TRUE
    /\ CloseAll({s \in Sockets : Open(s)}, "stopped")
    /\ UNCHANGED <<inFlight, attempts, logins>>

ServerNext ==
    \/ \E s \in Sockets :
         \/ Connect(s) \/ AuthDeadline(s) \/ HandleMessage(s)
         \/ PeerCloses(s) \/ PeerVanishes(s)
         \/ TokenExpires(s) \/ ExpiryTimer(s)
         \/ \E f \in Sends[s] : EnqueueFrame(s, f)
         \/ \E ok \in BOOLEAN : Verdict(s, ok)
    \/ WindowPasses \/ PingClients \/ CloseAuthenticatedClients \/ Stop

ServerSpec == ServerInit /\ [][ServerNext]_serverVars

\* The server's timers fire, and a verification ends (fetch has a timeout).
ServerFairness ==
    /\ WF_serverVars(PingClients)
    /\ \A s \in Sockets :
         /\ WF_serverVars(AuthDeadline(s)) /\ WF_serverVars(ExpiryTimer(s))
         /\ WF_serverVars(\E ok \in BOOLEAN : Verdict(s, ok))

FairServer == ServerSpec /\ ServerFairness

(***************************************************************************)
(* Properties.                                                             *)
(***************************************************************************)
\* The server's sets and counter agree with the sockets, whatever closed them
\* and whatever was being awaited then: only open, admitted sockets are clients,
\* every place among the unauthenticated is held by a socket that still may
\* authenticate, and every slot by a verification that has not ended.
SetsAgree ==
    /\ clients = {s \in Sockets : Open(s) /\ socket[s].authed}
    /\ unauthenticated = {s \in Sockets : Open(s) /\ ~socket[s].authed}
    /\ inFlight = Cardinality({s \in Sockets : socket[s].verifying})

\* The state keeps its types, and the sets agree with the sockets.
ServerIsSound == ServerTypeOK /\ SetsAgree

\* What the handlers rely on from one frame to the next: a socket accepts
\* frames exactly while it is open; a frame stays at the head of the chain
\* while its token is verified, also when the socket is gone; an open socket
\* that has attempted and is not in is waiting for its verdict; the answer to a
\* ping is awaited only if nothing was handled since.
SocketIsSound(r) ==
    /\ r.accepting = (r.state = "open")
    /\ r.authed => r.state = "open"
    /\ r.verifying => r.chain # <<>> /\ r.state # "none"
    /\ r.state = "open" => r.reason = "none"
    /\ r.state = "open" /\ r.attempted /\ ~r.authed => r.verifying
    /\ r.heard => ~r.awaitingPong

\* After a stop no socket is open.  The inductive invariant behind ServerIsSound and NobodyCutOff.
ServerInd ==
    /\ ServerIsSound
    /\ \A s \in Sockets : SocketIsSound(socket[s]) /\ (serverStopped => ~Open(s))
    /\ IsFiniteSet({s \in Sockets : socket[s].verifying})

\* A client may pipeline: a subscribe is too early only if no authentication
\* was sent before it ("a peer that speaks immediately after connecting lost
\* its own handshake", wsserver.ts:55).
EarlyMeansNoAuth ==
    [][\A s \in Sockets :
         socket'[s].reason = "subscribe before authentication" /\ Open(s)
             => ~socket[s].attempted]_serverVars

\* The sweep ends only clients of which nothing was handled since the last one
\* ("ANY frame from an authenticated client proves it is there",
\* wsserver.ts:463).
HeardIsKept ==
    [][\A s \in Sockets :
         socket'[s].reason = "keepalive" /\ Open(s) => ~socket[s].heard]_serverVars

\* No client that keeps to the protocol and speaks is closed for silence or
\* for haste.
NobodyCutOff == EarlyMeansNoAuth /\ HeardIsKept

\* A peer that is gone without a close is noticed, admitted or not.
GoneIsNoticed ==
    \A s \in Sockets : (Open(s) /\ socket[s].gone) ~> ~Open(s)

\* Nobody stays in on a token that expired, also not by way of a verdict that
\* came after other frames.
ExpiryHonoured ==
    \A s \in Sockets : (socket[s].authed /\ socket[s].expires = "past") ~> ~socket[s].authed

\* Nobody stays who is gone, or whose token is.
NobodyLingers == GoneIsNoticed /\ ExpiryHonoured
=============================================================================
