------------------------------ MODULE ProxyShell ------------------------------
(***************************************************************************)
(* proxyshell for one client: the shell that a player sits in, and the     *)
(* upstream server it is attached to on request.                           *)
(*                                                                         *)
(* Threads.  Local is the goroutine of the local server, on which the      *)
(* player's packets and requests are handled.  Signal calls Shutdown.      *)
(* Upstream k is the goroutine of the k-th connectRemote and, once that    *)
(* has dialled, the readLoop it starts; k also names its upstreamSession.  *)
(*                                                                         *)
(* Every section under Shell.mu is one step, and so is Close, which runs   *)
(* outside of it.  The packets of an upstream server come in the order of  *)
(* the protocol: a challenge, the connection, then game data.  The shell   *)
(* has a logger, so that newUpstreamSession succeeds.                      *)
(***************************************************************************)
EXTENDS Integers, FiniteSets

CONSTANTS Targets,       \* addresses of upstream servers
          MaxUpstreams,  \* bound: runs of connectRemote
          MaxRequests,   \* bound: requests of the player
          Patient,       \* does the player wait until a request has taken effect?
          MayFail        \* may dialling or reading fail, may Shutdown be called?

None == "none"
Nil  == 0

ASSUME ShellAssumption ==
    /\ MaxUpstreams \in Nat /\ MaxRequests \in Nat
    /\ Patient \in BOOLEAN /\ MayFail \in BOOLEAN
    /\ None \notin Targets

Upstreams == 1 .. MaxUpstreams
Local     == 0
Signal    == -1
Threads   == Upstreams \cup {Local, Signal}

VARIABLES ss,        \* the client's session
          pc,        \* where each thread is
          old,       \* old[t]: the upstream t is about to close
          goal,      \* goal[k]: the target k connects to
          sessionID, \* sessionID[k], taken by connectRemote
          conn,      \* conn[k]: has upstreamSession k a conn?
          sock,      \* sock[k]: the socket behind it
          phase,     \* phase[k]: the last packet k has read
          pending,   \* pending[k]: the flags that k's callback has read
          started,   \* runs of connectRemote so far
          requests,  \* requests so far
          newSent    \* upstreams that were sent a "new" after their connection

upVars == <<goal, sessionID, conn, sock, phase, pending>>
vars   == <<ss, pc, old, upVars, started, requests, newSent>>

Init ==
    /\ ss = [state |-> "Shell", target |-> None, remote |-> Nil, remoteID |-> 0,
             reconnectBy |-> "zero", pendingNew |-> FALSE,
             pendingConnect |-> FALSE, pendingDisconnect |-> FALSE]
    /\ pc = [t \in Threads |-> IF t \in Upstreams THEN "unborn" ELSE "idle"]
    /\ old = [t \in Threads |-> Nil]
    /\ goal = [k \in Upstreams |-> None]
    /\ sessionID = [k \in Upstreams |-> 0]
    /\ conn = [k \in Upstreams |-> FALSE]
    /\ sock = [k \in Upstreams |-> "none"]
    /\ phase = [k \in Upstreams |-> "none"]
    /\ pending = [k \in Upstreams |-> {}]
    /\ started = 0 /\ requests = 0 /\ newSent = {}

Goto(t, label) == pc' = [pc EXCEPT ![t] = label]

\* The session is where the player asked it to be.
FollowsTarget ==
    IF ss.target = None
    THEN ss.state = "Shell" /\ ss.remote = Nil
    ELSE ss.state = "Live" /\ ss.remote # Nil /\ goal[ss.remote] = ss.target

Settled ==
    /\ FollowsTarget /\ ~ss.pendingConnect /\ ~ss.pendingDisconnect
    /\ \A t \in Threads : pc[t] \in {"idle", "unborn", "read", "done"}

------------------------------------------------------------------------------
(* Requests of the player, on Local.                                        *)

Request ==
    /\ pc[Local] = "idle"
    /\ Patient => Settled
    /\ requests < MaxRequests /\ requests' = requests + 1

ConnectUpstream(target) ==
    /\ Request
    /\ ~(ss.target = target /\ (ss.state = "Connecting" \/ ss.remote # Nil))
    /\ ss' = [ss EXCEPT !.target = target, !.reconnectBy = "ahead"]
    /\ Goto(Local, IF ss.state = "Shell" THEN "ensure" ELSE "changing")
    /\ UNCHANGED <<old, upVars, started, newSent>>

\* The player has been told that it changes servers.
Changing ==
    /\ pc[Local] = "changing"
    /\ ss' = [ss EXCEPT !.pendingConnect = TRUE, !.pendingDisconnect = FALSE]
    /\ Goto(Local, "idle")
    /\ UNCHANGED <<old, upVars, started, requests, newSent>>

DisconnectUpstream ==
    /\ Request
    /\ \/ /\ ss.state # "Shell"
          /\ ss' = [ss EXCEPT !.target = None,
                              !.pendingDisconnect = TRUE, !.pendingConnect = FALSE]
          /\ UNCHANGED pc
       \/ /\ ss.state = "Shell"
          /\ ss' = [ss EXCEPT !.target = None, !.reconnectBy = "zero",
                              !.pendingDisconnect = FALSE, !.pendingConnect = FALSE]
          /\ Goto(Local, "shutdown")
    /\ UNCHANGED <<old, upVars, started, newSent>>

\* The player connects to the local server once more.  Unless it was told to, the
\* upstream it had is stale.
ProcessShellConnect ==
    /\ Request
    /\ \/ /\ ss.reconnectBy = "ahead" \/ ss.state = "Shell"
          /\ ss' = [ss EXCEPT !.reconnectBy = "zero"]
          /\ Goto(Local, "ensure")
          /\ UNCHANGED old
       \/ /\ ss.reconnectBy # "ahead" /\ ss.state # "Shell"
          /\ ss' = [ss EXCEPT !.state = "Shell", !.target = None,
                              !.remote = Nil, !.reconnectBy = "zero"]
          /\ old' = [old EXCEPT ![Local] = ss.remote]
          /\ Goto(Local, "closeStale")
    /\ UNCHANGED <<upVars, started, newSent>>

\* Mutant: the flag is cleared by packets that do not carry the command.
WriteUpstreamClears(isGameData) ==
    /\ pc[Local] = "idle" /\ ss.pendingNew
    /\ ss' = [ss EXCEPT !.pendingNew = FALSE]
    /\ newSent' = IF isGameData THEN newSent \cup {ss.remote} ELSE newSent
    /\ UNCHANGED <<pc, old, upVars, started, requests>>

\* A packet of the player goes upstream; the first game data after a connection
\* begins with "new".  Other packets change nothing.
WriteUpstream(isGameData) ==
    /\ pc[Local] = "idle" /\ ss.pendingNew /\ isGameData
    /\ ss' = [ss EXCEPT !.pendingNew = FALSE]
    /\ newSent' = newSent \cup {ss.remote}
    /\ UNCHANGED <<pc, old, upVars, started, requests>>

\* Five seconds have passed since ConnectUpstream.
ReconnectByPasses ==
    /\ ss.reconnectBy = "ahead"
    /\ ss' = [ss EXCEPT !.reconnectBy = "past"]
    /\ UNCHANGED <<pc, old, upVars, started, requests, newSent>>

Shutdown ==
    /\ MayFail /\ pc[Signal] = "idle"
    /\ Goto(Signal, "shutdown")
    /\ UNCHANGED <<ss, old, upVars, started, requests, newSent>>

------------------------------------------------------------------------------
(* What several threads call.                                               *)

\* Where a thread goes on after it has closed an upstream.
AfterClose(t) ==
    CASE pc[t] = "closeStale" -> "ensure"
      [] pc[t] = "closeOld"   -> "attach"
      [] t = Local            -> "idle"
      [] t = Signal           -> "done"
      [] OTHER                -> "reset"

\* Mutant: the upstream is forgotten instead of closed.
ShutdownRemoteForgets(t) ==
    /\ pc[t] = "shutdown"
    /\ ss' = [ss EXCEPT !.remote = Nil, !.remoteID = @ + 1,
                        !.state = IF ss.target = None THEN "Shell" ELSE @]
    /\ Goto(t, "close")
    /\ UNCHANGED <<old, upVars, started, requests, newSent>>

ShutdownRemote(t) ==
    /\ pc[t] = "shutdown"
    /\ ss' = [ss EXCEPT !.remote = Nil, !.remoteID = @ + 1,
                        !.state = IF ss.target = None THEN "Shell" ELSE @]
    /\ old' = [old EXCEPT ![t] = ss.remote]
    /\ Goto(t, "close")
    /\ UNCHANGED <<upVars, started, requests, newSent>>

\* upstreamSession.Close, which does nothing before the session has a conn.
Close(t) ==
    LET u == old[t]
    IN  /\ pc[t] \in {"close", "closeOld", "closeStale"}
        /\ \/ /\ u # Nil /\ conn[u]
              /\ conn' = [conn EXCEPT ![u] = FALSE]
              /\ sock' = [sock EXCEPT ![u] = "closed"]
           \/ /\ ~(u # Nil /\ conn[u])
              /\ UNCHANGED <<conn, sock>>
        /\ old' = [old EXCEPT ![t] = Nil]
        /\ Goto(t, AfterClose(t))
        /\ UNCHANGED <<ss, goal, sessionID, phase, pending, started, requests, newSent>>

EnsureRemoteConnected(t) ==
    /\ pc[t] = "ensure"
    /\ \/ /\ ss.target # None /\ ss.remote = Nil
          /\ started < MaxUpstreams /\ started' = started + 1
          /\ goal' = [goal EXCEPT ![started'] = ss.target]
          /\ pc' = [pc EXCEPT ![started'] = "connect",
                              ![t] = IF t = Local THEN "idle" ELSE "read"]
       \/ /\ ss.target = None \/ ss.remote # Nil
          /\ Goto(t, IF t = Local THEN "idle" ELSE "read")
          /\ UNCHANGED <<started, goal>>
    /\ UNCHANGED <<ss, old, sessionID, conn, sock, phase, pending, requests, newSent>>
------------------------------------------------------------------------------
(* connectRemote and readLoop of upstream k.                                *)

ConnectRemote(k) ==
    /\ pc[k] = "connect"
    /\ sessionID' = [sessionID EXCEPT ![k] = ss.remoteID + 1]
    /\ ss' = [ss EXCEPT !.remoteID = @ + 1, !.remote = Nil, !.state = "Connecting"]
    /\ old' = [old EXCEPT ![k] = ss.remote]
    /\ Goto(k, "closeOld")
    /\ UNCHANGED <<goal, conn, sock, phase, pending, started, requests, newSent>>

\* Mutant: an upstream is attached although a newer one was asked for.
AttachAny(k) ==
    /\ pc[k] = "attach"
    /\ ss' = [ss EXCEPT !.remote = k]
    /\ Goto(k, "dial")
    /\ UNCHANGED <<old, upVars, started, requests, newSent>>

\* The new session is the client's remote, unless a newer one was asked for.
Attach(k) ==
    /\ pc[k] = "attach"
    /\ \/ /\ sessionID[k] = ss.remoteID
          /\ ss' = [ss EXCEPT !.remote = k]
          /\ Goto(k, "dial")
       \/ /\ sessionID[k] # ss.remoteID
          /\ Goto(k, "done")
          /\ UNCHANGED ss
    /\ UNCHANGED <<old, upVars, started, requests, newSent>>

Dial(k) ==
    /\ pc[k] = "dial"
    /\ conn' = [conn EXCEPT ![k] = TRUE]
    /\ sock' = [sock EXCEPT ![k] = "open"]
    /\ Goto(k, "read")
    /\ UNCHANGED <<ss, old, goal, sessionID, phase, pending, started, requests, newSent>>

\* No address, no socket, or the challenge cannot be sent.
DialFails(k) ==
    /\ MayFail /\ pc[k] = "dial"
    /\ \/ UNCHANGED <<conn, sock>>
       \/ /\ conn' = [conn EXCEPT ![k] = TRUE]
          /\ sock' = [sock EXCEPT ![k] = "closed"]
    /\ Goto(k, "done")
    /\ UNCHANGED <<ss, old, goal, sessionID, phase, pending, started, requests, newSent>>

\* The socket was closed, or the read fails.
ReadEnds(k) ==
    /\ pc[k] = "read" /\ (sock[k] = "closed" \/ MayFail)
    /\ Goto(k, "done")
    /\ UNCHANGED <<ss, old, upVars, started, requests, newSent>>

Current(k) == ss.remote = k /\ sessionID[k] = ss.remoteID

\* The challenge is answered with a connect; s2cconnection asks for a "new".
ReadConnectionless(k) ==
    /\ pc[k] = "read" /\ sock[k] = "open"
    /\ \/ /\ phase[k] = "none"
          /\ phase' = [phase EXCEPT ![k] = "challenge"]
          /\ UNCHANGED ss
       \/ /\ phase[k] = "challenge"
          /\ phase' = [phase EXCEPT ![k] = "connection"]
          /\ ss' = IF Current(k) THEN [ss EXCEPT !.pendingNew = TRUE] ELSE ss
    /\ UNCHANGED <<pc, old, goal, sessionID, conn, sock, pending, started, requests, newSent>>

PendingNow ==
    (IF ss.pendingDisconnect THEN {"disconnect"} ELSE {})
        \cup (IF ss.pendingConnect THEN {"connect"} ELSE {})

\* Game data of the current upstream makes the session live; then it is handed on,
\* and what was pending when it came is done on this thread.
ReadGameData(k) ==
    /\ pc[k] = "read" /\ sock[k] = "open" /\ phase[k] = "connection"
    /\ Current(k)
    /\ ss' = [ss EXCEPT !.state = "Live"]
    /\ pending' = [pending EXCEPT ![k] = PendingNow]
    /\ Goto(k, IF PendingNow = {} THEN "read" ELSE "clear")
    /\ UNCHANGED <<old, goal, sessionID, conn, sock, phase, started, requests, newSent>>

\* Mutant: the request stays pending.
ClearPendingNot(k) ==
    /\ pc[k] = "clear"
    /\ Goto(k, "transition")
    /\ UNCHANGED <<ss, old, upVars, started, requests, newSent>>

ClearPending(k) ==
    /\ pc[k] = "clear"
    /\ ss' = IF "disconnect" \in pending[k]
             THEN [ss EXCEPT !.pendingDisconnect = FALSE]
             ELSE [ss EXCEPT !.pendingConnect = FALSE]
    /\ Goto(k, "transition")
    /\ UNCHANGED <<old, upVars, started, requests, newSent>>

DisconnectTransition(k) ==
    /\ pc[k] = "transition"
    /\ ss' = [ss EXCEPT !.state = "Shell", !.reconnectBy = "zero"]
    /\ Goto(k, "shutdown")
    /\ UNCHANGED <<old, upVars, started, requests, newSent>>

\* The local client is reset.  After a connect request the next upstream follows.
ResetClient(k) ==
    /\ pc[k] = "reset"
    /\ \/ /\ "disconnect" \in pending[k]
          /\ pending' = [pending EXCEPT ![k] = @ \ {"disconnect"}]
          /\ Goto(k, IF "connect" \in pending[k] THEN "clear" ELSE "read")
       \/ /\ "disconnect" \notin pending[k]
          /\ pending' = [pending EXCEPT ![k] = {}]
          /\ Goto(k, "ensure")
    /\ UNCHANGED <<ss, old, goal, sessionID, conn, sock, phase, started, requests, newSent>>

------------------------------------------------------------------------------
Called(t) == ShutdownRemote(t) \/ Close(t) \/ EnsureRemoteConnected(t)

Upstream(k) ==
    \/ ConnectRemote(k) \/ Attach(k) \/ Dial(k)
    \/ (sock[k] = "closed" /\ ReadEnds(k))
    \/ ReadConnectionless(k) \/ ReadGameData(k)
    \/ ClearPending(k) \/ DisconnectTransition(k) \/ ResetClient(k)

Next ==
    \/ \E target \in Targets : ConnectUpstream(target)
    \/ Changing \/ DisconnectUpstream \/ ProcessShellConnect
    \/ \E isGameData \in BOOLEAN : WriteUpstream(isGameData)
    \/ ReconnectByPasses
    \/ Shutdown
    \/ \E t \in Threads : Called(t)
    \/ \E k \in Upstreams : Upstream(k) \/ DialFails(k) \/ ReadEnds(k)

\* Goroutines run, and an upstream server answers.  The player owes nothing.
Fairness ==
    /\ WF_vars(Changing)
    /\ \A t \in Threads : WF_vars(Called(t))
    /\ \A k \in Upstreams : WF_vars(Upstream(k))

Spec     == Init /\ [][Next]_vars
FairSpec == Spec /\ Fairness

------------------------------------------------------------------------------
Labels == {"idle", "unborn", "ensure", "changing", "shutdown", "close", "closeOld",
           "closeStale", "connect", "attach", "dial", "read", "clear",
           "transition", "reset", "done"}

Session ==
    [state : {"Shell", "Connecting", "Live"}, target : Targets \cup {None},
     remote : Upstreams \cup {Nil}, remoteID : Nat,
     reconnectBy : {"zero", "ahead", "past"}, pendingNew : BOOLEAN,
     pendingConnect : BOOLEAN, pendingDisconnect : BOOLEAN]

\* Types, and that an upstream session has a conn only when there is a socket.
TypeOK ==
    /\ ss \in Session
    /\ pc \in [Threads -> Labels] /\ old \in [Threads -> Upstreams \cup {Nil}]
    /\ goal \in [Upstreams -> Targets \cup {None}]
    /\ sessionID \in [Upstreams -> Nat]
    /\ conn \in [Upstreams -> BOOLEAN]
    /\ sock \in [Upstreams -> {"none", "open", "closed"}]
    /\ phase \in [Upstreams -> {"none", "challenge", "connection"}]
    /\ pending \in [Upstreams -> SUBSET {"connect", "disconnect"}]
    /\ started \in 0 .. MaxUpstreams /\ requests \in 0 .. MaxRequests
    /\ newSent \subseteq Upstreams \cup {Nil}
    /\ \A k \in Upstreams : conn[k] => sock[k] # "none"

\* The attached upstream is the one that was asked for last: an older connectRemote
\* never attaches over a newer one, however their goroutines are scheduled, and
\* whatever is torn down meanwhile.
CurrentIsNewest ==
    ss.remote # Nil =>
        /\ sessionID[ss.remote] = ss.remoteID
        /\ \A k \in Upstreams : sessionID[k] <= sessionID[ss.remote]

\* The handshake goes on after a connection: as long as the upstream that
\* confirmed it is attached, a "new" is owed to it or has been sent to it, although
\* one thread sets the flag and another one takes it, maybe for another upstream.
NewIsSent ==
    ss.remote # Nil /\ phase[ss.remote] = "connection" =>
        ss.pendingNew \/ ss.remote \in newSent

\* A player who waits for each request to take effect ends up where the last
\* request said: with that upstream live, or in the shell with none.
UpstreamFollowsTarget == <>[]FollowsTarget

\* The socket of an upstream that is no longer attached gets closed.
SocketsClosed ==
    \A k \in Upstreams : (sock[k] = "open" /\ ss.remote # k) ~> sock[k] = "closed"
==============================================================================
