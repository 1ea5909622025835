--------------------------- MODULE ProxyShellProofs ---------------------------
(***************************************************************************)
(* Proofs about ProxyShell, for any number of upstreams and requests, with *)
(* failures or without: types, that the attached upstream is the newest    *)
(* one, and that its handshake goes on.                                    *)
(***************************************************************************)
EXTENDS ProxyShell, TLAPS

\* Before it has dialled, an upstream has read nothing.
Early == {"unborn", "connect", "closeOld", "attach", "dial"}

UpstreamOrder ==
    /\ \A k \in Upstreams : sessionID[k] <= ss.remoteID
    /\ \A k \in Upstreams : pc[k] \in Early => phase[k] = "none"
    /\ \A k \in Upstreams : k > started => pc[k] = "unborn"

ShellInv == TypeOK /\ UpstreamOrder /\ CurrentIsNewest /\ NewIsSent

\* The threads have different names, and nil is no upstream.
LEMMA ThreadNames ==
    /\ Upstreams \subseteq Threads /\ Local \in Threads /\ Signal \in Threads
    /\ Upstreams \subseteq Nat /\ Nil \notin Upstreams
    /\ Local \notin Upstreams /\ Signal \notin Upstreams
  BY ShellAssumption DEF Upstreams, Threads, Local, Signal, Nil

\* What a session is made of.
LEMMA SessionFields ==
    ASSUME TypeOK
    PROVE  /\ ss.state \in {"Shell", "Connecting", "Live"}
           /\ ss.target \in Targets \cup {None}
           /\ ss.remote \in Upstreams \cup {Nil} /\ ss.remoteID \in Nat
           /\ ss.reconnectBy \in {"zero", "ahead", "past"}
           /\ ss.pendingNew \in BOOLEAN
           /\ ss.pendingConnect \in BOOLEAN /\ ss.pendingDisconnect \in BOOLEAN
  BY DEF TypeOK, Session

\* What is left of a session after the updates of several fields at once.
LEMMA SessionUpdates ==
    ASSUME NEW s \in Session
    PROVE  /\ LET r == [s EXCEPT !.target = None, !.reconnectBy = "zero",
                                 !.pendingDisconnect = FALSE, !.pendingConnect = FALSE]
              IN  /\ r \in Session /\ r.remote = s.remote
                  /\ r.remoteID = s.remoteID /\ r.pendingNew = s.pendingNew
           /\ LET r == [s EXCEPT !.state = "Shell", !.target = None,
                                 !.remote = Nil, !.reconnectBy = "zero"]
              IN  r \in Session /\ r.remote = Nil /\ r.remoteID = s.remoteID
           /\ [s EXCEPT !.pendingNew = TRUE] \in Session
  BY ZenonT(60) DEF Session

\* The same when the session gets a new number.
LEMMA SessionRenumbered ==
    ASSUME NEW s \in Session, NEW id \in Nat,
           NEW state \in {"Shell", "Connecting", "Live"}
    PROVE  /\ [s EXCEPT !.remote = Nil, !.remoteID = id, !.state = state] \in Session
           /\ [s EXCEPT !.remoteID = id, !.remote = Nil, !.state = state] \in Session
  BY ZenonT(60) DEF Session

\* The initial state satisfies the invariant.
LEMMA InitEstablishes == Init => ShellInv
<1> SUFFICES ASSUME Init PROVE ShellInv
  OBVIOUS
<1>1. TypeOK
  BY ThreadNames, ShellAssumption DEF Init, TypeOK, Session, Labels, Nil
<1>2. UpstreamOrder
  BY ThreadNames, ShellAssumption DEF Init, UpstreamOrder
<1>3. CurrentIsNewest /\ NewIsSent
  BY DEF Init, CurrentIsNewest, NewIsSent
<1> QED  BY <1>1, <1>2, <1>3 DEF ShellInv

\* Steps that leave the upstream, its number and what was read alone.
LEMMA SameUpstream ==
    ASSUME ShellInv, TypeOK',
           ss'.remote = ss.remote, ss'.remoteID = ss.remoteID,
           ss'.pendingNew = ss.pendingNew,
           UNCHANGED <<sessionID, phase, started, newSent>>,
           \A k \in Upstreams : pc'[k] \in Early => pc[k] \in Early,
           \A k \in Upstreams : pc[k] = "unborn" => pc'[k] = "unborn"
    PROVE  ShellInv'
<1>1. UpstreamOrder'
  BY DEF ShellInv, UpstreamOrder
<1>2. CurrentIsNewest' /\ NewIsSent'
  BY DEF ShellInv, CurrentIsNewest, NewIsSent
<1> QED  BY <1>1, <1>2 DEF ShellInv

\* Steps after which no upstream is attached.
LEMMA NoUpstream ==
    ASSUME ShellInv, TypeOK', ss'.remote = Nil,
           \A k \in Upstreams : sessionID'[k] <= ss'.remoteID,
           UNCHANGED <<phase, started>>,
           \A k \in Upstreams : pc'[k] \in Early => pc[k] \in Early,
           \A k \in Upstreams : pc[k] = "unborn" => pc'[k] = "unborn"
    PROVE  ShellInv'
<1>1. UpstreamOrder'
  BY DEF ShellInv, UpstreamOrder
<1>2. CurrentIsNewest' /\ NewIsSent'
  BY DEF CurrentIsNewest, NewIsSent
<1> QED  BY <1>1, <1>2 DEF ShellInv

\* Requests of the player and the passing of time.
LEMMA LocalPreserves ==
    ASSUME ShellInv,
           \/ \E target \in Targets : ConnectUpstream(target)
           \/ Changing \/ DisconnectUpstream \/ ReconnectByPasses \/ Shutdown
    PROVE  ShellInv'
<1> USE ThreadNames, SessionFields DEF ShellInv, Goto
<1>1. ASSUME NEW target \in Targets, ConnectUpstream(target) PROVE ShellInv'
  <2>0. ss' \in Session /\ ss'.remote = ss.remote /\ ss'.remoteID = ss.remoteID
          /\ ss'.pendingNew = ss.pendingNew
    BY <1>1 DEF ConnectUpstream, TypeOK, Session
  <2>1. TypeOK'
    <3>1. pc' \in [Threads -> Labels]
      BY <1>1 DEF ConnectUpstream, TypeOK, Labels
    <3>2. requests' \in 0 .. MaxRequests
      <4>1. requests < MaxRequests /\ requests' = requests + 1
        BY <1>1 DEF ConnectUpstream, Request
      <4> QED  BY <4>1, ShellAssumption DEF TypeOK
    <3> QED  BY <1>1, <2>0, <3>1, <3>2 DEF ConnectUpstream, TypeOK, upVars
  <2> QED  BY <1>1, <2>0, <2>1, SameUpstream DEF ConnectUpstream, upVars, Early, TypeOK
<1>2. ASSUME Changing PROVE ShellInv'
  <2>0. ss' \in Session /\ ss'.remote = ss.remote /\ ss'.remoteID = ss.remoteID
          /\ ss'.pendingNew = ss.pendingNew
    BY <1>2 DEF Changing, TypeOK, Session
  <2>1. TypeOK'
    BY <1>2, <2>0 DEF Changing, TypeOK, Labels, upVars
  <2> QED  BY <1>2, <2>0, <2>1, SameUpstream DEF Changing, upVars, Early, TypeOK
<1>3. ASSUME DisconnectUpstream PROVE ShellInv'
  <2>0. ss' \in Session /\ ss'.remote = ss.remote /\ ss'.remoteID = ss.remoteID
          /\ ss'.pendingNew = ss.pendingNew
    <3>1. CASE ss.state # "Shell"
      <4>1. ss' = [ss EXCEPT !.target = None, !.pendingDisconnect = TRUE,
                             !.pendingConnect = FALSE]
        BY <1>3, <3>1 DEF DisconnectUpstream
      <4>2. ss \in Session
        BY DEF TypeOK
      <4> QED  BY <4>1, <4>2 DEF Session
    <3>2. CASE ss.state = "Shell"
      <4>1. ss' = [ss EXCEPT !.target = None, !.reconnectBy = "zero",
                             !.pendingDisconnect = FALSE, !.pendingConnect = FALSE]
        BY <1>3, <3>2 DEF DisconnectUpstream
      <4>2. ss \in Session
        BY DEF TypeOK
      <4> QED  BY <4>1, <4>2, SessionUpdates, Zenon
    <3> QED  BY <3>1, <3>2
  <2>1. TypeOK'
    BY <1>3, <2>0, ShellAssumption DEF DisconnectUpstream, Request, TypeOK, Labels, upVars
  <2> QED  BY <1>3, <2>0, <2>1, SameUpstream DEF DisconnectUpstream, upVars, Early, TypeOK
<1>4. ASSUME ReconnectByPasses PROVE ShellInv'
  <2>0. ss' \in Session /\ ss'.remote = ss.remote /\ ss'.remoteID = ss.remoteID
          /\ ss'.pendingNew = ss.pendingNew
    BY <1>4 DEF ReconnectByPasses, TypeOK, Session
  <2>1. TypeOK'
    BY <1>4, <2>0 DEF ReconnectByPasses, TypeOK, Labels, upVars
  <2> QED  BY <1>4, <2>0, <2>1, SameUpstream DEF ReconnectByPasses, upVars, Early, TypeOK
<1>5. ASSUME Shutdown PROVE ShellInv'
  <2>1. TypeOK'
    BY <1>5 DEF Shutdown, TypeOK, Session, Labels, upVars
  <2> QED  BY <1>5, <2>1, SameUpstream DEF Shutdown, upVars, Early, TypeOK, Session
<1> QED  BY <1>1, <1>2, <1>3, <1>4, <1>5

\* A player that connects to the shell again.
LEMMA ShellConnectPreserves ==
    ASSUME ShellInv, ProcessShellConnect
    PROVE  ShellInv'
<1> USE ThreadNames, SessionFields DEF ShellInv, Goto
<1>1. CASE ss.reconnectBy = "ahead" \/ ss.state = "Shell"
  <2>1. /\ ss' \in Session /\ ss'.remote = ss.remote /\ ss'.remoteID = ss.remoteID
        /\ ss'.pendingNew = ss.pendingNew
    BY <1>1 DEF ProcessShellConnect, TypeOK, Session
  <2>2. TypeOK'
    BY <1>1, <2>1, ShellAssumption
    DEF ProcessShellConnect, Request, TypeOK, Labels, upVars
  <2> QED
    BY <1>1, <2>1, <2>2, SameUpstream DEF ProcessShellConnect, upVars, Early, TypeOK
<1>2. CASE ss.reconnectBy # "ahead" /\ ss.state # "Shell"
  <2>1. ss' \in Session /\ ss'.remote = Nil /\ ss'.remoteID = ss.remoteID
    <3>1. ss' = [ss EXCEPT !.state = "Shell", !.target = None,
                           !.remote = Nil, !.reconnectBy = "zero"]
      BY <1>2 DEF ProcessShellConnect
    <3>2. ss \in Session
      BY DEF TypeOK
    <3> QED  BY <3>1, <3>2, SessionUpdates, Zenon
  <2>2. TypeOK'
    BY <1>2, <2>1, ShellAssumption
    DEF ProcessShellConnect, Request, TypeOK, Labels, upVars
  <2>3. \A k \in Upstreams : sessionID'[k] <= ss'.remoteID
    BY <2>1 DEF ProcessShellConnect, UpstreamOrder, upVars
  <2> QED
    BY <1>2, <2>1, <2>2, <2>3, NoUpstream DEF ProcessShellConnect, upVars, Early, TypeOK
<1> QED  BY <1>1, <1>2

\* The player's next packet takes the "new" with it.
LEMMA WritePreserves ==
    ASSUME ShellInv, NEW g \in BOOLEAN, WriteUpstream(g)
    PROVE  ShellInv'
<1> USE ThreadNames, SessionFields DEF ShellInv
<1>1. TypeOK'
  BY DEF WriteUpstream, TypeOK, Session, upVars
<1>2. ss'.remote = ss.remote /\ ss'.remoteID = ss.remoteID
  BY DEF WriteUpstream, TypeOK, Session
<1>3. UpstreamOrder'
  BY <1>2 DEF WriteUpstream, UpstreamOrder, upVars
<1>4. CurrentIsNewest' /\ NewIsSent'
  BY <1>2 DEF WriteUpstream, CurrentIsNewest, NewIsSent, upVars
<1> QED  BY <1>1, <1>3, <1>4

\* Closing, shutting down and starting the next connectRemote.
LEMMA CalledPreserves ==
    ASSUME ShellInv, NEW t \in Threads, Called(t)
    PROVE  ShellInv'
<1> USE ThreadNames, SessionFields DEF ShellInv, Goto
<1>1. ASSUME ShutdownRemote(t) PROVE ShellInv'
  <2>0. ss' \in Session
    <3>1. ss.remoteID + 1 \in Nat
      BY SessionFields
    <3> QED  BY <1>1, <3>1, SessionRenumbered DEF ShutdownRemote, TypeOK
  <2>1. TypeOK'
    BY <1>1, <2>0 DEF ShutdownRemote, TypeOK, Labels, upVars
  <2>2. ss'.remote = Nil /\ ss'.remoteID = ss.remoteID + 1
    BY <1>1 DEF ShutdownRemote, TypeOK, Session
  <2>3. \A k \in Upstreams : sessionID'[k] <= ss'.remoteID
    BY <1>1, <2>2 DEF ShutdownRemote, UpstreamOrder, TypeOK, Session, upVars
  <2> QED  BY <1>1, <2>1, <2>2, <2>3, NoUpstream DEF ShutdownRemote, upVars, Early, TypeOK, Session
<1>2. ASSUME Close(t) PROVE ShellInv'
  <2>1. TypeOK'
    <3>1. AfterClose(t) \in Labels
      BY DEF AfterClose, Labels
    <3>2. pc' \in [Threads -> Labels] /\ old' \in [Threads -> Upstreams \cup {Nil}]
      BY <1>2, <3>1 DEF Close, TypeOK
    <3>3. CASE old[t] # Nil /\ conn[old[t]]
      <4>1. old[t] \in Upstreams
        BY <3>3 DEF TypeOK
      <4>2. /\ conn' = [conn EXCEPT ![old[t]] = FALSE]
            /\ sock' = [sock EXCEPT ![old[t]] = "closed"]
        BY <1>2, <3>3 DEF Close
      <4> QED  BY <1>2, <3>2, <4>1, <4>2 DEF Close, TypeOK
    <3>4. CASE ~(old[t] # Nil /\ conn[old[t]])
      BY <1>2, <3>2, <3>4 DEF Close, TypeOK
    <3> QED  BY <3>3, <3>4
  <2>2. \A k \in Upstreams : pc'[k] \in Early => pc[k] \in Early
    BY <1>2 DEF Close, TypeOK, Session, Early, AfterClose
  <2> QED  BY <1>2, <2>1, <2>2, SameUpstream DEF Close, TypeOK, Session
<1>3. ASSUME EnsureRemoteConnected(t) PROVE ShellInv'
  <2>1. CASE ss.target = None \/ ss.remote # Nil
    <3>1. TypeOK'
      BY <1>3, <2>1 DEF EnsureRemoteConnected, TypeOK, Session, Labels
    <3> QED
      BY <1>3, <2>1, <3>1, SameUpstream DEF EnsureRemoteConnected, TypeOK, Session, Early
  <2>2. CASE ss.target # None /\ ss.remote = Nil
    <3> DEFINE n == started + 1
    <3>1. n \in Upstreams /\ started' = n /\ started \in Nat
      BY <1>3, <2>2, ShellAssumption DEF EnsureRemoteConnected, TypeOK, Session, Upstreams
    <3>2. pc[n] = "unborn" /\ t # n /\ pc[t] = "ensure"
      BY <1>3, <3>1 DEF UpstreamOrder, EnsureRemoteConnected
    <3>3. /\ pc'[n] = "connect" /\ pc'[t] \in {"idle", "read"}
          /\ \A u \in Threads : u # n /\ u # t => pc'[u] = pc[u]
          /\ pc' \in [Threads -> Labels]
      BY <1>3, <2>2, <3>1, <3>2 DEF EnsureRemoteConnected, TypeOK, Session, Labels
    <3>4. TypeOK'
      <4>1. goal' \in [Upstreams -> Targets \cup {None}]
        BY <1>3, <2>2, <3>1 DEF EnsureRemoteConnected, TypeOK, Session
      <4>2. started' \in 0 .. MaxUpstreams
        BY <3>1, ShellAssumption DEF Upstreams
      <4> QED  BY <1>3, <3>3, <4>1, <4>2 DEF EnsureRemoteConnected, TypeOK
    <3>5. UpstreamOrder'
      BY <1>3, <3>1, <3>2, <3>3, SMTT(30) DEF EnsureRemoteConnected, UpstreamOrder, Early
    <3>6. CurrentIsNewest' /\ NewIsSent'
      BY <1>3, <2>2 DEF EnsureRemoteConnected, CurrentIsNewest, NewIsSent
    <3> QED  BY <3>4, <3>5, <3>6
  <2> QED  BY <2>1, <2>2
<1> QED  BY <1>1, <1>2, <1>3 DEF Called

\* Connecting: a new number, the check of it, the dial.
LEMMA ConnectPreserves ==
    ASSUME ShellInv, NEW k \in Upstreams,
           ConnectRemote(k) \/ Attach(k) \/ Dial(k) \/ DialFails(k)
    PROVE  ShellInv'
<1> USE ThreadNames, SessionFields DEF ShellInv, Goto
<1>1. ASSUME ConnectRemote(k) PROVE ShellInv'
  <2>0. ss' \in Session
    <3>1. ss.remoteID + 1 \in Nat
      BY SessionFields
    <3> QED  BY <1>1, <3>1, SessionRenumbered DEF ConnectRemote, TypeOK
  <2>1. TypeOK'
    BY <1>1, <2>0 DEF ConnectRemote, TypeOK, Labels
  <2>2. ss'.remote = Nil /\ ss'.remoteID = ss.remoteID + 1
    BY <1>1 DEF ConnectRemote, TypeOK, Session
  <2>3. \A j \in Upstreams : sessionID'[j] <= ss'.remoteID
    BY <1>1, <2>2 DEF ConnectRemote, UpstreamOrder, TypeOK, Session
  <2> QED  BY <1>1, <2>1, <2>2, <2>3, NoUpstream DEF ConnectRemote, Early, TypeOK, Session
<1>2. ASSUME Attach(k) PROVE ShellInv'
  <2>1. TypeOK'
    BY <1>2 DEF Attach, TypeOK, Session, Labels, upVars
  <2>2. CASE sessionID[k] # ss.remoteID
    BY <1>2, <2>1, <2>2, SameUpstream DEF Attach, upVars, Early, TypeOK, Session
  <2>3. CASE sessionID[k] = ss.remoteID
    <3>1. /\ ss'.remote = k /\ ss'.remoteID = ss.remoteID
          /\ pc'[k] = "dial" /\ pc[k] = "attach"
          /\ \A j \in Upstreams : j # k => pc'[j] = pc[j]
      BY <1>2, <2>3 DEF Attach, TypeOK, Session
    <3>2. UpstreamOrder'
      BY <1>2, <3>1 DEF Attach, UpstreamOrder, upVars, Early
    <3>3. CurrentIsNewest'
      BY <1>2, <2>3, <3>1 DEF Attach, UpstreamOrder, CurrentIsNewest, upVars
    <3>4. NewIsSent'
      BY <3>1, <3>2 DEF UpstreamOrder, NewIsSent, Early
    <3> QED  BY <2>1, <3>2, <3>3, <3>4
  <2> QED  BY <2>2, <2>3
<1>3. ASSUME Dial(k) PROVE ShellInv'
  <2>1. TypeOK'
    <3>1. ss' = ss /\ old' = old /\ goal' = goal /\ sessionID' = sessionID
          /\ phase' = phase /\ pending' = pending /\ started' = started
          /\ requests' = requests /\ newSent' = newSent
      BY <1>3 DEF Dial
    <3>2. /\ pc' \in [Threads -> Labels] /\ conn' \in [Upstreams -> BOOLEAN]
          /\ sock' \in [Upstreams -> {"none", "open", "closed"}]
      BY <1>3 DEF Dial, TypeOK, Labels
    <3>3. \A j \in Upstreams : conn'[j] => sock'[j] # "none"
      BY <1>3 DEF Dial, TypeOK
    <3> QED  BY <3>1, <3>2, <3>3 DEF TypeOK
  <2> QED  BY <1>3, <2>1, SameUpstream DEF Dial, Early, TypeOK, Session
<1>4. ASSUME DialFails(k) PROVE ShellInv'
  <2>1. TypeOK'
    <3>1. pc' \in [Threads -> Labels]
      BY <1>4 DEF DialFails, TypeOK, Labels
    <3>2. /\ conn' \in [Upstreams -> BOOLEAN]
          /\ sock' \in [Upstreams -> {"none", "open", "closed"}]
          /\ \A j \in Upstreams : conn'[j] => sock'[j] # "none"
      <4>1. CASE UNCHANGED <<conn, sock>>
        BY <4>1 DEF TypeOK
      <4>2. CASE /\ conn' = [conn EXCEPT ![k] = TRUE]
                 /\ sock' = [sock EXCEPT ![k] = "closed"]
        BY <4>2 DEF TypeOK
      <4> QED  BY <1>4, <4>1, <4>2 DEF DialFails
    <3>3. ss' = ss /\ old' = old /\ goal' = goal /\ sessionID' = sessionID
          /\ phase' = phase /\ pending' = pending /\ started' = started
          /\ requests' = requests /\ newSent' = newSent
      BY <1>4 DEF DialFails
    <3> QED  BY <3>1, <3>2, <3>3 DEF TypeOK
  <2> QED  BY <1>4, <2>1, SameUpstream DEF DialFails, Early, TypeOK, Session
<1> QED  BY <1>1, <1>2, <1>3, <1>4

\* Reading: the handshake, game data, and what was pending.
LEMMA ReadPreserves ==
    ASSUME ShellInv, NEW k \in Upstreams,
           \/ ReadEnds(k) \/ ReadConnectionless(k) \/ ReadGameData(k)
           \/ ClearPending(k) \/ DisconnectTransition(k) \/ ResetClient(k)
    PROVE  ShellInv'
<1> USE ThreadNames, SessionFields DEF ShellInv, Goto
<1>1. ASSUME ReadEnds(k) PROVE ShellInv'
  <2>1. TypeOK'
    BY <1>1 DEF ReadEnds, TypeOK, Session, Labels, upVars
  <2> QED  BY <1>1, <2>1, SameUpstream DEF ReadEnds, Early, TypeOK, Session, upVars
<1>2. ASSUME ReadConnectionless(k) PROVE ShellInv'
  <2>0. ss' \in Session
    <3>1. ss' = ss \/ ss' = [ss EXCEPT !.pendingNew = TRUE]
      BY <1>2 DEF ReadConnectionless
    <3>2. ss \in Session
      BY DEF TypeOK
    <3> QED  BY <3>1, <3>2, SessionUpdates, Zenon
  <2>1. TypeOK'
    BY <1>2, <2>0 DEF ReadConnectionless, TypeOK
  <2>2. ss'.remote = ss.remote /\ ss'.remoteID = ss.remoteID
    BY <1>2 DEF ReadConnectionless, TypeOK, Session
  <2>3. \A j \in Upstreams : j # k => phase'[j] = phase[j]
    BY <1>2 DEF ReadConnectionless, TypeOK, Session
  <2>4. UpstreamOrder'
    BY <1>2, <2>2, <2>3 DEF ReadConnectionless, UpstreamOrder, Early
  <2>5. CurrentIsNewest'
    BY <1>2, <2>2 DEF ReadConnectionless, CurrentIsNewest
  <2>6. ss.pendingNew => ss'.pendingNew
    BY <1>2 DEF ReadConnectionless, TypeOK, Session
  <2>7. ASSUME ss.remote = k, phase'[k] = "connection" PROVE ss'.pendingNew
    <3>1. Current(k)
      BY <2>7 DEF Current, CurrentIsNewest
    <3> QED  BY <1>2, <2>7, <3>1 DEF ReadConnectionless, TypeOK, Session
  <2>8. NewIsSent'
    BY <1>2, <2>2, <2>3, <2>6, <2>7 DEF ReadConnectionless, NewIsSent
  <2> QED  BY <2>1, <2>4, <2>5, <2>8
<1>3. ASSUME ReadGameData(k) PROVE ShellInv'
  <2>1. TypeOK'
    BY <1>3 DEF ReadGameData, PendingNow, TypeOK, Session, Labels
  <2> QED  BY <1>3, <2>1, SameUpstream DEF ReadGameData, Early, TypeOK, Session
<1>4. ASSUME ClearPending(k) PROVE ShellInv'
  <2>1. TypeOK'
    BY <1>4 DEF ClearPending, TypeOK, Session, Labels, upVars
  <2> QED  BY <1>4, <2>1, SameUpstream DEF ClearPending, Early, TypeOK, Session, upVars
<1>5. ASSUME DisconnectTransition(k) PROVE ShellInv'
  <2>1. TypeOK'
    BY <1>5 DEF DisconnectTransition, TypeOK, Session, Labels, upVars
  <2> QED  BY <1>5, <2>1, SameUpstream DEF DisconnectTransition, Early, TypeOK, Session, upVars
<1>6. ASSUME ResetClient(k) PROVE ShellInv'
  <2>1. TypeOK'
    BY <1>6 DEF ResetClient, TypeOK, Session, Labels
  <2> QED  BY <1>6, <2>1, SameUpstream DEF ResetClient, Early, TypeOK, Session
<1> QED  BY <1>1, <1>2, <1>3, <1>4, <1>5, <1>6

\* Every step keeps the invariant.
LEMMA NextPreserves == ShellInv /\ [Next]_vars => ShellInv'
<1> SUFFICES ASSUME ShellInv, [Next]_vars PROVE ShellInv'
  OBVIOUS
<1>1. CASE UNCHANGED vars
  BY <1>1 DEF vars, upVars, ShellInv, TypeOK, UpstreamOrder, CurrentIsNewest, NewIsSent
<1>2. CASE Next
  BY <1>2, LocalPreserves, ShellConnectPreserves, WritePreserves, CalledPreserves,
     ConnectPreserves, ReadPreserves DEF Next, Upstream
<1> QED  BY <1>1, <1>2

\* Types of the session, the threads and the upstreams, in every reachable state.
THEOREM ShellTypeCorrect == Spec => []TypeOK
<1>1. ShellInv => TypeOK
  BY DEF ShellInv
<1> QED  BY <1>1, InitEstablishes, NextPreserves, PTL DEF Spec

\* An older connectRemote never attaches over a newer one, for any number of
\* requests and any schedule of the goroutines.
THEOREM AttachedIsNewest == Spec => []CurrentIsNewest
<1>1. ShellInv => CurrentIsNewest
  BY DEF ShellInv
<1> QED  BY <1>1, InitEstablishes, NextPreserves, PTL DEF Spec

\* The upstream that confirmed the connection gets its "new".
THEOREM HandshakeGoesOn == Spec => []NewIsSent
<1>1. ShellInv => NewIsSent
  BY DEF ShellInv
<1> QED  BY <1>1, InitEstablishes, NextPreserves, PTL DEF Spec
==============================================================================
