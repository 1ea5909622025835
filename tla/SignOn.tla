------------------------------- MODULE SignOn --------------------------------
(***************************************************************************)
(* How a client of client/quake joins the lobby of server/quake: the       *)
(* connectionless handshake (getchallenge, challenge, connect, accepted),  *)
(* then the sign-on conversation carried by the two sequencers (new,       *)
(* soundlist, modellist, prespawn, spawn, begin).                          *)
(*                                                                         *)
(* UDP keeps the order here and may lose packets.  The client's read       *)
(* deadline passes when nothing is on its way any more, and may pass       *)
(* before that: an answer that is merely late.  The server may be          *)
(* restarted with the client noticing it, through ECONNREFUSED.  How often *)
(* each of these happens in a behaviour is one of Failures.                *)
(*                                                                         *)
(* Left out: what does not answer a sign-on command (moves, frames, light  *)
(* styles, setinfo, user infos).                                           *)
(***************************************************************************)
EXTENDS Sequencer

CONSTANTS MaxSeq,       \* bound: packets each side numbers in one session
          Failures      \* bounds: the combinations of packets lost, deadlines that pass
                        \* early, restarts, and calls of Flush by the application

ASSUME SignOnAssumption ==
    /\ MaxSeq \in Nat \ {0} /\ 2 * MaxSeq <= SeqLimit
    /\ Failures \subseteq [losses : Nat, early : Nat, restarts : Nat, flushes : Nat]

VARIABLES cl,        \* Client.seq
          session,   \* the server's client object for this address, or Nobody
          toServer, toClient,   \* packets on their way
          left       \* how often each failure may still happen

vars == <<cl, session, toServer, toClient, left>>

Nobody == [stage |-> "none", seq |-> NewSequencer(1), received |-> FALSE, incoming |-> 0]

NewSession == [Nobody EXCEPT !.stage = "idle"]

Oob(cmd)          == [kind |-> "oob", seq |-> 0, ack |-> 0, cmds |-> <<cmd>>]
GamePacket(out)   == [kind |-> "game", seq |-> out.seq, ack |-> out.ack, cmds |-> out.cmds]

\* sendChallenge, after which only Handshake's own commands are answered.
AfterChallenge == SetState(Reset(cl), "Handshake")

Init ==
    /\ cl = SetState(NewSequencer(0), "Handshake")
    /\ session = Nobody
    /\ toServer = <<Oob("getchallenge")>> /\ toClient = <<>>
    /\ left \in Failures

------------------------------------------------------------------------------
(* The client.                                                              *)

\* Mutants: accepted is taken only once; skins does not connect.
HandleAcceptedOnce(cmd, state) ==
    IF cmd = "accepted" /\ state = "Handshake"
    THEN [state |-> "Connecting", reply |-> <<"new">>]
    ELSE [state |-> IF cmd = "skins" THEN "Connected" ELSE state,
          reply |-> CASE cmd = "fullserverinfo" -> <<"soundlist">>
                      [] cmd = "soundlist"      -> <<"modellist">>
                      [] cmd = "modellist"      -> <<"prespawn">>
                      [] cmd = "cmd spawn"      -> <<"spawn">>
                      [] cmd = "skins"          -> <<"begin">>
                      [] OTHER                  -> <<>>]
HandleSkinsUnconnected(cmd, state) ==
    IF cmd = "accepted" THEN [state |-> "Connecting", reply |-> <<"new">>]
    ELSE [HandleAcceptedOnce(cmd, state) EXCEPT !.state = state]

\* handleServerCommand: the state it sets and the sign-on command it answers with.
HandleServerCommand(cmd, state) ==
    CASE cmd = "accepted"       -> [state |-> "Connecting", reply |-> <<"new">>]
      [] cmd = "fullserverinfo" -> [state |-> state, reply |-> <<"soundlist">>]
      [] cmd = "soundlist"      -> [state |-> state, reply |-> <<"modellist">>]
      [] cmd = "modellist"      -> [state |-> state, reply |-> <<"prespawn">>]
      [] cmd = "cmd spawn"      -> [state |-> state, reply |-> <<"spawn">>]
      [] cmd = "skins"          -> [state |-> "Connected", reply |-> <<"begin">>]
      [] OTHER                  -> [state |-> state, reply |-> <<>>]

HandleNext(sofar, cmd) ==
    LET one == HandleServerCommand(cmd, sofar.state)
    IN  [state |-> one.state, reply |-> sofar.reply \o one.reply]

\* The commands of a packet in turn: the client after the first n of them, for every n.
Handling(cmds, start) ==
    LET after[n \in 0 .. Len(cmds)] ==
            IF n = 0 THEN [state |-> start, reply |-> <<>>]
                     ELSE HandleNext(after[n - 1], cmds[n])
    IN  after

HandleAll(cmds, start) == Handling(cmds, start)[Len(cmds)]

\* processCommands from its test of the state on; oob went out before.
Process(s, p, replies, oob) ==
    LET heard == Incoming(s, p.seq, p.ack)
        out   == Outgoing(heard, replies)
    IN  \/ /\ s.state \in {"Disconnected", "Handshake"}
           /\ cl' = s
           /\ toServer' = toServer \o oob
        \/ /\ s.state = "Connected"               \* ErrRateLimit
           /\ cl' = Queued(heard, replies)
           /\ toServer' = toServer \o oob
        \/ /\ s.state \in {"Connecting", "Connected"}
           /\ s.outgoingSeq < MaxSeq
           /\ cl' = out.next
           /\ toServer' = toServer \o oob \o <<GamePacket(out)>>

ClientRead ==
    LET p       == Head(toClient)
        handled == HandleAll(p.cmds, cl.state)
    IN  /\ toClient # <<>>
        /\ toClient' = Tail(toClient)
        /\ Process(SetState(cl, handled.state), p, handled.reply,
                   IF p.cmds = <<"challenge">> THEN <<Oob("connect")>> ELSE <<>>)
        /\ UNCHANGED <<session, left>>

Quiet == toServer = <<>> /\ toClient = <<>>

\* The read deadline passes: a new challenge in Handshake, a packet later on.
ReadTimeout ==
    /\ \/ Quiet /\ UNCHANGED left
       \/ ~Quiet /\ left.early > 0 /\ left' = [left EXCEPT !.early = @ - 1]
    /\ \/ /\ cl.state = "Handshake"
          /\ cl' = AfterChallenge
          /\ toServer' = Append(toServer, Oob("getchallenge"))
       \/ /\ cl.state # "Handshake"
          /\ Process(cl, Oob("timeout"), <<>>, <<>>)
    /\ UNCHANGED <<session, toClient>>

------------------------------------------------------------------------------
(* The server.                                                              *)

\* lobbyCommand: the stage it sets and the command it answers with.
LobbyCommand(cmd, stage) ==
    CASE cmd = "new" ->
            [stage |-> "serverdata", reply |-> <<"serverdata", "fullserverinfo">>]
      [] cmd \in {"soundlist", "modellist"} /\ stage # "idle" ->
            [stage |-> stage, reply |-> <<cmd>>]
      [] cmd = "prespawn" /\ stage = "serverdata" ->
            [stage |-> "prespawn", reply |-> <<"cmd spawn">>]
      [] cmd = "spawn" /\ stage = "prespawn" ->
            [stage |-> "spawn", reply |-> <<"skins">>]
      [] cmd = "begin" /\ stage = "spawn" ->
            [stage |-> "active", reply |-> <<>>]
      [] OTHER -> [stage |-> stage, reply |-> <<>>]

DispatchNext(sofar, cmd) ==
    LET one == LobbyCommand(cmd, sofar.stage)
    IN  [stage |-> one.stage, reply |-> sofar.reply \o one.reply]

\* The session after the first n commands of a packet, for every n.
Dispatching(cmds, start) ==
    LET after[n \in 0 .. Len(cmds)] ==
            IF n = 0 THEN [stage |-> start, reply |-> <<>>]
                     ELSE DispatchNext(after[n - 1], cmds[n])
    IN  after

DispatchCommands(cmds, start) == Dispatching(cmds, start)[Len(cmds)]

AcceptPacket(s, p) ==
    LET seq      == Masked(p.seq)
        distance == IF seq >= s.incoming THEN seq - s.incoming
                                         ELSE seq + SeqLimit - s.incoming
    IN  ~s.received \/ (distance # 0 /\ 2 * distance < SeqLimit)

\* flushClient: number a packet for session s and send it.
FlushClient(s, replies) ==
    LET out == Outgoing(s.seq, replies)
    IN  /\ s.seq.outgoingSeq < MaxSeq
        /\ session' = [s EXCEPT !.seq = out.next]
        /\ toClient' = Append(toClient, GamePacket(out))

ServerRead ==
    LET p       == Head(toServer)
        heard   == [session EXCEPT
                      !.received = TRUE, !.incoming = Masked(p.seq),
                      !.seq = SetState(Incoming(@, p.seq, p.ack), "Connected")]
        handled == DispatchCommands(p.cmds, session.stage)
    IN  /\ toServer # <<>>
        /\ toServer' = Tail(toServer)
        /\ \/ /\ p.cmds = <<"getchallenge">>
              /\ toClient' = Append(toClient, Oob("challenge"))
              /\ UNCHANGED session
           \/ /\ p.cmds = <<"connect">>
              /\ session' = NewSession
              /\ toClient' = Append(toClient, Oob("accepted"))
           \/ /\ p.kind = "game"
              /\ session = Nobody \/ ~AcceptPacket(session, p)
              /\ UNCHANGED <<session, toClient>>
           \/ /\ p.kind = "game"
              /\ session # Nobody /\ AcceptPacket(session, p)
              /\ FlushClient([heard EXCEPT !.stage = handled.stage], handled.reply)
        /\ UNCHANGED <<cl, left>>

\* The application calls Flush.
Flush ==
    /\ session # Nobody
    /\ left.flushes > 0 /\ left' = [left EXCEPT !.flushes = @ - 1]
    /\ FlushClient(session, <<>>)
    /\ UNCHANGED <<cl, toServer>>

------------------------------------------------------------------------------
(* What goes wrong.                                                         *)

Lose ==
    /\ left.losses > 0 /\ left' = [left EXCEPT !.losses = @ - 1]
    /\ \/ toServer # <<>> /\ toServer' = Tail(toServer) /\ UNCHANGED toClient
       \/ toClient # <<>> /\ toClient' = Tail(toClient) /\ UNCHANGED toServer
    /\ UNCHANGED <<cl, session>>

\* The server is down when a packet reaches it; the client reads ECONNREFUSED,
\* waits until the server is back and starts again.
Restart ==
    /\ left.restarts > 0 /\ left' = [left EXCEPT !.restarts = @ - 1]
    /\ session' = Nobody
    /\ cl' = AfterChallenge
    /\ toServer' = <<Oob("getchallenge")>>
    /\ UNCHANGED toClient

------------------------------------------------------------------------------
Next == ClientRead \/ ReadTimeout \/ ServerRead \/ Flush \/ Lose \/ Restart

\* What is on its way arrives, and the client's deadline passes when nothing is.
\* Its rate limit ends with time.
Fairness ==
    /\ WF_vars(ClientRead) /\ WF_vars(ServerRead) /\ WF_vars(ReadTimeout)
    /\ SF_vars(ReadTimeout /\ toServer' # toServer)

Spec == Init /\ [][Next]_vars

FairSpec == Spec /\ Fairness

------------------------------------------------------------------------------
\* Whatever is lost, late or restarted on the way, the client ends up in the game:
\* the server has it as active and it knows that it is connected.  Left out are the
\* behaviours that may both lose a packet and have a deadline pass too early: in
\* them the client can stay in Connecting for ever.
SignOnCompletes ==
    ~(left.losses > 0 /\ left.early > 0) =>
        <>[](session.stage = "active" /\ cl.state = "Connected")

\* The server takes a client for active only when the client has been told to
\* begin and still regards itself as connected.
ActiveIsConnected == session.stage = "active" => cl.state = "Connected"
==============================================================================
