---------------------------- MODULE SequencedLink ----------------------------
(***************************************************************************)
(* One established connection: the sequencer of a client (client/quake)    *)
(* and the sequencer that the server (server/quake) keeps for it, joined   *)
(* by UDP.  Reliable commands are numbered 1, 2, ... in the order in which *)
(* their sender queues them; clGot and svGot record what each side handed  *)
(* to its command handlers.                                                *)
(*                                                                         *)
(* Client to server the network loses, duplicates and reorders at will:    *)
(* c2s keeps every packet ever sent and any of them may arrive at any      *)
(* time, which acceptPacket is there to handle.  Server to client a packet *)
(* arrives at most once, because the client has no such filter; whether    *)
(* packets may overtake each other is the constant Reordering.             *)
(***************************************************************************)
EXTENDS Sequencer

CONSTANTS MaxClientSeq,   \* bound: packets the client numbers
          MaxServerSeq,   \* bound: packets the server numbers
          MaxClientCmds,  \* bound: reliable commands of the client
          MaxServerCmds,  \* bound: reliable commands of the server
          Reordering      \* may server packets overtake each other?

ASSUME LinkAssumption ==
    /\ MaxClientSeq \in Nat /\ 2 * MaxClientSeq <= SeqLimit
    /\ MaxServerSeq \in Nat \ {0} /\ 2 * MaxServerSeq <= SeqLimit
    /\ MaxClientCmds \in Nat /\ MaxServerCmds \in Nat
    /\ Reordering \in BOOLEAN

VARIABLES cl,        \* the client's sequencer (Client.seq)
          clCmds,    \* Client.cmds: queued by Enqueue, not yet processed
          clSent,    \* commands the client has queued so far
          clGot,     \* server commands handled by the client
          sv,        \* the server's sequencer for this client (client.seq)
          received,  \* client.received
          incoming,  \* client.incoming
          serving,   \* Serve has accepted a packet and not yet answered it
          svSent,    \* reliable commands the server has queued so far
          svGot,     \* client commands handled by the server
          c2s,       \* every packet the client ever sent
          s2c        \* server packets that can still arrive

clVars == <<cl, clCmds, clSent, clGot>>
svVars == <<sv, received, incoming, serving, svSent, svGot>>
vars   == <<clVars, svVars, c2s, s2c>>

ClientCommand == 1 .. MaxClientCmds
ServerCommand == 1 .. MaxServerCmds
Packet(Command) == [seq : Word, ack : Word, cmds : Seq(Command)]

Init ==
    /\ cl = SetState(NewSequencer(0), "Connecting")
    /\ clCmds = <<>> /\ clSent = 0 /\ clGot = <<>>
    /\ sv = NewSequencer(1)
    /\ received = FALSE /\ incoming = 0 /\ serving = FALSE
    /\ svSent = 0 /\ svGot = <<>>
    /\ c2s = {} /\ s2c = {}

------------------------------------------------------------------------------
(* The client: one goroutine reads and answers, any other may Enqueue.      *)

Enqueue ==
    /\ clSent < MaxClientCmds
    /\ clSent' = clSent + 1
    /\ clCmds' = Append(clCmds, clSent')
    /\ UNCHANGED <<cl, clGot, svVars, c2s, s2c>>

\* processCommands from the call of seq.Process on, for the sequencer in state s.
Process(s, seqWord, ackWord) ==
    LET heard == Incoming(s, seqWord, ackWord)
        out   == Outgoing(heard, clCmds)
    IN  /\ clCmds' = <<>>
        /\ \/ /\ s.state = "Connected"            \* ErrRateLimit
              /\ cl' = Queued(heard, clCmds)
              /\ UNCHANGED c2s
           \/ /\ s.outgoingSeq < MaxClientSeq
              /\ cl' = out.next
              /\ c2s' = c2s \cup {[seq |-> out.seq, ack |-> out.ack, cmds |-> out.cmds]}

ReadTimeout ==
    /\ Process(cl, 0, 0)
    /\ UNCHANGED <<clSent, clGot, svVars, s2c>>

\* What the network can still deliver once q has arrived.
After(q) ==
    IF Reordering THEN s2c \ {q}
                  ELSE {r \in s2c : Masked(r.seq) > Masked(q.seq)}

\* Handlers run before the sequencer sees the header, and may change its state.
ClientRead(q) ==
    /\ s2c' = After(q)
    /\ clGot' = clGot \o q.cmds
    /\ \E state \in {"Connecting", "Connected"} :
          Process(SetState(cl, state), q.seq, q.ack)
    /\ UNCHANGED <<clSent, svVars>>

------------------------------------------------------------------------------
(* The server: Serve reads packets one at a time; flushClient also runs on  *)
(* the goroutines that call Flush, between Serve's accept and its answer.   *)

Distance(seq) ==
    IF seq >= incoming THEN seq - incoming ELSE seq + SeqLimit - incoming

\* Mutant: a duplicate of the last packet is accepted again.
AcceptPacketTwice(p) == ~received \/ 2 * Distance(Masked(p.seq)) < SeqLimit

AcceptPacket(p) ==
    \/ ~received
    \/ Distance(Masked(p.seq)) # 0 /\ 2 * Distance(Masked(p.seq)) < SeqLimit

ServerRead(p) ==
    /\ ~serving
    /\ AcceptPacket(p)
    /\ received' = TRUE
    /\ incoming' = Masked(p.seq)
    /\ sv' = SetState(Incoming(sv, p.seq, p.ack), "Connected")
    /\ svGot' = svGot \o p.cmds
    /\ serving' = TRUE
    /\ UNCHANGED <<clVars, svSent, c2s, s2c>>

\* flushClient with n new reliable commands: answers, or scoreboard updates.
FlushClient(n) ==
    LET new == [i \in 1 .. n |-> svSent + i]
        out == Outgoing(sv, new)
    IN  /\ sv.outgoingSeq < MaxServerSeq
        /\ svSent + n <= MaxServerCmds
        /\ svSent' = svSent + n
        /\ sv' = out.next
        /\ s2c' = s2c \cup {[seq |-> out.seq, ack |-> out.ack, cmds |-> out.cmds]}

Flush ==
    /\ \E n \in 0 .. 1 : FlushClient(n)
    /\ UNCHANGED <<clVars, received, incoming, serving, svGot, c2s>>

Answer ==
    /\ serving
    /\ serving' = FALSE
    /\ \E n \in 0 .. 2 : FlushClient(n)
    /\ UNCHANGED <<clVars, received, incoming, svGot, c2s>>

\* A handler asked for the packet to be consumed: no answer.
Consume ==
    /\ serving
    /\ serving' = FALSE
    /\ UNCHANGED <<clVars, sv, received, incoming, svSent, svGot, c2s, s2c>>

------------------------------------------------------------------------------
Next ==
    \/ Enqueue
    \/ ReadTimeout
    \/ \E q \in s2c : ClientRead(q)
    \/ \E p \in c2s : ServerRead(p)
    \/ Flush
    \/ Answer
    \/ Consume

Spec == Init /\ [][Next]_vars

------------------------------------------------------------------------------
\* Types: the sequencers' fields, the packets' words and commands, the counters.
TypeOK ==
    /\ cl \in SequencerType(ClientCommand)
    /\ sv \in SequencerType(ServerCommand)
    /\ clCmds \in Seq(ClientCommand)
    /\ clSent \in 0 .. MaxClientCmds /\ svSent \in 0 .. MaxServerCmds
    /\ clGot \in Seq(ServerCommand) /\ svGot \in Seq(ClientCommand)
    /\ received \in BOOLEAN /\ serving \in BOOLEAN
    /\ incoming \in 0 .. (SeqLimit - 1)
    /\ c2s \subseteq Packet(ClientCommand)
    /\ s2c \subseteq Packet(ServerCommand)

C2S == INSTANCE ReliableStream WITH sent <- clSent, got <- svGot
S2C == INSTANCE ReliableStream WITH sent <- svSent, got <- clGot

\* The client's reliable commands reach the server's handlers in order, each
\* exactly once, whatever the network loses, duplicates or reorders on the way.
ClientCommandsExactlyOnce == C2S!Spec

\* The same for the server's commands when its packets arrive in order.
ServerCommandsExactlyOnce == S2C!Spec

Elements(s) == {s[i] : i \in 1 .. Len(s)}

\* A sequencer lets go of a reliable command only when the other side has handled
\* it: until then the command is queued or in the batch in flight.  This is what
\* is left of the server's promise when its packets overtake each other.
ServerCommandsKept ==
    1 .. svSent =
        Elements(clGot) \cup Elements(sv.outgoingCommandsBuf)
                        \cup Elements(sv.outgoingCommands)

------------------------------------------------------------------------------
(* Why it works: the inductive invariant, written for one direction with   *)
(* sender S and receiver R, and used for both.                             *)

Upto(n) == [i \in 1 .. n |-> i]

\* The batch in flight, as long as the receiver has not handled it.
Undelivered(S, R) ==
    IF S.isOutgoingSeqReliable # R.isIncomingSeqReliable
    THEN S.outgoingCommandsBuf ELSE <<>>

\* Handled, then in flight, then queued: every command, in order, once.
Conserved(S, R, queue, sent, got) ==
    got \o (Undelivered(S, R) \o (S.outgoingCommands \o queue)) = Upto(sent)

\* An empty batch buffer means that the last batch was handled.
ReleasedWhenHandled(S, R) ==
    S.outgoingCommandsBuf = <<>> =>
        S.isOutgoingSeqReliable = R.isIncomingSeqReliable

\* data is what the receiver would still accept: only the latest copy of the
\* batch in flight is reliable, and only while the batch is not handled.
OnlyLatestBatch(S, R, data) ==
    \A p \in data :
        /\ Masked(p.seq) < S.outgoingSeq
        /\ ~IsReliable(p.seq) => p.cmds = <<>>
        /\ IsReliable(p.seq) =>
              /\ Masked(p.seq) + 1 = S.lastReliableSeq
              /\ p.cmds = S.outgoingCommandsBuf
              /\ S.isOutgoingSeqReliable # R.isIncomingSeqReliable

\* acks is what the sender may still hear: in sequence order the reliable bit
\* changes at most once, and it has changed once the batch was released.
AcksSettle(S, R, acks) ==
    /\ \A q \in acks :
          /\ Masked(q.seq) < R.outgoingSeq
          /\ (\/ S.outgoingCommandsBuf = <<>>
              \/ S.isOutgoingSeqReliable # R.isIncomingSeqReliable)
             => IsReliable(q.ack) = R.isIncomingSeqReliable
    /\ \A q, r \in acks :
          /\ Masked(q.seq) < Masked(r.seq)
          /\ IsReliable(q.ack) = R.isIncomingSeqReliable
          => IsReliable(r.ack) = R.isIncomingSeqReliable

\* An acknowledgement that makes the sender resend proves the batch was lost.
ResendIsNeeded(S, R, ack, ackReliable) ==
    /\ ack <= R.incomingSeq
    /\ (ack > S.lastReliableSeq /\ ackReliable # S.isOutgoingSeqReliable)
       => S.isOutgoingSeqReliable # R.isIncomingSeqReliable

Direction(S, R, data, acks) ==
    /\ S.lastReliableSeq <= S.outgoingSeq
    /\ R.incomingSeq <= S.outgoingSeq
    /\ ReleasedWhenHandled(S, R)
    /\ OnlyLatestBatch(S, R, data)
    /\ AcksSettle(S, R, acks)
    /\ ResendIsNeeded(S, R, S.incomingAck, S.isIncomingAckReliable)
    /\ \A q \in acks : ResendIsNeeded(S, R, Masked(q.ack), IsReliable(q.ack))

\* What the server would accept.
ToServer == {p \in c2s : received => Masked(p.seq) > incoming}

\* The packets of net that sequencer s would not ignore.  Until the first one is
\* heard that includes the zero header of a read timeout.
Audible(net, s) ==
    {q \in net : Masked(q.seq) > s.incomingSeq}
        \cup (IF s.incomingSeq = 0
              THEN {[seq |-> 0, ack |-> 0, cmds |-> <<>>]} ELSE {})

ToClient == Audible(s2c, cl)

LinkBounds ==
    /\ cl.outgoingSeq <= MaxClientSeq /\ sv.outgoingSeq <= MaxServerSeq
    /\ cl.incomingSeq < sv.outgoingSeq
    /\ incoming = sv.incomingSeq /\ (received \/ incoming = 0)
    /\ \A q \in s2c :
          /\ 0 < Masked(q.seq) /\ Masked(q.seq) < sv.outgoingSeq
          /\ Masked(q.seq) # cl.incomingSeq
          /\ \A r \in s2c : Masked(q.seq) = Masked(r.seq) => q = r

\* The state of the connection from the client's side as sender: each command is
\* handled, in flight or queued exactly once, no packet the server could still
\* accept carries an old batch, and no acknowledgement the client could still
\* hear releases or repeats a batch wrongly.
ClientStreamInv ==
    /\ LinkBounds
    /\ Direction(cl, sv, ToServer, ToClient)
    /\ Conserved(cl, sv, clCmds, clSent, svGot)

\* The same for the server as sender, when its packets arrive in order.
ServerStreamInv ==
    /\ LinkBounds
    /\ ~Reordering =>
          /\ Direction(sv, cl, s2c, ToServer)
          /\ \A q \in s2c : Masked(q.seq) > cl.incomingSeq
          /\ Conserved(sv, cl, <<>>, svSent, clGot)
==============================================================================
