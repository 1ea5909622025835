---------------------------- MODULE QizmoClient -----------------------------
(***************************************************************************)
(* The client's packets on a compressed link: ClientEncoder behind the     *)
(* proxy's qizmoPeerConn, ClientDecoder and the handshake at the end of    *)
(* the server (net/qizmo, proxy/peer.go), and a network between them that  *)
(* loses, repeats and reorders packets.                                    *)
(*                                                                         *)
(* The client is external: under each number it makes one command, and its *)
(* packet repeats the two commands before.  Its packets may already be     *)
(* lost or repeated before they reach the encoder.                         *)
(***************************************************************************)
EXTENDS QizmoMoves

CONSTANTS
  Packets,      \* for each script the packets the client may send: see Fill
  Commands,     \* the commands of the client, used in turn
  NameTables,   \* for each script the player names of the server, in the order they are in force
  Asking,       \* the scripts in which the server's end asks for the handshake
  Response,     \* the text that answers the advertisement of the handshake
  MaxDelta,     \* maxClientSequenceDelta: 28 in the code
  LinkSize,     \* numbers of the link's header: 2^14 in the code
  StartSeq,     \* the number of the packet that both ends have seen
  AckLag,       \* the acknowledgement of a packet is this far behind its number
  Gaps,         \* for each script the distances of the packets that reach the encoder
  MaxPackets, MaxInFlight, MaxFaults   \* bounds

VARIABLES
  script,       \* the script of this behaviour
  enc,          \* ClientEncoder
  dec,          \* ClientDecoder: its LinkSequences and moves
  proxyNames,   \* EndpointState.playerNames at the proxy, and at the server's end
  serverNames,
  handshake,    \* of ServerPeerHandshake and the client: none, lost, asked or answered
  clientSeq,    \* the number of the client's last packet, and how many there were
  sent,
  net,          \* packets on their way, a sequence
  newest,       \* the highest number that the decoder has been given
  last,         \* what the decoder made of the last packet
  inStep,       \* nothing was lost, repeated, overtaken or dropped since a raw packet with a move
  faults        \* how many packets have been lost, repeated or overtaken

vars == <<script, enc, dec, proxyNames, serverNames, handshake, clientSeq, sent, net, newest, last,
          inStep, faults>>

Names == NameTables[script]
Command(n) == Commands[(n % Len(Commands)) + 1]
Reliable(n) == n % 2 = 1

\* packLinkSequence, expandLinkSequence: a number and its reliable bit.
PackSequence(n) == [low |-> n % LinkSize, reliable |-> Reliable(n)]

\* Mutant: the numbers of the link never start again.
ExpandSequenceOnce(previous, wire) ==
  [n |-> previous - (previous % LinkSize) + wire.low, reliable |-> wire.reliable]

ExpandSequence(previous, wire) ==
  LET candidate == previous - (previous % LinkSize) + wire.low
  IN [n |-> IF candidate + LinkSize \div 2 < previous THEN candidate + LinkSize ELSE candidate,
      reliable |-> wire.reliable]

-----------------------------------------------------------------------------

\* The operations of a client's packet; in a template a move and a delta have yet to be filled in.
Fill(template, seq) ==
  [i \in DOMAIN template |->
     CASE template[i].op = "move" ->
            [op |-> "move", checksum |-> seq % 7, lossage |-> seq % 5,
             wire |-> WireMove([k \in 1..CommandCount |-> Command(seq - CommandCount + k)])]
       [] template[i].op = "delta" ->
            [op |-> "delta", ack |-> (seq - AckLag - template[i].behind) % ByteSize]
       [] OTHER -> template[i]]

IsHeaderDelta(op, ack) == op.op = "delta" /\ op.ack = ack % ByteSize

\* sequenceTracker.observe: the tracker never goes back.
Newer(seq, previous) == IF seq > previous THEN seq ELSE previous

\* ClientEncoder.Encode: whether a packet is compressed.
CanCompress(e, seq, ops, names) ==
  LET delta == seq - e.last
  IN /\ e.enabled /\ delta \in 1..MaxDelta
     /\ HasMove(e.moves, seq - delta)
     /\ \A i \in DOMAIN ops :
          /\ ops[i].op \notin RawOnly
          /\ ops[i].op = "move" => BaseKnown(e.moves, seq, delta)
          /\ ops[i].op = "stringcmd" => TextSymbols(ops[i].text, names).ok

OperationSymbols(e, op, seq, delta, names) ==
  TypeSymbols(op.op) \o IF op.op = "move" THEN MoveSymbols(e.moves, op, seq, delta) ELSE OtherSymbols(op, names)

\* The packet for the network, and the encoder after it.  A compressed packet tells the decoder
\* only the commands since the packet before.
Encode(e, p, names) ==
  LET delta == p.seq - e.last
      kept == SelectSeq(p.ops, LAMBDA op : ~IsHeaderDelta(op, p.ack))
      after(first) == [e EXCEPT !.moves = CommitMoves(@, p.ops, p.seq, first), !.last = Newer(p.seq, @)]
  IN IF CanCompress(e, p.seq, p.ops, names)
     THEN [enc |-> after(FirstSent(delta)),
           packet |-> [compressed |-> TRUE, seq |-> PackSequence(p.seq), ack |-> PackSequence(p.ack),
                       clcDelta |-> kept # p.ops,
                       body |-> Sym(Row("sequenceDelta"), delta)
                                \o Concat([i \in DOMAIN kept |-> OperationSymbols(e, kept[i], p.seq, delta, names)])
                                \o TypeSymbols("bad")]]
     ELSE [enc |-> after(1),
           packet |-> [compressed |-> FALSE, seq |-> [n |-> p.seq, reliable |-> Reliable(p.seq)],
                       ack |-> [n |-> p.ack, reliable |-> Reliable(p.ack)], clcDelta |-> FALSE, body |-> p.ops]]

-----------------------------------------------------------------------------

\* One operation after its type.
DecodeOperation(r, type, moves, seq, delta, names) ==
  IF type = "move" THEN ReadMove(r, moves, seq, delta) ELSE ReadOperation(r, type, names)

\* decodeClientOperations; a move without history ends the packet.
RECURSIVE DecodeOperations(_, _, _, _, _, _)
DecodeOperations(r, ops, moves, seq, delta, names) ==
  Then(ReadType(r), LAMBDA type :
    IF type.rec = "bad" THEN [type EXCEPT !.rec = [known |-> TRUE, ops |-> ops]]
    ELSE IF type.rec = "move" /\ ~MoveKnown(moves, seq, delta)
    THEN [type EXCEPT !.rec = [known |-> FALSE, ops |-> ops]]
    ELSE Then(DecodeOperation(type, type.rec, moves, seq, delta, names), LAMBDA one :
           DecodeOperations(one, Append(ops, one.rec), moves, seq, delta, names)))

\* Mutant: the folded delta is forgotten.
UnfoldNot(ops, clcDelta, ack) == ops

\* A folded clc_delta comes back as the last operation.
Unfold(ops, clcDelta, ack) == IF clcDelta THEN Append(ops, [op |-> "delta", ack |-> ack % ByteSize]) ELSE ops

Result(d, status, seq, ack, ops) ==
  [dec |-> d, out |-> [status |-> status, seq |-> seq, ack |-> ack, ops |-> ops]]

\* The end of decodeCompressedPacket: nothing of a packet that fails is kept but its numbers.
FinishPacket(all, d, seq, ack, delta, clcDelta) ==
  LET ops == Unfold(all.rec.ops, clcDelta, ack.n)
  IN IF all.bad THEN Result(d, "error", seq, ack, <<>>)
     ELSE IF ~all.rec.known THEN Result(d, "rejected", seq, ack, <<>>)
     ELSE Result([d EXCEPT !.moves = CommitMoves(@, ops, seq.n, FirstSent(delta))], "decoded", seq, ack, ops)

\* decodeCompressedPacket
DecodeCompressed(d, packet, names) ==
  LET seq == ExpandSequence(d.seq, packet.seq)
      ack == ExpandSequence(d.ack, packet.ack)
      delta == ReadValue(Reader(packet.body, 0), Row("sequenceDelta"))
  IN FinishPacket(DecodeOperations(delta, <<>>, d.moves, seq.n, delta.rec, names),
                  [d EXCEPT !.seq = seq.n, !.ack = ack.n], seq, ack, delta.rec, packet.clcDelta)

\* Mutant: the decoder learns only the numbers of a raw packet.
ObserveRawNumbers(d, packet) == [d EXCEPT !.seq = packet.seq.n, !.ack = packet.ack.n]

\* observeRawPacket
ObserveRaw(d, packet) ==
  [seq |-> packet.seq.n, ack |-> packet.ack.n, moves |-> CommitMoves(d.moves, packet.body, packet.seq.n, 1)]

\* ClientDecoder.Decode
Decode(d, packet, names) ==
  IF packet.compressed THEN DecodeCompressed(d, packet, names)
  ELSE Result(ObserveRaw(d, packet), "raw", packet.seq, packet.ack, packet.body)

\* DecodeWithExtensions, then ConsumeResponse: what is sent on to the server.
Ordinary(ops) == SelectSeq(ops, LAMBDA op : op.op \notin ExtensionOps)
Answer == [op |-> "stringcmd", text |-> Response]
Consume(ops, advertised) ==
  LET at == {i \in DOMAIN ops : ops[i] = Answer}
  IN IF ~advertised \/ at = {} THEN ops ELSE RemoveAt(ops, CHOOSE i \in at : \A j \in at : i <= j)

-----------------------------------------------------------------------------

\* The proxy has decoded a compressed packet of the server (qizmoPeerConn.ReadPacket).
Enable ==
  /\ ~enc.enabled
  /\ enc' = [enc EXCEPT !.enabled = TRUE]
  /\ UNCHANGED <<script, dec, proxyNames, serverNames, handshake, clientSeq, sent, net, newest, last, inStep, faults>>

\* Advertise: once, in a packet of the server that may be lost.
Advertise ==
  /\ handshake = "none" /\ script \in Asking
  /\ handshake' \in {"lost", "asked"}
  /\ UNCHANGED <<script, enc, dec, proxyNames, serverNames, clientSeq, sent, net, newest, last, inStep, faults>>

\* The server encodes a packet that changes a name; later the proxy decodes it.
Rename ==
  /\ serverNames < Len(Names)
  /\ serverNames' = serverNames + 1
  /\ UNCHANGED <<script, enc, dec, proxyNames, handshake, clientSeq, sent, net, newest, last, inStep, faults>>
NamesArrive ==
  /\ proxyNames # serverNames
  /\ proxyNames' = serverNames
  /\ UNCHANGED <<script, enc, dec, serverNames, handshake, clientSeq, sent, net, newest, last, inStep, faults>>

\* qizmoPeerConn.WritePacket
WritePacket ==
  /\ sent < MaxPackets /\ Len(net) < MaxInFlight
  /\ \E gap \in Gaps[script], template \in Packets[script] :
       LET seq == clientSeq + gap
           ops == (IF handshake = "asked" THEN <<Answer>> ELSE <<>>) \o Fill(template, seq)
       IN /\ clientSeq' = seq /\ sent' = sent + 1
          /\ \E out \in {Encode(enc, [seq |-> seq, ack |-> seq - AckLag, ops |-> ops], Names[proxyNames])} :
               /\ enc' = out.enc
               /\ net' = Append(net, [seq |-> seq, ops |-> ops, names |-> proxyNames, packet |-> out.packet])
          /\ handshake' = IF handshake = "asked" THEN "answered" ELSE handshake
  /\ UNCHANGED <<script, dec, proxyNames, serverNames, newest, last, inStep, faults>>

\* What is taken for granted of the network: see QizmoCodec.
InTime(n) == n \div LinkSize >= dec.seq \div LinkSize /\ (n - AckLag) \div LinkSize >= dec.ack \div LinkSize

HasMoveOp(ops) == \E i \in DOMAIN ops : ops[i].op = "move"

\* serverEndpointCodecs.towardServer of the forwarder: ClientDecoder and the handshake.
\* The oldest packet, which may arrive again, or one that has overtaken others.
Deliver == \E i \in DOMAIN net, again \in BOOLEAN :
  LET m == net[i]
      orderly == i = 1 /\ ~again
      fresh == m.seq > newest
  IN /\ again => i = 1
     /\ InTime(m.seq)
     /\ \E step \in {Decode(dec, m.packet, Names[serverNames])} :
          /\ dec' = step.dec
          /\ last' = [out |-> step.out, seq |-> m.seq, ops |-> m.ops, fresh |-> fresh,
                      forwarded |-> Consume(Ordinary(step.out.ops), handshake # "none"),
                      sameNames |-> m.names = serverNames]
          /\ inStep' = ((inStep \/ (~m.packet.compressed /\ HasMoveOp(m.ops) /\ fresh)) /\ orderly
                        /\ step.out.status # "error")
     /\ newest' = Newer(m.seq, newest)
     /\ net' = IF again THEN net ELSE RemoveAt(net, i)
     /\ faults' = faults + (IF orderly THEN 0 ELSE 1)
     /\ faults' <= MaxFaults
     /\ UNCHANGED <<script, enc, proxyNames, serverNames, handshake, clientSeq, sent>>

Lose ==
  /\ net # <<>> /\ faults < MaxFaults
  /\ net' = Tail(net)
  /\ faults' = faults + 1
  /\ inStep' = FALSE
  /\ UNCHANGED <<script, enc, dec, proxyNames, serverNames, handshake, clientSeq, sent, newest, last>>

\* Both ends have seen a raw packet with a move.
Init ==
  LET moves == CommitMoves(<<>>, Fill(<<[op |-> "move"]>>, StartSeq), StartSeq, 1)
  IN /\ script \in DOMAIN Packets
     /\ enc = [enabled |-> FALSE, last |-> StartSeq, moves |-> moves]
     /\ dec = [seq |-> StartSeq, ack |-> StartSeq - AckLag, moves |-> moves]
     /\ proxyNames = 1 /\ serverNames = 1 /\ handshake = "none"
     /\ clientSeq = StartSeq /\ sent = 0 /\ net = <<>> /\ newest = StartSeq
     /\ last = [out |-> [status |-> "none"], seq |-> 0, ops |-> <<>>, fresh |-> FALSE, forwarded |-> <<>>,
                sameNames |-> TRUE]
     /\ inStep = TRUE /\ faults = 0

Next ==
  \/ Enable \/ Advertise \/ Rename \/ NamesArrive \/ WritePacket \/ Deliver \/ Lose

Spec == Init /\ [][Next]_vars

-----------------------------------------------------------------------------

\* What the server should be sent of a client's packet: no extensions, no answer to the
\* handshake, and a delta to the acknowledged frame at the end.
Due(ops, ack) ==
  LET kept == SelectSeq(ops, LAMBDA op : op.op \notin ExtensionOps /\ op # Answer)
  IN SelectSeq(kept, LAMBDA op : ~IsHeaderDelta(op, ack)) \o SelectSeq(kept, LAMBDA op : IsHeaderDelta(op, ack))

\* The lossage of a move is coded against that of a remembered packet, which a late packet may
\* have replaced at one end only: it is compared while the ends are in step.
Judged(ops) ==
  [i \in DOMAIN ops |-> IF ops[i].op = "move" /\ ~inStep THEN [ops[i] EXCEPT !.lossage = 0] ELSE ops[i]]

\* Whatever is lost, repeated or overtaken, a packet that comes out of the decoder, and that the
\* server does not ignore as old, is the one the client sent: its numbers with their reliable
\* bits, and every operation.  A text may differ if a name that it contains has changed in
\* between (ClientDecoder.Decode, playerNames).
ClientReproduced ==
  last.out.status \in {"raw", "decoded"} /\ last.fresh /\ last.sameNames =>
    /\ last.out.seq = [n |-> last.seq, reliable |-> Reliable(last.seq)]
    /\ last.out.ack = [n |-> last.seq - AckLag, reliable |-> Reliable(last.seq - AckLag)]
    /\ Due(Judged(last.forwarded), last.seq - AckLag) = Due(Judged(last.ops), last.seq - AckLag)
    /\ ~\E i \in DOMAIN last.forwarded : last.forwarded[i].op \in ExtensionOps \cup {"bad"} \/ last.forwarded[i] = Answer

\* The decoder is never out of step with the bits and symbols of a packet.
ClientInStep == last.sameNames => last.out.status # "error"

\* The commands that both ends remember are the ones the client made, under their own numbers.
MovesAreTheClients ==
  \A moves \in {enc.moves, dec.moves} : \A s \in DOMAIN moves : moves[s].command = Command(moves[s].seq)

\* A packet is rejected for want of history only after a loss or a reordering, and a raw packet
\* with a move heals the link again.
RejectedOnlyAfterFault == inStep /\ last.fresh => last.out.status # "rejected"
=============================================================================
