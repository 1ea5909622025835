----------------------------- MODULE QizmoCodec -----------------------------
(***************************************************************************)
(* The server's packets on a compressed link: ServerEncoder at the end of  *)
(* the server, ServerDecoder at the end of the client (net/qizmo,          *)
(* protocol/qizmo/link.go), and between them a network that loses, repeats *)
(* and reorders packets.                                                   *)
(*                                                                         *)
(* The QuakeWorld server and client are external.  The server answers each *)
(* of the client's packets that arrives, under the number of that packet;  *)
(* it sends the map until the client has it and frames of the game after   *)
(* that, their entities in full or as a delta to the last frame that the   *)
(* client has accepted.  The client accepts packets in increasing order.   *)
(***************************************************************************)
EXTENDS QizmoPacket

CONSTANTS
  Worlds,       \* the frames the server may send, by script
  First,        \* the frame before the first turn
  SignOns,      \* the operations that describe each map, in the order they are played
  LinkSize,     \* numbers of the link's header: 2^14 in the code
  StartSeq,     \* the number of the client's packet before the first turn
  MaxTurns,     \* bound on the packets of the client, by script
  MaxInFlight,  \* bound on the packets in the network
  MaxFaults     \* bound on the packets that are lost, repeated or overtaken, by script

VARIABLES
  enc,          \* ServerEncoder.packet
  encLast,      \* ServerEncoder.sequences.last
  resync,       \* EndpointState.s2cResyncRequested
  dec,          \* ServerDecoder.packet
  decLast,      \* ServerDecoder.sequences.sequence
  net,          \* packets on their way, a sequence
  clientSeq,    \* the number of the client's last packet
  client,       \* the last packet accepted, the last with entities, the map it has
  server,       \* the script, the map, the operations and entities sent under each number
  last,         \* what the decoder made of the last packet it was given
  faults        \* how many packets have been lost, repeated or overtaken

vars == <<enc, encLast, resync, dec, decLast, net, clientSeq, client, server, last, faults>>

\* The duration of the client's command with this number.
Msec(n) == 10 + 3 * (n % 2)

\* observeClientMovement: each packet repeats the two commands before its own.
ObserveClient(st, seq) ==
  FoldLeft(LAMBDA s, i : SetCommandScale(s, seq - i, Msec(seq - i)), st, <<2, 1, 0>>)

\* packLinkSequence, expandLinkSequence
PackSequence(seq) == seq % LinkSize

\* Mutant: the numbers of the link never start again.
ExpandSequenceOnce(previous, low) == previous - (previous % LinkSize) + low

ExpandSequence(previous, low) ==
  LET candidate == previous - (previous % LinkSize) + low
  IN IF candidate + LinkSize \div 2 < previous THEN candidate + LinkSize ELSE candidate

-----------------------------------------------------------------------------

\* The entities of a frame, as the server writes them.
EntityOp(ents, delta, baselines) ==
  IF delta = 0 THEN [op |-> "packetentities", wire |-> WireEntities(<<>>, ents, baselines)]
  ELSE [op |-> "deltapacketentities", base |-> delta % ByteSize,
        wire |-> WireEntities(server.sent[delta].ents, ents, baselines)]

SignOnBaselines(ops) ==
  LET recs == {ops[i].rec : i \in {j \in DOMAIN ops : ops[j].op = "spawnbaseline"}}
  IN [n \in {r["number"] : r \in recs} |-> CHOOSE r \in recs : r["number"] = n]

FrameOps(world, delta) ==
  world.before
  \o (IF world.hasEntities
      THEN <<EntityOp(world.ents, delta, SignOnBaselines(SignOns[server.map]))>> ELSE <<>>)
  \o world.after

\* ServerEncoder.Encode: the packet for the network and what the encoder remembers.  A packet
\* that would not become shorter is sent as it is.
Encode(st, seq, ops, shorter) ==
  LET base == IF resync THEN NoBase(st) ELSE SelectBase(st, seq, encLast)
      Compressed(body) ==
        [packet |-> [seq |-> seq, compressed |-> TRUE, wire |-> PackSequence(seq),
                     syms |-> body.syms, ops |-> <<>>],
         st |-> CommitPlan(st, seq, ops, base, body.ctx)]
  IN IF shorter /\ Supported(st, seq, ops, encLast, base) THEN Compressed(EncodeBody(st, ops, base))
     ELSE [packet |-> [seq |-> seq, compressed |-> FALSE, wire |-> seq, syms |-> <<>>, ops |-> ops],
           st |-> Observe(st, ops, seq)]

\* The client's next packet: the decoder's end sees it, and it may be lost before the other.
ClientPacketLost ==
  /\ clientSeq < StartSeq + MaxTurns[server.script]
  /\ clientSeq' = clientSeq + 1
  /\ dec' = ObserveClient(dec, clientSeq + 1)
  /\ UNCHANGED <<enc, encLast, resync, decLast, net, client, server, last, faults>>

\* What the server may answer with: the description of a map that the client does not know yet, or
\* a frame, in full if the client has none that it could be a delta to.
Answers ==
  LET delta(world) ==
        IF world.full \/ ~world.hasEntities \/ clientSeq + 1 - client.valid >= HistorySize THEN 0
        ELSE client.valid
  IN IF client.map # server.map THEN {[ops |-> SignOns[server.map], ents |-> <<>>, shorter |-> {TRUE}]}
     ELSE {[ops |-> FrameOps(world, delta(world)), ents |-> world.ents, shorter |-> world.shorter]
           : world \in Worlds[server.script]}

\* The client's next packet, which the server answers.
Answer ==
  LET seq == clientSeq + 1
  IN /\ clientSeq < StartSeq + MaxTurns[server.script] /\ Len(net) < MaxInFlight
     /\ clientSeq' = seq
     /\ dec' = ObserveClient(dec, seq)
     /\ \E answer \in Answers : \E shorter \in answer.shorter :
          \E out \in {Encode(ObserveClient(enc, seq), seq, answer.ops, shorter)} :
            /\ enc' = out.st
            /\ net' = Append(net, out.packet)
            /\ server' = [server EXCEPT !.sent = Put(@, seq, [ops |-> answer.ops, ents |-> answer.ents])]
     /\ encLast' = seq
     /\ resync' = FALSE
     /\ UNCHANGED <<decLast, client, last, faults>>

NewMap ==
  /\ client.map = server.map /\ server.map < Len(SignOns)
  /\ server' = [server EXCEPT !.map = @ + 1]
  /\ UNCHANGED <<enc, encLast, resync, dec, decLast, net, clientSeq, client, last, faults>>

\* clc request of a peer whose decoder has dropped a packet.
RequestResync ==
  /\ last.status = "dropped" /\ ~resync
  /\ resync' = TRUE
  /\ UNCHANGED <<enc, encLast, dec, decLast, net, clientSeq, client, server, last, faults>>

-----------------------------------------------------------------------------

\* ServerDecoder.Decode
Decode(packet, seq) ==
  IF packet.compressed THEN DecodePacket(dec, seq, packet.syms)
  ELSE [status |-> "raw", ops |-> packet.ops, st |-> Observe(dec, packet.ops, seq)]

HasOp(ops, names) == \E i \in DOMAIN ops : ops[i].op \in names

\* The client takes a packet that is newer than the last one.
Accept(seq, out) ==
  IF out.status \in {"raw", "decoded"} /\ seq > client.seen
  THEN [seen |-> seq,
        valid |-> IF HasOp(out.ops, {"serverdata"}) THEN 0
                  ELSE IF HasOp(out.ops, {"packetentities", "deltapacketentities"}) THEN seq
                  ELSE client.valid,
        map |-> IF HasOp(out.ops, {"serverdata"}) THEN server.map ELSE client.map]
  ELSE client

\* What is taken for granted of the network.  No packet comes after those of the next round of
\* the link's numbers: the header could not tell it from one of the round after.  And no part of
\* a map's description, which takes the client many turns, comes after frames of that map: the
\* tracker would forget the entities of those frames.
InTime(packet) ==
  /\ packet.seq \div LinkSize >= decLast \div LinkSize
  /\ HasOp(packet.ops, {"serverdata"}) => client.valid < packet.seq

\* A packet arrives: the oldest one, which may arrive again, or one that has overtaken others.
Deliver == \E i \in DOMAIN net, again \in BOOLEAN :
  LET packet == net[i]
      seq == IF packet.compressed THEN ExpandSequence(decLast, packet.wire) ELSE packet.wire
  IN /\ again => i = 1 /\ last.true # packet.seq
     /\ InTime(packet)
     /\ \E out \in {Decode(packet, seq)} :
          /\ dec' = out.st
          /\ client' = Accept(seq, out)
          /\ last' = [seq |-> seq, true |-> packet.seq, status |-> out.status, ops |-> out.ops,
                      fresh |-> packet.seq > client.seen]
     /\ decLast' = seq
     /\ net' = IF again THEN net ELSE RemoveAt(net, i)
     /\ faults' = faults + (IF i = 1 /\ ~again THEN 0 ELSE 1)
     /\ faults' <= MaxFaults[server.script]
     /\ UNCHANGED <<enc, encLast, resync, clientSeq, server>>

\* A packet that is lost is taken away when it is the oldest.
Lose ==
  /\ net # <<>> /\ faults < MaxFaults[server.script]
  /\ net' = Tail(net)
  /\ faults' = faults + 1
  /\ UNCHANGED <<enc, encLast, resync, dec, decLast, clientSeq, client, server, last>>

\* Both ends have seen the first map, long enough ago that references are allowed again, and a
\* frame of it.
Init ==
  LET signOn == StartSeq - HistorySize - 1
      ops == First.before \o <<EntityOp(First.ents, 0, SignOnBaselines(SignOns[1]))>>
  IN /\ \E s \in DOMAIN Worlds :
          server = [script |-> s, map |-> 1,
                    sent |-> Put(<<>>, StartSeq, [ops |-> ops, ents |-> First.ents])]
     /\ \E seen \in {Observe(Observe(NewState, SignOns[1], signOn), ops, StartSeq)} :
          /\ enc = ObserveClient(seen, StartSeq)
          /\ dec = enc
     /\ encLast = StartSeq
     /\ decLast = StartSeq
     /\ resync = FALSE /\ net = <<>> /\ clientSeq = StartSeq
     /\ client = [seen |-> StartSeq, valid |-> StartSeq, map |-> 1]
     /\ last = [seq |-> 0, true |-> 0, status |-> "none", ops |-> <<>>, fresh |-> FALSE]
     /\ faults = 0

Next ==
  \/ ClientPacketLost \/ Answer \/ NewMap \/ RequestResync \/ Deliver \/ Lose

Spec == Init /\ [][Next]_vars

-----------------------------------------------------------------------------

\* The decoder never loses step with the symbols, whatever was lost, repeated or overtaken:
\* an error of Decode ends the client's connection (ServerDecoder.Decode, handlePeer).
InStep == last.status # "error"

\* A packet that the client accepts says what the server said under its number, operation by
\* operation: positions against the right base, entities as the same delta.
Reproduced ==
  last.fresh /\ last.status \in {"raw", "decoded"} =>
    last.seq = last.true /\ last.ops = server.sent[last.true].ops

\* While nothing is lost, repeated or overtaken no packet is dropped: a reference of the encoder
\* is always in the histories of the decoder (selectPacketBase, loadPlayerInfoBase).
NothingDroppedWhenClean == faults = 0 => last.status # "dropped"

\* The histories that the encoder may still refer to are the same at the decoder, if it has them
\* under the same number: records, masks and differences.
HistoriesAgree ==
  \A seq \in DOMAIN server.sent :
    seq > enc.validAfter - HistorySize =>
      /\ HasPlayers(enc, seq) /\ HasPlayers(dec, seq) => PlayersOf(enc, seq) = PlayersOf(dec, seq)
      /\ HasEntities(enc, seq) /\ HasEntities(dec, seq) => EntitiesOf(enc, seq) = EntitiesOf(dec, seq)
=============================================================================
