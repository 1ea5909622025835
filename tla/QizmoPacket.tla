---------------------------- MODULE QizmoPacket -----------------------------
(***************************************************************************)
(* The state that both ends of a compressed link keep of the server's      *)
(* packets (qizmo/state), how a raw packet changes it (qizmo/standard),    *)
(* and how a packet is compressed and decompressed with it                 *)
(* (encoder_packet.go, encoder_scan.go, decoder_packet.go).                *)
(*                                                                         *)
(* A packet is a sequence of operations, records whose field op is the     *)
(* command.  Histories are partial functions: a slot that is not in the    *)
(* domain has never been written.                                          *)
(***************************************************************************)
EXTENDS QizmoEffects

CONSTANTS
  HistorySize,    \* packetHistorySize: 32 in the code
  ScaleSize,      \* commandScaleHistorySize: 64 in the code
  MaxBack,        \* maxPacketBackReference: 30 in the code
  RemapSize,      \* entries of a remap: 256 in the code
  Precache        \* names of models and sounds, with their places in Qizmo's own lists

Put(f, x, y) == [z \in DOMAIN f \cup {x} |-> IF z = x THEN y ELSE f[z]]
Slot(seq) == seq % HistorySize

Identity == [i \in 0..(RemapSize - 1) |-> i]

\* NewPacket
NewState ==
  [playerIndex |-> 0, playerModel |-> 0, validAfter |-> 0,
   players |-> <<>>, entities |-> <<>>, raw |-> <<>>, scales |-> <<>>, baselines |-> <<>>,
   models |-> Identity, sounds |-> Identity, modelList |-> <<>>, soundList |-> <<>>,
   remapsBuilt |-> FALSE, names |-> <<>>]

Tagged(history, seq) == Slot(seq) \in DOMAIN history /\ history[Slot(seq)].seq = seq
HasPlayers(st, seq) == Tagged(st.players, seq)
HasEntities(st, seq) == Tagged(st.entities, seq)
PlayersOf(st, seq) == st.players[Slot(seq)].recs
EntitiesOf(st, seq) == st.entities[Slot(seq)].recs

HasScale(st, seq) ==
  seq % ScaleSize \in DOMAIN st.scales /\ st.scales[seq % ScaleSize].seq = seq
ScaleOf(st, seq) == IF seq % ScaleSize \in DOMAIN st.scales THEN st.scales[seq % ScaleSize].msec ELSE 1
SetCommandScale(st, seq, msec) ==
  [st EXCEPT !.scales = Put(@, seq % ScaleSize, [seq |-> seq, msec |-> msec])]

CommitPlayers(st, seq, recs) == [st EXCEPT !.players = Put(@, Slot(seq), [seq |-> seq, recs |-> recs])]
CommitEntities(st, seq, recs) == [st EXCEPT !.entities = Put(@, Slot(seq), [seq |-> seq, recs |-> recs])]
\* CommitRawEntitySnapshot: under the low byte of the number, and without the number.
CommitRaw(st, seq, recs) == [st EXCEPT !.raw = Put(@, seq % ByteSize, recs)]
CommitPacketEntities(st, seq, recs) == CommitEntities(CommitRaw(st, seq, recs), seq, recs)

InvalidateHistory(st, seq) == [st EXCEPT !.validAfter = seq + HistorySize]
Default(st) == DefaultPlayer(st.playerIndex, st.playerModel)

\* trackPlayerIdentity, and applyCommand of a setinfo and an updateuserinfo.
NameKey == <<1>>
TrackName(st, op) ==
  CASE op.op = "updateuserinfo" -> [st EXCEPT !.names = Put(@, op.number, op.texts[1])]
    [] op.op = "setinfo" /\ op.texts[1] = NameKey -> [st EXCEPT !.names = Put(@, op.number, op.texts[2])]
    [] OTHER -> st

-----------------------------------------------------------------------------

\* applyRemapSwap on the pair of tables.
RemapSwap(t, pos, candidate) ==
  LET old == t.direct[pos]
      target == IF t.direct[candidate] # candidate THEN t.inverse[candidate] ELSE candidate
  IN IF pos \notin 1..(RemapSize - 1) \/ candidate \notin 1..(RemapSize - 1) \/ old = candidate
     THEN t
     ELSE [direct |-> [t.direct EXCEPT ![pos] = candidate, ![target] = old],
           inverse |-> [t.inverse EXCEPT ![candidate] = pos, ![old] = target]]

\* buildListRemap: each name of the list that Qizmo knows goes to the place Qizmo has for it.
BuildRemap(list) ==
  FoldLeft(LAMBDA t, i : IF list[i] \in DOMAIN Precache THEN RemapSwap(t, i, Precache[list[i]]) ELSE t,
           [direct |-> Identity, inverse |-> Identity], [i \in DOMAIN list |-> i]).inverse

\* RebuildRemaps
BuildRemaps(st) ==
  IF st.modelList = <<>> /\ st.soundList = <<>> THEN st
  ELSE [st EXCEPT !.models = BuildRemap(st.modelList), !.sounds = BuildRemap(st.soundList),
                  !.remapsBuilt = TRUE]

PlayerModelName == "player"
SpawnText == <<2>>   \* cmd spawn and cmd prespawn

\* applyModelList and AddModelChunk, for a list that fits one chunk.
ApplyModelList(st, list) ==
  LET at == {i \in DOMAIN list : list[i] = PlayerModelName}
  IN [st EXCEPT !.baselines = <<>>, !.entities = <<>>, !.raw = <<>>,
                !.playerModel = IF at = {} THEN @ ELSE CHOOSE i \in at : TRUE,
                !.modelList = list, !.remapsBuilt = FALSE]

\* parsePlayerInfo: what is not sent of a player is as in the default record.
RawPlayer(st, op) ==
  [x \in DOMAIN Default(st) |->
     IF x \in DOMAIN op.seen THEN op.seen[x]
     ELSE IF x = "motionMask" /\ op.dead THEN {Dead} ELSE Default(st)[x]]

\* applyCommand; the tracker's players and entities of the packet are in cur.
ApplyCommand(cur, op, seq) ==
  LET st == cur.st
      base == IF op.base \in DOMAIN st.raw THEN st.raw[op.base] ELSE <<>>
      known == IF op.base \in DOMAIN st.raw THEN st ELSE InvalidateHistory(st, seq)
  IN CASE op.op = "serverdata" ->
            [cur EXCEPT !.st = InvalidateHistory([st EXCEPT !.playerIndex = op.number, !.names = <<>>], seq)]
       [] op.op = "stufftext" ->
            [cur EXCEPT !.st = IF op.texts[1] = SpawnText /\ ~st.remapsBuilt THEN BuildRemaps(st) ELSE st]
       [] op.op \in {"updateuserinfo", "setinfo"} -> [cur EXCEPT !.st = TrackName(st, op)]
       [] op.op = "spawnbaseline" ->
            [cur EXCEPT !.st.baselines = Put(@, op.rec["number"], op.rec)]
       [] op.op = "playerinfo" -> [cur EXCEPT !.players = Append(@, RawPlayer(st, op))]
       [] op.op = "packetentities" ->
            [cur EXCEPT !.entities = <<ParseEntities(<<>>, op.wire, st.baselines)>>]
       [] op.op = "deltapacketentities" ->
            [cur EXCEPT !.st = known, !.entities = <<ParseEntities(base, op.wire, st.baselines)>>]
       [] op.op = "modellist" -> [cur EXCEPT !.st = ApplyModelList(st, op.list)]
       [] op.op = "soundlist" -> [cur EXCEPT !.st.soundList = op.list, !.st.remapsBuilt = FALSE]
       [] OTHER -> cur

\* Tracker.Observe and finalizePacket
Observe(state, ops, seq) ==
  LET cur == FoldLeft(LAMBDA c, op : ApplyCommand(c, op, seq),
                      [st |-> state, players |-> <<>>, entities |-> <<>>], ops)
      ents == IF cur.entities = <<>> THEN cur.st
              ELSE CommitPacketEntities(cur.st, seq, cur.entities[1])
  IN CommitPlayers(ents, seq, cur.players)

-----------------------------------------------------------------------------

\* packetBase: what a packet is compressed against.  Without a reference, the default player.
NoBase(st) ==
  [distance |-> 0, seq |-> 0, scale |-> 0, primary |-> Default(st), players |-> <<>>, entities |-> <<>>]

\* FindPlayerBaseline, or the default player.
PrimaryOf(st, seq) ==
  LET at == SamePlayer(PlayersOf(st, seq), st.playerIndex)
  IN IF at = {} THEN Default(st) ELSE PlayersOf(st, seq)[CHOOSE i \in at : \A j \in at : i <= j]

CanRefer(st, seq) == HasEntities(st, seq) /\ HasScale(st, seq) /\ HasPlayers(st, seq)
BaseAt(st, seq, distance) ==
  [distance |-> distance, seq |-> seq, scale |-> ScaleOf(st, seq) * distance,
   primary |-> PrimaryOf(st, seq), players |-> PlayersOf(st, seq), entities |-> EntitiesOf(st, seq)]

\* selectPacketBase
SelectBase(st, seq, previous) ==
  IF /\ seq > st.validAfter
     /\ previous < seq /\ seq - previous <= MaxBack
     /\ CanRefer(st, previous)
  THEN BaseAt(st, previous, seq - previous) ELSE NoBase(st)

TextOps == {"print", "setinfo", "updateuserinfo", "lightstyle", "serverinfo", "stufftext",
            "centerprint", "qizmostring"}
Compressible == {"playerinfo", "packetentities", "deltapacketentities", "sound", "tempentity",
                 "muzzleflash", "damage", "nails", "updateping", "updatepl"}
                \cup TextOps \cup DOMAIN FixedRows

IsEntities(op) == op.op \in {"packetentities", "deltapacketentities"}

\* The records that an entity operation stands for; it has to be as the decoder will write it.
EntityBase(st, op) == IF op.op = "packetentities" THEN <<>> ELSE st.raw[op.base]
Snapshot(st, op) == ParseEntities(EntityBase(st, op), op.wire, st.baselines)
Canonical(st, op) ==
  /\ op.op = "deltapacketentities" => op.base \in DOMAIN st.raw
  /\ WireEntities(EntityBase(st, op), Snapshot(st, op), st.baselines) = op.wire

\* packetEntityBaseCompatible
BaseCompatible(op, base) ==
  IF op.op = "packetentities" THEN base.distance = 0
  ELSE base.distance # 0 /\ base.seq % ByteSize = op.base

\* parsePrimaryPlayer, parseAdditionalPlayer: a player as the decoder would write it.
PrimarySupported(st, op) == op.op = "playerinfo" /\ op.seen["index"] = st.playerIndex
PlayerSupported(op) ==
  op.seen["index"] < MaxPlayers /\ op.seen["msec"] < ByteSize \div 2 /\ op.seen["buttons"] = 0

\* parsePacket: whether a packet can be compressed.
Supported(st, seq, ops, previous, base) ==
  /\ seq - previous \in 1..255
  /\ ops # <<>> /\ PrimarySupported(st, ops[1])
  /\ \A i \in DOMAIN ops : ops[i].op \in Compressible
  /\ \A i \in 2..Len(ops) :
       ops[i].op = "playerinfo" =>
         /\ PlayerSupported(ops[i])
         /\ ops[i - 1].op = "playerinfo" /\ i > 2 => ops[i].seen["index"] # ops[i - 1].seen["index"]
  /\ \A i \in DOMAIN ops : IsEntities(ops[i]) => Canonical(st, ops[i]) /\ BaseCompatible(ops[i], base)
  /\ Len(ops) = 1 => seq - previous = 1

\* The players that follow each other from operation i on.
GroupEnd(ops, i) ==
  CHOOSE j \in i..Len(ops) :
    /\ \A k \in i..j : ops[k].op = "playerinfo"
    /\ j = Len(ops) \/ ops[j + 1].op # "playerinfo"

PlanGroup(st, base, primary, ops) ==
  [i \in DOMAIN ops |->
     LET target == RawPlayer(st, ops[i])
     IN PlanAdditional(BasePlayer(base.players, target["index"], primary, st.playerModel),
                       target, base.scale, st.models)]

WithEntities(ctx, plan) == [syms |-> plan.syms, ctx |-> [ctx EXCEPT !.entities = plan.recs]]
WithPlayers(ctx, plans) ==
  [syms |-> EncodePlayers(plans),
   ctx |-> [ctx EXCEPT !.players = @ \o [k \in DOMAIN plans |-> plans[k].result]]]

\* encodeOperation: the symbols of an operation, after its type, and the context after it.
EncodeOperation(st, base, op, ctx) ==
  CASE op.op = "sound" -> EncodeSound(op, st, ctx)
    [] op.op = "tempentity" -> EncodeTempEntity(op, ctx)
    [] op.op = "muzzleflash" -> EncodeMuzzleFlash(op, ctx)
    [] op.op = "damage" -> EncodeDamage(op, ctx)
    [] op.op = "nails" -> EncodeNails(op, ctx)
    [] op.op = "updateping" -> EncodePing(op, ctx)
    [] op.op = "updatepl" -> EncodePL(op, ctx)
    [] op.op \in TextOps -> EncodeTexts(op, ctx)
    [] IsEntities(op) ->
         WithEntities(ctx, EncodeEntities(base.entities, Snapshot(st, op), 1, 1, 0, MaxPlayers,
                                          st.baselines, st.models))
    [] OTHER -> EncodeFixed(op, ctx)

\* svc_packetentities is always sent as svc_deltapacketentities.
WireType(op) == Sym(Row("SVCType"), IF op.op = "packetentities" THEN "deltapacketentities" ELSE op.op)

WithStep(syms, step) == [syms |-> syms \o step.syms, ctx |-> step.ctx]

RECURSIVE EncodeOperations(_, _, _, _, _, _)
EncodeOperations(st, base, primary, ops, i, cur) ==
  IF i > Len(ops) THEN [cur EXCEPT !.syms = @ \o Sym(Row("SVCType"), "bad")]
  ELSE IF ops[i].op = "playerinfo"
  THEN EncodeOperations(st, base, primary, ops, GroupEnd(ops, i) + 1,
         WithStep(cur.syms \o WireType(ops[i]),
                  WithPlayers(cur.ctx, PlanGroup(st, base, primary, SubSeq(ops, i, GroupEnd(ops, i))))))
  ELSE EncodeOperations(st, base, primary, ops, i + 1,
         WithStep(cur.syms \o WireType(ops[i]), EncodeOperation(st, base, ops[i], cur.ctx)))

\* EncodeBody: the symbols of a packet, and the context at its end.
EncodeAfterPrimary(st, ops, base, plan) ==
  EncodeOperations(st, base, plan.result, ops, 2,
                   [syms |-> plan.syms,
                    ctx |-> Context(plan.result, base.players, base.entities, base.scale)])
EncodeBody(st, ops, base) ==
  EncodeAfterPrimary(st, ops, base,
    PlanPrimary(base.primary, RawPlayer(st, ops[1]), base.scale, base.distance, st.models))

\* CommitPacket: a packet without entities has those of its base.
CommitPacket(st, seq, players, hasEntities, entities, distance, baseSeq) ==
  LET ents == IF hasEntities THEN CommitPacketEntities(st, seq, entities)
              ELSE IF distance # 0 /\ HasEntities(st, baseSeq)
              THEN CommitEntities(st, seq, EntitiesOf(st, baseSeq)) ELSE st
  IN CommitPlayers(ents, seq, players)

\* PacketPlan.Commit
CommitPlan(st, seq, ops, base, ctx) ==
  CommitPacket(FoldLeft(TrackName, st, ops), seq, ctx.players,
               \E i \in DOMAIN ops : IsEntities(ops[i]), ctx.entities, base.distance, base.seq)

-----------------------------------------------------------------------------

(* The decoder: the reader's record has the operations that were written,  *)
(* the context, the state and the entities if there were any.              *)

\* What is written of the primary player, and of another; buttons are not reproduced.
PrimaryOp(rec) ==
  [op |-> "playerinfo", dead |-> IsDead(rec),
   seen |-> [x \in DOMAIN Visible(rec) |->
               IF x = "index" \/ \E f \in ToSet(PrimaryFields) : f.name = x THEN rec[x] ELSE 0]]
PlayerOp(rec) ==
  [op |-> "playerinfo", dead |-> IsDead(rec), seen |-> [Visible(rec) EXCEPT !["buttons"] = 0]]

\* decodeSVCPlayerInfoDeltas; a player that cannot be, for which the code drops the packet, counts
\* as out of step here, for no encoder writes one.
RECURSIVE DecodePlayers(_)
DecodePlayers(r) ==
  LET cur == r.rec
      ctx == cur.ctx
      Player(msec, base) ==
        LET start == [base EXCEPT !["msec"] = msec.rec[2]]
            scale == PredictionScale(base["commandMsec"], msec.rec[2], base["msec"], ctx.scale)
        IN IF msec.rec[1] = "shortcut" THEN [msec EXCEPT !.rec = start]
           ELSE DecodePlayer(msec.in, start, scale, PlayerFields, PlayerMasks, cur.st.models)
      Go(player, index) ==
        IF index >= MaxPlayers THEN [player EXCEPT !.bad = TRUE]
        ELSE DecodePlayers([player EXCEPT !.rec =
               [cur EXCEPT !.ops = Append(@, PlayerOp(player.rec)),
                           !.ctx = [ctx EXCEPT !.lastPlayer = index,
                                               !.players = Append(@, player.rec)]]])
      After(delta, index) ==
        IF delta.rec = 0 THEN [delta EXCEPT !.rec = cur]
        ELSE Then(ReadOne(delta, "msec", <<"full", 0>>), LAMBDA msec :
               Then(Player(msec, BasePlayer(ctx.basePlayers, index, ctx.primary, cur.st.playerModel)),
                    LAMBDA player : Go(player, index)))
  IN Then(ReadOne(r, "numDelta", 0), LAMBDA delta : After(delta, Add8(ctx.lastPlayer, delta.rec)))

\* decodeSVCPacketEntities and finishPacketEntities: a packet with a base is written as a delta.
DecodeEntities(r, seq, base) ==
  LET cur == r.rec
      st == cur.st
      op(wire) == IF base.distance = 0 THEN [op |-> "packetentities", wire |-> wire]
                  ELSE [op |-> "deltapacketentities", base |-> base.seq % ByteSize, wire |-> wire]
  IN Then(ReadEntities([r EXCEPT !.rec = <<>>], base.entities, 1, MaxPlayers, st.baselines, st.models),
          LAMBDA ents :
            [ents EXCEPT !.rec =
               [cur EXCEPT !.ops = Append(@, op(WireEntities(base.entities, ents.rec, st.baselines))),
                           !.ctx.entities = ents.rec, !.hasEntities = TRUE,
                           !.st = CommitPacketEntities(st, seq, ents.rec)]])

\* decodeOperation of all others.
DecodeOperation(r, type, cur) ==
  CASE type = "sound" -> DecodeSound(r, cur.st, cur.ctx)
    [] type = "tempentity" -> DecodeTempEntity(r, cur.ctx)
    [] type = "muzzleflash" -> DecodeMuzzleFlash(r, cur.ctx)
    [] type = "damage" -> DecodeDamage(r, cur.ctx)
    [] type = "nails" -> DecodeNails(r, cur.ctx)
    [] type = "updateping" -> DecodePing(r, cur.ctx)
    [] type = "updatepl" -> DecodePL(r, cur.ctx)
    [] type \in TextOps -> DecodeTexts(r, type, cur.ctx)
    [] OTHER -> DecodeFixed(r, type, cur.ctx)

DecodeAfterType(r, type, cur, seq, base) ==
  CASE type = "playerinfo" -> DecodePlayers([r EXCEPT !.rec = cur])
    [] type = "deltapacketentities" -> DecodeEntities([r EXCEPT !.rec = cur], seq, base)
    [] OTHER -> Then(DecodeOperation(r, type, cur), LAMBDA one :
                  [one EXCEPT !.rec = [cur EXCEPT !.ops = Append(@, one.rec.op), !.ctx = one.rec.ctx,
                                                  !.st = TrackName(@, one.rec.op)]])

RECURSIVE DecodeOperations(_, _, _)
DecodeOperations(r, seq, base) ==
  Then(ReadOne(r, "SVCType", "bad"), LAMBDA type :
    IF type.rec = "bad" THEN [type EXCEPT !.rec = r.rec]
    ELSE DecodeOperations(DecodeAfterType(type, type.rec, r.rec, seq, base), seq, base))

\* Mutant: a packet without entities leaves no entities behind.
FinishEntitiesNot(st, seq, hasEntities, base) == st

\* A packet with a reference and without entities has those of its base.
FinishEntities(st, seq, hasEntities, base) ==
  IF hasEntities \/ base.distance = 0 THEN st ELSE CommitEntities(st, seq, base.entities)

PacketResult(status, ops, st) == [status |-> status, ops |-> ops, st |-> st]

\* What becomes of the packet when its end has been reached.
FinishPacket(all, st, seq, base) ==
  IF all.bad THEN PacketResult("error", <<>>, st)
  ELSE PacketResult("decoded", all.rec.ops,
                    CommitPlayers(FinishEntities(all.rec.st, seq, all.rec.hasEntities, base), seq,
                                  all.rec.ctx.players))

\* The state in which the operations are decoded; a sound may precede the entities, and finds
\* those that the histories have under the packet's number.
StartPacket(st, seq, base, primary) ==
  [ops |-> <<PrimaryOp(primary)>>, st |-> st, hasEntities |-> FALSE,
   ctx |-> [Context(primary, base.players, base.entities, base.scale)
            EXCEPT !.entities = IF HasEntities(st, seq) THEN EntitiesOf(st, seq) ELSE <<>>]]

DecodeBody(r, st, seq, base) ==
  FinishPacket(
    Then(DecodePlayer(r.in, base.primary, base.scale, PrimaryFields, PrimaryMasks, st.models),
         LAMBDA primary :
           DecodeOperations([primary EXCEPT !.rec = StartPacket(st, seq, base, primary.rec)], seq, base)),
    st, seq, base)

\* DecodePacket: what becomes of the symbols of the packet with this number.  A packet whose
\* reference is not in the histories is dropped without a trace.
DecodePacket(st, seq, syms) ==
  LET r == ReadOne(Reader(syms, 0), "backReference", 0)
      refer == seq - r.rec
  IN IF r.bad THEN PacketResult("error", <<>>, st)
     ELSE IF r.rec # 0 /\ (refer <= 0 \/ ~CanRefer(st, refer)) THEN PacketResult("dropped", <<>>, st)
     ELSE DecodeBody(r, st, seq, IF r.rec = 0 THEN NoBase(st) ELSE BaseAt(st, refer, r.rec))
=============================================================================
