----------------------------- MODULE MvzFields -----------------------------
(***************************************************************************)
(* The field codecs of MVZ (src/demo/mvz/internal/codec): values.go,       *)
(* coords.go, motion.go, state.go, fixed.go, damage.go, playerinfo.go.     *)
(*                                                                         *)
(* A coder reads and writes symbols, each with the frequency row (model)   *)
(* it is coded with.  Encoder and decoder choose the row from a history    *)
(* both keep, so the range coder is a stream of <<model, symbol>> pairs    *)
(* and a decoder that asks for another row than the encoder used has lost  *)
(* the stream.  A model is a tuple: its name and its contexts.             *)
(*                                                                         *)
(* A unit of data is one field of the wire: a word of two bytes and a      *)
(* coordinate of two or four are one unit each.  A value of two bytes is   *)
(* one symbol, except where the high byte chooses the row of the low one.  *)
(***************************************************************************)
EXTENDS Integers, Sequences, SequencesExt, FiniteSetsExt

CONSTANTS
    PlayerSlots,  \* rangePlayerSlots
    NumAxes,      \* the axes of a position, three in the code
    LongBits      \* the width of a value of four bytes, below TLC's own

ASSUME FieldsAssumption ==
    PlayerSlots \in 1..32 /\ NumAxes \in 1..3 /\ LongBits \in 17..29

Slots == 0..(PlayerSlots - 1)
Axes == 1..NumAxes
AxesInOrder == [a \in Axes |-> a]

-----------------------------------------------------------------------------
(* values.go: arithmetic wraps at the width of the field *)

Wrap(width, x) == x % 2^width

Signed(width, x) == IF x < 2^(width - 1) THEN x ELSE x - 2^width

Zigzag(width, x) ==
    LET s == Signed(width, x) IN IF s >= 0 THEN 2 * s ELSE -2 * s - 1

Unzigzag(width, z) ==
    Wrap(width, IF z % 2 = 0 THEN z \div 2 ELSE -((z + 1) \div 2))

Bit(x, i) == (x \div 2^i) % 2 = 1

Xor(x, y) == MapThenSumSet(LAMBDA i : IF Bit(x, i) # Bit(y, i) THEN 2^i ELSE 0, 0..15)

Magnitude(x) == IF x < 0 THEN -x ELSE x

MagnitudeContext(m, small, medium) ==
    IF m = 0 THEN 0 ELSE IF m <= small THEN 1 ELSE IF m <= medium THEN 2 ELSE 3

residualMagnitudeContext16(x) == MagnitudeContext(Magnitude(Signed(16, x)), 16, 256)

residualMagnitudeContext8(x) == MagnitudeContext(Magnitude(Signed(8, x)), 4, 32)

-----------------------------------------------------------------------------
(* state.go: the history both sides keep, zero at the start of a chunk *)

ByAxis(x) == [a \in Axes |-> x]

rangePlayerState ==
    [bits |-> 0, frame |-> 0, origin |-> ByAxis(0), angle |-> ByAxis(0),
     model |-> 0, skin |-> 0, effects |-> 0, weaponFrame |-> 0,
     originDelta |-> ByAxis(0), angleDelta |-> ByAxis(0),
     originResidual |-> ByAxis(0), angleResidual |-> ByAxis(0),
     originTime |-> ByAxis(0), angleTime |-> ByAxis(0),
     originInterval |-> ByAxis(0), angleInterval |-> ByAxis(0),
     bitsResidual |-> 0, frameResidual |-> 0]

rangeEntityState ==
    [bits |-> 0, flags |-> <<0, 0, 0>>, model |-> 0, frame |-> 0, colorMap |-> 0,
     skin |-> 0, effects |-> 0, origin |-> ByAxis(0), angle |-> ByAxis(0),
     originDelta |-> ByAxis(0), angleDelta |-> ByAxis(0),
     originResidual |-> ByAxis(0), angleResidual |-> ByAxis(0),
     originTime |-> ByAxis(0), angleTime |-> ByAxis(0),
     originInterval |-> ByAxis(0), angleInterval |-> ByAxis(0)]

rangeEntitySlots == 512

rangeCodecState ==
    [players |-> [p \in Slots |-> rangePlayerState],
     entities |-> <<>>, entityDeltaBase |-> 0, previousEntityCount |-> 0,
     previousSoundChannel |-> 0, previousSoundNumbers |-> <<>>,
     previousPlayerIndex |-> 0, previousPlayerIndexDelta |-> 0,
     previousRecordKind |-> 0, haveRecordKind |-> FALSE, previousTimestamp |-> 0,
     previousPlayerRunLength |-> 0,
     previousEffectCoordinates |-> ByAxis(0), previousEffectEntity |-> 0,
     currentCommandTarget |-> 0,
     previousStatIndex |-> [t \in 0..31 |-> 0],
     previousStatValues |-> [t \in 0..31 |-> <<>>],
     previousStatLongIndex |-> [t \in 0..31 |-> 0],
     previousStatLongValues |-> [t \in 0..31 |-> <<>>],
     previousFixedPlayer |-> 0,
     previousFrags |-> [p \in Slots |-> 0],
     previousPings |-> [p \in Slots |-> 0],
     previousPacketLoss |-> [p \in Slots |-> 0],
     currentTime |-> 0]

(* histories of statistics, sounds and entities hold the indexes that were set, *)
(* the rest is zero                                                             *)
StatAt(values, index) == IF index \in DOMAIN values THEN values[index] ELSE 0

SetStat(values, index, value) ==
    [i \in DOMAIN values \cup {index} |-> IF i = index THEN value ELSE values[i]]

EntityAt(s, number) ==
    IF number \in DOMAIN s.entities THEN s.entities[number] ELSE rangeEntityState

SetEntity(s, number, entity) == [s EXCEPT !.entities = SetStat(@, number, entity)]

updateRecordHistory(s, kind, timestamp) ==
    [s EXCEPT !.currentTime = Wrap(LongBits, @ + timestamp),
              !.previousRecordKind = kind,
              !.haveRecordKind = TRUE,
              !.previousTimestamp = timestamp]

-----------------------------------------------------------------------------
(***************************************************************************)
(* The two ends of the symbol stream.  An encoder is                       *)
(* [state, symbols, rest, err], rest being what is left of the command; a  *)
(* decoder is [state, symbols, out, value, err] and the literal streams.   *)
(***************************************************************************)
Put(e, model, symbol) == [e EXCEPT !.symbols = Append(@, <<model, symbol>>)]

decodeSymbol(d, model) ==
    IF d.err # "" THEN d
    ELSE IF d.symbols = <<>> THEN [d EXCEPT !.err = "decode symbol"]
    ELSE IF d.symbols[1][1] # model THEN [d EXCEPT !.err = "lost"]
    ELSE [d EXCEPT !.value = d.symbols[1][2], !.symbols = Tail(@)]

Failed(x, err) == IF x.err = "" THEN [x EXCEPT !.err = err] ELSE x

Emit(d, units) == IF d.err = "" THEN [d EXCEPT !.out = @ \o units] ELSE d

-----------------------------------------------------------------------------
(* motion.go *)

PredictMotion(width, previousDelta, interval, previousInterval) ==
    IF previousInterval = 0
    THEN previousDelta
    ELSE LET scaled == Signed(width, previousDelta) * interval
             size == (Magnitude(scaled) + previousInterval \div 2) \div previousInterval
         IN  Wrap(width, IF scaled < 0 THEN -size ELSE size)

predictMotion16(previousDelta, interval, previousInterval) ==
    PredictMotion(16, previousDelta, interval, previousInterval)

predictMotion8(previousDelta, interval, previousInterval) ==
    PredictMotion(8, previousDelta, interval, previousInterval)

(* the high byte goes first and chooses the row of the low byte *)
LowModel(field, context, high) ==
    field \o IF high = 0 THEN <<"low", context>> ELSE <<"lowHighNonzero">>

putMotionWord(e, field, context, value) ==
    LET high == value \div 256
    IN  Put(Put(e, field \o <<"high", context>>, high),
            LowModel(field, context, high), value % 256)

WithHigh(d, high) == IF d.err = "" THEN [d EXCEPT !.value = high * 256 + @] ELSE d

decodeLow(d, field, context) ==
    WithHigh(decodeSymbol(d, LowModel(field, context, d.value)), d.value)

decodeMotionWord(d, field, context) ==
    decodeLow(decodeSymbol(d, field \o <<"high", context>>), field, context)

-----------------------------------------------------------------------------
(* coords.go: a coordinate is a number of two or four bytes *)

CoordBits(size) == IF size = 2 THEN 16 ELSE LongBits

validCoordSize(size) == size \in {2, 4}

coordSymbol(value, previous, size) ==
    Zigzag(CoordBits(size), Wrap(CoordBits(size), value - previous))

restoreCoord(previous, symbol, size) ==
    Wrap(CoordBits(size), previous + Unzigzag(CoordBits(size), symbol))

BitLength(x) == CHOOSE n \in 0..LongBits : x < 2^n /\ (n = 0 \/ 2^(n - 1) <= x)

coordResidualScore(base, target, size) ==
    MapThenSumSet(LAMBDA a : BitLength(coordSymbol(target[a], base[a], size)), Axes)

preferCoordBase(candidate, current, target, size) ==
    coordResidualScore(candidate, target, size) < coordResidualScore(current, target, size)

(* the bytes above the low one, then the low byte in the row bits 8 to 15 choose *)
putCoordBytes(e, field, value, size) ==
    Put(Put(e, field \o <<"high", size>>, value \div 256),
        LowModel(field, 0, (value \div 256) % 256), value % 256)

decodeLowCoord(d, field) ==
    WithHigh(decodeSymbol(d, LowModel(field, 0, d.value % 256)), d.value)

decodeCoordBytes(d, field, size) ==
    decodeLowCoord(decodeSymbol(d, field \o <<"high", size>>), field)

-----------------------------------------------------------------------------
(* fixed.go: commands of a fixed size.  Every codec below codes differences  *)
(* to the value the history holds and then puts the new value into it.       *)

SVCUpdateStat == 3
SVCUpdateFrags == 14
SVCDamage == 19
SVCSmallKick == 34
SVCBigKick == 35
SVCUpdatePing == 36
SVCUpdateStatLong == 38
SVCMuzzleFlash == 39
SVCPlayerInfo == 42
SVCUpdatePL == 53

Kicks == {SVCSmallKick, SVCBigKick}
PlayerUpdates == {SVCUpdateFrags, SVCUpdatePing, SVCUpdatePL}
FixedOpcodes == Kicks \cup PlayerUpdates \cup {SVCUpdateStat, SVCUpdateStatLong, SVCMuzzleFlash}

fixedPayloadSize(opcode) ==
    IF opcode \in Kicks THEN 0 ELSE IF opcode = SVCMuzzleFlash THEN 1 ELSE 2

Delta(width, value, previous) == Zigzag(width, Wrap(width, value - previous))

Restored(width, previous, symbol) == Wrap(width, previous + Unzigzag(width, symbol))

encodeUpdateStat(e, payload) ==
    LET t == e.state.currentCommandTarget
        index == payload[1]
        values == e.state.previousStatValues[t]
        i == Put(e, <<"UpdateStatIndexDelta">>, Delta(8, index, e.state.previousStatIndex[t]))
        v == Put(i, <<"UpdateStatValueDelta">>, Delta(8, payload[2], StatAt(values, index)))
    IN  [v EXCEPT !.state.previousStatIndex[t] = index,
                  !.state.previousStatValues[t] = SetStat(@, index, payload[2])]

decodeUpdateStat(d) ==
    LET t == d.state.currentCommandTarget
        i == decodeSymbol(d, <<"UpdateStatIndexDelta">>)
        index == Restored(8, d.state.previousStatIndex[t], i.value)
        v == decodeSymbol(i, <<"UpdateStatValueDelta">>)
        value == Restored(8, StatAt(d.state.previousStatValues[t], index), v.value)
    IN  Emit([v EXCEPT !.state.previousStatIndex[t] = index,
                       !.state.previousStatValues[t] = SetStat(@, index, value)],
             <<index, value>>)

encodeUpdateStatLong(e, payload) ==
    LET t == e.state.currentCommandTarget
        index == payload[1]
        values == e.state.previousStatLongValues[t]
        i == Put(e, <<"UpdateStatLongIndexDelta">>,
                 Delta(8, index, e.state.previousStatLongIndex[t]))
        v == Put(i, <<"UpdateStatLongDelta">>,
                 Delta(LongBits, payload[2], StatAt(values, index)))
    IN  [v EXCEPT !.state.previousStatLongIndex[t] = index,
                  !.state.previousStatLongValues[t] = SetStat(@, index, payload[2])]

decodeUpdateStatLong(d) ==
    LET t == d.state.currentCommandTarget
        i == decodeSymbol(d, <<"UpdateStatLongIndexDelta">>)
        index == Restored(8, d.state.previousStatLongIndex[t], i.value)
        v == decodeSymbol(i, <<"UpdateStatLongDelta">>)
        value == Restored(LongBits, StatAt(d.state.previousStatLongValues[t], index), v.value)
    IN  Emit([v EXCEPT !.state.previousStatLongIndex[t] = index,
                       !.state.previousStatLongValues[t] = SetStat(@, index, value)],
             <<index, value>>)

(* the history, row and width of the value an update gives a player *)
playerWordContext(s, opcode, player) ==
    CASE opcode = SVCUpdatePL ->
           [previous |-> s.previousPacketLoss[player], model |-> <<"UpdatePLDelta">>, width |-> 8]
      [] opcode = SVCUpdatePing ->
           [previous |-> s.previousPings[player], model |-> <<"UpdatePingDelta">>, width |-> 16]
      [] OTHER ->
           [previous |-> s.previousFrags[player], model |-> <<"UpdateFragsDelta">>, width |-> 16]

SetPlayerWord(s, opcode, player, value) ==
    CASE opcode = SVCUpdatePL -> [s EXCEPT !.previousPacketLoss[player] = value]
      [] opcode = SVCUpdatePing -> [s EXCEPT !.previousPings[player] = value]
      [] OTHER -> [s EXCEPT !.previousFrags[player] = value]

encodePlayerUpdate(e, opcode, payload) ==
    LET player == payload[1]
        context == playerWordContext(e.state, opcode, player)
        i == Put(e, <<"FixedPlayerIndexDelta">>, Delta(8, player, e.state.previousFixedPlayer))
        v == Put(i, context.model, Delta(context.width, payload[2], context.previous))
    IN  IF player \notin Slots
        THEN Failed(e, "invalid player index")
        ELSE [v EXCEPT !.state = SetPlayerWord([@ EXCEPT !.previousFixedPlayer = player],
                                               opcode, player, payload[2])]

decodePlayerUpdate(d, opcode) ==
    LET i == decodeSymbol(d, <<"FixedPlayerIndexDelta">>)
        player == Restored(8, d.state.previousFixedPlayer, i.value)
        context == playerWordContext(d.state, opcode, player)
        v == decodeSymbol(i, context.model)
        value == Restored(context.width, context.previous, v.value)
    IN  IF player \notin Slots
        THEN Failed(i, "invalid player index")
        ELSE Emit([v EXCEPT !.state = SetPlayerWord([@ EXCEPT !.previousFixedPlayer = player],
                                                    opcode, player, value)],
                  <<player, value>>)

encodeMuzzleFlash(e, payload) ==
    [Put(e, <<"MuzzleFlashDelta">>, Delta(16, payload[1], e.state.previousEffectEntity))
       EXCEPT !.state.previousEffectEntity = payload[1]]

decodeMuzzleFlash(d) ==
    LET v == decodeSymbol(d, <<"MuzzleFlashDelta">>)
        entity == Restored(16, d.state.previousEffectEntity, v.value)
    IN  Emit([v EXCEPT !.state.previousEffectEntity = entity], <<entity>>)

encodeFixedOperation(e, opcode, payload) ==
    CASE opcode = SVCUpdateStat -> encodeUpdateStat(e, payload)
      [] opcode = SVCUpdateStatLong -> encodeUpdateStatLong(e, payload)
      [] opcode = SVCMuzzleFlash -> encodeMuzzleFlash(e, payload)
      [] opcode \in Kicks -> e
      [] OTHER -> encodePlayerUpdate(e, opcode, payload)

decodeFixedOperation(d, opcode) ==
    CASE opcode = SVCUpdateStat -> decodeUpdateStat(d)
      [] opcode = SVCUpdateStatLong -> decodeUpdateStatLong(d)
      [] opcode = SVCMuzzleFlash -> decodeMuzzleFlash(d)
      [] opcode \in Kicks -> d
      [] OTHER -> decodePlayerUpdate(d, opcode)

-----------------------------------------------------------------------------
(* damage.go: opcode, armor, blood and a position, which is coded against    *)
(* the last position of an effect or the origin of the player it is for      *)

Position(raw) == [a \in Axes |-> raw[3 + a]]

hasPosition(raw) == \E a \in Axes : Position(raw)[a] # 0

newDamage(raw, bytes, coordSize) ==
    validCoordSize(coordSize) /\ bytes = raw /\ Len(raw) = 3 + NumAxes

encodeDamageHeader(e, raw, coordSize) ==
    LET a == Put(e, <<"DamageArmor">>, raw[2])
        b == Put(a, <<"DamageBlood">>, raw[3])
        c == Put(b, <<"DamageCoordSize">>, coordSize)
    IN  Put(c, <<"DamageHasPosition">>, IF hasPosition(raw) THEN 1 ELSE 0)

selectDamageCoordBase(s, raw, coordSize) ==
    LET previous == s.previousEffectCoordinates
        target == s.currentCommandTarget
    IN  IF /\ target \in Slots
           /\ preferCoordBase(s.players[target].origin, previous, Position(raw), coordSize)
        THEN [kind |-> 1, base |-> s.players[target].origin]
        ELSE [kind |-> 0, base |-> previous]

(* the position of an effect, in the rows of a field, and the history of effects *)
encodeEffectCoords(e, field, position, coordSize, base) ==
    FoldLeft(LAMBDA x, axis :
               [putCoordBytes(x, <<field, axis>>,
                              coordSymbol(position[axis], base[axis], coordSize), coordSize)
                  EXCEPT !.state.previousEffectCoordinates[axis] = position[axis]],
             e, AxesInOrder)

encodeDamageCoords(e, raw, coordSize, base) ==
    encodeEffectCoords(e, "DamageCoord", Position(raw), coordSize, base)

encodeDamage(e, raw, coordSize) ==
    LET header == encodeDamageHeader(e, raw, coordSize)
        chosen == selectDamageCoordBase(e.state, raw, coordSize)
    IN  IF hasPosition(raw)
        THEN encodeDamageCoords(Put(header, <<"DamageCoordBase">>, chosen.kind),
                                raw, coordSize, chosen.base)
        ELSE header

decodeDamageCoordBase(d) ==
    IF d.value = 0 THEN d.state.previousEffectCoordinates
    ELSE d.state.players[d.state.currentCommandTarget].origin

restoreEffectCoord(d, axis, value) ==
    Emit([d EXCEPT !.state.previousEffectCoordinates[axis] = value], <<value>>)

decodeEffectCoords(d, field, coordSize, base) ==
    FoldLeft(LAMBDA x, axis :
               LET Restore(c) ==
                       restoreEffectCoord(c, axis, restoreCoord(base[axis], c.value, coordSize))
               IN  Restore(decodeCoordBytes(x, <<field, axis>>, coordSize)),
             d, AxesInOrder)

decodeDamageCoords(d, coordSize, base) ==
    decodeEffectCoords(d, "DamageCoord", coordSize, base)

decodeDamage(d) ==
    LET a == decodeSymbol(d, <<"DamageArmor">>)
        b == decodeSymbol(Emit(a, <<a.value>>), <<"DamageBlood">>)
        size == decodeSymbol(Emit(b, <<b.value>>), <<"DamageCoordSize">>)
        position == decodeSymbol(size, <<"DamageHasPosition">>)
        kind == decodeSymbol(position, <<"DamageCoordBase">>)
    IN  IF ~validCoordSize(size.value) THEN Failed(size, "invalid coordinate size")
        ELSE IF position.value > 1 THEN Failed(position, "invalid damage position flag")
        ELSE IF position.value = 0 THEN Emit(position, [axis \in Axes |-> 0])
        ELSE IF kind.value > 1 THEN Failed(kind, "invalid damage coordinate base")
        ELSE IF kind.value = 1 /\ d.state.currentCommandTarget \notin Slots
        THEN Failed(kind, "invalid damage player coordinate reference")
        ELSE decodeDamageCoords(kind, size.value, decodeDamageCoordBase(kind))

-----------------------------------------------------------------------------
(* playerinfo.go: opcode, index, bits, frame, then the fields bits names     *)

OriginBit(axis) == axis - 1
AngleBit(axis) == axis + 2
ByteFields == <<[bit |-> 11, name |-> "model"], [bit |-> 7, name |-> "skin"],
                [bit |-> 6, name |-> "effects"], [bit |-> 10, name |-> "weaponFrame"]>>

FieldBits == {OriginBit(a) : a \in Axes} \cup {AngleBit(a) : a \in Axes} \cup {6, 7, 10, 11}

validPlayerInfo(raw, coordSize) ==
    /\ validCoordSize(coordSize)
    /\ Len(raw) >= 4
    /\ raw[2] \in Slots
    /\ Len(raw) = 4 + Cardinality({i \in FieldBits : Bit(raw[3], i)})

playerIndexModel(s) ==
    LET x == s.previousPlayerIndexDelta
    IN  <<"PlayerIndex", IF x = 0 THEN 0 ELSE IF x <= 2 THEN 1 ELSE IF x <= 8 THEN 2 ELSE 3>>

playerBitsModels(p) == <<"PlayerBitsXOR", p.bitsResidual # 0>>

playerFrameModel(p) ==
    <<"PlayerFrameDelta", IF p.frameResidual \in {0, 1} THEN p.frameResidual ELSE 2>>

SignedContext(residual) ==
    residualMagnitudeContext16(residual) * IF Signed(16, residual) < 0 THEN -1 ELSE 1

playerOriginModelsFor(p, axis, coordSize) ==
    IF coordSize = 2 THEN SignedContext(p.originResidual[axis]) ELSE 0

playerAngleModelsFor(p, axis) ==
    IF axis <= 2 THEN SignedContext(p.angleResidual[axis]) ELSE 0

OriginField(axis) == <<"PlayerOriginDelta", axis>>
AngleField(axis) == <<"PlayerAngleDelta", axis>>

(* the prediction of a movement, from the old history and the new clock *)
PredictOrigin16(s, p, axis) ==
    predictMotion16(Wrap(16, p.originDelta[axis]), s.currentTime - p.originTime[axis],
                    p.originInterval[axis])

PredictAngle(s, p, axis) ==
    predictMotion16(p.angleDelta[axis], s.currentTime - p.angleTime[axis],
                    p.angleInterval[axis])

CommitOrigin16(s, p, axis, value, delta, residual) ==
    [p EXCEPT !.originResidual[axis] = residual, !.originDelta[axis] = delta,
              !.originInterval[axis] = s.currentTime - p.originTime[axis],
              !.originTime[axis] = s.currentTime, !.origin[axis] = value]

CommitOrigin32(p, axis, value, delta) ==
    [p EXCEPT !.originResidual[axis] = 0, !.originDelta[axis] = delta, !.origin[axis] = value]

CommitAngle(s, p, axis, value, delta, residual) ==
    [p EXCEPT !.angleResidual[axis] = residual, !.angleDelta[axis] = delta,
              !.angleInterval[axis] = s.currentTime - p.angleTime[axis],
              !.angleTime[axis] = s.currentTime, !.angle[axis] = value]

encodePlayerHeader(e, raw, coordSize) ==
    LET p == e.state.players[raw[2]]
        delta == Wrap(8, raw[2] - e.state.previousPlayerIndex)
        bitsXOR == Xor(raw[3], p.bits)
        frameDelta == Wrap(8, raw[4] - p.frame)
        i == Put(e, playerIndexModel(e.state), delta)
        b == Put(i, playerBitsModels(p), bitsXOR)
        f == Put(b, playerFrameModel(p), frameDelta)
    IN  [Put(f, <<"PlayerCoordSize">>, coordSize) EXCEPT
           !.rest = SubSeq(raw, 5, Len(raw)),
           !.state.previousPlayerIndex = raw[2],
           !.state.previousPlayerIndexDelta = delta,
           !.state.players[raw[2]] =
               [@ EXCEPT !.bits = raw[3], !.frame = raw[4],
                         !.bitsResidual = bitsXOR, !.frameResidual = frameDelta]]

encodeOrigin16(e, index, axis) ==
    LET p == e.state.players[index]
        value == Head(e.rest)
        delta == Wrap(16, value - p.origin[axis])
        residual == Wrap(16, delta - PredictOrigin16(e.state, p, axis))
    IN  [putMotionWord(e, OriginField(axis), playerOriginModelsFor(p, axis, 2),
                       Zigzag(16, residual))
           EXCEPT !.rest = Tail(@),
                  !.state.players[index] =
                      CommitOrigin16(e.state, p, axis, value, delta, residual)]

encodeOrigin32(e, index, axis) ==
    LET p == e.state.players[index]
        value == Head(e.rest)
        delta == Wrap(LongBits, value - p.origin[axis])
        symbol == Zigzag(LongBits, Wrap(LongBits, delta - p.originDelta[axis]))
        low == putMotionWord(e, OriginField(axis), playerOriginModelsFor(p, axis, 4),
                             symbol % 2^16)
    IN  [Put(low, <<"PlayerOriginUpperDelta">>, symbol \div 2^16)
           EXCEPT !.rest = Tail(@),
                  !.state.players[index] = CommitOrigin32(p, axis, value, delta)]

encodeAngle(e, index, axis) ==
    LET p == e.state.players[index]
        value == Head(e.rest)
        delta == Wrap(16, value - p.angle[axis])
        residual == Wrap(16, delta - PredictAngle(e.state, p, axis))
    IN  [putMotionWord(e, AngleField(axis), playerAngleModelsFor(p, axis), Zigzag(16, residual))
           EXCEPT !.rest = Tail(@),
                  !.state.players[index] =
                      CommitAngle(e.state, p, axis, value, delta, residual)]

encodeByteField(e, index, field) ==
    LET old == e.state.players[index][field.name]
        value == Head(e.rest)
        symbol == IF field.name = "effects" THEN Xor(value, old) ELSE Wrap(8, value - old)
    IN  [Put(e, <<"PlayerByte", field.name>>, symbol)
           EXCEPT !.rest = Tail(@), !.state.players[index][field.name] = value]

encodePlayerInfo(e, raw, coordSize) ==
    LET index == raw[2]
        Origin(x, axis) ==
            IF ~Bit(raw[3], OriginBit(axis)) THEN x
            ELSE IF coordSize = 2 THEN encodeOrigin16(x, index, axis)
            ELSE encodeOrigin32(x, index, axis)
        Angle(x, axis) ==
            IF Bit(raw[3], AngleBit(axis)) THEN encodeAngle(x, index, axis) ELSE x
        Byte(x, field) ==
            IF Bit(raw[3], field.bit) THEN encodeByteField(x, index, field) ELSE x
        header == encodePlayerHeader(e, raw, coordSize)
    IN  FoldLeft(Byte, FoldLeft(Angle, FoldLeft(Origin, header, AxesInOrder), AxesInOrder),
                 ByteFields)

decodePlayerHeader(d) ==
    LET i == decodeSymbol(d, playerIndexModel(d.state))
        index == Wrap(8, i.value + d.state.previousPlayerIndex)
        p == d.state.players[index]
        b == decodeSymbol(i, playerBitsModels(p))
        bits == Xor(p.bits, b.value)
        f == decodeSymbol(b, playerFrameModel(p))
        frame == Wrap(8, p.frame + f.value)
        size == decodeSymbol(f, <<"PlayerCoordSize">>)
    IN  IF index \notin Slots THEN Failed(i, "invalid player index")
        ELSE IF ~validCoordSize(size.value) THEN Failed(size, "invalid coordinate size")
        ELSE Emit([size EXCEPT
                     !.state.previousPlayerIndex = index,
                     !.state.previousPlayerIndexDelta = i.value,
                     !.state.players[index] =
                         [@ EXCEPT !.bits = bits, !.frame = frame,
                                   !.bitsResidual = b.value, !.frameResidual = f.value]],
                  <<SVCPlayerInfo, index, bits, frame>>)

(* a delta, the value it leads to, and the history with both *)
restoreOrigin16(d, index, axis, p, delta, residual) ==
    LET value == Wrap(16, p.origin[axis] + delta)
    IN  Emit([d EXCEPT !.state.players[index] =
                           CommitOrigin16(d.state, p, axis, value, delta, residual)],
             <<value>>)

decodeOrigin16(d, index, axis) ==
    LET p == d.state.players[index]
        Restore(w, residual) ==
            restoreOrigin16(w, index, axis, p,
                            Wrap(16, residual + PredictOrigin16(w.state, p, axis)), residual)
        Word(w) == Restore(w, Unzigzag(16, w.value))
    IN  Word(decodeMotionWord(d, OriginField(axis), playerOriginModelsFor(p, axis, 2)))

restoreOrigin32(d, index, axis, p, delta) ==
    LET value == Wrap(LongBits, p.origin[axis] + delta)
    IN  Emit([d EXCEPT !.state.players[index] = CommitOrigin32(p, axis, value, delta)],
             <<value>>)

decodeOrigin32(d, index, axis) ==
    LET p == d.state.players[index]
        Long(upper, low) ==
            restoreOrigin32(upper, index, axis, p,
                            Wrap(LongBits, p.originDelta[axis]
                                           + Unzigzag(LongBits, low + upper.value * 2^16)))
        Word(w) == Long(decodeSymbol(w, <<"PlayerOriginUpperDelta">>), w.value)
    IN  Word(decodeMotionWord(d, OriginField(axis), playerOriginModelsFor(p, axis, 4)))

restoreAngle(d, index, axis, p, delta, residual) ==
    LET value == Wrap(16, p.angle[axis] + delta)
    IN  Emit([d EXCEPT !.state.players[index] =
                           CommitAngle(d.state, p, axis, value, delta, residual)],
             <<value>>)

decodeAngle(d, index, axis) ==
    LET p == d.state.players[index]
        Restore(w, residual) ==
            restoreAngle(w, index, axis, p,
                         Wrap(16, residual + PredictAngle(w.state, p, axis)), residual)
        Word(w) == Restore(w, Unzigzag(16, w.value))
    IN  Word(decodeMotionWord(d, AngleField(axis), playerAngleModelsFor(p, axis)))

decodeByteField(d, index, field) ==
    LET b == decodeSymbol(d, <<"PlayerByte", field.name>>)
        old == d.state.players[index][field.name]
        value == IF field.name = "effects" THEN Xor(old, b.value) ELSE Wrap(8, old + b.value)
    IN  Emit([b EXCEPT !.state.players[index][field.name] = value], <<value>>)

decodePlayerFields(d, index, bits, coordSize) ==
    LET Origin(x, axis) ==
            IF ~Bit(bits, OriginBit(axis)) THEN x
            ELSE IF coordSize = 2 THEN decodeOrigin16(x, index, axis)
            ELSE decodeOrigin32(x, index, axis)
        Angle(x, axis) ==
            IF Bit(bits, AngleBit(axis)) THEN decodeAngle(x, index, axis) ELSE x
        Byte(x, field) ==
            IF Bit(bits, field.bit) THEN decodeByteField(x, index, field) ELSE x
    IN  FoldLeft(Byte, FoldLeft(Angle, FoldLeft(Origin, d, AxesInOrder), AxesInOrder),
                 ByteFields)

(* the header has put the index and the bits into the history *)
decodeAfterHeader(d) ==
    LET index == d.state.previousPlayerIndex
    IN  IF d.err # "" THEN d
        ELSE decodePlayerFields(d, index, d.state.players[index].bits, d.value)

decodePlayerInfo(d) == decodeAfterHeader(decodePlayerHeader(d))
=============================================================================
