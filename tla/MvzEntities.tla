---------------------------- MODULE MvzEntities ----------------------------
(***************************************************************************)
(* Packet entities of an MVZ file: which of them are coded by their fields *)
(* (packetentities_prepare.go, packetentity_layout.go) and how             *)
(* (packetentities.go, packetentity_flags.go, packetentity_fields.go,      *)
(* packetentities_models.go).                                              *)
(*                                                                         *)
(* The parser makes of an entity [bytes, coordSize, angleSize, fte]: what  *)
(* it writes back, the widths it read the fields with (ExtensionFloatCoords *)
(* makes coordSize four) and whether an FTE extension is in use.           *)
(***************************************************************************)
EXTENDS MvzFields

CONSTANT CountBits  \* the width of the number of entities, sixteen in the code

ASSUME CountAssumption == CountBits \in 1..16

maxPacketEntityCount == 2^CountBits - 1

SVCPacketEntities == 47
SVCDeltaPacketEntities == 48

-----------------------------------------------------------------------------
(* packetentity_layout.go: header, flags, the fields bits names, a tail *)

UCheckMoreBits == 9   \* the bits below hold the number of the entity
URemove == 14
UMoreBits == 15
UEvenMore == 7
UYetMore == 7

EntityOriginBit(axis) == 8 + axis
entityAngleMask(axis) == CASE axis = 1 -> 0 [] axis = 2 -> 12 [] OTHER -> 1

EntityByteFields ==
    <<[bit |-> 2, name |-> "model"], [bit |-> 13, name |-> "frame"],
      [bit |-> 3, name |-> "colorMap"], [bit |-> 4, name |-> "skin"],
      [bit |-> 5, name |-> "effects"]>>

EntityFieldBits ==
    {EntityByteFields[i].bit : i \in DOMAIN EntityByteFields}
      \cup {EntityOriginBit(a) : a \in Axes} \cup {entityAngleMask(a) : a \in Axes}

validEntityAngleSize(size) == size \in {1, 2}

Number(header) == header % 2^UCheckMoreBits

LayoutBits(header, flags) ==
    header - Number(header) + IF flags = <<>> THEN 0 ELSE flags[1]

(* where the fields end *)
fieldEnd(flagCount, bits) ==
    1 + flagCount + Cardinality({i \in EntityFieldBits : Bit(bits, i)})

layout(entity) ==
    LET header == entity.raw[1]
        flags == SubSeq(entity.raw, 2, 1 + entity.flagCount)
        bits == LayoutBits(header, flags)
        end == IF Bit(header, URemove) THEN 1 + entity.flagCount
               ELSE fieldEnd(entity.flagCount, bits)
    IN  [header |-> header, flags |-> flags, bits |-> bits,
         payload |-> SubSeq(entity.raw, 2 + entity.flagCount, end),
         tail |-> SubSeq(entity.raw, end + 1, Len(entity.raw))]

(* layout returns an error otherwise *)
validLayout(entity) ==
    /\ entity.flagCount \in 0..Min({3, Len(entity.raw) - 1})
    /\ entity.raw[1] # 0
    /\ IF Bit(entity.raw[1], URemove)
       THEN Len(entity.raw) = 1 + entity.flagCount
       ELSE /\ validCoordSize(entity.coordSize)
            /\ validEntityAngleSize(entity.angleSize)
            /\ fieldEnd(entity.flagCount, layout(entity).bits) <= Len(entity.raw)

-----------------------------------------------------------------------------
(* packetentities_prepare.go *)

entityFlagByteCount(bytes, fte) ==
    IF ~Bit(bytes[1], UMoreBits) THEN 0
    ELSE IF ~fte \/ ~Bit(bytes[2], UEvenMore) THEN 1
    ELSE IF ~Bit(bytes[3], UYetMore) THEN 2 ELSE 3

(* a removed entity has nothing but flags, whatever its header says of them *)
setEntityLayout(entity) ==
    [raw |-> entity.bytes, coordSize |-> entity.coordSize, angleSize |-> entity.angleSize,
     flagCount |-> IF Bit(entity.bytes[1], URemove) THEN Len(entity.bytes) - 1
                   ELSE entityFlagByteCount(entity.bytes, entity.fte)]

EntityBytes(entities) == FlattenSeq([i \in DOMAIN entities |-> entities[i].bytes])

PacketPrefix(raw) ==
    IF raw[1] = SVCDeltaPacketEntities THEN SubSeq(raw, 1, 2) ELSE SubSeq(raw, 1, 1)

validatePacketEntityCount(entities) == Len(entities) <= maxPacketEntityCount

newPacketEntity(entity) == validLayout(setEntityLayout(entity))

(* structured only if the entities reproduce the bytes of the command *)
newPacketEntities(raw, entities) ==
    /\ validatePacketEntityCount(entities)
    /\ raw = PacketPrefix(raw) \o EntityBytes(entities) \o <<0>>
    /\ \A i \in DOMAIN entities : newPacketEntity(entities[i])

-----------------------------------------------------------------------------
(* packetentities_models.go: the rows *)

entityOriginModelsFor(p, axis, coordSize) ==
    IF coordSize # 2 THEN 0
    ELSE SignedContext(Wrap(16, p.originResidual[axis]))

entityAngleModelsFor(p, axis, angleSize) ==
    LET residual == p.angleResidual[axis]
    IN  IF angleSize = 1
        THEN residualMagnitudeContext8(Wrap(8, residual))
               * IF Signed(8, Wrap(8, residual)) < 0 THEN -1 ELSE 1
        ELSE SignedContext(residual)

EntityOriginField(axis) == <<"EntityOriginDelta", axis>>
EntityAngleField(axis) == <<"EntityAngleDelta", axis>>

(* a byte of an angle is coded in the row of the low byte of a word *)
Angle8Model(p, axis) ==
    LowModel(EntityAngleField(axis), entityAngleModelsFor(p, axis, 1), 0)

EntityNumberModel(x) == <<"EntityNumberDelta", residualMagnitudeContext16(x.previousNumberDelta)>>

entityFlagModels == <<"EntityMoreBitsXOR", "EntityEvenMoreBitsXOR", "EntityYetMoreBitsXOR">>

-----------------------------------------------------------------------------
(* packetentity_flags.go *)

encodeEntityFlagByte(e, number, flags, index) ==
    LET p == EntityAt(e.state, number)
    IN  [Put(e, <<entityFlagModels[index]>>, Xor(flags[index], p.flags[index]))
           EXCEPT !.state = SetEntity(@, number, [p EXCEPT !.flags[index] = flags[index]])]

encodeYetMore(e, number, flags) ==
    IF Bit(flags[2], UYetMore) # (Len(flags) = 3) THEN Failed(e, "invalid yet-more byte count")
    ELSE IF Len(flags) = 3 THEN encodeEntityFlagByte(e, number, flags, 3) ELSE e

encodeEvenMore(e, number, flags) ==
    IF ~Bit(flags[1], UEvenMore)
    THEN IF Len(flags) = 1 THEN e ELSE Failed(e, "flag chain")
    ELSE IF Len(flags) = 1 THEN Put(e, <<"EntityEvenMorePresent">>, 0)
    ELSE encodeYetMore(encodeEntityFlagByte(Put(e, <<"EntityEvenMorePresent">>, 1),
                                            number, flags, 2), number, flags)

encodeEntityFlags(e, header, flags) ==
    IF Bit(header, UMoreBits) # (flags # <<>>) THEN Failed(e, "more-bits header")
    ELSE IF flags = <<>> THEN e
    ELSE encodeEvenMore(encodeEntityFlagByte(e, Number(header), flags, 1),
                        Number(header), flags)

restoreFlagByte(d, number, index, flag) ==
    Emit([d EXCEPT !.state =
                       SetEntity(@, number, [EntityAt(d.state, number) EXCEPT !.flags[index] = flag]),
                   !.value = flag],
         <<flag>>)

decodeEntityFlagByte(d, number, index) ==
    LET Flag(x) == restoreFlagByte(x, number, index,
                                   Xor(x.value, EntityAt(d.state, number).flags[index]))
    IN  IF d.err # "" THEN d ELSE Flag(decodeSymbol(d, <<entityFlagModels[index]>>))

decodeYetMore(d, number) ==
    IF Bit(d.value, UYetMore) THEN decodeEntityFlagByte(d, number, 3) ELSE d

decodeEvenMore(d, number) ==
    IF d.err = "" /\ d.value > 1 THEN Failed(d, "invalid even-more marker")
    ELSE IF d.value = 0 THEN d
    ELSE decodeYetMore(decodeEntityFlagByte(d, number, 2), number)

decodeFirstFlag(d, number) ==
    IF Bit(d.value, UEvenMore)
    THEN decodeEvenMore(decodeSymbol(d, <<"EntityEvenMorePresent">>), number) ELSE d

decodeEntityFlags(d, header) ==
    IF Bit(header, UMoreBits)
    THEN decodeFirstFlag(decodeEntityFlagByte(d, Number(header), 1), Number(header))
    ELSE d

-----------------------------------------------------------------------------
(* packetentity_fields.go.  The motion of an entity is predicted like that   *)
(* of a player; an angle of one byte wraps at eight bits.                     *)

PredictAngle8(s, p, axis) ==
    predictMotion8(Wrap(8, p.angleDelta[axis]), s.currentTime - p.angleTime[axis],
                   p.angleInterval[axis])

encodeEntityOrigin16(e, number, p, axis, value, delta, residual) ==
    [putMotionWord(e, EntityOriginField(axis), entityOriginModelsFor(p, axis, 2),
                   Zigzag(16, residual))
       EXCEPT !.rest = Tail(@),
              !.state = SetEntity(@, number,
                                  CommitOrigin16(@, p, axis, value, delta, residual))]

PutOrigin32(e, p, axis, symbol) ==
    Put(putMotionWord(e, EntityOriginField(axis), entityOriginModelsFor(p, axis, 4),
                      symbol % 2^16),
        <<"EntityOriginUpperDelta">>, symbol \div 2^16)

encodeEntityOrigin32(e, number, p, axis, value, delta) ==
    [PutOrigin32(e, p, axis, Zigzag(LongBits, Wrap(LongBits, delta - p.originDelta[axis])))
       EXCEPT !.rest = Tail(@),
              !.state = SetEntity(@, number, CommitOrigin32(p, axis, value, delta))]

encodeEntityOrigin(e, number, p, axis, value, coordSize) ==
    LET delta == Wrap(CoordBits(coordSize), value - p.origin[axis])
    IN  IF coordSize = 2
        THEN encodeEntityOrigin16(e, number, p, axis, value, delta,
                                  Wrap(16, delta - PredictOrigin16(e.state, p, axis)))
        ELSE encodeEntityOrigin32(e, number, p, axis, value, delta)

encodeAngle8(e, number, p, axis, value, delta, residual) ==
    [Put(e, Angle8Model(p, axis), Zigzag(8, residual))
       EXCEPT !.rest = Tail(@),
              !.state = SetEntity(@, number, CommitAngle(@, p, axis, value, delta, residual))]

encodeAngle16(e, number, p, axis, value, delta, residual) ==
    [putMotionWord(e, EntityAngleField(axis), entityAngleModelsFor(p, axis, 2),
                   Zigzag(16, residual))
       EXCEPT !.rest = Tail(@),
              !.state = SetEntity(@, number, CommitAngle(@, p, axis, value, delta, residual))]

encodeEntityAngle(e, number, p, axis, value, angleSize) ==
    LET delta == Wrap(8 * angleSize, value - p.angle[axis])
    IN  IF angleSize = 1
        THEN encodeAngle8(e, number, p, axis, value, delta,
                          Wrap(8, delta - PredictAngle8(e.state, p, axis)))
        ELSE encodeAngle16(e, number, p, axis, value, delta,
                           Wrap(16, delta - PredictAngle(e.state, p, axis)))

encodeEntityByte(e, number, p, field, value) ==
    [Put(e, <<"EntityByte", field.name>>,
         IF field.name = "effects" THEN Xor(value, p.effects) ELSE Wrap(8, value - p[field.name]))
       EXCEPT !.rest = Tail(@),
              !.state = SetEntity(@, number, [p EXCEPT ![field.name] = value])]

encodeTail(e, tail) ==
    IF e.rest # <<>> THEN Failed(e, "consumed field bytes")
    ELSE FoldLeft(LAMBDA x, unit : Put(x, <<"EntityTailByte">>, unit),
                  Put(e, <<"EntityTailLength">>, Len(tail)), tail)

(* the byte fields, then axis by axis the origin and the angle, then the tail *)
encodeEntityFields(e, number, bits, coordSize, angleSize, tail) ==
    LET Byte(x, field) ==
            IF Bit(bits, field.bit)
            THEN encodeEntityByte(x, number, EntityAt(x.state, number), field, Head(x.rest))
            ELSE x
        Origin(x, axis) ==
            IF Bit(bits, EntityOriginBit(axis))
            THEN encodeEntityOrigin(x, number, EntityAt(x.state, number), axis, Head(x.rest),
                                    coordSize)
            ELSE x
        Angle(x, axis) ==
            IF Bit(bits, entityAngleMask(axis))
            THEN encodeEntityAngle(x, number, EntityAt(x.state, number), axis, Head(x.rest),
                                   angleSize)
            ELSE x
        Axis(x, axis) == Angle(Origin(x, axis), axis)
    IN  encodeTail(FoldLeft(Axis, FoldLeft(Byte, e, EntityByteFields), AxesInOrder), tail)

-----------------------------------------------------------------------------
(* What a decoder makes of a residual; value and history follow from it. *)

RestoreField(d, number, value, committed) ==
    Emit([d EXCEPT !.state = SetEntity(@, number, committed)], <<value>>)

restoreEntityOrigin16(d, number, p, axis, delta, residual) ==
    LET value == Wrap(16, p.origin[axis] + delta)
    IN  RestoreField(d, number, value,
                     CommitOrigin16(d.state, p, axis, value, delta, residual))

restoreEntityOrigin32(d, number, p, axis, delta) ==
    LET value == Wrap(LongBits, p.origin[axis] + delta)
    IN  RestoreField(d, number, value, CommitOrigin32(p, axis, value, delta))

decodeEntityOrigin32(d, number, p, axis, low) ==
    restoreEntityOrigin32(d, number, p, axis,
                          Wrap(LongBits, p.originDelta[axis]
                                         + Unzigzag(LongBits, low + d.value * 2^16)))

decodeEntityOrigin(d, number, p, axis, coordSize) ==
    LET Residual(w, residual) ==
            restoreEntityOrigin16(w, number, p, axis,
                                  Wrap(16, residual + PredictOrigin16(w.state, p, axis)),
                                  residual)
        Word(w) ==
            IF coordSize = 2 THEN Residual(w, Unzigzag(16, w.value))
            ELSE decodeEntityOrigin32(decodeSymbol(w, <<"EntityOriginUpperDelta">>),
                                      number, p, axis, w.value)
    IN  Word(decodeMotionWord(d, EntityOriginField(axis),
                              entityOriginModelsFor(p, axis, coordSize)))

restoreEntityAngle(d, number, p, axis, width, delta, residual) ==
    LET value == Wrap(width, p.angle[axis] + delta)
    IN  RestoreField(d, number, value,
                     CommitAngle(d.state, p, axis, value, delta, residual))

decodeAngle8(d, number, p, axis) ==
    LET Residual(x, residual) ==
            restoreEntityAngle(x, number, p, axis, 8,
                               Wrap(8, residual + PredictAngle8(x.state, p, axis)), residual)
        Symbol(x) == Residual(x, Unzigzag(8, x.value))
    IN  Symbol(decodeSymbol(d, Angle8Model(p, axis)))

decodeAngle16(d, number, p, axis) ==
    LET Residual(x, residual) ==
            restoreEntityAngle(x, number, p, axis, 16,
                               Wrap(16, residual + PredictAngle(x.state, p, axis)), residual)
        Word(x) == Residual(x, Unzigzag(16, x.value))
    IN  Word(decodeMotionWord(d, EntityAngleField(axis), entityAngleModelsFor(p, axis, 2)))

decodeEntityByte(d, number, p, field) ==
    LET Value(x) == IF field.name = "effects" THEN Xor(p.effects, x.value)
                    ELSE Wrap(8, p[field.name] + x.value)
        Restore(x, value) ==
            Emit([x EXCEPT !.state = SetEntity(@, number, [p EXCEPT ![field.name] = value])],
                 <<value>>)
        Symbol(x) == Restore(x, Value(x))
    IN  Symbol(decodeSymbol(d, <<"EntityByte", field.name>>))

(* room is kept for the terminator of the packet *)
decodeTailUnits(d) ==
    IF d.err = "" /\ Len(d.out) + d.value > d.decodedSize - 1
    THEN Failed(d, "extension tail exceeds decoded chunk remainder")
    ELSE FoldLeft(LAMBDA x, i : LET Unit(u) == Emit(u, <<u.value>>)
                                IN  Unit(decodeSymbol(x, <<"EntityTailByte">>)),
                  d, IF d.err = "" THEN [i \in 1..d.value |-> i] ELSE <<>>)

decodeTail(d) == decodeTailUnits(decodeSymbol(d, <<"EntityTailLength">>))

decodeEntityFields(d, number, bits, coordSize, angleSize) ==
    LET Byte(x, field) ==
            IF Bit(bits, field.bit)
            THEN decodeEntityByte(x, number, EntityAt(x.state, number), field) ELSE x
        Origin(x, axis) ==
            IF Bit(bits, EntityOriginBit(axis))
            THEN decodeEntityOrigin(x, number, EntityAt(x.state, number), axis, coordSize)
            ELSE x
        Angle(x, axis) ==
            IF ~Bit(bits, entityAngleMask(axis)) THEN x
            ELSE IF angleSize = 1 THEN decodeAngle8(x, number, EntityAt(x.state, number), axis)
            ELSE decodeAngle16(x, number, EntityAt(x.state, number), axis)
        Axis(x, axis) == Angle(Origin(x, axis), axis)
    IN  decodeTail(FoldLeft(Axis, FoldLeft(Byte, d, EntityByteFields), AxesInOrder))

-----------------------------------------------------------------------------
(* packetentities.go.  Numbers are coded against the entity before in the    *)
(* packet.                                                                   *)

encodeNumber(e, number) ==
    LET delta == Wrap(16, number - e.previousNumber)
    IN  [Put(e, EntityNumberModel(e), delta)
           EXCEPT !.previousNumber = number, !.previousNumberDelta = delta]

encodeHeaderBits(e, number, bits) ==
    LET p == EntityAt(e.state, number)
    IN  [Put(e, <<"EntityBitsXOR">>, Xor(bits, p.bits))
           EXCEPT !.state = SetEntity(@, number, [p EXCEPT !.bits = bits])]

encodeFields(e, number, entity, l) ==
    LET widths == Put(Put(e, <<"EntityCoordSize">>, entity.coordSize),
                      <<"EntityAngleSize">>, entity.angleSize)
    IN  encodeEntityFields([widths EXCEPT !.rest = l.payload], number, l.bits,
                           entity.coordSize, entity.angleSize, l.tail)

encodeLayout(e, entity, l) ==
    LET number == Number(l.header)
        bits == encodeHeaderBits(encodeNumber(e, number), number, l.header \div 2^UCheckMoreBits)
        flags == encodeEntityFlags(bits, l.header, l.flags)
    IN  IF flags.err # "" \/ Bit(l.header, URemove) THEN flags
        ELSE encodeFields(flags, number, entity, l)

encodeEntity(e, entity) == IF e.err # "" THEN e ELSE encodeLayout(e, entity, layout(entity))

encodeDeltaBase(e, base) ==
    [Put(e, <<"EntityDeltaBase">>, Wrap(8, base - e.state.entityDeltaBase))
       EXCEPT !.state.entityDeltaBase = base]

encodeCount(e, count) ==
    [Put(e, <<"EntityCountDelta">>, Delta(CountBits, count, e.state.previousEntityCount))
       EXCEPT !.state.previousEntityCount = count,
              !.previousNumber = 0, !.previousNumberDelta = 0]

encodePacketEntities(e, raw, entities) ==
    FoldLeft(LAMBDA x, entity : encodeEntity(x, setEntityLayout(entity)),
             encodeCount(IF raw[1] = SVCDeltaPacketEntities THEN encodeDeltaBase(e, raw[2]) ELSE e,
                         Len(entities)),
             entities)

decodeNumber(d) ==
    LET delta == decodeSymbol(d, EntityNumberModel(d))
        number == Wrap(16, d.previousNumber + delta.value)
    IN  IF number >= rangeEntitySlots THEN Failed(delta, "invalid packet-entity number")
        ELSE [delta EXCEPT !.previousNumber = number, !.previousNumberDelta = delta.value,
                           !.value = number]

(* leaves the header as the value *)
decodeHeader(d, number) ==
    LET xor == decodeSymbol(d, <<"EntityBitsXOR">>)
        p == EntityAt(d.state, number)
        bits == Xor(xor.value, p.bits)
        header == number + bits * 2^UCheckMoreBits
    IN  IF bits >= 128 THEN Failed(xor, "invalid packet-entity header bits")
        ELSE IF header = 0 THEN Failed(xor, "packet-entity collides with terminator")
        ELSE Emit([xor EXCEPT !.state = SetEntity(@, number, [p EXCEPT !.bits = bits]),
                              !.value = header],
                  <<header>>)

decodeFields(d, number, bits) ==
    LET coord == decodeSymbol(d, <<"EntityCoordSize">>)
        angle == decodeSymbol(coord, <<"EntityAngleSize">>)
    IN  IF ~validCoordSize(coord.value) THEN Failed(coord, "invalid coordinate size")
        ELSE IF ~validEntityAngleSize(angle.value) THEN Failed(angle, "invalid angle size")
        ELSE decodeEntityFields(angle, number, bits, coord.value, angle.value)

(* the flags of this entity are the units written behind its header *)
decodeAfterFlags(d, header, start) ==
    IF d.err # "" THEN d
    ELSE IF Len(d.out) > d.decodedSize - 1 THEN Failed(d, "packet-entity header exceeds chunk")
    ELSE IF Bit(header, URemove) THEN d
    ELSE decodeFields(d, Number(header),
                      LayoutBits(header, SubSeq(d.out, start + 1, Len(d.out))))

decodeAfterEntityHeader(d, header) ==
    IF d.err # "" THEN d
    ELSE decodeAfterFlags(decodeEntityFlags(d, header), header, Len(d.out))

(* an entity takes a unit at least, the terminator one *)
decodeEntity(d) ==
    LET Headed(h) == decodeAfterEntityHeader(h, h.value)
        Numbered(n) == IF n.err # "" THEN n ELSE Headed(decodeHeader(n, n.value))
    IN  IF d.err # "" THEN d
        ELSE IF Len(d.out) > d.decodedSize - 2 THEN Failed(d, "packet entity exceeds chunk")
        ELSE Numbered(decodeNumber(d))

packetEntitiesMinimumSize(delta) == IF delta THEN 3 ELSE 2

decodePacketEntitiesPrefix(d, delta) ==
    LET Base(x, base) == Emit([x EXCEPT !.state.entityDeltaBase = base],
                              <<SVCDeltaPacketEntities, base>>)
        Symbol(x) == Base(x, Wrap(8, x.value + x.state.entityDeltaBase))
    IN  IF delta THEN Symbol(decodeSymbol(d, <<"EntityDeltaBase">>))
        ELSE Emit(d, <<SVCPacketEntities>>)

decodePacketEntityCount(d, maximum) ==
    LET symbol == decodeSymbol(d, <<"EntityCountDelta">>)
        count == Restored(CountBits, d.state.previousEntityCount, symbol.value)
    IN  IF symbol.value > maxPacketEntityCount THEN Failed(symbol, "count exceeds wire width")
        ELSE IF count > maximum THEN Failed(symbol, "count exceeds chunk size")
        ELSE [symbol EXCEPT !.state.previousEntityCount = count, !.value = count,
                            !.previousNumber = 0, !.previousNumberDelta = 0]

decodeEntities(d) ==
    IF d.err # "" THEN d
    ELSE Emit(FoldLeft(LAMBDA x, i : decodeEntity(x), d, [i \in 1..d.value |-> i]), <<0>>)

decodePacketEntities(d, delta) ==
    LET minimum == packetEntitiesMinimumSize(delta)
        limit == d.decodedSize - Len(d.out)
    IN  IF limit < minimum THEN Failed(d, "packet entities exceed chunk size")
        ELSE decodeEntities(decodePacketEntityCount(decodePacketEntitiesPrefix(d, delta),
                                                    limit - minimum))
=============================================================================
