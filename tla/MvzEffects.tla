---------------------------- MODULE MvzEffects -----------------------------
(***************************************************************************)
(* Sounds (sound.go) and temporary entities (tempentity.go) of an MVZ      *)
(* file.  Both code their position against the last position of an effect  *)
(* or against the origin of the entity they belong to, whichever leaves    *)
(* less, and say in the stream which it was.                               *)
(***************************************************************************)
EXTENDS MvzFields

SVCSound == 6
SVCTempEntity == 23

(* the last units of a command *)
LastUnits(raw, n) == SubSeq(raw, Len(raw) - n + 1, Len(raw))

Present(condition) == IF condition THEN 1 ELSE 0

PutIf(e, condition, model, symbol) == IF condition THEN Put(e, model, symbol) ELSE e

decodeIf(d, condition, model) == IF condition THEN decodeSymbol(d, model) ELSE d

-----------------------------------------------------------------------------
(* state.go: the entity of an effect *)

Players == 1..PlayerSlots

effectEntityClass(entity) ==
    IF entity = 0 THEN "zero" ELSE IF entity \in Players THEN "player" ELSE "other"

hasEntityCoords(entity) == entity \in Players \/ entity < rangeEntitySlots

effectEntityCoords(s, entity) ==
    IF entity \in Players THEN s.players[entity - 1].origin ELSE EntityAt(s, entity).origin

effectBasePrevious == 0
effectBaseEntity == 1

(* the base of a position: a tie keeps the last position of an effect *)
selectEffectBase(s, entity, position, coordSize) ==
    IF /\ hasEntityCoords(entity)
       /\ preferCoordBase(effectEntityCoords(s, entity), s.previousEffectCoordinates,
                          position, coordSize)
    THEN effectBaseEntity ELSE effectBasePrevious

BaseCoords(s, entity, kind) ==
    IF kind = effectBaseEntity THEN effectEntityCoords(s, entity)
    ELSE s.previousEffectCoordinates

(* what the decoder accepts as a base *)
ValidBase(entity, kind) ==
    kind = effectBasePrevious \/ (kind = effectBaseEntity /\ hasEntityCoords(entity))

-----------------------------------------------------------------------------
(* sound.go: opcode, channel, volume and attenuation if the channel says so, *)
(* number and position                                                       *)

HasVolume(channel) == Bit(channel, 15)
HasAttenuation(channel) == Bit(channel, 14)

entityNumber(channel) == (channel \div 8) % rangeEntitySlots

NumberAt(channel) == 3 + Present(HasVolume(channel)) + Present(HasAttenuation(channel))

newSound(raw, bytes, coordSize) ==
    /\ validCoordSize(coordSize)
    /\ bytes = raw
    /\ Len(raw) >= 3
    /\ Len(raw) = NumberAt(raw[2]) + NumAxes

rangeSound(raw) ==
    [channel |-> raw[2], volume |-> raw[3], attenuation |-> raw[NumberAt(raw[2]) - 1],
     number |-> raw[NumberAt(raw[2])], coordinates |-> LastUnits(raw, NumAxes)]

SoundNumberModel(entity) == <<"SoundNumberDelta", effectEntityClass(entity)>>
SoundBaseModel(entity) == <<"SoundCoordBase", effectEntityClass(entity)>>
SoundField(kind) == IF kind = effectBaseEntity THEN "SoundEntityCoord" ELSE "SoundCoord"

encodeSoundNumber(e, entity, number) ==
    [Put(e, SoundNumberModel(entity),
         Delta(8, number, StatAt(e.state.previousSoundNumbers, entity)))
       EXCEPT !.state.previousSoundNumbers = SetStat(@, entity, number)]

encodeSoundHeader(e, sound, coordSize) ==
    LET c == Put(e, <<"SoundChannelDelta">>,
                 Delta(16, sound.channel, e.state.previousSoundChannel))
        v == PutIf(c, HasVolume(sound.channel), <<"SoundVolume">>, sound.volume)
        a == PutIf(v, HasAttenuation(sound.channel), <<"SoundAttenuation">>, sound.attenuation)
        n == encodeSoundNumber(a, entityNumber(sound.channel), sound.number)
    IN  Put([n EXCEPT !.state.previousSoundChannel = sound.channel],
            <<"SoundCoordSize">>, coordSize)

encodeSoundCoords(e, sound, coordSize, entity, kind) ==
    [encodeEffectCoords(Put(e, SoundBaseModel(entity), kind), SoundField(kind),
                        sound.coordinates, coordSize, BaseCoords(e.state, entity, kind))
       EXCEPT !.state.previousEffectEntity = entity]

encodeSound(e, raw, coordSize) ==
    LET sound == rangeSound(raw)
        entity == entityNumber(sound.channel)
    IN  encodeSoundCoords(encodeSoundHeader(e, sound, coordSize), sound, coordSize, entity,
                          selectEffectBase(e.state, entity, sound.coordinates, coordSize))

soundPrefix(channel, volume, attenuation, number) ==
    <<SVCSound, channel>> \o (IF HasVolume(channel) THEN <<volume>> ELSE <<>>)
      \o (IF HasAttenuation(channel) THEN <<attenuation>> ELSE <<>>) \o <<number>>

decodeSoundNumber(d, entity) ==
    LET n == decodeSymbol(d, SoundNumberModel(entity))
        number == Restored(8, StatAt(d.state.previousSoundNumbers, entity), n.value)
    IN  [n EXCEPT !.value = number,
                  !.state.previousSoundNumbers = SetStat(@, entity, number)]

(* leaves the size of a coordinate as the value, the channel in the history *)
decodeSoundHeader(d) ==
    LET c == decodeSymbol(d, <<"SoundChannelDelta">>)
        channel == Restored(16, d.state.previousSoundChannel, c.value)
        v == decodeIf([c EXCEPT !.state.previousSoundChannel = channel],
                      HasVolume(channel), <<"SoundVolume">>)
        a == decodeIf(v, HasAttenuation(channel), <<"SoundAttenuation">>)
        n == decodeSoundNumber(a, entityNumber(channel))
        size == decodeSymbol(n, <<"SoundCoordSize">>)
    IN  IF ~validCoordSize(size.value) THEN Failed(size, "invalid coordinate size")
        ELSE Emit(size, soundPrefix(channel, v.value, a.value, n.value))

decodeSoundCoords(d, coordSize, entity) ==
    IF ~ValidBase(entity, d.value) THEN Failed(d, "invalid sound coordinate base")
    ELSE [decodeEffectCoords(d, SoundField(d.value), coordSize,
                             BaseCoords(d.state, entity, d.value))
            EXCEPT !.state.previousEffectEntity = entity]

decodeSoundBody(d, coordSize, entity) ==
    IF d.err # "" THEN d
    ELSE decodeSoundCoords(decodeSymbol(d, SoundBaseModel(entity)), coordSize, entity)

decodeSound(d) ==
    LET Body(h) == decodeSoundBody(h, h.value, entityNumber(h.state.previousSoundChannel))
    IN  Body(decodeSoundHeader(d))

-----------------------------------------------------------------------------
(* tempentity.go: opcode and type, then one position, or the entity and two  *)
(* positions of a beam, or a count and one position                          *)

tempEntityIsBeam(type) == type \in {5, 6, 9}

tempEntityIsCounted(type) == type \in {2, 12}

CoordinateSets(type) == 1 + Present(tempEntityIsBeam(type))

PrefixSize(type) == 2 + Present(tempEntityIsBeam(type) \/ tempEntityIsCounted(type))

newTempEntity(raw, bytes, coordSize) ==
    /\ validCoordSize(coordSize)
    /\ bytes = raw
    /\ Len(raw) >= 2
    /\ Len(raw) = PrefixSize(raw[2]) + CoordinateSets(raw[2]) * NumAxes

FirstPosition(raw) ==
    SubSeq(raw, PrefixSize(raw[2]) + 1, PrefixSize(raw[2]) + NumAxes)

BeamBaseModel(entity) == <<"TempEntityBeamCoordBase", effectEntityClass(entity)>>

encodeTempEntityHeader(e, raw, coordSize) ==
    LET type == raw[2]
        t == Put(e, <<"TempEntityType">>, type)
        c == PutIf(t, tempEntityIsCounted(type), <<"TempEntityCount">>, raw[3])
        b == IF tempEntityIsBeam(type)
             THEN [Put(c, <<"TempEntityDelta">>, Delta(16, raw[3], c.state.previousEffectEntity))
                     EXCEPT !.state.previousEffectEntity = raw[3]]
             ELSE c
    IN  Put(b, <<"TempEntityCoordSize">>, coordSize)

(* the second position of a beam is coded against the first *)
encodeTempEntityCoords(e, raw, coordSize, base) ==
    LET first == encodeEffectCoords(e, "TempEntityCoord", FirstPosition(raw), coordSize, base)
    IN  IF tempEntityIsBeam(raw[2])
        THEN encodeEffectCoords(first, "TempEntityCoord", LastUnits(raw, NumAxes), coordSize,
                                first.state.previousEffectCoordinates)
        ELSE first

encodeBeam(e, raw, coordSize, kind) ==
    encodeTempEntityCoords(Put(e, BeamBaseModel(raw[3]), kind), raw, coordSize,
                           BaseCoords(e.state, raw[3], kind))

encodeTempEntity(e, raw, coordSize) ==
    LET header == encodeTempEntityHeader(e, raw, coordSize)
    IN  IF tempEntityIsBeam(raw[2])
        THEN encodeBeam(header, raw, coordSize,
                        selectEffectBase(e.state, raw[3], FirstPosition(raw), coordSize))
        ELSE encodeTempEntityCoords(header, raw, coordSize, e.state.previousEffectCoordinates)

tempEntityPrefix(type, entity, count) ==
    <<SVCTempEntity, type>> \o IF tempEntityIsBeam(type) THEN <<entity>>
                               ELSE IF tempEntityIsCounted(type) THEN <<count>> ELSE <<>>

decodeBeamEntity(d) ==
    LET b == decodeSymbol(d, <<"TempEntityDelta">>)
    IN  [b EXCEPT !.state.previousEffectEntity = Restored(16, @, b.value)]

(* leaves the size of a coordinate as the value *)
decodeTempEntityHeader(d, type) ==
    LET c == decodeIf(d, tempEntityIsCounted(type), <<"TempEntityCount">>)
        b == IF tempEntityIsBeam(type) THEN decodeBeamEntity(c) ELSE c
        size == decodeSymbol(b, <<"TempEntityCoordSize">>)
    IN  IF ~validCoordSize(size.value) THEN Failed(size, "invalid coordinate size")
        ELSE Emit(size, tempEntityPrefix(type, b.state.previousEffectEntity, c.value))

decodeTempEntityCoords(d, type, coordSize, base) ==
    LET Second(x) == IF tempEntityIsBeam(type)
                     THEN decodeEffectCoords(x, "TempEntityCoord", coordSize,
                                             x.state.previousEffectCoordinates)
                     ELSE x
    IN  Second(decodeEffectCoords(d, "TempEntityCoord", coordSize, base))

decodeBeam(d, type, coordSize, entity) ==
    IF ~ValidBase(entity, d.value) THEN Failed(d, "invalid temp-entity coordinate base")
    ELSE decodeTempEntityCoords(d, type, coordSize, BaseCoords(d.state, entity, d.value))

decodeTempEntityBody(d, type, entity) ==
    IF d.err # "" THEN d
    ELSE IF tempEntityIsBeam(type)
    THEN decodeBeam(decodeSymbol(d, BeamBaseModel(entity)), type, d.value, entity)
    ELSE decodeTempEntityCoords(d, type, d.value, d.state.previousEffectCoordinates)

decodeTempEntity(d) ==
    LET Body(h, type) == decodeTempEntityBody(h, type, h.state.previousEffectEntity)
        Header(t) == Body(decodeTempEntityHeader(t, t.value), t.value)
    IN  Header(decodeSymbol(d, <<"TempEntityType">>))
=============================================================================
