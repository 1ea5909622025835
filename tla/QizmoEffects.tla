---------------------------- MODULE QizmoEffects ----------------------------
(***************************************************************************)
(* The other operations of a compressed packet: sounds, temporary          *)
(* entities, muzzle flashes, damage, nails, pings, texts and the           *)
(* operations of fixed size (encoder_effects.go, decoder_effects.go,       *)
(* coords.go, encoder_text.go, decoder_text.go, operations.go).            *)
(*                                                                         *)
(* Positions are sent as differences to a position that both ends know:    *)
(* the last one that was sent, that of a player or that of an entity.      *)
(* Both ends keep a context while they go through a packet.                *)
(***************************************************************************)
EXTENDS QizmoEntities

CONSTANTS
  Dictionaries    \* the strings of assets.Assets, by table: sequences of texts, see EncodeText

\* encodingContext and the fields of packetDecoder.
Context(primary, basePlayers, baseEntities, scale) ==
  [primary |-> primary, basePlayers |-> basePlayers, baseEntities |-> baseEntities,
   scale |-> scale, players |-> <<primary>>, entities |-> <<>>,
   lastEntity |-> 0, lastAt |-> [i \in DOMAIN Axes |-> primary[Origin[i]]],
   lastPlayer |-> NoPlayerIndex, lastPing |-> NoPlayerIndex, lastPL |-> NoPlayerIndex]

OriginOf(rec) == [i \in DOMAIN Axes |-> rec[Origin[i]]]

\* playerCoordinates, or fallback
PlayerAt(players, entity, fallback) ==
  LET at == SamePlayer(players, entity - 1)
  IN IF at = {} THEN fallback ELSE OriginOf(players[CHOOSE i \in at : \A j \in at : i <= j])

\* entityCoordinates, or fallback
EntityAt(ents, entity, fallback) ==
  IF entity \in Numbers(ents) THEN OriginOf(Find(ents, entity)) ELSE fallback

\* soundEntityCoordinates: an entity between those of the packet is where its baseline is.
SoundEntityAt(ents, baselines, entity, fallback) ==
  IF /\ entity \notin Numbers(ents) /\ entity \in DOMAIN baselines
     /\ \E n \in Numbers(ents) : entity < n
     /\ OriginOf(baselines[entity]) # [i \in DOMAIN Axes |-> 0]
  THEN OriginOf(baselines[entity]) ELSE EntityAt(ents, entity, fallback)

-----------------------------------------------------------------------------

CoordRows == <<"coordX", "coordY", "coordZ">>
LastReference == <<"flags", "last">>
OtherReference == <<"flags", "other">>   \* soundBasePlayerReference, beamEntityDelta

VectorDelta(base, target) == [i \in DOMAIN Axes |-> Sub16(target[i], base[i])]
VectorBits(d) == UNION {WordBits(CoordRows[i], d[i]) : i \in DOMAIN d}
\* encodeCoordinateDeltas
VectorSymbols(d) == Concat([i \in DOMAIN d |-> WordSymbols(CoordRows[i], d[i])])
\* All six bytes, in rows of their own.
WholeVector(row, d) ==
  Concat([i \in DOMAIN d |-> Sym(<<row, "lo">>, SplitDelta16(d[i]).low)
                             \o Sym(<<row, "hi">>, SplitDelta16(d[i]).high)])
ValueSymbols(row, values) == [i \in DOMAIN values |-> <<Row(row), values[i]>>]

\* decodeCoordinateTriplet: the reader's record is the position.
ReadVector(r, base, flags) ==
  FoldLeft(LAMBDA acc, i : ReadMaskedWord(acc, <<CoordRows[i], "lo">> \in flags,
                                          <<CoordRows[i], "hi">> \in flags, CoordRows[i], i),
           [r EXCEPT !.rec = base], Axes)
ReadWholeVector(r, base, row) ==
  FoldLeft(LAMBDA acc, i : ReadMaskedWord(acc, TRUE, TRUE, row, i), [r EXCEPT !.rec = base], Axes)
\* The reader's record is the sequence of values.
ReadValues(r, row, n) ==
  FoldLeft(LAMBDA acc, i : Read(acc, Row(row), LAMBDA v : Append(acc.rec, v)),
           [r EXCEPT !.rec = <<>>], [i \in 1..n |-> i])
ReadOne(r, row, ifBad) == ReadValue([r EXCEPT !.rec = ifBad], Row(row))

-----------------------------------------------------------------------------

(* A sound: its entity, further bits of the channel word, the index of the *)
(* sound and the position.                                                 *)
SoundEntityMask == 2^9
ChannelWord(op) == op.flags * 2^12 + op.entity * 2^3 + op.channel
EntityOfWord(w) == (w \div 2^3) % SoundEntityMask
Loud(w) == Bit(w, 15) = 1
Attenuated(w) == Bit(w, 14) = 1
ReadOneIf(r, cond, row) == IF cond THEN ReadOne(r, row, 0) ELSE [r EXCEPT !.rec = 0]

\* The position a sound of this entity is near to.
SoundBase(ctx, st, entity, fromBase) ==
  IF entity = 0 THEN ctx.lastAt
  ELSE IF entity <= MaxPlayers
  THEN IF ctx.basePlayers = <<>> THEN ctx.lastAt
       ELSE PlayerAt(IF fromBase THEN ctx.basePlayers ELSE ctx.players, entity, ctx.lastAt)
  ELSE IF ctx.entities = <<>> THEN ctx.lastAt
  ELSE SoundEntityAt(ctx.entities, st.baselines, entity, ctx.lastAt)

EncodeSound(op, st, ctx) ==
  LET word == Xor16(ChannelWord(op), (ctx.lastEntity * 2^3) % WordSize)
      atBase == /\ op.entity \in 1..MaxPlayers /\ ctx.basePlayers # <<>>
                /\ SamePlayer(ctx.basePlayers, op.entity - 1) # {}
                /\ PlayerAt(ctx.basePlayers, op.entity, ctx.lastAt) = op.at
      last == op.at = ctx.lastAt
      base == IF last THEN ctx.lastAt ELSE SoundBase(ctx, st, op.entity, atBase)
      d == VectorDelta(base, op.at)
      flags == VectorBits(d) \cup (IF last THEN {LastReference}
                                   ELSE IF atBase THEN {OtherReference} ELSE {})
  IN [syms |-> ValueSymbols("soundChannel", <<word>>)
               \o SymIf(Loud(ChannelWord(op)), Row("soundVolume"), op.volume)
               \o SymIf(Attenuated(ChannelWord(op)), Row("soundAttenuation"), op.attenuation)
               \o ValueSymbols("soundIndex", <<RemapIndex(st.sounds, op.sound)>>)
               \o Sym(Row("soundFlags"), flags) \o VectorSymbols(d),
      ctx |-> [ctx EXCEPT !.lastEntity = op.entity, !.lastAt = op.at]]

\* entities: the snapshot that the decoder has under the number of this packet.
DecodeSound(r, st, ctx) ==
  LET word == ReadOne(r, "soundChannel", 0)
      channel == Xor16(word.rec, (ctx.lastEntity * 2^3) % WordSize)
      entity == EntityOfWord(channel)
      volume == ReadOneIf(word, Loud(channel), "soundVolume")
      attenuation == ReadOneIf(volume, Attenuated(channel), "soundAttenuation")
      index == ReadOne(attenuation, "soundIndex", 0)
      flags == ReadOne(index, "soundFlags", {})
      base == IF LastReference \in flags.rec THEN ctx.lastAt
              ELSE SoundBase(ctx, st, entity, OtherReference \in flags.rec)
      at == ReadVector(flags, base, flags.rec)
  IN [at EXCEPT !.rec =
        [op |-> [op |-> "sound", flags |-> channel \div 2^12, entity |-> entity,
                 channel |-> channel % 2^3, volume |-> volume.rec,
                 attenuation |-> attenuation.rec, sound |-> st.sounds[index.rec], at |-> at.rec],
         ctx |-> [ctx EXCEPT !.lastEntity = entity, !.lastAt = at.rec]]]

-----------------------------------------------------------------------------

(* A temporary entity is a point, a point with a count or a beam from an   *)
(* entity (tempEntityShapeForType).                                        *)
BeamStart(ctx, entity) ==
  IF entity = 0 THEN ctx.lastAt
  ELSE IF entity <= MaxPlayers
  THEN IF ctx.basePlayers = <<>> THEN ctx.lastAt ELSE PlayerAt(ctx.players, entity, ctx.lastAt)
  ELSE EntityAt(ctx.baseEntities, entity, ctx.lastAt)

EncodeTempEntity(op, ctx) ==
  LET beam == op.shape = "beam"
      other == beam /\ op.entity # ctx.lastEntity
      last == beam /\ op.start = ctx.lastAt
      d == VectorDelta(IF last THEN ctx.lastAt ELSE BeamStart(ctx, op.entity), op.start)
      flags == VectorBits(d) \cup (IF last THEN {LastReference} ELSE {})
               \cup (IF other THEN {OtherReference} ELSE {})
      before == IF beam THEN op.start ELSE ctx.lastAt
  IN [syms |-> Sym(Row("tempEntityType"), op.shape)
               \o (IF op.shape = "counted" THEN ValueSymbols("tempEntityCount", <<op.count>>) ELSE <<>>)
               \o (IF beam
                   THEN Sym(Row("beamFlags"), flags)
                        \o (IF other THEN ValueSymbols("beamEntity", <<Xor16(op.entity, ctx.lastEntity)>>)
                            ELSE <<>>)
                        \o VectorSymbols(d)
                   ELSE <<>>)
               \o WholeVector("tempEntityCoord", VectorDelta(before, op.at)),
      ctx |-> [ctx EXCEPT !.lastEntity = IF beam THEN op.entity ELSE @, !.lastAt = op.at]]

DecodeTempEntity(r, ctx) ==
  LET type == ReadOne(r, "tempEntityType", "point")
      beam == type.rec = "beam"
      count == ReadOneIf(type, type.rec = "counted", "tempEntityCount")
      flags == IF beam THEN ReadOne(count, "beamFlags", {}) ELSE [count EXCEPT !.rec = {}]
      xor == ReadOneIf(flags, OtherReference \in flags.rec, "beamEntity")
      entity == Xor16(ctx.lastEntity, xor.rec)
      start == IF ~beam THEN [xor EXCEPT !.rec = ctx.lastAt]
               ELSE ReadVector(xor, IF LastReference \in flags.rec THEN ctx.lastAt
                                    ELSE BeamStart(ctx, entity), flags.rec)
      at == ReadWholeVector(start, start.rec, "tempEntityCoord")
  IN [at EXCEPT !.rec =
        [op |-> [op |-> "tempentity", shape |-> type.rec, count |-> count.rec,
                 entity |-> IF beam THEN entity ELSE 0,
                 start |-> IF beam THEN start.rec ELSE [i \in DOMAIN Axes |-> 0], at |-> at.rec],
         ctx |-> [ctx EXCEPT !.lastEntity = entity, !.lastAt = at.rec]]]

-----------------------------------------------------------------------------

EncodeMuzzleFlash(op, ctx) ==
  [syms |-> ValueSymbols("beamEntity", <<Xor16(op.entity, ctx.lastEntity)>>),
   ctx |-> [ctx EXCEPT !.lastEntity = op.entity]]

DecodeMuzzleFlash(r, ctx) ==
  LET xor == ReadOne(r, "beamEntity", 0)
      entity == Xor16(ctx.lastEntity, xor.rec)
  IN [xor EXCEPT !.rec = [op |-> [op |-> "muzzleflash", entity |-> entity],
                          ctx |-> [ctx EXCEPT !.lastEntity = entity]]]

\* Damage from the zero position is sent without it, any other relative to the primary player.
Nowhere == [i \in DOMAIN Axes |-> 0]
EncodeDamage(op, ctx) ==
  [syms |-> ValueSymbols("damage", <<op.armor, op.blood>>)
            \o ValueSymbols("damageHasFrom", <<IF op.from = Nowhere THEN 0 ELSE 1>>)
            \o (IF op.from = Nowhere THEN <<>>
                ELSE WholeVector("damageFrom", VectorDelta(OriginOf(ctx.primary), op.from))),
   ctx |-> ctx]

DecodeDamage(r, ctx) ==
  LET amounts == ReadValues(r, "damage", 2)
      has == ReadOne(amounts, "damageHasFrom", 0)
      from == IF has.rec = 0 THEN [has EXCEPT !.rec = Nowhere]
              ELSE ReadWholeVector(has, OriginOf(ctx.primary), "damageFrom")
  IN [from EXCEPT !.rec =
        [op |-> [op |-> "damage", armor |-> IF from.bad THEN 0 ELSE amounts.rec[1],
                 blood |-> IF from.bad THEN 0 ELSE amounts.rec[2], from |-> from.rec],
         ctx |-> ctx]]

\* nailProjectileBase: three coordinates of twelve bits, a pitch of four and a yaw.
NailBase(origin) ==
  LET x == origin[1]
      y == origin[2]
      z == origin[3]
      highZ == z \div 2^12
  IN << (x \div 2^4) % ByteSize, (y % ByteSize) - (y % 2^4) + (x \div 2^12), y \div ByteSize,
        (z \div 2^4) % ByteSize, IF highZ >= 2^3 THEN highZ + ByteSize - 2^4 ELSE highZ, 0 >>

EncodeNails(op, ctx) ==
  LET nail(i) == IF i = 0 THEN NailBase(OriginOf(ctx.primary)) ELSE op.nails[i]
  IN [syms |-> ValueSymbols("nailCount", <<Len(op.nails)>>)
               \o Concat([i \in DOMAIN op.nails |->
                            ValueSymbols("nail", [b \in 1..6 |-> Sub8(op.nails[i][b], nail(i - 1)[b])])]),
      ctx |-> ctx]

DecodeNails(r, ctx) ==
  LET count == ReadOne(r, "nailCount", 0)
      all == FoldLeft(LAMBDA acc, i :
                        LET d == ReadValues(acc, "nail", 6)
                            nail == [b \in 1..6 |-> Add8(acc.rec[i][b], IF d.bad THEN 0 ELSE d.rec[b])]
                        IN [d EXCEPT !.rec = Append(acc.rec, nail)],
                      [count EXCEPT !.rec = <<NailBase(OriginOf(ctx.primary))>>],
                      [i \in 1..count.rec |-> i])
  IN [all EXCEPT !.rec = [op |-> [op |-> "nails", nails |-> Tail(all.rec)], ctx |-> ctx]]

\* Pings and losses: the player's index relative to the one before.
EncodePing(op, ctx) ==
  [syms |-> ValueSymbols("indexDelta", <<Sub8(op.index, ctx.lastPing)>>) \o ValueSymbols("ping", <<op.value>>),
   ctx |-> [ctx EXCEPT !.lastPing = op.index]]
EncodePL(op, ctx) ==
  [syms |-> ValueSymbols("indexDelta", <<Sub8(op.index, ctx.lastPL)>>) \o ValueSymbols("pl", <<op.value>>),
   ctx |-> [ctx EXCEPT !.lastPL = op.index]]

DecodePing(r, ctx) ==
  LET delta == ReadOne(r, "indexDelta", 0)
      value == ReadOne(delta, "ping", 0)
      index == Add8(ctx.lastPing, delta.rec)
  IN [value EXCEPT !.rec = [op |-> [op |-> "updateping", index |-> index, value |-> value.rec],
                            ctx |-> [ctx EXCEPT !.lastPing = index]]]
DecodePL(r, ctx) ==
  LET delta == ReadOne(r, "indexDelta", 0)
      value == ReadOne(delta, "pl", 0)
      index == Add8(ctx.lastPL, delta.rec)
  IN [value EXCEPT !.rec = [op |-> [op |-> "updatepl", index |-> index, value |-> value.rec],
                            ctx |-> [ctx EXCEPT !.lastPL = index]]]

-----------------------------------------------------------------------------

(* A text is a sequence of letters, which are numbers from 1 on, and the   *)
(* zero that ends it.  A symbol of a text is a letter or an entry of the   *)
(* row's dictionary; tables are greedy, prefix or optimal, as they are     *)
(* planned.                                                                *)
Before(a, b) ==   \* bytes.Compare(a, b) < 0
  \/ IsStrictPrefix(a, b)
  \/ \E i \in DOMAIN a \cap DOMAIN b : a[i] < b[i] /\ SubSeq(a, 1, i - 1) = SubSeq(b, 1, i - 1)

\* buildQizmoDictionary: the numbers of the entries in the order of their texts.
SortedEntries(dict) == SetToSortSeq(DOMAIN dict, LAMBDA i, j : Before(dict[i], dict[j]))

\* qizmoDictionaryLookup: the entry that a text starts with, 0 if the search finds none.
Lookup(dict, text) ==
  LET order == SortedEntries(dict)
      starts(m) == IsPrefix(dict[order[m]], text)
      longest(m, high) ==
        CHOOSE n \in m..(high - 1) :
          /\ \A k \in (m + 1)..n : starts(k) /\ Len(dict[order[k]]) > Len(dict[order[k - 1]])
          /\ n = high - 1 \/ ~(starts(n + 1) /\ Len(dict[order[n + 1]]) > Len(dict[order[n]]))
      search[low \in 1..(Len(order) + 1), high \in 1..(Len(order) + 1)] ==
        LET middle == (low + high) \div 2
        IN IF low = high THEN 0
           ELSE IF starts(middle) THEN order[longest(middle, high)]
           ELSE IF Before(dict[order[middle]], text) THEN search[middle + 1, high]
           ELSE search[low, middle]
  IN search[1, Len(order) + 1]

Literals(text) == [i \in DOMAIN text |-> <<"letter", text[i]>>]
Drop(text, n) == SubSeq(text, n + 1, Len(text))

\* planQizmoDictionaryString
Greedy(dict, text) ==
  LET plan[i \in 1..(Len(text) + 1)] ==
        LET entry == Lookup(dict, Drop(text, i - 1))
        IN IF i > Len(text) THEN <<>>
           ELSE IF entry # 0 THEN << <<"entry", entry>> >> \o plan[i + Len(dict[entry])]
           ELSE << <<"letter", text[i]>> >> \o plan[i + 1]
  IN plan[1]

\* planQizmoPrefixDictionaryString
Prefixed(dict, text) ==
  LET entry == Lookup(dict, text)
  IN IF entry = 0 THEN Literals(text)
     ELSE << <<"entry", entry>> >> \o Literals(Drop(text, Len(dict[entry])))

\* planOptimalDictionaryString: a letter costs 2 and an entry 3, in place of the logarithms of
\* their frequencies.
Optimal(dict, text) ==
  LET Cheaper(a, b) == IF b.cost < a.cost THEN b ELSE a
      plan[i \in 1..(Len(text) + 1)] ==
        LET With(symbol, price, n) ==
              [cost |-> price + plan[i + n].cost, syms |-> <<symbol>> \o plan[i + n].syms]
            at == {e \in DOMAIN dict : IsPrefix(dict[e], Drop(text, i - 1))}
        IN IF i > Len(text) THEN [cost |-> 0, syms |-> <<>>]
           ELSE FoldLeft(LAMBDA best, e : Cheaper(best, With(<<"entry", e>>, 3, Len(dict[e]))),
                         With(<<"letter", text[i]>>, 2, 1), SetToSortSeq(at, <))
  IN plan[1].syms

\* planDictionaryString
Plan(table, text) ==
  CASE table = "centerprint" -> Prefixed(Dictionaries[table], text)
    [] table \in {"chat", "stufftext"} -> Greedy(Dictionaries[table], text)
    [] table \in {"print", "setinfo"} -> Optimal(Dictionaries[table], text)
    [] OTHER -> Literals(text)

\* A text of a row, with its end.
EncodeText(row, text) == ValueSymbols(row, Append(Plan(row, text), <<"letter", 0>>))

\* decodeSVCPrint, decodeSVCStuffText and their like up to the end of the text.
RECURSIVE ReadText(_, _)
ReadText(r, row) ==
  LET text == r.rec
      next == Read(r, Row(row), LAMBDA v : text \o IF v[1] = "entry" THEN Dictionaries[row][v[2]]
                                                   ELSE <<v[2]>>)
  IN IF next.bad THEN next
     ELSE IF Last(next.rec) = 0 THEN [next EXCEPT !.rec = Front(@)]
     ELSE ReadText(next, row)

\* The operations with texts: the row of a number before them and the rows of the texts.
TextRows(op, number) ==
  CASE op = "print" -> <<"printMode", IF number = 3 THEN <<"chat">> ELSE <<"print">> >>
    [] op = "setinfo" -> <<"playerIndex", <<"setinfo", "setinfoValue">> >>
    [] op = "updateuserinfo" -> <<"playerIndex", <<"userinfo">> >>
    [] op = "lightstyle" -> <<"byte", <<"byteText">> >>
    [] op = "serverinfo" -> <<"", <<"serverinfo", "serverinfo">> >>
    [] op \in {"stufftext", "centerprint"} -> <<"", <<op>> >>
    [] OTHER -> <<"", <<"byteText">> >>

EncodeTexts(op, ctx) ==
  LET rows == TextRows(op.op, op.number)
  IN [syms |-> SymIf(rows[1] # "", Row(rows[1]), op.number)
               \o Concat([i \in DOMAIN rows[2] |-> EncodeText(rows[2][i], op.texts[i])]),
      ctx |-> ctx]

DecodeTexts(r, op, ctx) ==
  LET head == TextRows(op, 0)[1]
      number == ReadOneIf(r, head # "", head)
      rows == TextRows(op, number.rec)[2]
      all == FoldLeft(LAMBDA acc, row : LET text == ReadText([acc EXCEPT !.rec = <<>>], row)
                                        IN [text EXCEPT !.rec = Append(acc.rec, @)],
                      [number EXCEPT !.rec = <<>>], rows)
  IN [all EXCEPT !.rec = [op |-> [op |-> op, number |-> number.rec, texts |-> all.rec], ctx |-> ctx]]

-----------------------------------------------------------------------------

Repeated(n, row) == [i \in 1..n |-> row]

\* fixedOperationCodecs, and svc_voice: the rows of the bytes of an operation.
FixedRows ==
  [nop |-> <<>>, disconnect |-> <<>>, killedmonster |-> <<>>, foundsecret |-> <<>>,
   sellscreen |-> <<>>, smallkick |-> <<>>, bigkick |-> <<>>,
   updatestat |-> <<"statIndex", "statValue">>,
   updatefrags |-> <<"playerIndex", "fragsLo", "fragsHi">>,
   updatestatlong |-> <<"statLongIndex", "long0", "long1", "long2", "long3">>,
   spawnstaticsound |-> Repeated(9, "byte"), intermission |-> Repeated(9, "byte"),
   maxspeed |-> Repeated(4, "byte"), entgravity |-> Repeated(4, "byte"),
   setangle |-> Repeated(3, "byte"), stopsound |-> Repeated(2, "byte"),
   setpause |-> Repeated(1, "byte"), cdtrack |-> Repeated(1, "byte"),
   chokecount |-> Repeated(1, "choke"), updateentertime |-> Repeated(5, "byte"),
   qizmoblock |-> Repeated(162, "byte"), qizmovoice |-> Repeated(34, "voice")]

EncodeFixed(op, ctx) ==
  [syms |-> [i \in DOMAIN op.bytes |-> <<Row(FixedRows[op.op][i]), op.bytes[i]>>], ctx |-> ctx]

DecodeFixed(r, op, ctx) ==
  LET all == FoldLeft(LAMBDA acc, row : Read(acc, Row(row), LAMBDA v : Append(acc.rec, v)),
                      [r EXCEPT !.rec = <<>>], FixedRows[op])
  IN [all EXCEPT !.rec = [op |-> [op |-> op, bytes |-> all.rec], ctx |-> ctx]]
=============================================================================
