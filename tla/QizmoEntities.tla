--------------------------- MODULE QizmoEntities ----------------------------
(***************************************************************************)
(* svc_packetentities and svc_deltapacketentities: as the server writes    *)
(* them and the trackers at both ends of a link read them                  *)
(* (qizmo/standard), and in a compressed packet                            *)
(* (encoder_packetentities.go, decoder_packetentities.go,                  *)
(* packetentities.go).                                                     *)
(*                                                                         *)
(* A snapshot is a sequence of records in the order of their numbers.  A   *)
(* record is what the histories keep of an entity: the fields that a       *)
(* client sees, the mask that was sent with them and the differences they  *)
(* were sent with.                                                         *)
(***************************************************************************)
EXTENDS QizmoPlayers

\* packetEntityRunExtensionBase
RunBase == 32
\* packetEntityHighMaskFlag, packetEntityPayloadFlag, packetEntityNewFlag and 0xff.
HighMaskFlag == RunBase
PayloadFlag == 2 * RunBase
NewFlag == 4 * RunBase
ExtensionChunk == 8 * RunBase - 1

Has(symbol, flag) == (symbol \div flag) % 2 = 1

OriginAcc == <<"originXAcc", "originYAcc", "originZAcc">>

\* packetEntityFields and packetEntityOriginDeltaRows, for an entity that was in the base.
EntityFields ==
  << Field("model", "low", "model"), Field("frame", "low", "byte"),
     Field("colorMap", "low", "byte"), Field("skinNum", "low", "byte"),
     Field("effects", "low", "xor"), AccField("angle1", "angle1Acc", "low", "carry"),
     AccField("angle2", "angle2Acc", "low", "carry"),
     AccField("angle3", "angle3Acc", "low", "carry") >>
  \o [i \in DOMAIN Axes |-> AccField(Origin[Axes[i]], OriginAcc[Axes[i]], "high", "acc")]

\* A new entity is coded against its baseline, which has no differences.
NewFields ==
  [i \in DOMAIN EntityFields |->
     [EntityFields[i] EXCEPT !.kind = IF @ = "carry" THEN "byte" ELSE IF @ = "acc" THEN "word" ELSE @]]

EntityNames == {f.name : f \in ToSet(EntityFields)}
EntityAccs == {f.acc : f \in ToSet(EntityFields)} \ EntityNames
LowMaskFlag == Row("lowMask")

ZeroEntity(n) ==
  [x \in EntityNames \cup EntityAccs \cup {"number", "low", "high"} |->
     CASE x = "number" -> n [] x \in {"low", "high"} -> {} [] OTHER -> 0]

\* entityBaseline
Baseline(baselines, n) == IF n \in DOMAIN baselines THEN baselines[n] ELSE ZeroEntity(n)

ClearCarry(rec) == [x \in DOMAIN rec |-> IF x \in EntityAccs THEN 0 ELSE rec[x]]
Seen(rec) == [x \in EntityNames \cup {"number"} |-> rec[x]]

\* entityWireEqual
WireEqual(a, b) == Seen(a) = Seen(b)

Numbers(ents) == {ents[i]["number"] : i \in DOMAIN ents}
Find(ents, n) == ents[CHOOSE i \in DOMAIN ents : ents[i]["number"] = n]
InOrderOfNumber(recs) == SetToSortSeq(recs, LAMBDA a, b : a["number"] < b["number"])

-----------------------------------------------------------------------------

(* The standard messages: which entities are removed, and of which some    *)
(* fields are sent.                                                        *)

\* packetEntityWireBits
Changed(base, rec) == {x \in EntityNames : rec[x] # base[x]}

\* serializeSVCDeltaPacketEntities; against an empty base, serializeSVCPacketEntitiesFull.
WireEntities(base, ents, baselines) ==
  LET from(n) == IF n \in Numbers(base) THEN Find(base, n) ELSE Baseline(baselines, n)
      same == {n \in Numbers(base) \cap Numbers(ents) : WireEqual(Find(base, n), Find(ents, n))}
  IN [removed |-> Numbers(base) \ Numbers(ents),
      sent |-> [n \in Numbers(ents) \ same |->
                  [x \in Changed(from(n), Find(ents, n)) |-> Find(ents, n)[x]]]]

\* The bits of an update are kept in the record, though they mean something else there: the
\* place of a field's bit on the wire is the place of another field's in the masks.
RawLow(names) ==
  {Row(y) : y \in {CASE x = "angle1" -> "model" [] x = "angle3" -> "frame"
                     [] x = "model" -> "colorMap" [] x = "colorMap" -> "skinNum"
                     [] x = "skinNum" -> "effects" [] x = "effects" -> "angle1"
                   : x \in names \cap {"angle1", "angle3", "model", "colorMap", "skinNum", "effects"}}}
RawHigh(names) ==
  {CASE x = "originX" -> <<"originX", "hi">> [] x = "originY" -> <<"originY", "lo">>
     [] x = "originZ" -> <<"originY", "hi">> [] x = "angle2" -> <<"originZ", "lo">>
     [] x = "frame" -> <<"originZ", "hi">>
   : x \in names \cap {"originX", "originY", "originZ", "angle2", "frame"}}

\* parsePacketEntityRecords: an update starts from the base's record or from the baseline.
ParseEntities(base, wire, baselines) ==
  LET start(n) == IF n \in Numbers(base) THEN Find(base, n) ELSE Baseline(baselines, n)
      updated(n) ==
        LET rec == ClearCarry(start(n))
            names == DOMAIN wire.sent[n]
        IN [x \in DOMAIN rec |-> CASE x = "low" -> RawLow(names) [] x = "high" -> RawHigh(names)
                                   [] x \in names -> wire.sent[n][x] [] OTHER -> rec[x]]
  IN InOrderOfNumber({updated(n) : n \in DOMAIN wire.sent}
                     \cup {Find(base, n) : n \in Numbers(base) \ (wire.removed \cup DOMAIN wire.sent)})

-----------------------------------------------------------------------------

Bits(fields, mask, base, target) ==
  UNION {FieldBits(f, base, target) : f \in {g \in ToSet(fields) : g.mask = mask}}
AllSymbols(fields, base, target, remap) ==
  Concat([i \in DOMAIN fields |-> FieldSymbols(fields[i], base, target, remap)])

EntitySymbol(v) == Sym(Row("entitySymbol"), v)

Extension(rest) ==
  [i \in 1..(rest \div ExtensionChunk + 1) |->
     <<Row("numDeltaExt"), IF i <= rest \div ExtensionChunk THEN ExtensionChunk
                           ELSE rest % ExtensionChunk>>]

\* encodeNewPacketEntity, after the entity with the number current.
NewEntitySymbols(target, current, baselines, remap) ==
  LET base == Baseline(baselines, target["number"])
      low == Bits(NewFields, "low", base, target)
      high == Bits(NewFields, "high", base, target) \cup IF low # {} THEN {LowMaskFlag} ELSE {}
      difference == target["number"] - current
      short == difference < PayloadFlag
  IN EntitySymbol(NewFlag + (IF high # {} THEN PayloadFlag ELSE 0)
                  + IF short THEN difference ELSE 0)
     \o (IF short THEN <<>> ELSE Extension(difference - PayloadFlag))
     \o SymIf(high # {}, Row("high"), high) \o SymIf(low # {}, Row("low"), low)
     \o AllSymbols(NewFields, base, target, remap)

\* planDeltaPacketEntity and encodeDeltaPacketEntity
DeltaEntity(base, target, run, remap) ==
  LET low == Bits(EntityFields, "low", base, target)
      high == Bits(EntityFields, "high", base, target)
      effective == high \cup IF low # base["low"] THEN {LowMaskFlag} ELSE {}
      highXor == MaskXor(effective, base["high"])
      short == run < RunBase
      moved == FoldLeft(LAMBDA r, f : FieldResult(f, base, target, r), base, EntityFields)
  IN [syms |-> EntitySymbol(PayloadFlag + (IF short THEN run ELSE 0)
                            + IF highXor # {} THEN HighMaskFlag ELSE 0)
               \o (IF short THEN <<>> ELSE EntitySymbol(run - RunBase))
               \o SymIf(highXor # {}, Row("high"), highXor)
               \o SymIf(LowMaskFlag \in effective, Row("low"), MaskXor(low, base["low"]))
               \o AllSymbols(EntityFields, base, target, remap),
      recs |-> << [moved EXCEPT !["low"] = low, !["high"] = high] >>]

\* planPacketEntities and encodeSVCPacketEntities: base and target from b and t on, run is the
\* number of base entities that were found unchanged since the last symbol.
RECURSIVE EncodeEntities(_, _, _, _, _, _, _, _)
EncodeEntities(base, target, b, t, run, current, baselines, remap) ==
  LET hasB == b <= Len(base)
      hasT == t <= Len(target)
      one(syms, recs) == [syms |-> syms, recs |-> recs]
      then(step, rest) == [syms |-> step.syms \o rest.syms, recs |-> step.recs \o rest.recs]
      Go(b2, t2, run2, cur) == EncodeEntities(base, target, b2, t2, run2, cur, baselines, remap)
  IN IF ~hasB /\ ~hasT THEN [syms |-> EntitySymbol(0), recs |-> <<>>]
     ELSE IF hasB /\ hasT /\ WireEqual(base[b], target[t])
     THEN then(one(<<>>, <<base[b]>>), Go(b + 1, t + 1, run + 1, current))
     ELSE IF hasT /\ (~hasB \/ target[t]["number"] < base[b]["number"])
     THEN then(one(NewEntitySymbols(target[t], current, baselines, remap),
                   << [ClearCarry(target[t]) EXCEPT !["low"] = {}, !["high"] = {}] >>),
               Go(b, t + 1, 0, target[t]["number"]))
     ELSE IF ~hasT \/ base[b]["number"] < target[t]["number"]
     THEN then(one(EntitySymbol(run + 1), <<>>), Go(b + 1, t, 0, base[b]["number"]))
     ELSE then(DeltaEntity(base[b], target[t], run + 1, remap), Go(b + 1, t + 1, 0, base[b]["number"]))

-----------------------------------------------------------------------------

\* decodeNewEntity: the number that follows current, read from the symbol and its extension.
RECURSIVE ReadNumber(_, _)
ReadNumber(r, current) ==
  LET next == ReadValue(r, Row("numDeltaExt"))
  IN IF next.bad THEN [next EXCEPT !.rec = current]
     ELSE IF next.rec = ExtensionChunk THEN ReadNumber(next, current + ExtensionChunk)
     ELSE [next EXCEPT !.rec = current + @]

ReadNewEntity(r, symbol, n, baselines, remap) ==
  LET start == [ClearCarry(Baseline(baselines, n)) EXCEPT !["low"] = {}, !["high"] = {}]
      high == Read([r EXCEPT !.rec = start], Row("high"), LAMBDA v : [start EXCEPT !["high"] = v])
      low == ReadIf(high, LowMaskFlag \in high.rec["high"], Row("low"),
                    LAMBDA v : [high.rec EXCEPT !["low"] = v])
      all == IF Has(symbol, PayloadFlag) THEN ReadFields(low, NewFields, remap)
             ELSE [r EXCEPT !.rec = start]
  IN [all EXCEPT !.rec["low"] = {}, !.rec["high"] = {}]

\* decodeBaseEntity of an entity that is changed.
ReadDeltaEntity(r, symbol, base, remap) ==
  LET high == ReadIf([r EXCEPT !.rec = base], Has(symbol, HighMaskFlag), Row("high"),
                     LAMBDA v : [base EXCEPT !["high"] = MaskXor(@, v)])
      low == ReadIf(high, LowMaskFlag \in high.rec["high"], Row("low"),
                    LAMBDA v : [high.rec EXCEPT !["low"] = MaskXor(@, v)])
      all == ReadFields(low, EntityFields, remap)
  IN [all EXCEPT !.rec["high"] = @ \ {LowMaskFlag}]

\* decodeRunLength
ReadRun(r, symbol) ==
  LET run == symbol % RunBase
  IN IF ~Has(symbol, PayloadFlag) THEN [r EXCEPT !.rec = symbol]
     ELSE IF run # 0 THEN [r EXCEPT !.rec = run]
     ELSE Read(r, Row("entitySymbol"), LAMBDA v : v + RunBase)

\* decodeSVCPacketEntities from the base entity b on; the reader's record is the result so far.
RECURSIVE ReadEntities(_, _, _, _, _, _)
ReadEntities(r, base, b, current, baselines, remap) ==
  LET out == r.rec
      Go(x, recs, b2, cur) == ReadEntities([x EXCEPT !.rec = out \o recs], base, b2, cur, baselines, remap)
      Number(sym) == IF sym.rec % PayloadFlag = 0 THEN ReadNumber(sym, current + PayloadFlag)
                     ELSE [sym EXCEPT !.rec = current + (@ % PayloadFlag)]
      New(sym) ==
        Then(Number(sym), LAMBDA number :
          Then(ReadNewEntity(number, sym.rec, number.rec, baselines, remap), LAMBDA new :
            LET before == Cardinality({i \in b..Len(base) : base[i]["number"] < number.rec})
            IN IF number.rec \in Numbers(base) THEN [new EXCEPT !.bad = TRUE]
               ELSE Go(new, SubSeq(base, b, b + before - 1) \o <<new.rec>>, b + before, number.rec)))
      Old(sym) ==
        Then(ReadRun(sym, sym.rec), LAMBDA run :
          LET at == b + run.rec - 1
              copied == SubSeq(base, b, at - 1)
          IN IF at > Len(base) THEN [run EXCEPT !.bad = TRUE]
             ELSE IF ~Has(sym.rec, PayloadFlag) THEN Go(run, copied, at + 1, base[at]["number"])
             ELSE Then(ReadDeltaEntity(run, sym.rec, base[at], remap), LAMBDA changed :
                    Go(changed, copied \o <<changed.rec>>, at + 1, base[at]["number"])))
  IN Then(ReadValue(r, Row("entitySymbol")), LAMBDA sym :
       IF sym.rec = 0 THEN [sym EXCEPT !.rec = out \o SubSeq(base, b, Len(base))]
       ELSE IF Has(sym.rec, NewFlag) THEN New(sym) ELSE Old(sym))
=============================================================================
