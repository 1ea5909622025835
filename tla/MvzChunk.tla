----------------------------- MODULE MvzChunk ------------------------------
(***************************************************************************)
(* One chunk of an MVZ file: how the records of a demo become operations   *)
(* (range_prepare.go), how records and operations become symbols and       *)
(* literals (range_encode.go, literals.go, text.go), and how a decoder     *)
(* rebuilds the bytes (range_decode.go).                                   *)
(*                                                                         *)
(* A record of a demo has its timestamp, kind, target and payload, and, if *)
(* the parser read a game packet from the payload, the commands in it.     *)
(* reading is "none" (nothing read), "game", "mismatch" (the commands do   *)
(* not tile the body) or "fails" (prepare refuses the record).  A command  *)
(* is [raw, bytes, coordSize, entities]: its units, what the parsed        *)
(* command writes back, the width it read coordinates with, and the        *)
(* entities of a packet (MvzEntities).                                     *)
(***************************************************************************)
EXTENDS MvzEffects, MvzEntities

DemoCmd == 0
DemoRead == 1
DemoSet == 2
DemoMultiple == 3
DemoSingle == 4
DemoStats == 5
DemoAll == 6

SVCPrint == 8
SVCStuffText == 9
SVCCenterPrint == 26

rangeRecordEnd == 7
rangeBodyRaw == 0
rangeBodyStructured == 1
rangeOperationEnd == 0
rangeOperationRaw == 1

CONSTANT maxPlayerRunLength

ASSUME RunAssumption == maxPlayerRunLength \in 1..255

Numbers(n) == [i \in 1..n |-> i]
-----------------------------------------------------------------------------
(* text.go *)

textStreamIndex(opcode) ==
    CASE opcode = SVCPrint -> 1 [] opcode = SVCStuffText -> 2
      [] opcode = SVCCenterPrint -> 3 [] OTHER -> 0

isTextOpcode(opcode) == textStreamIndex(opcode) # 0

newTextOperation(raw) ==
    /\ isTextOpcode(raw[1])
    /\ Len(raw) >= (IF raw[1] = SVCPrint THEN 3 ELSE 2)
    /\ Last(raw) = 0

(* how many units of the stream the next text takes, 0 if it holds none: the *)
(* string ends at its first NUL, which the level of a print may not be        *)
TextLength(stream, opcode) ==
    LET first == IF opcode = SVCPrint THEN 2 ELSE 1
        ends == {i \in first..Len(stream) : stream[i] = 0}
    IN  IF ends = {} THEN 0 ELSE Min(ends)

-----------------------------------------------------------------------------
(* range_prepare.go *)

newOperation(cmd) ==
    LET opcode == cmd.raw[1]
        kind == CASE opcode = SVCPlayerInfo /\ validPlayerInfo(cmd.raw, cmd.coordSize) -> "player"
                  [] isTextOpcode(opcode) /\ newTextOperation(cmd.raw) -> "text"
                  [] opcode = SVCDamage /\ newDamage(cmd.raw, cmd.bytes, cmd.coordSize) -> "damage"
                  [] opcode = SVCSound /\ newSound(cmd.raw, cmd.bytes, cmd.coordSize) -> "sound"
                  [] /\ opcode = SVCTempEntity
                     /\ newTempEntity(cmd.raw, cmd.bytes, cmd.coordSize) -> "temp"
                  [] /\ opcode \in {SVCPacketEntities, SVCDeltaPacketEntities}
                     /\ newPacketEntities(cmd.raw, cmd.entities) -> "packet"
                  [] /\ opcode \in FixedOpcodes
                     /\ Len(cmd.raw) = fixedPayloadSize(opcode) + 1 -> "fixed"
                  [] OTHER -> "raw"
    IN  [kind |-> kind, raw |-> cmd.raw, coordSize |-> cmd.coordSize, entities |-> cmd.entities]

(* neighbouring commands that stay raw become one operation *)
AppendOperation(operations, operation) ==
    IF /\ operations # <<>>
       /\ Last(operations).kind = "raw"
       /\ operation.kind = "raw"
    THEN Front(operations) \o <<[operation EXCEPT !.raw = Last(operations).raw \o @]>>
    ELSE Append(operations, operation)

prepareOperations(cmds) ==
    FoldLeft(LAMBDA ops, cmd : AppendOperation(ops, newOperation(cmd)), <<>>, cmds)

PrefixLength(kind) == IF kind = DemoMultiple THEN 1 ELSE 0

newRecord(record) ==
    LET operations == prepareOperations(record.cmds)
        structured == /\ record.reading = "game"
                      /\ \E i \in DOMAIN operations : operations[i].kind # "raw"
    IN  [timestamp |-> record.timestamp, kind |-> record.kind, target |-> record.target,
         payload |-> record.payload, structured |-> structured,
         prefix |-> SubSeq(record.payload, 1, PrefixLength(record.kind)),
         operations |-> operations]

prepare(chunk) == [i \in DOMAIN chunk.records |-> newRecord(chunk.records[i])]

-----------------------------------------------------------------------------
(* range.go: the rows of the grammar *)

recordKindModelFor(s) ==
    IF s.haveRecordKind THEN <<"RecordKindAfter", s.previousRecordKind>> ELSE <<"RecordKind">>

timestampModel(kind, s) ==
    CASE s.previousTimestamp # 0 -> <<"TimestampPrevNonzero", kind>>
      [] s.previousTimestamp = 0 /\ s.haveRecordKind /\ kind \in {DemoSingle, DemoAll} ->
            <<"TimestampPrevKind", kind, s.previousRecordKind>>
      [] OTHER -> <<"Timestamp", kind>>

commandTargetModel(kind) == <<"CommandTarget", kind>>

recordBodyModeModel(kind) == <<"RecordBodyMode", kind>>

recordLengthModel(kind) == <<"RecordLength", kind>>

(* both kicks share a row *)
operationModelAfter(opcode) ==
    IF opcode \in Kicks THEN <<"OperationKindAfterFixed">>
    ELSE IF opcode = rangeOperationEnd THEN <<"OperationKind">>
    ELSE <<"OperationKindAfter", opcode>>

-----------------------------------------------------------------------------
(* literals.go: what the symbols leave out, in four streams *)

TextPayload(operation) == Tail(operation.raw)

recordLiterals(record) ==
    IF ~record.structured THEN record.payload
    ELSE FoldLeft(LAMBDA units, op : units \o IF op.kind = "raw" THEN op.raw ELSE <<>>,
                  record.prefix, record.operations)

recordTexts(record, stream) ==
    IF ~record.structured THEN <<>>
    ELSE FoldLeft(LAMBDA units, op :
                    units \o IF op.kind = "text" /\ textStreamIndex(op.raw[1]) = stream
                             THEN TextPayload(op) ELSE <<>>,
                  <<>>, record.operations)

collectLiterals(records, trailing) ==
    [general |-> FoldLeft(LAMBDA units, r : units \o recordLiterals(r), <<>>, records) \o trailing,
     text |-> [stream \in 1..3 |->
                 FoldLeft(LAMBDA units, r : units \o recordTexts(r, stream), <<>>, records)]]

-----------------------------------------------------------------------------
(* range_encode.go *)

putKind(e, opcode) ==
    [Put(e, e.nextKindModel, opcode) EXCEPT !.nextKindModel = operationModelAfter(opcode)]

(* the players from start on that go into one run *)
PlayerRunEnd(operations, start) ==
    LET Others == {i \in start..Len(operations) : operations[i].kind # "player"}
        limit == start + maxPlayerRunLength
    IN  Min(Others \cup {Len(operations) + 1, limit})

putRunLength(e, length) ==
    [Put(e, <<"PlayerRunLengthDelta">>, Delta(8, length, e.state.previousPlayerRunLength))
       EXCEPT !.state.previousPlayerRunLength = length]

(* index prediction restarts for each run *)
encodePlayerRun(e, operations, start) ==
    LET end == PlayerRunEnd(operations, start)
        header == putRunLength(putKind(e, SVCPlayerInfo), end - start)
        begun == [header EXCEPT !.state.previousPlayerIndex = 0,
                                !.state.previousPlayerIndexDelta = 0, !.index = end]
    IN  FoldLeft(LAMBDA x, op : encodePlayerInfo(x, op.raw, op.coordSize),
                 begun, SubSeq(operations, start, end - 1))

encodeOperation(e, op) ==
    CASE op.kind = "damage" -> encodeDamage(putKind(e, SVCDamage), op.raw, op.coordSize)
      [] op.kind = "sound" -> encodeSound(putKind(e, SVCSound), op.raw, op.coordSize)
      [] op.kind = "temp" -> encodeTempEntity(putKind(e, SVCTempEntity), op.raw, op.coordSize)
      [] op.kind = "packet" -> encodePacketEntities(putKind(e, op.raw[1]), op.raw, op.entities)
      [] op.kind = "text" -> putKind(e, op.raw[1])
      [] op.kind = "fixed" ->
            encodeFixedOperation(putKind(e, op.raw[1]), op.raw[1], Tail(op.raw))
      [] OTHER -> Put(putKind(e, rangeOperationRaw), <<"RawByte">>, Len(op.raw))

encodeAt(e, operations) ==
    IF e.err # "" \/ e.index > Len(operations) THEN e
    ELSE IF operations[e.index].kind = "player"
    THEN encodePlayerRun(e, operations, e.index)
    ELSE [encodeOperation(e, operations[e.index]) EXCEPT !.index = @ + 1]

encodeOperations(e, operations) ==
    putKind(FoldLeft(LAMBDA x, i : encodeAt(x, operations),
                     [e EXCEPT !.index = 1, !.nextKindModel = <<"OperationKind">>],
                     operations),
            rangeOperationEnd)

(* the timestamp is coded in the history of the record before *)
encodeRecordSymbols(e, record) ==
    LET kind == Put(e, recordKindModelFor(e.state), record.kind)
        time == Put(kind, timestampModel(record.kind, e.state), record.timestamp)
        begun == [time EXCEPT
                    !.state = [updateRecordHistory(@, record.kind, record.timestamp)
                                 EXCEPT !.currentCommandTarget = record.target]]
        target == Put(begun, commandTargetModel(record.kind), record.target)
        mode == Put(target, recordBodyModeModel(record.kind),
                    IF record.structured THEN rangeBodyStructured ELSE rangeBodyRaw)
    IN  IF e.err # "" THEN e
        ELSE IF record.structured THEN encodeOperations(mode, record.operations)
        ELSE Put(mode, recordLengthModel(record.kind), Len(record.payload))

NewEncoder == [state |-> rangeCodecState, symbols |-> <<>>, rest |-> <<>>, err |-> "",
               index |-> 1, nextKindModel |-> <<"OperationKind">>,
               previousNumber |-> 0, previousNumberDelta |-> 0]

encodeTrailer(e, length) ==
    Put(Put(e, recordKindModelFor(e.state), rangeRecordEnd), <<"TrailingLength">>, length)

encodeChunkSymbols(records, trailing) ==
    encodeTrailer(FoldLeft(encodeRecordSymbols, NewEncoder, records), Len(trailing))

-----------------------------------------------------------------------------
(* range_decode.go *)

appendOutput(d, units) ==
    IF Len(units) > d.decodedSize - Len(d.out)
    THEN Failed(d, "decoded data exceeds chunk size") ELSE Emit(d, units)

(* what a field codec wrote is subject to the same bound *)
WithinSize(d) ==
    IF Len(d.out) > d.decodedSize THEN Failed(d, "decoded data exceeds chunk size") ELSE d

takeLiteral(d, length) ==
    IF d.err # "" THEN d
    ELSE IF length > Len(d.literals) THEN Failed(d, "length exceeds literal data")
    ELSE appendOutput([d EXCEPT !.literals = SubSeq(@, length + 1, Len(@))],
                      SubSeq(d.literals, 1, length))

decodeRaw(d) ==
    LET length == decodeSymbol(d, <<"RawByte">>)
    IN  IF length.value = 0 THEN Failed(length, "empty raw operation")
        ELSE takeLiteral(length, length.value)

decodeText(d, opcode) ==
    LET stream == textStreamIndex(opcode)
        length == TextLength(d.texts[stream], opcode)
    IN  IF length = 0 THEN Failed(d, "invalid text operation")
        ELSE appendOutput([d EXCEPT !.texts[stream] = SubSeq(@, length + 1, Len(@))],
                          <<opcode>> \o SubSeq(d.texts[stream], 1, length))

decodeRunLengthGoingOn(d) ==
    LET s == decodeSymbol(d, <<"PlayerRunLengthDelta">>)
        count == Restored(8, d.state.previousPlayerRunLength, s.value)
    IN  IF count = 0 \/ count > d.decodedSize \div 4 + 1
        THEN Failed(s, "invalid player run length")
        ELSE [s EXCEPT !.value = count, !.state.previousPlayerRunLength = count]

(* a player takes at least four units of the output *)
decodeRunLength(d) ==
    LET s == decodeSymbol(d, <<"PlayerRunLengthDelta">>)
        count == Restored(8, d.state.previousPlayerRunLength, s.value)
    IN  IF count = 0 \/ count > d.decodedSize \div 4 + 1
        THEN Failed(s, "invalid player run length")
        ELSE [s EXCEPT !.value = count, !.state.previousPlayerRunLength = count,
                       !.state.previousPlayerIndex = 0, !.state.previousPlayerIndexDelta = 0]

decodePlayerRun(d) ==
    LET length == decodeRunLength(d)
    IN  IF length.err # "" THEN length
        ELSE FoldLeft(LAMBDA x, i : WithinSize(decodePlayerInfo(x)), length,
                      Numbers(length.value))

decodeOperation(d, opcode) ==
    CASE opcode = rangeOperationRaw -> decodeRaw(d)
      [] opcode = SVCPlayerInfo -> decodePlayerRun(d)
      [] opcode = SVCDamage -> WithinSize(decodeDamage(Emit(d, <<opcode>>)))
      [] opcode = SVCSound -> WithinSize(decodeSound(d))
      [] opcode = SVCTempEntity -> WithinSize(decodeTempEntity(d))
      [] opcode \in {SVCPacketEntities, SVCDeltaPacketEntities} ->
            WithinSize(decodePacketEntities(d, opcode = SVCDeltaPacketEntities))
      [] isTextOpcode(opcode) -> decodeText(d, opcode)
      [] opcode \in FixedOpcodes -> WithinSize(decodeFixedOperation(Emit(d, <<opcode>>), opcode))
      [] OTHER -> Failed(d, "unknown operation kind")

(* one turn of the loop over the operations of a record *)
decodeNextOperation(d) ==
    LET kind == decodeSymbol(d, d.nextKindModel)
        opcode == kind.value
        begun == [kind EXCEPT !.nextKindModel = operationModelAfter(opcode)]
    IN  IF kind.err # "" THEN kind
        ELSE IF opcode = rangeOperationEnd THEN [begun EXCEPT !.inRecord = FALSE]
        ELSE decodeOperation(begun, opcode)

RECURSIVE decodeOperations(_)
decodeOperations(d) ==
    IF d.err # "" \/ ~d.inRecord THEN d ELSE decodeOperations(decodeNextOperation(d))

(* the length of the body is rebuilt from the operations *)
closeBody(d, place) ==
    IF d.err # "" THEN d ELSE [d EXCEPT !.out[place] = Len(d.out) - place]

decodeStructuredRecord(d, kind) ==
    LET prefixed == appendOutput(takeLiteral(d, PrefixLength(kind)), <<0>>)
    IN  closeBody(decodeOperations([prefixed EXCEPT !.nextKindModel = <<"OperationKind">>,
                                                    !.inRecord = TRUE]),
                  Len(prefixed.out))

decodeRawRecord(d, kind) ==
    LET length == decodeSymbol(d, recordLengthModel(kind))
    IN  IF length.err # "" THEN length ELSE takeLiteral(length, length.value)

decodeRecord(d, kind) ==
    LET time == decodeSymbol(d, timestampModel(kind, d.state))
        begun == [time EXCEPT !.state = updateRecordHistory(@, kind, time.value)]
        target == decodeSymbol(begun, commandTargetModel(kind))
        mode == decodeSymbol([target EXCEPT !.state.currentCommandTarget = target.value],
                             recordBodyModeModel(kind))
        opened == appendOutput(mode, <<time.value, target.value * 8 + kind>>)
    IN  IF target.err = "" /\ target.value > 31 THEN Failed(target, "invalid command target")
        ELSE IF mode.err # "" THEN mode
        ELSE IF mode.value = rangeBodyRaw THEN decodeRawRecord(opened, kind)
        ELSE IF mode.value = rangeBodyStructured THEN decodeStructuredRecord(opened, kind)
        ELSE Failed(mode, "unknown body mode")

decodeNextRecord(d) ==
    LET kind == decodeSymbol(d, recordKindModelFor(d.state))
    IN  IF kind.err # "" THEN kind
        ELSE IF kind.value = rangeRecordEnd THEN [kind EXCEPT !.ended = TRUE]
        ELSE IF kind.value > rangeRecordEnd THEN Failed(kind, "invalid record kind")
        ELSE decodeRecord(kind, kind.value)

RECURSIVE decodeRecords(_)
decodeRecords(d) ==
    IF d.err # "" \/ d.ended THEN d ELSE decodeRecords(decodeNextRecord(d))

(* literals and output must be used up exactly *)
decodeFinish(d) ==
    LET length == decodeSymbol(d, <<"TrailingLength">>)
        closed == appendOutput(length, d.literals)
    IN  IF length.err # "" THEN length
        ELSE IF length.value # Len(d.literals) THEN Failed(length, "trailing length")
        ELSE IF \E stream \in 1..3 : d.texts[stream] # <<>> THEN Failed(length, "text stream")
        ELSE IF Len(closed.out) # d.decodedSize THEN Failed(closed, "decoded size")
        ELSE closed

NewDecoder(symbols, literals, decodedSize) ==
    [state |-> rangeCodecState, symbols |-> symbols, literals |-> literals.general,
     texts |-> literals.text, decodedSize |-> decodedSize, out |-> <<>>, value |-> 0,
     err |-> "", ended |-> FALSE, inRecord |-> FALSE, nextKindModel |-> <<"OperationKind">>,
     previousNumber |-> 0, previousNumberDelta |-> 0]

decodeChunkSymbols(symbols, literals, decodedSize) ==
    decodeFinish(decodeRecords(NewDecoder(symbols, literals, decodedSize)))
=============================================================================
