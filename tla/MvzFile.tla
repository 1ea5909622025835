------------------------------ MODULE MvzFile ------------------------------
(***************************************************************************)
(* A demo compressed to an MVZ file and restored from it: the parser's     *)
(* records cut into chunks (parse.go), what encoding a chunk (encode.go,   *)
(* profiles.go) and decoding one (decode.go) return.  MvzCallers has the   *)
(* calls that put the chunks together.                                     *)
(*                                                                         *)
(* demo is [records, trailing, fails]: the records ParseRecords visits,    *)
(* the bytes behind a disconnect, and whether parsing fails after the last *)
(* record.                                                                 *)
(***************************************************************************)
EXTENDS MvzCallers, MvzChunk

CONSTANTS
    Profiles,              \* the ids of the frequency profiles, in order
    SymbolCost(_, _),      \* what a profile's rows make of a symbol
    rangeChunkTargetSize

ASSUME ProfilesAssumption ==
    Profiles # <<>> /\ \A i \in DOMAIN Profiles : Profiles[i] # 0

-----------------------------------------------------------------------------
(* parse.go *)

RecordBytes(r) == <<r.timestamp, r.target * 8 + r.kind>> \o r.payload

Original(records, trailing) ==
    FoldLeft(LAMBDA units, r : units \o RecordBytes(r), <<>>, records) \o trailing

builderFlush(b, trailing) ==
    LET original == Original(b.records, trailing)
    IN  IF original = <<>> THEN b
        ELSE IF ~validChunkSize(Len(original)) THEN [b EXCEPT !.err = <<"chunk size">>]
        ELSE [b EXCEPT !.records = <<>>, !.first = @ + Len(b.records),
                       !.chunks = Append(@, [records |-> b.records, trailing |-> trailing,
                                             original |-> original, first |-> b.first])]

addRecord(b, r) ==
    LET size == Len(RecordBytes(r))
        chunkSize == Len(Original(b.records, <<>>))
        flushed == IF chunkSize # 0 /\ chunkSize + size > rangeChunkTargetSize
                   THEN builderFlush(b, <<>>) ELSE b
    IN  IF b.err # NoError THEN b
        ELSE IF size > maxChunkSize THEN [b EXCEPT !.err = <<"record size">>]
        ELSE [flushed EXCEPT !.records = Append(@, r)]

(* the parsed body is too short, or a packet has more entities than the format can say *)
Refuses(record) ==
    \/ record.reading = "fails"
    \/ /\ record.reading = "game"
       /\ \E i \in DOMAIN record.cmds : ~validatePacketEntityCount(record.cmds[i].entities)

(* a record prepare refuses, by its number in the demo *)
PrepareFailure(records, first) ==
    LET refused == {i \in DOMAIN records : Refuses(records[i])}
    IN  IF refused = {} THEN NoError ELSE <<"prepare", first + Min(refused)>>

NewBuilder == [chunks |-> <<>>, records |-> <<>>, first |-> 0, err |-> NoError]

(* after a failure the records of the unfinished chunk are prepared as well *)
endOfRecords(b, d) ==
    LET unfinished == PrepareFailure(b.records, b.first)
    IN  IF b.err = NoError /\ ~d.fails THEN builderFlush(b, d.trailing)
        ELSE [b EXCEPT !.err = IF unfinished # NoError THEN unfinished ELSE <<"parse">>]

parseIntoChunks(d) == endOfRecords(FoldLeft(addRecord, NewBuilder, d.records), d)

-----------------------------------------------------------------------------
(* encode.go, profiles.go *)

RangeSize(profile, symbols) ==
    1 + MapThenSumSet(LAMBDA i : SymbolCost(profile, symbols[i]), DOMAIN symbols)

(* every profile is tried on the first chunk, the first shortest is kept *)
selectProfile(symbols) ==
    LET size == [i \in DOMAIN Profiles |-> RangeSize(Profiles[i], symbols)]
    IN  Profiles[Min({i \in DOMAIN Profiles : \A j \in DOMAIN Profiles : size[i] <= size[j]})]

DeflateSize(literals) ==
    2 + Len(literals.general) + Len(literals.text[1]) + Len(literals.text[2])
      + Len(literals.text[3])

Entry(chunk, profile, symbols, literals) ==
    [type |-> "data", decodedSize |-> Len(chunk.original), checksum |-> chunk.original,
     encodedSize |-> 1 + RangeSize(profile, symbols) + DeflateSize(literals),
     profile |-> profile, descriptors |-> TRUE, range |-> symbols, literals |-> literals]

finishEncode(coded, entry, index) ==
    IF coded.err # "" \/ ~validChunkSize(entry.encodedSize)
    THEN [err |-> <<"encode", index>>, data |-> <<>>]
    ELSE [err |-> NoError, data |-> <<entry>>]

encodePrepared(chunk, profileID, index, records, coded) ==
    LET profile == IF profileID # 0 THEN profileID ELSE selectProfile(coded.symbols)
        literals == collectLiterals(records, chunk.trailing)
    IN  finishEncode(coded, Entry(chunk, profile, coded.symbols, literals), index)

encodeRecords(chunk, profileID, index, records) ==
    encodePrepared(chunk, profileID, index, records,
                   encodeChunkSymbols(records, chunk.trailing))

encodeChunk(chunk, profileID, index) ==
    LET refused == PrepareFailure(chunk.records, chunk.first)
    IN  IF refused # NoError THEN [err |-> refused, data |-> <<>>]
        ELSE encodeRecords(chunk, profileID, index, prepare(chunk))

(* decode.go *)

checkDecodedNoChecksum(entry, index, decoded) ==
    IF \/ ~entry.descriptors
       \/ \A i \in DOMAIN Profiles : Profiles[i] # entry.profile
       \/ decoded.err # ""
    THEN [err |-> <<"decode", index>>, data |-> <<>>]
    ELSE [err |-> NoError, data |-> decoded.out]

checkDecoded(entry, index, decoded) ==
    IF \/ ~entry.descriptors
       \/ \A i \in DOMAIN Profiles : Profiles[i] # entry.profile
       \/ decoded.err # ""
    THEN [err |-> <<"decode", index>>, data |-> <<>>]
    ELSE IF decoded.out # entry.checksum
    THEN [err |-> <<"checksum", index>>, data |-> <<>>]
    ELSE [err |-> NoError, data |-> decoded.out]

decodeChunk(entry, index) ==
    checkDecoded(entry, index,
                 decodeChunkSymbols(entry.range, entry.literals, entry.decodedSize))

(* the functions the two callers submit, or call themselves: the value of Work *)
MvzWork(job) ==
    IF job.type = "encode"
    THEN encodeChunk(job.chunk, job.profile, job.index)
    ELSE decodeChunk(job.entry, job.index)

-----------------------------------------------------------------------------
DemoBytes == Original(demo.records, demo.trailing)

(***************************************************************************)
(* A demo that encodes is restored exactly: every record, with what its    *)
(* body was coded against, from symbols, literals and text streams         *)
(* (decodeChunkSymbols after encodeChunkSymbols), although every value is  *)
(* coded against what earlier records of the chunk left behind.            *)
(***************************************************************************)
RoundTrip ==
    phase = "done" /\ damage = <<>> =>
        result = [err |-> NoError, data |-> DemoBytes]

(***************************************************************************)
(* A damaged file is refused or gives the demo it was made from, never     *)
(* another one.                                                            *)
(***************************************************************************)
DamageIsNoticed ==
    phase = "done" => result.err # NoError \/ result.data = DemoBytes
=============================================================================
