---------------------------- MODULE MvzCallers -----------------------------
(***************************************************************************)
(* The two callers of a ChunkPipeline: encodeWithWorkers with its visitor  *)
(* writeChunk (encode.go), and decodeChunks (decode.go), which reads the   *)
(* entries of the container (container.go).  Both carry out a chunk        *)
(* themselves or hand it to the pipeline, and end early on an error.       *)
(* Between the two the file may be damaged.                                *)
(*                                                                         *)
(* What the parser makes of a demo and what a chunk encodes or decodes to  *)
(* are constants here, ParseIntoChunks and Work; MvzFile has the           *)
(* operators that are their values.  An error is a tuple, NoError the      *)
(* empty one; it carries the place it happened at, so that two failures    *)
(* can be told apart.                                                      *)
(***************************************************************************)
EXTENDS ChunkPipeline, SequencesExt

CONSTANTS
    Demos,
    Damages,               \* what may happen to a file: sequences of [kind, at]
    ParseIntoChunks(_),    \* the chunks of a demo, and the error that ended the parser
    maxChunkSize

validChunkSize(size) == size \in 1..maxChunkSize

EncodeJob(chunk, index, profile) ==
    [type |-> "encode", size |-> Len(chunk.original), chunk |-> chunk,
     profile |-> profile, index |-> index]

DecodeJob(entry, index) ==
    [type |-> "decode", size |-> entry.encodedSize + entry.decodedSize,
     entry |-> entry, index |-> index]

ASSUME ErrorAssumption == NoError = <<>>
ASSUME SizeAssumption == maxChunkSize \in Nat /\ 2 * maxChunkSize <= MaxPendingBytes

(* the parser returns no chunk of another size *)
ASSUME ParserAssumption ==
    \A d \in Demos :
        /\ Len(ParseIntoChunks(d).chunks) \in Nat
        /\ \A i \in 1..Len(ParseIntoChunks(d).chunks) :
              validChunkSize(Len(ParseIntoChunks(d).chunks[i].original))

(* no profile has the number that stands for none *)
ASSUME ProfileAssumption ==
    \A d \in Demos :
        ParseIntoChunks(d).chunks # <<>> =>
            \E r \in {Work(EncodeJob(ParseIntoChunks(d).chunks[1], 1, 0))} :
                r.err = NoError => r.data[1].profile # 0

VARIABLES
    demo,
    parsed,      \* what parseIntoChunks makes of the demo
    phase,       \* "encode", "encoded", "failed", "decode" or "done"
    many,        \* more than one worker was asked for
    next,        \* the next chunk to encode, or the next entry to decode
    selected,    \* selectedProfileID
    used,        \* the pipeline has been created
    stopped,     \* the caller has left its loop
    stopErr,     \* with this error of its own
    before,      \* what was written without the pipeline, chunk by chunk
    file,        \* the entries of the container
    damage,
    result       \* what the encoder, then the decoder, returned

fileVars == <<demo, parsed, phase, many, next, selected, used, stopped, stopErr,
              before, file, damage, result>>
vars == <<pipeVars, fileVars>>

-----------------------------------------------------------------------------
(* parseChunkHeader and readChunkPayload *)
FramingError(entries, i) ==
    CASE i > Len(entries) -> <<"unexpected EOF", i>>
      [] entries[i].type = "end" ->
            IF i = Len(entries) THEN NoError ELSE <<"trailing bytes", i>>
      [] entries[i].type = "unknown" -> <<"unknown entry type", i>>
      [] OTHER -> IF /\ validChunkSize(entries[i].decodedSize)
                     /\ validChunkSize(entries[i].encodedSize)
                  THEN NoError ELSE <<"invalid chunk size", i>>

-----------------------------------------------------------------------------
(***************************************************************************)
(* encodeWithWorkers: the loop of the parser and its visitor writeChunk.   *)
(***************************************************************************)
Init ==
    /\ PipelineInit
    /\ demo \in Demos
    /\ parsed = ParseIntoChunks(demo)
    /\ phase = "encode"
    /\ many \in {FALSE, Cardinality(Workers) > 1}
    /\ next = 1 /\ selected = 0 /\ used = FALSE /\ stopped = FALSE
    /\ stopErr = NoError /\ before = <<>> /\ file = <<>>
    /\ damage = <<>>
    /\ result = [err |-> NoError, data |-> <<>>]

Stop(err) == stopped' = TRUE /\ stopErr' = err

writeChunkNow ==
    /\ phase = "encode" /\ ~stopped /\ next <= Len(parsed.chunks)
    /\ selected = 0 \/ ~many
    /\ \E r \in {Work(EncodeJob(parsed.chunks[next], next, selected))} :
          \/ /\ r.err # NoError
             /\ Stop(r.err)
             /\ UNCHANGED <<before, selected, next>>
          \/ /\ r.err = NoError
             /\ before' = Append(before, r.data)
             /\ selected' = IF selected # 0 THEN selected ELSE r.data[1].profile
             /\ next' = next + 1
             /\ UNCHANGED <<stopped, stopErr>>
    /\ UNCHANGED <<pipeVars, demo, parsed, phase, many, used, file, damage, result>>

(* nothing but the end entry is left behind it: the code tests that as many *)
(* bytes remain as an end entry has; an unknown entry behind a chunk is a    *)
(* damaged chunk, which is longer                                            *)
LastChunk(i) == i + 1 = Len(file) /\ file[i + 1].type = "end"

createPipeline ==
    /\ ~stopped /\ many /\ ~used
    /\ \/ phase = "encode" /\ selected # 0 /\ next <= Len(parsed.chunks)
       \/ /\ phase = "decode" /\ FramingError(file, next) = NoError
          /\ file[next].type = "data" /\ ~LastChunk(next)
    /\ newChunkPipeline
    /\ used' = TRUE
    /\ UNCHANGED <<demo, parsed, phase, many, next, selected, stopped, stopErr,
                   before, file, damage, result>>

submitChunk ==
    /\ phase = "encode" /\ ~stopped /\ used /\ next <= Len(parsed.chunks)
    /\ submit(EncodeJob(parsed.chunks[next], next, selected))
    /\ next' = next + 1
    /\ UNCHANGED <<demo, parsed, phase, many, selected, used, stopped, stopErr,
                   before, file, damage, result>>

(* the visitor's error ends the parser; without one it comes to the end of the demo *)
encodeStop ==
    /\ phase = "encode" /\ ~stopped
    /\ call \in {"none", "open"}
    /\ \/ returned # NoError /\ Stop(returned)
       \/ returned = NoError /\ next > Len(parsed.chunks) /\ Stop(parsed.err)
    /\ UNCHANGED <<pipeVars, demo, parsed, phase, many, next, selected, used,
                   before, file, damage, result>>

(* pending chunks are finished even after a failure *)
joinPipeline ==
    /\ stopped /\ used /\ call = "open"
    /\ finish
    /\ UNCHANGED fileVars

Joined == stopped /\ call = "none"

(* what both have written to one buffer, chunk by chunk *)
Output == before \o (IF used THEN out ELSE <<>>)

EndEntry == [type |-> "end"]

(* an earlier failure of a chunk has precedence *)
ReturnErrorOwnFirst == IF stopErr # NoError THEN stopErr ELSE returned

ReturnError == IF used /\ returned # NoError THEN returned ELSE stopErr

encodeReturn ==
    /\ phase = "encode" /\ Joined
    /\ \/ /\ ReturnError # NoError
          /\ result' = [err |-> ReturnError, data |-> <<>>]
          /\ phase' = "failed"
          /\ UNCHANGED file
       \/ /\ ReturnError = NoError
          /\ file' = Append(FlattenSeq(Output), EndEntry)
          /\ phase' = "encoded"
          /\ UNCHANGED result
    /\ UNCHANGED <<pipeVars, demo, parsed, many, next, selected, used, stopped, stopErr,
                   before, damage>>

-----------------------------------------------------------------------------
(* What may happen to a stored file.  A change of the range data or of a     *)
(* literal stream decodes to something else or not at all.                    *)

Damaged(entries, d) ==
    LET i == d.at
    IN  CASE d.kind = "symbol" -> [entries EXCEPT ![i].range[2][2] = @ + 1]
          [] d.kind = "range" -> [entries EXCEPT ![i].range = Front(@)]
          [] d.kind = "literal" ->
                [entries EXCEPT ![i].literals.general = [n \in DOMAIN @ |-> 1 + @[n]]]
          [] d.kind = "descriptor" -> [entries EXCEPT ![i].descriptors = FALSE]
          [] d.kind = "profile" -> [entries EXCEPT ![i].profile = 0]
          [] d.kind = "checksum" -> [entries EXCEPT ![i].checksum = Append(@, 0)]
          [] d.kind = "header" -> [entries EXCEPT ![i].decodedSize = 0]
          [] d.kind = "type" -> [entries EXCEPT ![i] = [type |-> "unknown"]]
          [] d.kind = "cut" -> SubSeq(entries, 1, i)
          [] OTHER -> Append(entries, [type |-> "unknown"])

(* the kinds of damage that fit a file *)
Fits(entries, d) ==
    \/ d.kind = "appended"
    \/ d.at = 0 /\ d.kind = "cut"
    \/ /\ d.at \in 1..(Len(entries) - 1)
       /\ d.kind = "literal" => entries[d.at].literals.general # <<>>

decodeStart ==
    /\ phase = "encoded"
    /\ \E ds \in Damages :
          /\ \A i \in DOMAIN ds : Fits(file, ds[i])
          /\ damage' = ds
          /\ file' = FoldLeft(Damaged, file, ds)
    /\ phase' = "decode"
    /\ many' \in {FALSE, Cardinality(Workers) > 1}
    /\ next' = 1 /\ used' = FALSE /\ stopped' = FALSE /\ stopErr' = NoError
    /\ before' = <<>>
    /\ UNCHANGED <<pipeVars, demo, parsed, selected, result>>

(***************************************************************************)
(* decodeChunks.                                                           *)
(***************************************************************************)
readError ==
    /\ phase = "decode" /\ ~stopped
    /\ call \in {"none", "open"} /\ (used => returned = NoError)
    /\ FramingError(file, next) = NoError => file[next].type = "end"
    /\ Stop(FramingError(file, next))
    /\ UNCHANGED <<pipeVars, demo, parsed, phase, many, next, selected, used,
                   before, file, damage, result>>

decodeNow ==
    /\ phase = "decode" /\ ~stopped
    /\ FramingError(file, next) = NoError /\ file[next].type = "data"
    /\ ~many \/ (~used /\ LastChunk(next))
    /\ \E r \in {Work(DecodeJob(file[next], next))} :
          \/ /\ r.err # NoError
             /\ Stop(r.err)
             /\ UNCHANGED <<before, next>>
          \/ /\ r.err = NoError
             /\ before' = Append(before, r.data)
             /\ next' = next + 1
             /\ UNCHANGED <<stopped, stopErr>>
    /\ UNCHANGED <<pipeVars, demo, parsed, phase, many, selected, used, file, damage, result>>

submitDecode ==
    /\ phase = "decode" /\ ~stopped /\ used
    /\ FramingError(file, next) = NoError /\ file[next].type = "data"
    /\ submit(DecodeJob(file[next], next))
    /\ next' = next + 1
    /\ UNCHANGED <<demo, parsed, phase, many, selected, used, stopped, stopErr,
                   before, file, damage, result>>

submitRefused ==
    /\ phase = "decode" /\ ~stopped /\ used /\ call = "open"
    /\ returned # NoError
    /\ Stop(returned)
    /\ UNCHANGED <<pipeVars, demo, parsed, phase, many, next, selected, used,
                   before, file, damage, result>>

decodeReturnOwnFirst ==
    /\ phase = "decode" /\ Joined
    /\ phase' = "done"
    /\ result' = IF stopErr # NoError THEN [err |-> stopErr, data |-> <<>>]
                 ELSE IF ReturnError # NoError
                 THEN [err |-> ReturnError, data |-> <<>>]
                 ELSE [err |-> NoError, data |-> FlattenSeq(Output)]
    /\ UNCHANGED <<pipeVars, demo, parsed, many, next, selected, used, stopped, stopErr,
                   before, file, damage>>

decodeReturn ==
    /\ phase = "decode" /\ Joined
    /\ phase' = "done"
    /\ result' = IF ReturnError # NoError
                 THEN [err |-> ReturnError, data |-> <<>>]
                 ELSE [err |-> NoError, data |-> FlattenSeq(Output)]
    /\ UNCHANGED <<pipeVars, demo, parsed, many, next, selected, used, stopped, stopErr,
                   before, file, damage>>

Caller ==
    \/ writeChunkNow \/ createPipeline \/ submitChunk \/ encodeStop \/ joinPipeline
    \/ encodeReturn \/ decodeStart \/ readError \/ decodeNow \/ submitDecode
    \/ submitRefused \/ decodeReturn

CallInside == PipelineCall /\ UNCHANGED fileVars

Worker(w) == run(w) /\ UNCHANGED fileVars

Next == Caller \/ CallInside \/ \E w \in Workers : Worker(w)

Spec == Init /\ [][Next]_vars

(* neither the caller nor a worker stops while it can go on *)
FairSpec ==
    /\ Spec
    /\ WF_vars(Caller)
    /\ WF_vars(CallInside)
    /\ \A w \in Workers : WF_vars(Worker(w))

-----------------------------------------------------------------------------
(***************************************************************************)
(* What one goroutine does, chunk after chunk: the reference.  Every chunk *)
(* behind the first is encoded with the profile that was chosen for it.    *)
(***************************************************************************)
FirstProfile == Work(EncodeJob(parsed.chunks[1], 1, 0)).data[1].profile

Encoded(i) ==
    Work(EncodeJob(parsed.chunks[i], i, IF i = 1 THEN 0 ELSE FirstProfile))

(* what the encoder returns if chunk i encodes to results[i]: all of them, the error *)
(* of the first that fails, or the parser's                                         *)
EncodeOutcome(results) ==
    /\ phase = "encoded" =>
          /\ parsed.err = NoError
          /\ \A i \in 1..Len(parsed.chunks) : results[i].err = NoError
          /\ file = Append(FlattenSeq([i \in 1..Len(parsed.chunks) |-> results[i].data]),
                           EndEntry)
    /\ phase = "failed" =>
          \/ \E i \in 1..Len(parsed.chunks) :
                /\ \A j \in 1..(i - 1) : results[j].err = NoError
                /\ results[i].err # NoError /\ result.err = results[i].err
          \/ /\ \A i \in 1..Len(parsed.chunks) : results[i].err = NoError
             /\ parsed.err # NoError /\ result.err = parsed.err

(* entry i is a chunk; the reader goes on behind it *)
Readable(i) == FramingError(file, i) = NoError /\ file[i].type = "data"

Decoded(i) == Work(DecodeJob(file[i], i))

(* what reading entry i returns, if it ends the call *)
Outcome(results, i) ==
    IF FramingError(file, i) # NoError
    THEN [err |-> FramingError(file, i), data |-> <<>>]
    ELSE IF file[i].type = "end"
    THEN [err |-> NoError, data |-> FlattenSeq([j \in 1..(i - 1) |-> results[j].data])]
    ELSE [err |-> results[i].err, data |-> <<>>]

(* what the decoder returns if entry i, a chunk, decodes to results[i] *)
DecodeOutcome(results) ==
    phase = "done" =>
        \E i \in 1..next :
            /\ \A j \in 1..(i - 1) : Readable(j) /\ results[j].err = NoError
            /\ Readable(i) => results[i].err # NoError
            /\ result = Outcome(results, i)

(***************************************************************************)
(* The encoded file, or the error the encoder returns, is the one a single *)
(* goroutine would have produced: "The worker count does not affect the    *)
(* encoded bytes" (src/demo/mvz/mvz.go), although chunks are encoded in    *)
(* any order, fail in any order, and the parser runs ahead of them.        *)
(***************************************************************************)
WorkersDoNotMatter ==
    EncodeOutcome([i \in 1..Len(parsed.chunks) |-> Encoded(i)])

(***************************************************************************)
(* The decoder returns what reading the chunks one by one returns: the     *)
(* first failure in the order of the file, whether a chunk's or a framing  *)
(* error found while earlier chunks were still being decoded               *)
(* (decodeChunks, decode.go).                                              *)
(***************************************************************************)
FirstErrorWins ==
    DecodeOutcome([i \in 1..next |-> Decoded(i)])

(***************************************************************************)
(* Both calls return, with every worker of their pipelines gone (finish,   *)
(* "No worker can outlive the encode/decode call").                        *)
(***************************************************************************)
CallsReturn == <>[](phase \in {"failed", "done"} /\ call = "none" /\ exited = Workers)
=============================================================================
