-------------------------- MODULE MvzCallersProofs --------------------------
(***************************************************************************)
(* Proofs about MvzCallers, for every number of workers, every budget that *)
(* holds two chunks, whatever the parser makes of a demo, whatever encoding *)
(* and decoding a chunk return, and whatever has happened to the file.     *)
(*                                                                         *)
(* Both calls are loops over items, the chunks of the parser or the        *)
(* entries of the file, of which the first few are carried out by the      *)
(* caller and the rest by the pipeline.  The invariant says how far either *)
(* has come, and PipelineInv what the pipeline has written of it.          *)
(***************************************************************************)
EXTENDS MvzCallers, ChunkPipelineProofs

(* the items of the loop that runs, and the job of each *)
Item(i) == IF phase = "encode" THEN i \in 1..Len(parsed.chunks) ELSE Readable(i)

JobAt(i) ==
    IF phase = "encode"
    THEN EncodeJob(parsed.chunks[i], i, IF i = 1 THEN 0 ELSE FirstProfile)
    ELSE DecodeJob(file[i], i)

(* the loop, alone, would end at i with the error e: the item fails, or there is none *)
EndsAt(i, e) ==
    \/ Item(i) /\ e # NoError /\ e = Work(JobAt(i)).err
    \/ phase = "encode" /\ ~Item(i) /\ e = parsed.err
    \/ phase = "decode" /\ e = FramingError(file, i) /\ (e = NoError => file[i].type = "end")

(* item i is carried out and gives d *)
Gives(i, d) == Item(i) /\ Work(JobAt(i)).err = NoError /\ d = Work(JobAt(i)).data

Pieces == {Work(JobAt(i)).data : i \in 1..Len(before)}

(* what the caller has written itself *)
BeforeInv ==
    /\ before \in Seq(Pieces)
    /\ \A i \in 1..Len(before) : Gives(i, before[i])
    /\ phase = "encode" => selected = IF before = <<>> THEN 0 ELSE FirstProfile

(* no pipeline yet *)
AloneInv ==
    /\ call = "none" /\ returned = NoError
    /\ Len(before) = next - 1
    /\ stopped => EndsAt(next, stopErr)

(* the pipeline has the items behind those the caller has written *)
PipedInv ==
    /\ many /\ (phase = "encode" => before # <<>>)
    /\ Len(before) + Len(submitted) <= next - 1
    /\ \A k \in 1..Len(submitted) :
          Item(Len(before) + k) /\ submitted[k] = JobAt(Len(before) + k)
    /\ call = "submit" =>
          /\ ~stopped /\ returned = NoError /\ pipeErr = NoError
          /\ Item(next - 1) /\ asked = <<JobAt(next - 1)>>
          /\ Len(before) + Len(submitted) = next - 2
    /\ call = "open" /\ ~stopped =>
          /\ returned = pipeErr
          /\ pipeErr = NoError => Len(before) + Len(submitted) = next - 1
    /\ call \in {"finish", "none"} => stopped
    /\ call = "none" => returned = pipeErr
    /\ stopped =>
          \/ pipeErr # NoError
          \/ Len(before) + Len(submitted) = next - 1 /\ EndsAt(next, stopErr)

LoopInv == BeforeInv /\ (used => PipedInv) /\ (~used => AloneInv)

CallerInv ==
    /\ phase \in {"encode", "encoded", "failed", "decode", "done"}
    /\ demo \in Demos /\ parsed = ParseIntoChunks(demo)
    /\ next \in Nat \ {0} /\ used \in BOOLEAN /\ stopped \in BOOLEAN
    /\ phase \in {"encode", "decode"} => LoopInv
    /\ phase = "encoded" => call = "none" /\ returned = NoError
    /\ WorkersDoNotMatter /\ FirstErrorWins

IInv == CallerInv /\ \E J : Sized(J) /\ PipelineInv(J)

-----------------------------------------------------------------------------
(* Every item fits the queue, so that submit never answers BadSize. *)
LEMMA ItemFits ==
    ASSUME CallerInv, phase \in {"encode", "decode"}, NEW i, Item(i)
    PROVE  JobAt(i).size \in Nat /\ ~(JobAt(i).size > MaxPendingBytes)
<1>1. CASE phase = "encode"
  <2>1. JobAt(i).size = Len(parsed.chunks[i].original)
    BY <1>1 DEF JobAt, EncodeJob
  <2>2. validChunkSize(Len(parsed.chunks[i].original))
    BY <1>1, ParserAssumption DEF CallerInv, Item
  <2> QED
    BY <2>1, <2>2, SizeAssumption, BytesAssumption DEF validChunkSize
<1>2. CASE phase = "decode"
  <2>1. JobAt(i).size = file[i].encodedSize + file[i].decodedSize
    BY <1>2 DEF JobAt, DecodeJob
  <2>2. FramingError(file, i) = <<>> /\ file[i].type = "data"
    BY <1>2, ErrorAssumption DEF Item, Readable
  <2>3. validChunkSize(file[i].decodedSize) /\ validChunkSize(file[i].encodedSize)
    BY <2>2, ErrorAssumption DEF FramingError
  <2> QED
    BY <2>1, <2>3, SizeAssumption, BytesAssumption DEF validChunkSize
<1> QED
  BY <1>1, <1>2

(* The items and their jobs are those of the phase, whatever else changes. *)
LEMMA LoopSame ==
    ASSUME UNCHANGED <<phase, parsed, file>>, NEW i
    PROVE  /\ Item(i)' <=> Item(i)
           /\ JobAt(i)' = JobAt(i)
           /\ \A e : EndsAt(i, e)' <=> EndsAt(i, e)
           /\ \A d : Gives(i, d)' <=> Gives(i, d)
<1>1. Item(i)' <=> Item(i)
  BY DEF Item, Readable
<1>2. JobAt(i)' = JobAt(i)
  BY DEF JobAt, FirstProfile
<1>3. \A e : EndsAt(i, e)' <=> EndsAt(i, e)
  BY <1>1, <1>2 DEF EndsAt
<1>4. \A d : Gives(i, d)' <=> Gives(i, d)
  BY <1>1, <1>2 DEF Gives
<1> QED
  BY <1>1, <1>2, <1>3, <1>4

(* A step that writes nothing itself. *)
LEMMA BeforeSame ==
    ASSUME BeforeInv, UNCHANGED <<phase, parsed, file, before, selected>>
    PROVE  BeforeInv'
<1>1. Pieces' = Pieces
  BY LoopSame DEF Pieces
<1>2. before' \in Seq(Pieces')
  BY <1>1 DEF BeforeInv
<1>3. \A i \in 1..Len(before') : Gives(i, before[i])'
  <2> SUFFICES ASSUME NEW i \in 1..Len(before) PROVE Gives(i, before[i])'
    OBVIOUS
  <2>1. Gives(i, before[i])
    BY DEF BeforeInv
  <2> QED
    BY <2>1, LoopSame DEF Gives
<1>4. phase' = "encode" => selected' = IF before' = <<>> THEN 0 ELSE FirstProfile'
  BY DEF BeforeInv, FirstProfile
<1> QED
  BY <1>2, <1>3, <1>4 DEF BeforeInv

(* The caller carries out the next item itself. *)
LEMMA BeforeGrows ==
    ASSUME BeforeInv, UNCHANGED <<phase, parsed, file>>,
           NEW d, Gives(Len(before) + 1, d), before' = Append(before, d),
           phase = "encode" => selected' = FirstProfile
    PROVE  BeforeInv'
<1> DEFINE n == Len(before)
<1>0. before \in Seq(Pieces) /\ n \in Nat
  BY DEF BeforeInv
<1>1. /\ Len(before') = n + 1 /\ before'[n + 1] = d
      /\ \A i \in 1..n : before'[i] = before[i]
  BY <1>0
<1>2. before' \in Seq(Pieces')
  <2>1. Pieces' = {Work(JobAt(i)).data : i \in 1..(n + 1)}
    BY <1>1, LoopSame DEF Pieces
  <2>2. Pieces \subseteq Pieces'
    <3>1. Pieces = {Work(JobAt(i)).data : i \in 1..n}
      BY DEF Pieces
    <3> QED
      BY <2>1, <3>1, <1>0
  <2>3. d \in Pieces'
    BY <2>1, <1>0 DEF Gives
  <2>4. before \in Seq(Pieces')
    BY <1>0, <2>2
  <2> QED
    BY <2>3, <2>4
<1>3. \A i \in 1..Len(before') : Gives(i, before[i])'
  <2> SUFFICES ASSUME NEW i \in 1..(n + 1) PROVE Gives(i, before[i])'
    BY <1>1
  <2>1. Gives(i, before'[i])
    <3>1. CASE i = n + 1
      BY <3>1, <1>1
    <3>2. CASE i \in 1..n
      BY <3>2, <1>1 DEF BeforeInv
    <3> QED
      BY <3>1, <3>2, <1>0
  <2> QED
    BY <2>1, LoopSame DEF Gives
<1>4. before' # <<>>
  BY <1>0, <1>1
<1>5. FirstProfile' = FirstProfile
  BY DEF FirstProfile
<1> QED
  BY <1>2, <1>3, <1>4, <1>5 DEF BeforeInv

(* A step of the pipeline alone, or one that stays in its loop. *)
LEMMA StaysInLoop ==
    ASSUME CallerInv, phase \in {"encode", "decode"}, UNCHANGED <<phase, demo, parsed>>,
           next' \in Nat \ {0}, used' \in BOOLEAN, stopped' \in BOOLEAN, LoopInv'
    PROVE  CallerInv'
BY DEF CallerInv, WorkersDoNotMatter, EncodeOutcome, FirstErrorWins, DecodeOutcome

(* Outside the loops nothing of the pipeline matters. *)
LEMMA OutsideLoops ==
    ASSUME CallerInv, phase \notin {"encode", "decode"}, UNCHANGED fileVars,
           phase = "encoded" => UNCHANGED <<call, returned>>
    PROVE  CallerInv'
<1>1. WorkersDoNotMatter'
  <2> DEFINE R == [i \in 1..Len(parsed.chunks) |-> Encoded(i)]
  <2>1. R' = R
    BY DEF Encoded, FirstProfile, fileVars
  <2>2. (WorkersDoNotMatter <=> EncodeOutcome(R)) /\ (WorkersDoNotMatter' <=> EncodeOutcome(R)')
    BY DEF WorkersDoNotMatter
  <2> HIDE DEF R
  <2>3. EncodeOutcome(R)' <=> EncodeOutcome(R)
    BY <2>1 DEF EncodeOutcome, EndEntry, fileVars
  <2> QED
    BY <2>2, <2>3 DEF CallerInv
<1>2. FirstErrorWins'
  <2> DEFINE R == [i \in 1..next |-> Decoded(i)]
  <2>1. R' = R
    BY DEF Decoded, fileVars
  <2>2. (FirstErrorWins <=> DecodeOutcome(R)) /\ (FirstErrorWins' <=> DecodeOutcome(R)')
    BY DEF FirstErrorWins
  <2> HIDE DEF R
  <2>3. DecodeOutcome(R)' <=> DecodeOutcome(R)
    BY <2>1 DEF DecodeOutcome, Readable, Outcome, fileVars
  <2> QED
    BY <2>2, <2>3 DEF CallerInv
<1> QED
  BY <1>1, <1>2 DEF CallerInv, fileVars

(* What the invariant says of a loop, with its types. *)
LEMMA LoopFacts ==
    ASSUME CallerInv, phase \in {"encode", "decode"}, NEW J, PipelineInv(J)
    PROVE  /\ BeforeInv /\ Len(before) \in Nat /\ Len(submitted) \in Nat
           /\ next \in Nat \ {0} /\ used \in BOOLEAN /\ stopped \in BOOLEAN
           /\ submitted \in Seq(J)
           /\ used => PipedInv
           /\ ~used => AloneInv
<1>1. LoopInv
  BY DEF CallerInv
<1>2. Len(before) \in Nat
  BY <1>1 DEF LoopInv, BeforeInv
<1>3. submitted \in Seq(J) /\ Len(submitted) \in Nat
  BY DEF PipelineInv, PipelineTypeOK
<1> QED
  BY <1>1, <1>2, <1>3 DEF LoopInv, CallerInv

(* The profile of the first chunk is selected once there is one. *)
LEMMA SelectedProfile ==
    ASSUME CallerInv, phase = "encode"
    PROVE  IF before = <<>> THEN selected = 0 ELSE selected = FirstProfile /\ selected # 0
<1>1. BeforeInv
  BY DEF CallerInv, LoopInv
<1>2. CASE before # <<>>
  <2>1. 1 \in 1..Len(before)
    BY <1>1, <1>2 DEF BeforeInv
  <2>2. Item(1) /\ Work(JobAt(1)).err = NoError
    BY <1>1, <2>1 DEF BeforeInv, Gives
  <2>3. JobAt(1) = EncodeJob(parsed.chunks[1], 1, 0)
    BY DEF JobAt
  <2>4. parsed.chunks # <<>>
    BY <2>2 DEF Item
  <2>5. FirstProfile # 0
    BY <2>2, <2>3, <2>4, ProfileAssumption DEF FirstProfile, CallerInv
  <2> QED
    BY <1>1, <1>2, <2>5 DEF BeforeInv
<1>3. CASE before = <<>>
  BY <1>1, <1>3 DEF BeforeInv
<1> QED
  BY <1>2, <1>3

(* The job that the encoder makes of the next chunk. *)
LEMMA NextEncodeJob ==
    ASSUME CallerInv, phase = "encode", next \in 1..Len(parsed.chunks),
           before = <<>> <=> next = 1
    PROVE  Item(next) /\ EncodeJob(parsed.chunks[next], next, selected) = JobAt(next)
<1>1. Item(next)
  BY DEF Item
<1>2. selected = IF next = 1 THEN 0 ELSE FirstProfile
  BY SelectedProfile
<1> QED
  BY <1>1, <1>2 DEF JobAt

-----------------------------------------------------------------------------
(* The caller's steps. *)

(* A loop that runs without the pipeline, and the next item was carried out. *)
LEMMA OneMoreAlone ==
    ASSUME CallerInv, phase \in {"encode", "decode"}, ~used, ~stopped,
           NEW d, Gives(next, d), before' = Append(before, d), next' = next + 1,
           phase = "encode" => selected' = FirstProfile,
           UNCHANGED <<pipeVars, demo, parsed, phase, used, stopped, file>>
    PROVE  CallerInv'
<1>1. /\ BeforeInv /\ AloneInv /\ next \in Nat \ {0} /\ Len(before) \in Nat
      /\ before \in Seq(Pieces)
  BY DEF CallerInv, LoopInv, BeforeInv
<1>2. Len(before) + 1 = next
  BY <1>1 DEF AloneInv
<1>3. BeforeInv'
  BY <1>1, <1>2, BeforeGrows
<1>4. Len(before') = next' - 1
  BY <1>1, <1>2
<1>5. AloneInv'
  BY <1>1, <1>4 DEF AloneInv, pipeVars
<1>6. LoopInv'
  BY <1>3, <1>5 DEF LoopInv
<1> QED
  BY <1>1, <1>6, StaysInLoop DEF CallerInv

(* The loop ends at the next item with an error of its own. *)
LEMMA StopsAtNext ==
    ASSUME CallerInv, phase \in {"encode", "decode"}, ~stopped,
           NEW e, EndsAt(next, e), Stop(e),
           used => call = "open" /\ returned = NoError,
           UNCHANGED <<pipeVars, demo, parsed, phase, many, next, selected, used, before, file>>
    PROVE  CallerInv'
<1>1. BeforeInv /\ (used => PipedInv) /\ (~used => AloneInv)
  BY DEF CallerInv, LoopInv
<1>2. BeforeInv'
  BY <1>1, BeforeSame
<1>3. EndsAt(next, stopErr)' /\ stopped'
  BY LoopSame DEF Stop, EndsAt
<1>4. ~used => AloneInv'
  BY <1>1, <1>3 DEF AloneInv, pipeVars
<1>5. ASSUME used PROVE PipedInv'
  <2>1. PipedInv /\ call = "open" /\ returned = NoError
    BY <1>1, <1>5
  <2>2. \A k \in 1..Len(submitted') :
           (Item(Len(before) + k) /\ submitted[k] = JobAt(Len(before) + k))'
    BY <2>1, LoopSame DEF PipedInv, pipeVars
  <2>3. Len(before) + Len(submitted) = next - 1
    BY <2>1 DEF PipedInv
  <2> QED
    BY <2>1, <2>2, <2>3, <1>3 DEF PipedInv, pipeVars
<1>6. LoopInv'
  BY <1>2, <1>4, <1>5 DEF LoopInv
<1>7. next' \in Nat \ {0} /\ used' \in BOOLEAN /\ stopped' \in BOOLEAN
  BY DEF CallerInv, Stop
<1> QED
  BY <1>6, <1>7, StaysInLoop

(* The pipeline refused a job since an earlier one failed. *)
LEMMA StopsRefused ==
    ASSUME CallerInv, phase \in {"encode", "decode"}, ~stopped, call \in {"none", "open"},
           returned # NoError, Stop(returned),
           UNCHANGED <<pipeVars, demo, parsed, phase, many, next, selected, used, before, file>>
    PROVE  CallerInv'
<1>1. BeforeInv /\ (used => PipedInv) /\ (~used => AloneInv) /\ used \in BOOLEAN
  BY DEF CallerInv, LoopInv
<1>2. used /\ PipedInv
  BY <1>1 DEF AloneInv
<1>3. call = "open" /\ returned = pipeErr
  BY <1>2 DEF PipedInv
<1>4. BeforeInv'
  BY <1>1, BeforeSame
<1>5. PipedInv'
  <2>1. \A k \in 1..Len(submitted') :
           (Item(Len(before) + k) /\ submitted[k] = JobAt(Len(before) + k))'
    BY <1>2, LoopSame DEF PipedInv, pipeVars
  <2> QED
    BY <1>2, <1>3, <2>1 DEF PipedInv, pipeVars, Stop
<1>6. LoopInv'
  BY <1>2, <1>4, <1>5 DEF LoopInv
<1>7. next' \in Nat \ {0} /\ used' \in BOOLEAN /\ stopped' \in BOOLEAN
  BY DEF CallerInv, Stop
<1> QED
  BY <1>6, <1>7, StaysInLoop

(* The next item is handed to the pipeline. *)
LEMMA OneMorePiped ==
    ASSUME CallerInv, phase \in {"encode", "decode"}, used, ~stopped,
           Item(next), submit(JobAt(next)), next' = next + 1,
           UNCHANGED <<demo, parsed, phase, many, selected, used, stopped, before, file>>
    PROVE  CallerInv'
<1>1. BeforeInv /\ PipedInv /\ next \in Nat \ {0}
  BY DEF CallerInv, LoopInv
<1>2. BeforeInv'
  BY <1>1, BeforeSame
<1>3. /\ call = "open" /\ returned = NoError /\ call' = "submit"
      /\ asked' = <<JobAt(next)>>
      /\ UNCHANGED <<submitted, pipeErr, returned>>
  BY ItemFits DEF submit
<1>4. pipeErr = NoError /\ Len(before) + Len(submitted) = next - 1
  BY <1>1, <1>3 DEF PipedInv
<1>5. next' - 1 = next /\ next' - 2 = next - 1 /\ next' \in Nat \ {0}
  BY <1>1
<1>6. PipedInv'
  <2>1. \A k \in 1..Len(submitted') :
           (Item(Len(before) + k) /\ submitted[k] = JobAt(Len(before) + k))'
    BY <1>1, <1>3, LoopSame DEF PipedInv
  <2>2. (Item(next - 1) /\ asked = <<JobAt(next - 1)>>)'
    BY <1>3, <1>5, LoopSame
  <2>3. (Len(before) + Len(submitted) <= next - 1)'
    BY <1>1, <1>3, <1>4, <1>5
  <2>4. (Len(before) + Len(submitted) = next - 2)'
    BY <1>1, <1>3, <1>4, <1>5
  <2>5. many' /\ (phase' = "encode" => before' # <<>>)
    BY <1>1 DEF PipedInv
  <2> QED
    BY <1>3, <1>4, <2>1, <2>2, <2>3, <2>4, <2>5 DEF PipedInv
<1>7. LoopInv'
  BY <1>2, <1>6 DEF LoopInv
<1> QED
  BY <1>5, <1>7, StaysInLoop DEF CallerInv

(* writeChunk, carried out by the caller. *)
LEMMA WriteChunkNowHolds == ASSUME CallerInv, writeChunkNow PROVE CallerInv'
<1>1. /\ phase = "encode" /\ ~stopped /\ next <= Len(parsed.chunks)
      /\ (selected = 0 \/ ~many)
      /\ UNCHANGED <<pipeVars, demo, parsed, phase, many, used, file>>
  BY DEF writeChunkNow
<1>2. BeforeInv /\ (used => PipedInv) /\ (~used => AloneInv) /\ next \in Nat \ {0}
  BY <1>1 DEF CallerInv, LoopInv
<1>3. Len(parsed.chunks) \in Nat
  BY ParserAssumption DEF CallerInv
<1>4. ~used
  BY <1>1, <1>2, SelectedProfile DEF PipedInv
<1>5. before \in Seq(Pieces) /\ Len(before) = next - 1
  BY <1>2, <1>4 DEF AloneInv, BeforeInv
<1>6. before = <<>> <=> next = 1
  BY <1>2, <1>5
<1>7. Item(next) /\ EncodeJob(parsed.chunks[next], next, selected) = JobAt(next)
  BY <1>1, <1>2, <1>3, <1>6, NextEncodeJob
<1> DEFINE r == Work(JobAt(next))
<1>8. CASE r.err # NoError
  <2>1. Stop(r.err) /\ UNCHANGED <<before, selected, next>>
    BY <1>7, <1>8 DEF writeChunkNow
  <2>2. EndsAt(next, r.err)
    BY <1>7, <1>8 DEF EndsAt
  <2> QED
    BY <1>1, <1>4, <2>1, <2>2, StopsAtNext
<1>9. CASE r.err = NoError
  <2>1. /\ before' = Append(before, r.data) /\ next' = next + 1
        /\ selected' = (IF selected # 0 THEN selected ELSE r.data[1].profile)
        /\ UNCHANGED stopped
    BY <1>7, <1>9 DEF writeChunkNow
  <2>2. Gives(next, r.data)
    BY <1>7, <1>9 DEF Gives
  <2>3. selected' = FirstProfile
    <3>1. CASE next = 1
      <4>1. r.data[1].profile = FirstProfile /\ selected = 0
        BY <1>1, <1>6, <3>1, SelectedProfile DEF FirstProfile, JobAt
      <4> QED
        BY <2>1, <4>1
    <3>2. CASE next # 1
      BY <1>1, <1>6, <2>1, <3>2, SelectedProfile
    <3> QED
      BY <3>1, <3>2
  <2> QED
    BY <1>1, <1>4, <2>1, <2>2, <2>3, OneMoreAlone
<1> QED
  BY <1>8, <1>9

(* The first chunk that is not the caller's own starts the pipeline. *)
LEMMA CreatePipelineHolds == ASSUME CallerInv, createPipeline PROVE CallerInv'
<1>1. /\ phase \in {"encode", "decode"} /\ ~stopped /\ many /\ ~used
      /\ phase = "encode" => selected # 0
      /\ used' = TRUE
      /\ UNCHANGED <<demo, parsed, phase, many, next, selected, stopped, before, file>>
  BY DEF createPipeline
<1>2. /\ call' = "open" /\ submitted' = <<>> /\ pipeErr' = NoError /\ returned' = NoError
  BY DEF createPipeline, newChunkPipeline
<1>3. BeforeInv /\ AloneInv /\ next \in Nat \ {0} /\ Len(before) \in Nat
  BY <1>1 DEF CallerInv, LoopInv, BeforeInv
<1>4. BeforeInv'
  BY <1>1, <1>3, BeforeSame
<1>5. phase = "encode" => before # <<>>
  BY <1>1, SelectedProfile
<1>6. Len(submitted') = 0 /\ Len(before') + Len(submitted') = next' - 1
  BY <1>1, <1>2, <1>3 DEF AloneInv
<1>7. PipedInv'
  BY <1>1, <1>2, <1>3, <1>5, <1>6 DEF PipedInv
<1>8. LoopInv'
  BY <1>1, <1>4, <1>7 DEF LoopInv
<1> QED
  BY <1>1, <1>3, <1>8, StaysInLoop DEF CallerInv

(* writeChunk, handed to the pipeline. *)
LEMMA SubmitChunkHolds == ASSUME CallerInv, NEW J, PipelineInv(J), submitChunk PROVE CallerInv'
<1>1. /\ phase = "encode" /\ ~stopped /\ used /\ next <= Len(parsed.chunks)
      /\ submit(EncodeJob(parsed.chunks[next], next, selected)) /\ next' = next + 1
      /\ UNCHANGED <<demo, parsed, phase, many, selected, used, stopped, before, file>>
  BY DEF submitChunk
<1>2. /\ BeforeInv /\ PipedInv /\ next \in Nat \ {0}
      /\ Len(before) \in Nat /\ Len(submitted) \in Nat
  BY <1>1, LoopFacts
<1>3. Len(parsed.chunks) \in Nat
  BY ParserAssumption DEF CallerInv
<1>4. before # <<>> /\ before \in Seq(Pieces) /\ Len(before) + Len(submitted) <= next - 1
  BY <1>1, <1>2 DEF PipedInv, BeforeInv
<1>5. Len(before) # 0
  BY <1>4
<1>6. next # 1
  BY <1>2, <1>4, <1>5
<1>7. Item(next) /\ EncodeJob(parsed.chunks[next], next, selected) = JobAt(next)
  BY <1>1, <1>2, <1>3, <1>4, <1>6, NextEncodeJob
<1> QED
  BY <1>1, <1>7, OneMorePiped

(* The visitor returns an error, or the parser does. *)
LEMMA EncodeStopHolds == ASSUME CallerInv, encodeStop PROVE CallerInv'
<1>1. /\ phase = "encode" /\ ~stopped /\ call \in {"none", "open"}
      /\ UNCHANGED <<pipeVars, demo, parsed, phase, many, next, selected, used, before, file>>
  BY DEF encodeStop
<1>2. CASE returned # NoError /\ Stop(returned)
  BY <1>1, <1>2, StopsRefused
<1>3. CASE returned = NoError /\ next > Len(parsed.chunks) /\ Stop(parsed.err)
  <2>1. Len(parsed.chunks) \in Nat /\ next \in Nat
    BY ParserAssumption DEF CallerInv
  <2>2. EndsAt(next, parsed.err)
    BY <1>1, <1>3, <2>1 DEF EndsAt, Item
  <2>3. used => call = "open"
    BY <1>1 DEF CallerInv, LoopInv, PipedInv
  <2> QED
    BY <1>1, <1>3, <2>2, <2>3, StopsAtNext
<1> QED
  BY <1>2, <1>3 DEF encodeStop

(* Whatever ended the loop, the pipeline is joined. *)
LEMMA JoinPipelineHolds == ASSUME CallerInv, joinPipeline PROVE CallerInv'
<1>1. /\ stopped /\ used /\ call = "open" /\ call' = "finish"
      /\ UNCHANGED <<submitted, asked, pipeErr, returned>> /\ UNCHANGED fileVars
  BY DEF joinPipeline, finish
<1>2. CASE phase \in {"encode", "decode"}
  <2>1. BeforeInv /\ PipedInv
    BY <1>1, <1>2 DEF CallerInv, LoopInv
  <2>2. BeforeInv'
    BY <1>1, <2>1, BeforeSame DEF fileVars
  <2>3. \A k \in 1..Len(submitted') :
           (Item(Len(before) + k) /\ submitted[k] = JobAt(Len(before) + k))'
    BY <1>1, <2>1, LoopSame DEF PipedInv, fileVars
  <2>4. EndsAt(next, stopErr)' <=> EndsAt(next, stopErr)
    BY <1>1, LoopSame DEF fileVars, EndsAt
  <2>5. PipedInv'
    BY <1>1, <2>1, <2>3, <2>4 DEF PipedInv, fileVars
  <2>6. LoopInv'
    BY <1>1, <2>2, <2>5 DEF LoopInv, fileVars
  <2> QED
    BY <1>1, <1>2, <2>6, StaysInLoop DEF CallerInv, fileVars
<1>3. CASE phase \notin {"encode", "decode"}
  BY <1>1, <1>3, OutsideLoops DEF CallerInv
<1> QED
  BY <1>2, <1>3

(* The decoder starts on whatever the file has become. *)
LEMMA DecodeStartHolds == ASSUME CallerInv, decodeStart PROVE CallerInv'
<1>1. /\ phase' = "decode" /\ call' = "none" /\ returned' = NoError
      /\ next' = 1 /\ used' = FALSE /\ stopped' = FALSE /\ before' = <<>>
      /\ UNCHANGED <<demo, parsed>>
  BY DEF decodeStart, CallerInv, pipeVars
<1>2. before' \in Seq(Pieces') /\ Len(before') = 0
  BY <1>1
<1>3. BeforeInv'
  BY <1>1, <1>2 DEF BeforeInv
<1>4. AloneInv'
  BY <1>1, <1>2 DEF AloneInv
<1>5. LoopInv'
  BY <1>1, <1>3, <1>4 DEF LoopInv
<1>6. WorkersDoNotMatter' /\ FirstErrorWins'
  BY <1>1 DEF WorkersDoNotMatter, EncodeOutcome, FirstErrorWins, DecodeOutcome
<1>7. demo' \in Demos /\ parsed' = ParseIntoChunks(demo')
  BY <1>1 DEF CallerInv
<1>8. used' \in BOOLEAN /\ stopped' \in BOOLEAN
  BY <1>1
<1>9. phase' = "decode" /\ next' \in Nat \ {0}
  BY <1>1
<1> QED
  BY <1>5, <1>6, <1>7, <1>8, <1>9 DEF CallerInv

(* The reader comes to the end of the chunks, or to what is no entry. *)
LEMMA ReadErrorHolds == ASSUME CallerInv, readError PROVE CallerInv'
<1>1. /\ phase = "decode" /\ ~stopped /\ call \in {"none", "open"}
      /\ used => returned = NoError
      /\ FramingError(file, next) = NoError => file[next].type = "end"
      /\ Stop(FramingError(file, next))
      /\ UNCHANGED <<pipeVars, demo, parsed, phase, many, next, selected, used, before, file>>
  BY DEF readError
<1>2. EndsAt(next, FramingError(file, next))
  BY <1>1 DEF EndsAt
<1>3. used => call = "open"
  BY <1>1 DEF CallerInv, LoopInv, PipedInv
<1> QED
  BY <1>1, <1>2, <1>3, StopsAtNext

(* A chunk that the decoder carries out itself. *)
LEMMA DecodeNowHolds == ASSUME CallerInv, decodeNow PROVE CallerInv'
<1>1. /\ phase = "decode" /\ ~stopped /\ Readable(next)
      /\ (~many \/ ~used)
      /\ UNCHANGED <<pipeVars, demo, parsed, phase, many, selected, used, file>>
  BY DEF decodeNow, Readable
<1>2. ~used
  BY <1>1 DEF CallerInv, LoopInv, PipedInv
<1> DEFINE r == Work(JobAt(next))
<1>3. Item(next) /\ r = Work(DecodeJob(file[next], next))
  BY <1>1 DEF Item, JobAt
<1>4. CASE r.err # NoError
  <2>1. Stop(r.err) /\ UNCHANGED <<before, next>>
    BY <1>3, <1>4 DEF decodeNow
  <2>2. EndsAt(next, r.err)
    BY <1>3, <1>4 DEF EndsAt
  <2> QED
    BY <1>1, <1>2, <2>1, <2>2, StopsAtNext
<1>5. CASE r.err = NoError
  <2>1. /\ before' = Append(before, r.data) /\ next' = next + 1 /\ UNCHANGED stopped
    BY <1>3, <1>5 DEF decodeNow
  <2>2. Gives(next, r.data)
    BY <1>3, <1>5 DEF Gives
  <2> QED
    BY <1>1, <1>2, <2>1, <2>2, OneMoreAlone
<1> QED
  BY <1>4, <1>5

(* A chunk that the decoder hands to the pipeline. *)
LEMMA SubmitDecodeHolds == ASSUME CallerInv, submitDecode PROVE CallerInv'
<1>1. /\ phase = "decode" /\ ~stopped /\ used /\ Readable(next)
      /\ submit(DecodeJob(file[next], next)) /\ next' = next + 1
      /\ UNCHANGED <<demo, parsed, phase, many, selected, used, stopped, before, file>>
  BY DEF submitDecode, Readable
<1>2. Item(next) /\ JobAt(next) = DecodeJob(file[next], next)
  BY <1>1 DEF Item, JobAt
<1> QED
  BY <1>1, <1>2, OneMorePiped

(* The decoder is refused. *)
LEMMA SubmitRefusedHolds == ASSUME CallerInv, submitRefused PROVE CallerInv'
BY StopsRefused DEF submitRefused

-----------------------------------------------------------------------------
(* What has been written when a call returns. *)

(* The items up to n are carried out and have given the first n parts of the output. *)
Given(n) == \A j \in 1..n : Gives(j, Output[j])

(* The output is a sequence, first of the caller's part, then of the pipeline's. *)
LEMMA OutputParts ==
    ASSUME CallerInv, phase \in {"encode", "decode"}, NEW J, PipelineInv(J)
    PROVE  /\ Len(before) \in Nat /\ Len(out) \in Nat
           /\ Len(Output) = Len(before) + (IF used THEN Len(out) ELSE 0)
           /\ Output = [j \in 1..Len(Output) |-> Output[j]]
           /\ \A j \in 1..Len(before) : Output[j] = before[j]
           /\ used => \A k \in 1..Len(out) : Output[Len(before) + k] = out[k]
<1>1. before \in Seq(Pieces) /\ out \in Seq(Results(J)) /\ used \in BOOLEAN
  BY DEF CallerInv, LoopInv, BeforeInv, PipelineInv, PipelineTypeOK
<1> DEFINE S == Pieces \cup Results(J)
           second == IF used THEN out ELSE <<>>
<1>2. before \in Seq(S) /\ second \in Seq(S)
  BY <1>1
<1>3. Output = before \o second
  BY DEF Output
<1>4. /\ Output \in Seq(S) /\ Len(Output) = Len(before) + Len(second)
      /\ \A j \in 1..Len(before) : Output[j] = before[j]
      /\ \A k \in 1..Len(second) : Output[Len(before) + k] = second[k]
  <2> HIDE DEF S, second
  <2> QED
    BY <1>2, <1>3
<1>5. Len(second) = IF used THEN Len(out) ELSE 0
  OBVIOUS
<1>6. Output = [j \in 1..Len(Output) |-> Output[j]]
  BY <1>4
<1> QED
  BY <1>1, <1>4, <1>5, <1>6

(* Without the pipeline everything before the next item is carried out. *)
LEMMA GivenAlone ==
    ASSUME CallerInv, phase \in {"encode", "decode"}, NEW J, PipelineInv(J), ~used
    PROVE  Len(Output) = next - 1 /\ Given(next - 1)
<1>1. BeforeInv /\ AloneInv /\ next \in Nat \ {0}
  BY DEF CallerInv, LoopInv
<1>2. Len(before) = next - 1 /\ Len(Output) = Len(before) /\ Len(before) \in Nat
  BY <1>1, OutputParts DEF AloneInv
<1>3. \A j \in 1..Len(before) : Gives(j, Output[j])
  BY <1>1, OutputParts DEF BeforeInv
<1> QED
  BY <1>2, <1>3 DEF Given

(* With it, as much as the pipeline has written. *)
LEMMA GivenPiped ==
    ASSUME CallerInv, phase \in {"encode", "decode"}, NEW J, PipelineInv(J), used
    PROVE  Len(Output) = Len(before) + Len(out) /\ Given(Len(before) + Len(out))
<1>1. BeforeInv /\ PipedInv /\ WrittenInOrder
  BY DEF CallerInv, LoopInv, PipelineInv
<1>2. /\ Len(before) \in Nat /\ Len(out) \in Nat /\ Len(out) <= Len(submitted)
      /\ Len(submitted) \in Nat
      /\ Len(Output) = Len(before) + Len(out)
  <2>1. /\ Len(before) \in Nat /\ Len(out) \in Nat
        /\ Len(Output) = Len(before) + Len(out)
    BY OutputParts
  <2>2. /\ head \in Nat /\ Len(submitted) \in Nat
        /\ head <= Len(submitted) /\ Len(out) <= head
    BY <1>1 DEF PipelineInv, PipelineTypeOK, WrittenInOrder
  <2> QED
    BY <2>1, <2>2
<1>3. ASSUME NEW j \in 1..(Len(before) + Len(out)) PROVE Gives(j, Output[j])
  <2>1. CASE j \in 1..Len(before)
    BY <1>1, <2>1, OutputParts DEF BeforeInv
  <2>2. CASE j \notin 1..Len(before)
    <3> DEFINE k == j - Len(before)
    <3>1. k \in 1..Len(out) /\ k \in 1..Len(submitted) /\ j = Len(before) + k
      BY <1>2, <2>2
    <3>2. Item(j) /\ submitted[k] = JobAt(j)
      BY <1>1, <3>1 DEF PipedInv
    <3>3. WrittenAs(Work(submitted[k]), k)
      BY <1>1, <3>1 DEF WrittenInOrder
    <3>4. Output[j] = out[k]
      BY <3>1, OutputParts
    <3> QED
      BY <3>2, <3>3, <3>4 DEF Gives, WrittenAs
  <2> QED
    BY <2>1, <2>2
<1> QED
  BY <1>2, <1>3 DEF Given

(***************************************************************************)
(* When a call returns, all items before some i have given the output, and *)
(* the error, if there is one, is what a single goroutine would have met   *)
(* at i.  Without an error of the pipeline i is where the loop ended; with *)
(* one it is the item behind the last that was written.                    *)
(***************************************************************************)
LEMMA ReturnsInOrder ==
    ASSUME CallerInv, phase \in {"encode", "decode"}, NEW J, PipelineInv(J), Joined
    PROVE  \E i \in 1..next :
              /\ Given(i - 1) /\ EndsAt(i, ReturnError)
              /\ ReturnError = NoError => Len(Output) = i - 1
<1>0. next \in Nat \ {0} /\ used \in BOOLEAN /\ stopped /\ call = "none"
  BY DEF CallerInv, Joined
<1>1. CASE ~used
  <2>1. EndsAt(next, stopErr)
    BY <1>0, <1>1 DEF CallerInv, LoopInv, AloneInv
  <2>2. ReturnError = stopErr
    BY <1>1 DEF ReturnError
  <2>3. Given(next - 1) /\ Len(Output) = next - 1
    BY <1>1, GivenAlone
  <2> QED
    BY <1>0, <2>1, <2>2, <2>3
<1>2. CASE used /\ pipeErr = NoError
  <2>1. PipedInv /\ returned = NoError
    BY <1>0, <1>2 DEF CallerInv, LoopInv, PipedInv
  <2>2. Len(before) + Len(submitted) = next - 1 /\ EndsAt(next, stopErr)
    BY <1>0, <1>2, <2>1 DEF PipedInv
  <2>3. Len(out) = Len(submitted)
    BY <1>0, <2>1 DEF PipelineInv, NothingLeftBehind
  <2>4. ReturnError = stopErr
    BY <2>1 DEF ReturnError
  <2>5. Given(next - 1) /\ Len(Output) = next - 1
    BY <1>2, <2>2, <2>3, GivenPiped
  <2> QED
    BY <1>0, <2>2, <2>4, <2>5
<1>3. CASE used /\ pipeErr # NoError
  <2> DEFINE i == Len(before) + Len(out) + 1
  <2>1. PipedInv /\ returned = pipeErr
    BY <1>0, <1>3 DEF CallerInv, LoopInv, PipedInv
  <2>2. /\ Len(before) \in Nat /\ Len(out) \in Nat /\ Len(submitted) \in Nat
        /\ Len(out) < Len(submitted)
        /\ pipeErr = Work(submitted[Len(out) + 1]).err
    <3>1. Len(before) \in Nat /\ Len(out) \in Nat
      BY OutputParts
    <3>2. /\ head \in Nat /\ Len(submitted) \in Nat /\ head <= Len(submitted)
          /\ Len(out) < head /\ pipeErr = Work(submitted[Len(out) + 1]).err
      BY <1>3 DEF PipelineInv, PipelineTypeOK, WrittenInOrder
    <3> QED
      BY <3>1, <3>2
  <2>3. Len(out) + 1 \in 1..Len(submitted) /\ i = Len(before) + (Len(out) + 1)
    BY <2>2
  <2>4. Item(i) /\ submitted[Len(out) + 1] = JobAt(i)
    BY <2>1, <2>3 DEF PipedInv
  <2>5. ReturnError = pipeErr
    BY <1>3, <2>1 DEF ReturnError
  <2>6. EndsAt(i, ReturnError)
    BY <1>3, <2>2, <2>4, <2>5 DEF EndsAt
  <2>7. i \in 1..next /\ i - 1 = Len(before) + Len(out)
    <3>1. Len(before) + Len(submitted) <= next - 1
      BY <2>1 DEF PipedInv
    <3> QED
      BY <1>0, <2>2, <3>1
  <2>8. Given(i - 1)
    BY <1>3, <2>7, GivenPiped
  <2> QED
    BY <1>3, <2>5, <2>6, <2>7, <2>8
<1> QED
  BY <1>0, <1>1, <1>2, <1>3

(* The encoder returns: the file of a single goroutine, or its error. *)
LEMMA EncodeReturnHolds ==
    ASSUME CallerInv, NEW J, PipelineInv(J), encodeReturn PROVE CallerInv'
<1>0. /\ phase = "encode" /\ Joined
      /\ UNCHANGED <<pipeVars, demo, parsed, next, used, stopped>>
  BY DEF encodeReturn
<1> DEFINE n == Len(parsed.chunks)
<1>1. PICK i \in 1..next :
         /\ Given(i - 1) /\ EndsAt(i, ReturnError)
         /\ ReturnError = NoError => Len(Output) = i - 1
  BY <1>0, ReturnsInOrder
<1>2. n \in Nat /\ i \in Nat \ {0}
  BY ParserAssumption DEF CallerInv
<1>3. \A j : Work(JobAt(j)) = Encoded(j)
  BY <1>0 DEF JobAt, Encoded
<1>4. \A j \in 1..(i - 1) : j \in 1..n /\ Encoded(j).err = NoError /\ Output[j] = Encoded(j).data
  BY <1>0, <1>1, <1>3 DEF Given, Gives, Item
<1>5. \A j : Encoded(j)' = Encoded(j)
  BY <1>0 DEF Encoded, FirstProfile
<1>6. i \notin 1..n => i - 1 = n
  <2>1. CASE i = 1
    BY <1>2, <2>1
  <2>2. CASE i # 1
    <3>1. i - 1 \in 1..(i - 1)
      BY <1>2, <2>2
    <3>2. i - 1 \in 1..n
      BY <1>4, <3>1
    <3> QED
      BY <1>2, <3>2
  <2> QED
    BY <2>1, <2>2
<1> DEFINE R == [j \in 1..n |-> Encoded(j)]
<1>7. \A j \in 1..n : R[j] = Encoded(j)
  OBVIOUS
<1>8. Len(parsed'.chunks) = n /\ R' = R
  BY <1>0, <1>5
<1>9. WorkersDoNotMatter' <=> EncodeOutcome(R)'
  BY DEF WorkersDoNotMatter
<1>10. CASE ReturnError # NoError
  <2>1. phase' = "failed" /\ result'.err = ReturnError
    BY <1>10 DEF encodeReturn
  <2>2. ASSUME i \in 1..n PROVE WorkersDoNotMatter'
    <3>1. ReturnError = Encoded(i).err
      BY <1>0, <1>1, <1>3, <2>2 DEF EndsAt, Item
    <3>2. \A j \in 1..(i - 1) : R[j].err = NoError
      BY <1>4, <1>7
    <3>3. i \in 1..n /\ R[i].err # NoError /\ result'.err = R[i].err
      BY <1>7, <1>10, <2>1, <2>2, <3>1
    <3> HIDE DEF R, n
    <3> QED
      BY <1>8, <1>9, <2>1, <3>2, <3>3 DEF EncodeOutcome
  <2>3. ASSUME i \notin 1..n PROVE WorkersDoNotMatter'
    <3>1. ReturnError = parsed.err
      BY <1>0, <1>1, <2>3 DEF EndsAt, Item
    <3>2. \A j \in 1..n : R[j].err = NoError
      BY <1>4, <1>6, <1>7, <2>3
    <3> HIDE DEF R, n
    <3> QED
      BY <1>0, <1>8, <1>9, <1>10, <2>1, <3>1, <3>2 DEF EncodeOutcome
  <2>4. WorkersDoNotMatter'
    BY <2>2, <2>3
  <2> QED
    BY <1>0, <2>1, <2>4 DEF CallerInv, FirstErrorWins, DecodeOutcome
<1>11. CASE ReturnError = NoError
  <2>1. phase' = "encoded" /\ file' = Append(FlattenSeq(Output), EndEntry)
    BY <1>11 DEF encodeReturn
  <2>2. i \notin 1..n /\ parsed.err = NoError
    BY <1>0, <1>1, <1>11 DEF EndsAt, Item
  <2>3. Len(Output) = n
    BY <1>1, <1>6, <1>11, <2>2
  <2>4. Output = [j \in 1..n |-> Output[j]]
    BY <1>0, <2>3, OutputParts
  <2>5. \A j \in 1..n : Encoded(j).err = NoError /\ Output[j] = Encoded(j).data
    BY <1>4, <1>6, <2>2
  <2>6. Output = [j \in 1..n |-> Encoded(j).data]
    BY <2>4, <2>5
  <2>7. [j \in 1..n |-> R[j].data] = [j \in 1..n |-> Encoded(j).data]
    BY <1>7
  <2>8. \A j \in 1..n : R[j].err = NoError
    BY <1>7, <2>5
  <2>9. WorkersDoNotMatter'
    <3>1. file' = Append(FlattenSeq([j \in 1..n |-> R[j].data]), EndEntry)
      BY <2>1, <2>6, <2>7
    <3> HIDE DEF R, n
    <3> QED
      BY <1>0, <1>8, <1>9, <2>1, <2>2, <2>8, <3>1 DEF EncodeOutcome, EndEntry
  <2>10. call' = "none" /\ returned' = NoError
    <3>1. used => returned = NoError
      BY <1>11 DEF ReturnError
    <3>2. ~used => returned = NoError
      BY <1>0 DEF CallerInv, LoopInv, AloneInv
    <3> QED
      BY <1>0, <3>1, <3>2 DEF Joined, pipeVars
  <2> QED
    BY <1>0, <2>1, <2>9, <2>10 DEF CallerInv, FirstErrorWins, DecodeOutcome
<1> QED
  BY <1>10, <1>11

(* The decoder returns: the demo of a single goroutine, or its error. *)
LEMMA DecodeReturnHolds ==
    ASSUME CallerInv, NEW J, PipelineInv(J), decodeReturn PROVE CallerInv'
<1>0. /\ phase = "decode" /\ Joined /\ phase' = "done"
      /\ UNCHANGED <<demo, parsed, next, used, stopped, file>>
  BY DEF decodeReturn
<1>1. PICK i \in 1..next :
         /\ Given(i - 1) /\ EndsAt(i, ReturnError)
         /\ ReturnError = NoError => Len(Output) = i - 1
  BY <1>0, ReturnsInOrder
<1>2. \A j : Work(JobAt(j)) = Decoded(j)
  BY <1>0 DEF JobAt, Decoded
<1>3. \A j \in 1..(i - 1) : Readable(j) /\ Decoded(j).err = NoError /\ Output[j] = Decoded(j).data
  BY <1>0, <1>1, <1>2 DEF Given, Gives, Item
<1>4. \/ Readable(i) /\ ReturnError # NoError /\ ReturnError = Decoded(i).err
      \/ /\ ReturnError = FramingError(file, i)
         /\ ReturnError = NoError => file[i].type = "end"
  BY <1>0, <1>1, <1>2 DEF EndsAt, Item
<1>5. Readable(i) => Decoded(i).err # NoError
  BY <1>4 DEF Readable
<1> DEFINE R == [j \in 1..next |-> Decoded(j)]
<1>6. \A j \in 1..i : R[j] = Decoded(j)
  BY <1>1 DEF CallerInv
<1>7. result' = Outcome(R, i)
  <2>1. CASE ReturnError # NoError
    <3>1. result' = [err |-> ReturnError, data |-> <<>>]
      BY <2>1 DEF decodeReturn
    <3>2. R[i] = Decoded(i)
      BY <1>1
    <3> HIDE DEF R
    <3>3. Outcome(R, i) = [err |-> ReturnError, data |-> <<>>]
      BY <1>4, <2>1, <3>2 DEF Outcome, Readable
    <3> QED
      BY <3>1, <3>3
  <2>2. CASE ReturnError = NoError
    <3>1. result' = [err |-> NoError, data |-> FlattenSeq(Output)]
      BY <2>2 DEF decodeReturn
    <3>2. Output = [j \in 1..(i - 1) |-> Output[j]]
      BY <1>0, <1>1, <2>2, OutputParts
    <3>3. \A j \in 1..(i - 1) : Output[j] = R[j].data
      BY <1>3, <1>6, <1>1
    <3> HIDE DEF R
    <3>4. Output = [j \in 1..(i - 1) |-> R[j].data]
      BY <3>2, <3>3
    <3>5. Outcome(R, i) = [err |-> NoError,
                           data |-> FlattenSeq([j \in 1..(i - 1) |-> R[j].data])]
      BY <1>4, <2>2 DEF Outcome
    <3> QED
      BY <3>1, <3>4, <3>5
  <2> QED
    BY <2>1, <2>2
<1>8. FirstErrorWins'
  <2>1. R' = R
    BY <1>0 DEF Decoded
  <2>2. \A j : Readable(j)' <=> Readable(j)
    BY <1>0 DEF Readable
  <2>3. FirstErrorWins' <=> DecodeOutcome(R)'
    BY DEF FirstErrorWins
  <2>4. \A j \in 1..(i - 1) : R[j].err = NoError
    BY <1>1, <1>3, <1>6
  <2>5. Readable(i) => R[i].err # NoError
    BY <1>1, <1>5, <1>6
  <2> HIDE DEF R
  <2>6. Outcome(R, i)' = Outcome(R, i)
    BY <1>0, <2>1 DEF Outcome
  <2> QED
    BY <1>0, <1>1, <1>3, <1>7, <2>1, <2>2, <2>3, <2>4, <2>5, <2>6 DEF DecodeOutcome
<1> QED
  BY <1>0, <1>8 DEF CallerInv, WorkersDoNotMatter, EncodeOutcome

-----------------------------------------------------------------------------
(* The pipeline's steps. *)

(* What a step of the pipeline leaves of the caller's invariant to show. *)
LEMMA PipelineStep ==
    ASSUME CallerInv, phase \in {"encode", "decode"}, UNCHANGED fileVars,
           used => PipedInv',
           ~used => UNCHANGED <<call, returned>>
    PROVE  CallerInv'
<1>1. BeforeInv /\ (~used => AloneInv)
  BY DEF CallerInv, LoopInv
<1>2. BeforeInv'
  BY <1>1, BeforeSame DEF fileVars
<1>3. EndsAt(next, stopErr)' <=> EndsAt(next, stopErr)
  BY LoopSame DEF fileVars, EndsAt
<1>4. ~used => AloneInv'
  BY <1>1, <1>3 DEF AloneInv, fileVars
<1>5. LoopInv'
  BY <1>2, <1>4 DEF LoopInv, fileVars
<1> QED
  BY <1>5, StaysInLoop DEF CallerInv, fileVars

(* The jobs submitted are still those of the items. *)
LEMMA SubmittedSame ==
    ASSUME PipedInv, UNCHANGED fileVars, UNCHANGED submitted
    PROVE  /\ \A k \in 1..Len(submitted') :
                 (Item(Len(before) + k) /\ submitted[k] = JobAt(Len(before) + k))'
           /\ EndsAt(next, stopErr)' <=> EndsAt(next, stopErr)
           /\ (Item(next - 1) /\ asked = <<JobAt(next - 1)>>)'
                 <=> Item(next - 1) /\ asked' = <<JobAt(next - 1)>>
<1>1. \A k \in 1..Len(submitted') :
         (Item(Len(before) + k) /\ submitted[k] = JobAt(Len(before) + k))'
  BY LoopSame DEF PipedInv, fileVars
<1>2. EndsAt(next, stopErr)' <=> EndsAt(next, stopErr)
  BY LoopSame DEF fileVars, EndsAt
<1>3. (Item(next - 1) /\ asked = <<JobAt(next - 1)>>)'
         <=> Item(next - 1) /\ asked' = <<JobAt(next - 1)>>
  BY LoopSame DEF fileVars
<1> QED
  BY <1>1, <1>2, <1>3

(* submit has found room: the job is that of the item before the next. *)
LEMMA SendKeepsPiped ==
    ASSUME CallerInv, phase \in {"encode", "decode"}, NEW J, PipelineInv(J), PipedInv,
           submitSend, UNCHANGED fileVars
    PROVE  PipedInv'
<1>1. /\ Len(before) \in Nat /\ Len(submitted) \in Nat /\ submitted \in Seq(J)
      /\ next \in Nat \ {0}
  BY LoopFacts
<1>2. /\ ~stopped /\ returned = NoError /\ pipeErr = NoError
      /\ Item(next - 1) /\ asked = <<JobAt(next - 1)>>
      /\ Len(before) + Len(submitted) = next - 2
  BY DEF submitSend, PipedInv
<1>3. /\ submitted' = Append(submitted, JobAt(next - 1)) /\ call' = "open"
      /\ UNCHANGED <<pipeErr, returned>>
  BY <1>2 DEF submitSend
<1>4. /\ Len(submitted') = Len(submitted) + 1
      /\ submitted'[Len(submitted) + 1] = JobAt(next - 1)
      /\ \A k \in 1..Len(submitted) : submitted'[k] = submitted[k]
  BY <1>1, <1>3
<1>5. Len(before) + (Len(submitted) + 1) = next - 1
  BY <1>1, <1>2
<1>6. \A k \in 1..Len(submitted') :
         (Item(Len(before) + k) /\ submitted[k] = JobAt(Len(before) + k))'
  <2> SUFFICES ASSUME NEW k \in 1..(Len(submitted) + 1)
               PROVE  Item(Len(before) + k)' /\ submitted'[k] = JobAt(Len(before) + k)'
    BY <1>4 DEF fileVars
  <2>1. Item(Len(before) + k) /\ submitted'[k] = JobAt(Len(before) + k)
    <3>1. CASE k = Len(submitted) + 1
      BY <3>1, <1>2, <1>4, <1>5
    <3>2. CASE k \in 1..Len(submitted)
      BY <3>2, <1>4 DEF PipedInv
    <3> QED
      BY <3>1, <3>2, <1>1
  <2> QED
    BY <2>1, LoopSame DEF fileVars
<1>7. (Len(before) + Len(submitted) = next - 1 /\ Len(before) + Len(submitted) <= next - 1)'
  BY <1>1, <1>4, <1>5 DEF fileVars
<1>8. ~stopped' /\ returned' = pipeErr' /\ many' /\ (phase' = "encode" => before' # <<>>)
  BY <1>2, <1>3 DEF PipedInv, fileVars
<1> QED
  BY <1>3, <1>6, <1>7, <1>8 DEF PipedInv

(* submit writes: either the loop goes on, or an error comes back. *)
LEMMA SubmitWriteKeepsPiped ==
    ASSUME PipedInv, submitWrite, UNCHANGED fileVars PROVE PipedInv'
<1>1. /\ ~stopped /\ returned = NoError /\ pipeErr = NoError
      /\ Item(next - 1) /\ asked = <<JobAt(next - 1)>>
      /\ Len(before) + Len(submitted) = next - 2
  BY DEF submitWrite, PipedInv
<1>2. UNCHANGED submitted /\ returned' = pipeErr'
  BY DEF submitWrite
<1>3. /\ pipeErr' = NoError => UNCHANGED <<call, asked>> /\ call = "submit"
      /\ pipeErr' # NoError => call' = "open"
  BY DEF submitWrite
<1>4. many' /\ (phase' = "encode" => before' # <<>>) /\ ~stopped'
  BY <1>1 DEF PipedInv, fileVars
<1>5. (Len(before) + Len(submitted) <= next - 1)' /\ (Len(before) + Len(submitted) = next - 2)'
  BY <1>1, <1>2 DEF PipedInv, fileVars
<1>6. CASE pipeErr' = NoError
  BY <1>1, <1>2, <1>3, <1>4, <1>5, <1>6, SubmittedSame DEF PipedInv
<1>7. CASE pipeErr' # NoError
  BY <1>1, <1>2, <1>3, <1>4, <1>5, <1>7, SubmittedSame DEF PipedInv
<1> QED
  BY <1>6, <1>7

(* finish writes and joins: an error that was there stays, another may come. *)
LEMMA FinishKeepsPiped ==
    ASSUME PipedInv, finishWrite \/ finishJoin, UNCHANGED fileVars PROVE PipedInv'
<1>1. /\ call = "finish" /\ stopped /\ UNCHANGED <<submitted, asked>>
      /\ \/ call' = "finish"
         \/ call' = "none" /\ returned' = pipeErr'
  BY DEF finishWrite, finishJoin, PipedInv
<1>2. pipeErr # NoError => pipeErr' # NoError
  BY DEF finishWrite, finishJoin, writeNext
<1>3. many' /\ (phase' = "encode" => before' # <<>>) /\ stopped'
  BY <1>1 DEF PipedInv, fileVars
<1>4. /\ (Len(before) + Len(submitted) <= next - 1)'
      /\ \/ pipeErr' # NoError
         \/ (Len(before) + Len(submitted) = next - 1)' /\ EndsAt(next, stopErr)
  BY <1>1, <1>2 DEF PipedInv, fileVars
<1> QED
  BY <1>1, <1>3, <1>4, SubmittedSame DEF PipedInv

(* The rest of a method the caller is in. *)
LEMMA CallInsideHolds ==
    ASSUME CallerInv, NEW J, PipelineInv(J), CallInside PROVE CallerInv'
<1>1. PipelineCall /\ UNCHANGED fileVars
  BY DEF CallInside
<1>2. call \in {"submit", "finish"}
  BY <1>1 DEF PipelineCall, submitSend, submitWrite, finishWrite, finishJoin
<1>3. CASE phase \in {"encode", "decode"}
  <2>1. used /\ PipedInv
    BY <1>2, <1>3 DEF CallerInv, LoopInv, AloneInv
  <2>2. PipedInv'
    BY <1>1, <1>3, <2>1, SendKeepsPiped, SubmitWriteKeepsPiped, FinishKeepsPiped
    DEF PipelineCall
  <2> QED
    BY <1>1, <1>3, <2>1, <2>2, PipelineStep
<1>4. CASE phase \notin {"encode", "decode"}
  <2>1. phase # "encoded"
    BY <1>2 DEF CallerInv
  <2> QED
    BY <1>1, <1>4, <2>1, OutsideLoops
<1> QED
  BY <1>3, <1>4

(* The caller sees nothing of a worker's step. *)
LEMMA WorkerHolds ==
    ASSUME CallerInv, NEW w \in Workers, Worker(w) PROVE CallerInv'
<1>1. UNCHANGED <<call, submitted, asked, pipeErr, returned>> /\ UNCHANGED fileVars
  BY DEF Worker, run, runReceive, runDeliver, runExit
<1>2. CASE phase \in {"encode", "decode"}
  <2>1. used => PipedInv
    BY <1>2 DEF CallerInv, LoopInv
  <2>2. ASSUME used PROVE PipedInv'
    BY <1>1, <2>1, <2>2, SubmittedSame DEF PipedInv, fileVars
  <2> QED
    BY <1>1, <1>2, <2>2, PipelineStep
<1>3. CASE phase \notin {"encode", "decode"}
  BY <1>1, <1>3, OutsideLoops
<1> QED
  BY <1>2, <1>3

-----------------------------------------------------------------------------
(* All steps together. *)

(* A call starts with nothing written, the pipeline with empty queues. *)
LEMMA InitIInv == Init => IInv
<1> SUFFICES ASSUME Init PROVE IInv
  OBVIOUS
<1>1. Sized({}) /\ PipelineInv({})
  BY InitHolds DEF Init, Sized
<1>2. /\ phase = "encode" /\ next = 1 /\ selected = 0 /\ used = FALSE /\ stopped = FALSE
      /\ before = <<>> /\ call = "none" /\ returned = NoError
  BY DEF Init, PipelineInit
<1>3. before \in Seq(Pieces) /\ Len(before) = 0
  BY <1>2
<1>4. BeforeInv
  BY <1>2, <1>3 DEF BeforeInv
<1>5. AloneInv
  BY <1>2, <1>3 DEF AloneInv
<1>6. LoopInv
  BY <1>2, <1>4, <1>5 DEF LoopInv
<1>7. demo \in Demos /\ parsed = ParseIntoChunks(demo)
  BY DEF Init
<1>8. used \in BOOLEAN /\ stopped \in BOOLEAN
  BY <1>2
<1>9. WorkersDoNotMatter /\ FirstErrorWins
  BY <1>2 DEF WorkersDoNotMatter, EncodeOutcome, FirstErrorWins, DecodeOutcome
<1>10. phase = "encode" /\ next \in Nat \ {0}
  BY <1>2
<1>11. CallerInv
  BY <1>6, <1>7, <1>8, <1>9, <1>10 DEF CallerInv
<1> QED
  BY <1>1, <1>11 DEF IInv

(* The jobs are those submitted so far, and one more. *)
LEMMA SubmitKeepsPipeline ==
    ASSUME NEW J, Sized(J), PipelineInv(J), NEW job, job.size \in Nat, submit(job)
    PROVE  Sized(J \cup {job}) /\ PipelineInv(J \cup {job})'
<1> DEFINE K == J \cup {job}
<1>1. Sized(K)
  BY DEF Sized
<1>2. PipelineInv(K)
  BY MoreJobs
<1>3. job \in K
  OBVIOUS
<1>4. PipelineInv(K)'
  <2> HIDE DEF K
  <2> QED
    BY <1>1, <1>2, <1>3, SubmitHolds
<1> QED
  BY <1>1, <1>4

(* Every step of the callers is one of the pipeline, or leaves it alone. *)
LEMMA NextKeepsPipeline ==
    ASSUME CallerInv, NEW J, Sized(J), PipelineInv(J), Next
    PROVE  \E K : Sized(K) /\ PipelineInv(K)'
<1>1. CASE UNCHANGED pipeVars
  BY <1>1, StutterHolds
<1>2. CASE newChunkPipeline
  BY <1>2, NewHolds
<1>3. CASE submitChunk
  <2>1. submit(EncodeJob(parsed.chunks[next], next, selected))
        /\ phase = "encode" /\ next <= Len(parsed.chunks)
    BY <1>3 DEF submitChunk
  <2>2. EncodeJob(parsed.chunks[next], next, selected).size \in Nat
    <3>1. Len(parsed.chunks) \in Nat /\ next \in Nat \ {0}
      BY ParserAssumption DEF CallerInv
    <3>2. Item(next)
      BY <2>1, <3>1 DEF Item
    <3>3. JobAt(next).size \in Nat
      BY <2>1, <3>2, ItemFits
    <3> QED
      BY <2>1, <3>3 DEF JobAt, EncodeJob
  <2> QED
    BY <2>1, <2>2, SubmitKeepsPipeline
<1>4. CASE submitDecode
  <2>1. submit(DecodeJob(file[next], next)) /\ phase = "decode" /\ Readable(next)
    BY <1>4 DEF submitDecode, Readable
  <2>2. DecodeJob(file[next], next).size \in Nat
    BY <2>1, ItemFits DEF Item, JobAt
  <2> QED
    BY <2>1, <2>2, SubmitKeepsPipeline
<1>5. CASE finish
  BY <1>5, FinishHolds
<1>6. CASE PipelineCall
  BY <1>6, CallHolds
<1>7. ASSUME NEW w \in Workers, run(w) PROVE \E K : Sized(K) /\ PipelineInv(K)'
  BY <1>7, RunHolds
<1>8. \/ UNCHANGED pipeVars \/ newChunkPipeline \/ submitChunk \/ submitDecode \/ finish
      \/ PipelineCall \/ \E w \in Workers : run(w)
  BY DEF Next, Caller, CallInside, Worker, writeChunkNow, createPipeline, encodeStop,
         joinPipeline, encodeReturn, decodeStart, readError, decodeNow, submitRefused,
         decodeReturn
<1> QED
  BY <1>1, <1>2, <1>3, <1>4, <1>5, <1>6, <1>7, <1>8

(* Every step preserves the invariant. *)
LEMMA NextIInv == IInv /\ [Next]_vars => IInv'
<1> SUFFICES ASSUME IInv, [Next]_vars PROVE IInv'
  OBVIOUS
<1>1. CallerInv
  BY DEF IInv
<1>2. PICK J : Sized(J) /\ PipelineInv(J)
  BY DEF IInv
<1>3. CASE Next
  <2>1. ASSUME Caller PROVE CallerInv'
    BY <1>1, <1>2, <2>1, WriteChunkNowHolds, CreatePipelineHolds, SubmitChunkHolds,
       EncodeStopHolds, JoinPipelineHolds, EncodeReturnHolds, DecodeStartHolds,
       ReadErrorHolds, DecodeNowHolds, SubmitDecodeHolds, SubmitRefusedHolds,
       DecodeReturnHolds DEF Caller
  <2>2. ASSUME CallInside PROVE CallerInv'
    BY <1>1, <1>2, <2>2, CallInsideHolds
  <2>3. ASSUME NEW w \in Workers, Worker(w) PROVE CallerInv'
    BY <1>1, <2>3, WorkerHolds
  <2>4. CallerInv'
    BY <1>3, <2>1, <2>2, <2>3 DEF Next
  <2>5. \E K : Sized(K) /\ PipelineInv(K)'
    BY <1>1, <1>2, <1>3, NextKeepsPipeline
  <2> QED
    BY <2>4, <2>5 DEF IInv, Sized
<1>4. CASE UNCHANGED vars
  <2>1. UNCHANGED fileVars /\ UNCHANGED pipeVars
    BY <1>4 DEF vars
  <2>2. CallerInv'
    <3>1. CASE phase \in {"encode", "decode"}
      <4>1. used => PipedInv
        BY <1>1, <3>1 DEF CallerInv, LoopInv
      <4>2. ASSUME used PROVE PipedInv'
        BY <2>1, <4>1, <4>2, SubmittedSame DEF PipedInv, fileVars, pipeVars
      <4> QED
        BY <1>1, <2>1, <3>1, <4>2, PipelineStep DEF pipeVars
    <3>2. CASE phase \notin {"encode", "decode"}
      BY <1>1, <2>1, <3>2, OutsideLoops DEF pipeVars
    <3> QED
      BY <3>1, <3>2
  <2>3. PipelineInv(J)'
    BY <1>2, <2>1, StutterHolds
  <2> QED
    BY <1>2, <2>2, <2>3 DEF IInv, Sized
<1> QED
  BY <1>3, <1>4

(* The invariant holds in every state of every behaviour. *)
THEOREM Invariance == Spec => []IInv
BY InitIInv, NextIInv, PTL DEF Spec

(***************************************************************************)
(* However many workers there are and in whatever order chunks are encoded *)
(* and fail: encodeWithWorkers returns the file of a single goroutine, or  *)
(* the error that it would have met first.                                 *)
(***************************************************************************)
THEOREM WorkersTheorem == Spec => []WorkersDoNotMatter
<1>1. IInv => WorkersDoNotMatter
  BY DEF IInv, CallerInv
<1> QED
  BY <1>1, Invariance, PTL

(***************************************************************************)
(* Whatever has happened to the file, decodeChunks returns the bytes of    *)
(* all chunks or the first failure in the order of the file, of a chunk or *)
(* of the framing.                                                         *)
(***************************************************************************)
THEOREM FirstErrorTheorem == Spec => []FirstErrorWins
<1>1. IInv => FirstErrorWins
  BY DEF IInv, CallerInv
<1> QED
  BY <1>1, Invariance, PTL

(***************************************************************************)
(* The pipeline keeps its promises to these two callers: results in order, *)
(* queues within their limits, nothing left behind.  The jobs are what the *)
(* callers make of a demo or find in a file, no set given beforehand.      *)
(***************************************************************************)
THEOREM PipelineTheorem == Spec => [](WrittenInOrder /\ QueueBounded /\ NothingLeftBehind)
<1>1. IInv => WrittenInOrder /\ QueueBounded /\ NothingLeftBehind
  BY BoundFromPlaces DEF IInv, PipelineInv
<1> QED
  BY <1>1, Invariance, PTL
=============================================================================
