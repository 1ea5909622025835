------------------------ MODULE ChunkPipelineProofs ------------------------
(***************************************************************************)
(* Proofs about ChunkPipeline, for every number of workers, every set of   *)
(* jobs, every budget and whatever the jobs return.                        *)
(*                                                                         *)
(* WrittenInOrder needs to know that the job whose result is read has been *)
(* submitted, QueueBounded that no two places hold the same job: else      *)
(* removing the first pending one could leave another copy behind.  Places *)
(* says both.                                                              *)
(***************************************************************************)
EXTENDS ChunkPipeline, SequenceTheorems, TLAPS

(* J is the set of the jobs that may be submitted; to a caller of the pipeline *)
(* it is not a constant, since what it submits depends on what it has read.    *)
Sized(J) == \A job \in J : job.size \in Nat

Results(J) == {Work(job).data : job \in J}

PipelineTypeOK(J) ==
    /\ call \in {"none", "open", "submit", "finish"}
    /\ submitted \in Seq(J)
    /\ asked \in Seq(J) /\ (call = "submit" => Len(asked) = 1)
    /\ taken \in Nat /\ taken <= Len(submitted)
    /\ head \in Nat /\ head <= Len(submitted)
    /\ running \in [Workers -> Nat]
    /\ ready \subseteq Nat
    /\ pendingBytes \in Int
    /\ out \in Seq(Results(J))
    /\ exited \subseteq Workers

(* A job is in the channel, with one worker, in its result channel, or written. *)
Places ==
    /\ head <= taken
    /\ \A n \in ready : head < n /\ n <= taken
    /\ \A w \in Workers : running[w] # 0 =>
          /\ head < running[w] /\ running[w] <= taken
          /\ running[w] \notin ready
          /\ \A v \in Workers : running[v] = running[w] => v = w

Limits == pending <= pendingLimit /\ pendingBytes <= MaxPendingBytes

PipelineInv(J) ==
    PipelineTypeOK(J) /\ Places /\ Limits /\ WrittenInOrder /\ NothingLeftBehind

-----------------------------------------------------------------------------
(* The limit on jobs is a natural number. *)
LEMMA LimitIsNat == pendingLimit \in Nat
BY WorkersAssumption DEF pendingLimit

(* newChunkPipeline starts with empty queues: the invariant holds of them. *)
LEMMA InitHolds == ASSUME NEW J, PipelineInit PROVE PipelineInv(J)
<1>1. PipelineTypeOK(J)
  BY DEF PipelineInit, PipelineTypeOK
<1>2. Places
  BY DEF PipelineInit, Places
<1>3. Limits
  BY LimitIsNat, BytesAssumption DEF PipelineInit, Limits, pending
<1>4. WrittenInOrder
  BY DEF PipelineInit, WrittenInOrder
<1>5. NothingLeftBehind
  BY DEF PipelineInit, NothingLeftBehind
<1> QED
  BY <1>1, <1>2, <1>3, <1>4, <1>5 DEF PipelineInv

(* A new pipeline, whatever the one before it did. *)
LEMMA NewHolds == ASSUME NEW J, newChunkPipeline PROVE PipelineInv(J)'
<1>1. PipelineTypeOK(J)'
  BY DEF newChunkPipeline, PipelineTypeOK
<1>2. Places'
  BY DEF newChunkPipeline, Places
<1>3. Limits'
  BY LimitIsNat, BytesAssumption DEF newChunkPipeline, Limits, pending, pendingLimit
<1>4. WrittenInOrder'
  BY DEF newChunkPipeline, WrittenInOrder
<1>5. NothingLeftBehind'
  BY DEF newChunkPipeline, NothingLeftBehind
<1> QED
  BY <1>1, <1>2, <1>3, <1>4, <1>5 DEF PipelineInv

(* submit, up to the loop that makes room: only the request is noted. *)
LEMMA SubmitHolds ==
    ASSUME NEW J, Sized(J), PipelineInv(J), NEW job \in J, submit(job) PROVE PipelineInv(J)'
<1>0. <<job>> \in Seq(J) /\ Len(<<job>>) = 1
  OBVIOUS
<1>1. PipelineTypeOK(J)'
  <2>1. CASE job.size > MaxPendingBytes
    BY <2>1 DEF PipelineInv, PipelineTypeOK, submit
  <2>2. CASE ~(job.size > MaxPendingBytes)
    BY <1>0, <2>2 DEF PipelineInv, PipelineTypeOK, submit
  <2> QED
    BY <2>1, <2>2
<1>2. Places'
  BY DEF PipelineInv, Places, submit
<1>3. Limits'
  BY DEF PipelineInv, Limits, pending, pendingLimit, submit
<1>4. WrittenInOrder'
  BY DEF PipelineInv, WrittenInOrder, WrittenAs, submit
<1>5. NothingLeftBehind'
  BY DEF submit, NothingLeftBehind
<1> QED
  BY <1>1, <1>2, <1>3, <1>4, <1>5 DEF PipelineInv

(* The job is sent: the numbers in use stay the same, the limits were tested. *)
LEMMA SendHolds ==
    ASSUME NEW J, Sized(J), PipelineInv(J), submitSend PROVE PipelineInv(J)'
<1>0. /\ asked[1] \in J /\ asked[1].size \in Nat
      /\ Len(submitted') = Len(submitted) + 1
      /\ submitted' \in Seq(J)
      /\ \A i \in 1..Len(submitted) : submitted'[i] = submitted[i]
  <2>1. /\ submitted \in Seq(J) /\ asked \in Seq(J) /\ Len(asked) = 1
        /\ submitted' = Append(submitted, asked[1])
    BY DEF PipelineInv, PipelineTypeOK, submitSend
  <2>2. asked[1] \in J
    <3>1. 1 \in 1..Len(asked)
      BY <2>1
    <3> QED
      BY <2>1, <3>1, ElementOfSeq
  <2>3. asked[1].size \in Nat
    BY <2>2 DEF Sized
  <2> QED
    BY <2>1, <2>2, <2>3
<1>1. PipelineTypeOK(J)'
  BY <1>0 DEF PipelineInv, PipelineTypeOK, submitSend
<1>2. Places'
  BY <1>0 DEF PipelineInv, Places, submitSend
<1>3. Limits'
  <2>1. /\ head \in Nat /\ Len(submitted) \in Nat /\ pendingBytes \in Int
        /\ UNCHANGED head /\ pendingBytes' = pendingBytes + asked[1].size
    BY DEF PipelineInv, PipelineTypeOK, submitSend
  <2>2. /\ Len(submitted) - head < pendingLimit
        /\ pendingBytes <= MaxPendingBytes - asked[1].size
    BY DEF HasRoom, pending, submitSend
  <2>3. pendingBytes' <= MaxPendingBytes
    BY <1>0, <2>1, <2>2, BytesAssumption
  <2>4. Len(submitted') - head' <= pendingLimit
    BY <1>0, <2>1, <2>2, LimitIsNat
  <2> QED
    BY <2>3, <2>4 DEF Limits, pending, pendingLimit
<1>4. WrittenInOrder'
  <2>1. /\ UNCHANGED <<out, pipeErr, head>> /\ Len(out) \in Nat
        /\ head \in Nat /\ head <= Len(submitted)
    BY DEF PipelineInv, PipelineTypeOK, submitSend
  <2>2. \A i \in 1..Len(out) : WrittenAs(Work(submitted[i]), i)' 
    BY <1>0, <2>1 DEF PipelineInv, WrittenInOrder, WrittenAs
  <2>3. pipeErr # NoError => submitted'[Len(out) + 1] = submitted[Len(out) + 1]
    BY <1>0, <2>1 DEF PipelineInv, WrittenInOrder
  <2> QED
    BY <2>1, <2>2, <2>3 DEF PipelineInv, WrittenInOrder
<1>5. NothingLeftBehind'
  BY DEF submitSend, NothingLeftBehind
<1> QED
  BY <1>1, <1>2, <1>3, <1>4, <1>5 DEF PipelineInv

(* What writeNext does to the parts of the invariant, whoever calls it. *)
LEMMA WriteNextHolds ==
    ASSUME NEW J, Sized(J), PipelineInv(J), writeNext, UNCHANGED <<submitted, taken, running>>
    PROVE  /\ head' \in Nat /\ head' <= Len(submitted) /\ ready' \subseteq Nat
           /\ pendingBytes' \in Int /\ out' \in Seq(Results(J))
           /\ Places' /\ Limits' /\ WrittenInOrder'
<1>0. /\ head + 1 \in ready /\ head \in Nat /\ head + 1 <= Len(submitted)
      /\ head' = head + 1 /\ ready' = ready \ {head + 1}
      /\ submitted[head + 1] \in J /\ submitted[head + 1].size \in Nat
      /\ Len(submitted) \in Nat
  BY DEF Sized, PipelineInv, PipelineTypeOK, Places, writeNext
<1>1. head' \in Nat /\ head' <= Len(submitted) /\ ready' \subseteq Nat
  BY <1>0 DEF PipelineInv, PipelineTypeOK
<1>2. pendingBytes' \in Int
  BY <1>0 DEF PipelineInv, PipelineTypeOK, writeNext
<1>3. out' \in Seq(Results(J))
  <2>1. Work(submitted[head + 1]).data \in Results(J)
    BY <1>0 DEF Results
  <2>2. out \in Seq(Results(J))
    BY DEF PipelineInv, PipelineTypeOK
  <2>3. out' = out \/ out' = Append(out, Work(submitted[head + 1]).data)
    BY DEF writeNext
  <2> QED
    BY <2>1, <2>2, <2>3
<1>4. Places'
  BY <1>0 DEF PipelineInv, PipelineTypeOK, Places
<1>5. Limits'
  <2>1. /\ pendingBytes' = pendingBytes - submitted[head + 1].size
        /\ pendingBytes \in Int /\ UNCHANGED submitted
    BY DEF PipelineInv, PipelineTypeOK, writeNext
  <2>2. Len(submitted) - head <= pendingLimit /\ pendingBytes <= MaxPendingBytes
    BY DEF PipelineInv, Limits, pending
  <2>3. pendingBytes' <= MaxPendingBytes
    BY <1>0, <2>1, <2>2, BytesAssumption
  <2>4. Len(submitted) - (head + 1) <= pendingLimit
    BY <1>0, <2>2, LimitIsNat
  <2> QED
    BY <1>0, <2>1, <2>3, <2>4 DEF Limits, pending, pendingLimit
<1>6. WrittenInOrder'
  <2>0. Len(out) \in Nat
    BY DEF PipelineInv, PipelineTypeOK
  <2>1. CASE pipeErr # NoError
    <3>1. UNCHANGED <<out, pipeErr>>
      BY <2>1 DEF writeNext
    <3> QED
      BY <1>0, <2>0, <2>1, <3>1 DEF PipelineInv, WrittenInOrder, WrittenAs
  <2>2. CASE pipeErr = NoError /\ Work(submitted[head + 1]).err # NoError
    <3>1. UNCHANGED out /\ pipeErr' = Work(submitted[head + 1]).err
      BY <2>2 DEF writeNext
    <3> QED
      BY <1>0, <2>0, <2>2, <3>1 DEF PipelineInv, WrittenInOrder, WrittenAs
  <2>3. CASE pipeErr = NoError /\ Work(submitted[head + 1]).err = NoError
    <3>1. UNCHANGED pipeErr /\ out' = Append(out, Work(submitted[head + 1]).data)
      BY <2>3 DEF writeNext
    <3>2. Len(out) = head
      BY <2>3 DEF PipelineInv, WrittenInOrder
    <3>3. /\ Len(out') = head + 1 /\ out'[head + 1] = Work(submitted[head + 1]).data
          /\ \A i \in 1..head : out'[i] = out[i]
      BY <3>1, <3>2 DEF PipelineInv, PipelineTypeOK
    <3>4. \A i \in 1..(head + 1) : WrittenAs(Work(submitted[i]), i)'
      <4> SUFFICES ASSUME NEW i \in 1..(head + 1) PROVE WrittenAs(Work(submitted[i]), i)'
        OBVIOUS
      <4>1. CASE i = head + 1
        BY <4>1, <3>3, <2>3 DEF WrittenAs
      <4>2. CASE i \in 1..head
        BY <4>2, <3>2, <3>3 DEF PipelineInv, WrittenInOrder, WrittenAs
      <4> QED
        BY <4>1, <4>2, <1>0
    <3> QED
      BY <1>0, <2>3, <3>1, <3>3, <3>4 DEF WrittenInOrder
  <2> QED
    BY <2>1, <2>2, <2>3
<1> QED
  BY <1>1, <1>2, <1>3, <1>4, <1>5, <1>6

(* submit writes a finished chunk while the queue has no room. *)
LEMMA SubmitWriteHolds ==
    ASSUME NEW J, Sized(J), PipelineInv(J), submitWrite PROVE PipelineInv(J)'
<1>0. writeNext /\ UNCHANGED <<submitted, taken, running, exited>>
  BY DEF submitWrite
<1>1. /\ head' \in Nat /\ head' <= Len(submitted) /\ ready' \subseteq Nat
      /\ pendingBytes' \in Int /\ out' \in Seq(Results(J))
      /\ Places' /\ Limits' /\ WrittenInOrder'
  BY <1>0, WriteNextHolds
<1>2. PipelineTypeOK(J)'
  <2>1. CASE pipeErr' = NoError
    BY <1>0, <1>1, <2>1 DEF PipelineInv, PipelineTypeOK, submitWrite
  <2>2. CASE pipeErr' # NoError
    BY <1>0, <1>1, <2>2 DEF PipelineInv, PipelineTypeOK, submitWrite
  <2> QED
    BY <2>1, <2>2
<1>3. NothingLeftBehind'
  BY DEF submitWrite, NothingLeftBehind
<1> QED
  BY <1>1, <1>2, <1>3 DEF PipelineInv

(* finish drains the queue in the same way. *)
LEMMA FinishWriteHolds ==
    ASSUME NEW J, Sized(J), PipelineInv(J), finishWrite PROVE PipelineInv(J)'
<1>0. writeNext /\ UNCHANGED <<call, submitted, asked, taken, running, exited>>
  BY DEF finishWrite
<1>1. /\ head' \in Nat /\ head' <= Len(submitted) /\ ready' \subseteq Nat
      /\ pendingBytes' \in Int /\ out' \in Seq(Results(J))
      /\ Places' /\ Limits' /\ WrittenInOrder'
  BY <1>0, WriteNextHolds
<1>2. PipelineTypeOK(J)'
  BY <1>0, <1>1 DEF PipelineInv, PipelineTypeOK
<1>3. NothingLeftBehind'
  BY DEF finishWrite, NothingLeftBehind
<1> QED
  BY <1>1, <1>2, <1>3 DEF PipelineInv

(* The call of finish changes nothing but where the caller is. *)
LEMMA FinishHolds ==
    ASSUME NEW J, Sized(J), PipelineInv(J), finish PROVE PipelineInv(J)'
<1>1. PipelineTypeOK(J)'
  BY DEF PipelineInv, PipelineTypeOK, finish
<1>2. Places' /\ Limits'
  BY DEF PipelineInv, Places, Limits, pending, pendingLimit, finish
<1>3. WrittenInOrder'
  BY DEF PipelineInv, WrittenInOrder, WrittenAs, finish
<1>4. NothingLeftBehind'
  BY DEF finish, NothingLeftBehind
<1> QED
  BY <1>1, <1>2, <1>3, <1>4 DEF PipelineInv

(***************************************************************************)
(* finish returns when pending is empty: every number up to the last has   *)
(* then been written, so none can be in a channel or with a worker.        *)
(***************************************************************************)
LEMMA FinishJoinHolds ==
    ASSUME NEW J, Sized(J), PipelineInv(J), finishJoin PROVE PipelineInv(J)'
<1>1. PipelineTypeOK(J)'
  BY DEF PipelineInv, PipelineTypeOK, finishJoin
<1>2. Places' /\ Limits'
  BY DEF PipelineInv, Places, Limits, pending, pendingLimit, finishJoin
<1>3. WrittenInOrder'
  BY DEF PipelineInv, WrittenInOrder, WrittenAs, finishJoin
<1>4. NothingLeftBehind'
  <2>0. /\ head = Len(submitted) /\ taken = head /\ head \in Nat
        /\ ready \subseteq Nat /\ running \in [Workers -> Nat]
    BY DEF PipelineInv, PipelineTypeOK, Places, pending, finishJoin
  <2>1. ready = {}
    BY <2>0 DEF PipelineInv, Places
  <2>2. \A w \in Workers : running[w] = 0
    BY <2>0 DEF PipelineInv, Places
  <2>3. pipeErr = NoError => Len(out) = Len(submitted)
    BY <2>0 DEF PipelineInv, WrittenInOrder
  <2> QED
    BY <2>0, <2>1, <2>2, <2>3 DEF NothingLeftBehind, finishJoin
<1> QED
  BY <1>1, <1>2, <1>3, <1>4 DEF PipelineInv

(* A worker receives the first number of the channel: nobody else has it. *)
LEMMA ReceiveHolds ==
    ASSUME NEW J, Sized(J), PipelineInv(J), NEW w \in Workers, runReceive(w) PROVE PipelineInv(J)'
<1>1. PipelineTypeOK(J)'
  BY DEF PipelineInv, PipelineTypeOK, runReceive
<1>2. Places'
  BY DEF PipelineInv, PipelineTypeOK, Places, runReceive
<1>3. Limits'
  BY DEF PipelineInv, Limits, pending, pendingLimit, runReceive
<1>4. WrittenInOrder'
  BY DEF PipelineInv, WrittenInOrder, WrittenAs, runReceive
<1>5. NothingLeftBehind'
  BY DEF PipelineInv, PipelineTypeOK, NothingLeftBehind, runReceive
<1> QED
  BY <1>1, <1>2, <1>3, <1>4, <1>5 DEF PipelineInv

(* A worker hands its result over and holds it no longer. *)
LEMMA DeliverHolds ==
    ASSUME NEW J, Sized(J), PipelineInv(J), NEW w \in Workers, runDeliver(w) PROVE PipelineInv(J)'
<1>1. PipelineTypeOK(J)'
  BY DEF PipelineInv, PipelineTypeOK, runDeliver
<1>2. Places'
  BY DEF PipelineInv, PipelineTypeOK, Places, runDeliver
<1>3. Limits'
  BY DEF PipelineInv, Limits, pending, pendingLimit, runDeliver
<1>4. WrittenInOrder'
  BY DEF PipelineInv, WrittenInOrder, WrittenAs, runDeliver
<1>5. NothingLeftBehind'
  BY DEF PipelineInv, PipelineTypeOK, NothingLeftBehind, runDeliver
<1> QED
  BY <1>1, <1>2, <1>3, <1>4, <1>5 DEF PipelineInv

(* A worker leaves the loop over the closed channel. *)
LEMMA ExitHolds ==
    ASSUME NEW J, Sized(J), PipelineInv(J), NEW w \in Workers, runExit(w) PROVE PipelineInv(J)'
<1>1. PipelineTypeOK(J)'
  BY DEF PipelineInv, PipelineTypeOK, runExit
<1>2. Places' /\ Limits'
  BY DEF PipelineInv, Places, Limits, pending, pendingLimit, runExit
<1>3. WrittenInOrder'
  BY DEF PipelineInv, WrittenInOrder, WrittenAs, runExit
<1>4. NothingLeftBehind'
  BY DEF runExit, NothingLeftBehind
<1> QED
  BY <1>1, <1>2, <1>3, <1>4 DEF PipelineInv

(* The rest of a method that was called. *)
LEMMA CallHolds ==
    ASSUME NEW J, Sized(J), PipelineInv(J), PipelineCall PROVE PipelineInv(J)'
BY SendHolds, SubmitWriteHolds, FinishWriteHolds, FinishJoinHolds DEF PipelineCall

(* A step of a worker. *)
LEMMA RunHolds ==
    ASSUME NEW J, Sized(J), PipelineInv(J), NEW w \in Workers, run(w) PROVE PipelineInv(J)'
BY ReceiveHolds, DeliverHolds, ExitHolds DEF run

(* The invariant speaks of the pipeline's variables only. *)
LEMMA StutterHolds ==
    ASSUME NEW J, PipelineInv(J), UNCHANGED pipeVars PROVE PipelineInv(J)'
<1>1. PipelineTypeOK(J)' /\ Places' /\ Limits'
  BY DEF PipelineInv, PipelineTypeOK, Places, Limits, pending, pendingLimit, pipeVars
<1>2. WrittenInOrder' /\ NothingLeftBehind'
  BY DEF PipelineInv, WrittenInOrder, WrittenAs, NothingLeftBehind, pipeVars
<1> QED
  BY <1>1, <1>2 DEF PipelineInv

(* A caller may have more jobs than it has submitted so far. *)
LEMMA MoreJobs ==
    ASSUME NEW J, NEW K, J \subseteq K, PipelineInv(J) PROVE PipelineInv(K)
<1>1. Seq(J) \subseteq Seq(K)
  OBVIOUS
<1>2. Seq(Results(J)) \subseteq Seq(Results(K))
  <2>1. Results(J) \subseteq Results(K)
    BY DEF Results
  <2> QED
    BY <2>1
<1>3. PipelineTypeOK(K)
  BY <1>1, <1>2 DEF PipelineInv, PipelineTypeOK
<1> QED
  BY <1>3 DEF PipelineInv

(* Every step of the pipeline preserves the invariant. *)
LEMMA NextHolds == PipelineInv(Jobs) /\ [PipelineNext]_pipeVars => PipelineInv(Jobs)'
<1> SUFFICES ASSUME PipelineInv(Jobs), [PipelineNext]_pipeVars PROVE PipelineInv(Jobs)'
  OBVIOUS
<1>0. Sized(Jobs)
  BY JobsAssumption DEF Sized
<1>1. CASE newChunkPipeline
  BY <1>1, NewHolds
<1>2. CASE \E job \in Jobs : submit(job)
  BY <1>0, <1>2, SubmitHolds
<1>3. CASE finish
  BY <1>0, <1>3, FinishHolds
<1>4. CASE PipelineCall
  BY <1>0, <1>4, CallHolds
<1>5. ASSUME NEW w \in Workers, run(w) PROVE PipelineInv(Jobs)'
  BY <1>0, <1>5, RunHolds
<1>6. CASE UNCHANGED pipeVars
  BY <1>6, StutterHolds
<1> QED
  BY <1>1, <1>2, <1>3, <1>4, <1>5, <1>6 DEF PipelineNext

(* The places a job can be in are within the numbers still pending. *)
LEMMA BoundFromPlaces == ASSUME NEW J, PipelineInv(J) PROVE QueueBounded
<1>0. /\ head \in Nat /\ taken \in Nat /\ Len(submitted) \in Nat
      /\ head <= taken /\ taken <= Len(submitted)
      /\ running \in [Workers -> Nat] /\ ready \subseteq Nat
  BY DEF PipelineInv, PipelineTypeOK, Places
<1>1. (taken + 1)..Len(submitted) \subseteq (head + 1)..Len(submitted)
  BY <1>0
<1>2. ready \subseteq (head + 1)..Len(submitted)
  BY <1>0 DEF PipelineInv, Places
<1>3. {running[w] : w \in {v \in Workers : running[v] # 0}}
         \subseteq (head + 1)..Len(submitted)
  BY <1>0 DEF PipelineInv, Places
<1> QED
  BY <1>1, <1>2, <1>3 DEF QueueBounded, PipelineInv, Limits

(***************************************************************************)
(* However many workers there are and in whatever order they finish: what  *)
(* writeNext has written are the results of the first jobs in the order of *)
(* submission, and the error kept is that of the first job that failed.    *)
(***************************************************************************)
THEOREM OrderIsKept == PipelineSpec => []WrittenInOrder
<1>1. PipelineInv(Jobs) => WrittenInOrder
  BY DEF PipelineInv
<1>2. PipelineInit => PipelineInv(Jobs)
  BY InitHolds
<1> QED
  BY <1>2, NextHolds, <1>1, PTL DEF PipelineSpec

(***************************************************************************)
(* A slow first job cannot make the queue grow: the jobs in the channel,   *)
(* with the workers and in the result channels are all among the pending   *)
(* ones, which submit keeps within the limits on jobs and bytes.           *)
(***************************************************************************)
THEOREM QueueIsBounded == PipelineSpec => []QueueBounded
<1>1. PipelineInv(Jobs) => QueueBounded
  BY BoundFromPlaces
<1>2. PipelineInit => PipelineInv(Jobs)
  BY InitHolds
<1> QED
  BY <1>2, NextHolds, <1>1, PTL DEF PipelineSpec

(***************************************************************************)
(* When finish has returned, no job is in a channel or with a worker, and  *)
(* without an error every job's result has been written.                   *)
(***************************************************************************)
THEOREM FinishLeavesNothing == PipelineSpec => []NothingLeftBehind
<1>1. PipelineInv(Jobs) => NothingLeftBehind
  BY DEF PipelineInv
<1>2. PipelineInit => PipelineInv(Jobs)
  BY InitHolds
<1> QED
  BY <1>2, NextHolds, <1>1, PTL DEF PipelineSpec
=============================================================================
