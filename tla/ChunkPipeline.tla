--------------------------- MODULE ChunkPipeline ---------------------------
(***************************************************************************)
(* chunkPipeline (src/demo/mvz/internal/codec/chunks.go): one caller       *)
(* submits jobs, a fixed number of goroutines carries them out in any      *)
(* order, and the caller alone writes the results, in the order of         *)
(* submission.  The encoder and the decoder of an MVZ file both use it.    *)
(*                                                                         *)
(* A job has the number of its submission.  The jobs channel is FIFO, so   *)
(* it holds the numbers taken+1 .. Len(submitted); pending holds           *)
(* head+1 .. Len(submitted); the result channel of job n has capacity 1    *)
(* and is full when n \in ready.  The destination is always a              *)
(* bytes.Buffer, whose Write does not fail.                                *)
(***************************************************************************)
EXTENDS Integers, Sequences, FiniteSets

CONSTANTS
    Workers,          \* the goroutines of a pipeline
    Jobs,             \* the jobs a caller may submit, records with a size
    MaxPendingBytes,  \* maxPendingChunkBytes
    NoError,          \* the nil error
    BadSize,          \* the error of a job that no queue can hold
    Work(_)           \* what a job returns: [data |-> ..., err |-> ...]

ASSUME WorkersAssumption == IsFiniteSet(Workers) /\ Cardinality(Workers) \in Nat \ {0}
ASSUME BytesAssumption == MaxPendingBytes \in Nat
ASSUME JobsAssumption == \A job \in Jobs : job.size \in Nat
ASSUME BadSizeAssumption == BadSize # NoError

VARIABLES
    call,        \* where the caller is in the pipeline's methods
    submitted,   \* the jobs sent so far, by number
    asked,       \* the argument of the submit being carried out
    taken,       \* the jobs received by a worker
    running,     \* the job of each worker, 0 for none
    ready,       \* the jobs whose result channel is full
    head,        \* the jobs removed from pending
    pendingBytes,
    out,         \* what has been written to dst
    pipeErr,     \* pipeline.err
    returned,    \* what the last submit or finish returned
    exited       \* the workers that have left run

pipeVars == <<call, submitted, asked, taken, running, ready, head,
              pendingBytes, out, pipeErr, returned, exited>>

pendingLimit == 2 * Cardinality(Workers)

pending == Len(submitted) - head

PipelineInit ==
    /\ call = "none"
    /\ submitted = <<>> /\ asked = <<>> /\ taken = 0 /\ ready = {} /\ head = 0
    /\ running = [w \in Workers |-> 0]
    /\ pendingBytes = 0 /\ out = <<>> /\ pipeErr = NoError /\ returned = NoError
    /\ exited = Workers

newChunkPipeline ==
    /\ call = "none"
    /\ call' = "open"
    /\ submitted' = <<>> /\ asked' = <<>> /\ taken' = 0 /\ ready' = {} /\ head' = 0
    /\ running' = [w \in Workers |-> 0]
    /\ pendingBytes' = 0 /\ out' = <<>> /\ pipeErr' = NoError /\ returned' = NoError
    /\ exited' = {}

(***************************************************************************)
(* submit: the early returns, and the loop that writes finished chunks     *)
(* until the queue has room for one more.  Both callers stop after an      *)
(* error, so a refused caller can only finish.                             *)
(***************************************************************************)
HasRoomOneMore(job) ==
    /\ pending <= pendingLimit
    /\ pendingBytes <= MaxPendingBytes - job.size

HasRoom(job) ==
    /\ pending < pendingLimit
    /\ pendingBytes <= MaxPendingBytes - job.size

submit(job) ==
    /\ call = "open"
    /\ returned = NoError
    /\ IF job.size > MaxPendingBytes
       THEN returned' = BadSize /\ UNCHANGED <<call, asked>>
       ELSE call' = "submit" /\ asked' = <<job>> /\ UNCHANGED returned
    /\ UNCHANGED <<submitted, taken, running, ready, head, pendingBytes, out,
                   pipeErr, exited>>

(* the channel has room for one job per worker *)
submitSend ==
    /\ call = "submit"
    /\ HasRoom(asked[1])
    /\ Len(submitted) - taken < Cardinality(Workers)
    /\ submitted' = Append(submitted, asked[1])
    /\ pendingBytes' = pendingBytes + asked[1].size
    /\ call' = "open"
    /\ asked' = <<>>
    /\ UNCHANGED <<taken, running, ready, head, out, pipeErr, returned, exited>>

(***************************************************************************)
(* writeNext waits for the result of the first pending job.                *)
(***************************************************************************)
writeNextPastError ==
    /\ head + 1 \in ready
    /\ ready' = ready \ {head + 1}
    /\ head' = head + 1
    /\ pendingBytes' = pendingBytes - submitted[head + 1].size
    /\ \E result \in {Work(submitted[head + 1])} :
          IF result.err # NoError
          THEN pipeErr' = result.err /\ UNCHANGED out
          ELSE out' = Append(out, result.data) /\ UNCHANGED pipeErr

writeNext ==
    /\ head + 1 \in ready
    /\ ready' = ready \ {head + 1}
    /\ head' = head + 1
    /\ pendingBytes' = pendingBytes - submitted[head + 1].size
    /\ \E result \in {Work(submitted[head + 1])} :
          \/ /\ pipeErr # NoError
             /\ UNCHANGED <<out, pipeErr>>
          \/ /\ pipeErr = NoError
             /\ result.err # NoError
             /\ pipeErr' = result.err
             /\ UNCHANGED out
          \/ /\ pipeErr = NoError
             /\ result.err = NoError
             /\ out' = Append(out, result.data)
             /\ UNCHANGED pipeErr

submitWrite ==
    /\ call = "submit"
    /\ ~HasRoom(asked[1])
    /\ writeNext
    /\ returned' = pipeErr'
    /\ IF pipeErr' = NoError
       THEN UNCHANGED <<call, asked>>
       ELSE call' = "open" /\ asked' = <<>>
    /\ UNCHANGED <<submitted, taken, running, exited>>

(* finish closes the channel, drains the queue and joins the workers *)
finish ==
    /\ call = "open"
    /\ call' = "finish"
    /\ UNCHANGED <<submitted, asked, taken, running, ready, head, pendingBytes,
                   out, pipeErr, returned, exited>>

finishWrite ==
    /\ call = "finish"
    /\ pending # 0
    /\ writeNext
    /\ UNCHANGED <<call, submitted, asked, taken, running, returned, exited>>

finishJoinEarly ==
    /\ call = "finish"
    /\ pending = 0 \/ pipeErr # NoError
    /\ exited = Workers
    /\ call' = "none"
    /\ returned' = pipeErr
    /\ UNCHANGED <<submitted, asked, taken, running, ready, head, pendingBytes,
                   out, pipeErr, exited>>

finishJoin ==
    /\ call = "finish"
    /\ pending = 0
    /\ exited = Workers
    /\ call' = "none"
    /\ returned' = pipeErr
    /\ UNCHANGED <<submitted, asked, taken, running, ready, head, pendingBytes,
                   out, pipeErr, exited>>

(***************************************************************************)
(* run: the loop of a worker over the channel.                             *)
(***************************************************************************)
runReceive(w) ==
    /\ w \notin exited
    /\ running[w] = 0
    /\ taken < Len(submitted)
    /\ taken' = taken + 1
    /\ running' = [running EXCEPT ![w] = taken + 1]
    /\ UNCHANGED <<call, submitted, asked, ready, head, pendingBytes, out,
                   pipeErr, returned, exited>>

runDeliver(w) ==
    /\ running[w] # 0
    /\ ready' = ready \cup {running[w]}
    /\ running' = [running EXCEPT ![w] = 0]
    /\ UNCHANGED <<call, submitted, asked, taken, head, pendingBytes, out,
                   pipeErr, returned, exited>>

runExitUnlessFailed(w) ==
    /\ w \notin exited
    /\ running[w] = 0
    /\ call = "finish" /\ pipeErr = NoError
    /\ taken = Len(submitted)
    /\ exited' = exited \cup {w}
    /\ UNCHANGED <<call, submitted, asked, taken, running, ready, head,
                   pendingBytes, out, pipeErr, returned>>

runExit(w) ==
    /\ w \notin exited
    /\ running[w] = 0
    /\ call = "finish"
    /\ taken = Len(submitted)
    /\ exited' = exited \cup {w}
    /\ UNCHANGED <<call, submitted, asked, taken, running, ready, head,
                   pendingBytes, out, pipeErr, returned>>

run(w) == runReceive(w) \/ runDeliver(w) \/ runExit(w)

(* the part of a method that goes on by itself once it was called *)
PipelineCall == submitSend \/ submitWrite \/ finishWrite \/ finishJoin

PipelineNext ==
    \/ newChunkPipeline
    \/ \E job \in Jobs : submit(job)
    \/ finish
    \/ PipelineCall
    \/ \E w \in Workers : run(w)

PipelineSpec == PipelineInit /\ [][PipelineNext]_pipeVars

-----------------------------------------------------------------------------
WrittenAs(result, i) == result.err = NoError /\ result.data = out[i]

(***************************************************************************)
(* What has been written are the results of the first jobs, in the order   *)
(* they were submitted, up to the first one that failed; the pipeline's    *)
(* error is that job's and no later one's, in whatever order the workers   *)
(* finished (writeNext, "returns the first error in source order").        *)
(***************************************************************************)
WrittenInOrder ==
    /\ Len(out) <= head
    /\ \A i \in 1..Len(out) : WrittenAs(Work(submitted[i]), i)
    /\ pipeErr = NoError => Len(out) = head
    /\ pipeErr # NoError =>
          Len(out) < head /\ pipeErr = Work(submitted[Len(out) + 1]).err

(***************************************************************************)
(* The queue holds no more jobs and bytes than its limits, "so a slow      *)
(* first job cannot create an unbounded reorder buffer": the jobs waiting, *)
(* running or finished and not yet written are all counted.                *)
(***************************************************************************)
QueueBounded ==
    /\ (taken + 1)..Len(submitted) \cup ready
         \cup {running[w] : w \in {v \in Workers : running[v] # 0}}
            \subseteq (head + 1)..Len(submitted)
    /\ pending <= pendingLimit
    /\ pendingBytes <= MaxPendingBytes

(***************************************************************************)
(* When finish has returned, no job is left in a channel or with a worker, *)
(* every job was carried out once and all results were written, unless     *)
(* finish returned an error.                                               *)
(***************************************************************************)
NothingLeftBehind ==
    call = "none" =>
        /\ taken = Len(submitted) /\ ready = {} /\ \A w \in Workers : running[w] = 0
        /\ returned = NoError => Len(out) = Len(submitted)
=============================================================================
