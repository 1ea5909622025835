------------------------------ MODULE Sequencer ------------------------------
(***************************************************************************)
(* The reliable-message sequencer of common/sequencer, as operators on a   *)
(* record that has one field per field of the Go struct.  The sequencer    *)
(* has no goroutine of its own: client/quake and server/quake call it      *)
(* under their own locks, so every method is one indivisible operator.     *)
(*                                                                         *)
(* Header words are uint32 values.  Their top bit is the reliable bit and  *)
(* SeqLimit is its weight (2^31 in the code), so that a word is a number   *)
(* below 2 * SeqLimit and masking it is a subtraction.                     *)
(*                                                                         *)
(* The clock is abstracted: lastWrite and ping only decide whether         *)
(* outgoing() answers ErrRateLimit, and the caller's action chooses.       *)
(***************************************************************************)
EXTENDS Naturals, Sequences

CONSTANT SeqLimit

ASSUME SeqLimitAssumption == SeqLimit \in Nat \ {0}

States == {"Disconnected", "Handshake", "Connecting", "Connected"}

Word == 0 .. (2 * SeqLimit - 1)

IsReliable(w) == w >= SeqLimit

Masked(w) == IF IsReliable(w) THEN w - SeqLimit ELSE w

WithReliable(w, reliable) ==
    IF reliable /\ ~IsReliable(w) THEN w + SeqLimit ELSE w

Increment(w) == IF w + 1 = 2 * SeqLimit THEN 0 ELSE w + 1

SequencerType(Command) ==
    [state : States,
     incomingSeq : Word, incomingAck : Word,
     lastReliableSeq : Word, outgoingSeq : Word,
     isIncomingAckReliable : BOOLEAN,
     isOutgoingSeqReliable : BOOLEAN,
     isIncomingSeqReliable : BOOLEAN,
     outgoingCommands : Seq(Command), outgoingCommandsBuf : Seq(Command)]

NewSequencer(outgoingSeq) ==
    [state |-> "Disconnected",
     incomingSeq |-> 0, incomingAck |-> 0,
     lastReliableSeq |-> 0, outgoingSeq |-> outgoingSeq,
     isIncomingAckReliable |-> FALSE,
     isOutgoingSeqReliable |-> FALSE,
     isIncomingSeqReliable |-> FALSE,
     outgoingCommands |-> <<>>, outgoingCommandsBuf |-> <<>>]

SetState(s, state) == [s EXCEPT !.state = state]

Reset(s) == SetState(NewSequencer(0), s.state)

\* Mutant: any acknowledgement releases the batch in flight.
IncomingReleases(s, seqWord, ackWord) ==
    [s EXCEPT !.outgoingCommandsBuf = <<>>,
              !.isIncomingSeqReliable = IF IsReliable(seqWord) THEN ~@ ELSE @,
              !.incomingSeq = Masked(seqWord),
              !.incomingAck = Masked(ackWord),
              !.isIncomingAckReliable = IsReliable(ackWord)]

(***************************************************************************)
(* A header older than the last one changes nothing; an equal one is       *)
(* processed again.  An acknowledgement whose reliable bit agrees with     *)
(* ours releases the batch in flight.                                      *)
(***************************************************************************)
Incoming(s, seqWord, ackWord) ==
    IF Masked(seqWord) < s.incomingSeq
    THEN s
    ELSE [s EXCEPT
            !.outgoingCommandsBuf =
                IF IsReliable(ackWord) = s.isOutgoingSeqReliable THEN <<>> ELSE @,
            !.isIncomingSeqReliable = IF IsReliable(seqWord) THEN ~@ ELSE @,
            !.incomingSeq = Masked(seqWord),
            !.incomingAck = Masked(ackWord),
            !.isIncomingAckReliable = IsReliable(ackWord)]

\* Mutants: resends without waiting for a packet sent after the batch; or never.
MustResendNever(s) == FALSE
MustResendEager(s) == s.isIncomingAckReliable # s.isOutgoingSeqReliable

\* The batch in flight was not acknowledged although a packet sent after it was.
MustResend(s) ==
    /\ s.incomingAck > s.lastReliableSeq
    /\ s.isIncomingAckReliable # s.isOutgoingSeqReliable

MustStartBatch(s) ==
    s.outgoingCommandsBuf = <<>> /\ s.outgoingCommands # <<>>

\* What outgoing() leaves behind when it answers ErrRateLimit.
Queued(s, cmds) == [s EXCEPT !.outgoingCommands = @ \o cmds]

\* Mutant: the alternating bit does not alternate.
StartBatchNoToggle(s) ==
    [s EXCEPT !.outgoingCommandsBuf = s.outgoingCommands, !.outgoingCommands = <<>>]

StartBatch(s) ==
    [s EXCEPT !.outgoingCommandsBuf = s.outgoingCommands,
              !.isOutgoingSeqReliable = ~@,
              !.outgoingCommands = <<>>]

Outgoing(s, cmds) ==
    LET queued   == Queued(s, cmds)
        batched  == IF MustStartBatch(queued) THEN StartBatch(queued) ELSE queued
        reliable == MustResend(queued) \/ MustStartBatch(queued)
        next     == Increment(s.outgoingSeq)
    IN  [seq  |-> WithReliable(s.outgoingSeq, reliable),
         ack  |-> WithReliable(s.incomingSeq, s.isIncomingSeqReliable),
         cmds |-> IF reliable THEN batched.outgoingCommandsBuf ELSE <<>>,
         next |-> [batched EXCEPT
                     !.outgoingSeq = next,
                     !.lastReliableSeq = IF reliable THEN next ELSE @]]
==============================================================================
