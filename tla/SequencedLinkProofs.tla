------------------------- MODULE SequencedLinkProofs -------------------------
(***************************************************************************)
(* Proofs about SequencedLink.  The lemmas on Direction take one sender S, *)
(* one receiver R and the packets between them, and say what each method   *)
(* of the sequencer preserves.                                             *)
(***************************************************************************)
EXTENDS SequencedLink, SequenceTheorems, TLAPS

\* A header word carries its number and its reliable bit without loss, as long
\* as the number does not reach the bit.
LEMMA HeaderWord ==
    ASSUME NEW w \in Nat, w < SeqLimit, NEW b \in BOOLEAN
    PROVE  /\ WithReliable(w, b) \in Word
           /\ Masked(WithReliable(w, b)) = w
           /\ IsReliable(WithReliable(w, b)) = b
BY SeqLimitAssumption DEF WithReliable, Masked, IsReliable, Word

\* A header word splits into a number below SeqLimit and the reliable bit.
LEMMA WordParts ==
    ASSUME NEW w \in Word
    PROVE  /\ Masked(w) \in Nat /\ Masked(w) < SeqLimit /\ Masked(w) \in Word
           /\ IsReliable(w) \in BOOLEAN
<1>1. Masked(w) \in Nat /\ Masked(w) < SeqLimit /\ Masked(w) \in Word
  BY SeqLimitAssumption DEF Masked, IsReliable, Word
<1>2. IsReliable(w) \in BOOLEAN
  BY DEF IsReliable
<1> QED BY <1>1, <1>2

\* The types of a sequencer's fields, for the provers.
LEMMA SequencerFields ==
    ASSUME NEW C, NEW S \in SequencerType(C)
    PROVE  /\ S.state \in States
           /\ S.incomingSeq \in Nat /\ S.incomingAck \in Nat
           /\ S.lastReliableSeq \in Nat /\ S.outgoingSeq \in Nat
           /\ S.isIncomingAckReliable \in BOOLEAN
           /\ S.isOutgoingSeqReliable \in BOOLEAN
           /\ S.isIncomingSeqReliable \in BOOLEAN
           /\ S.outgoingCommands \in Seq(C) /\ S.outgoingCommandsBuf \in Seq(C)
BY SeqLimitAssumption DEF SequencerType, Word

\* Concatenation by a name the provers do not look behind.
Cat(a, b) == a \o b

\* Concatenation of command lists is associative.
LEMMA ConcatAssoc ==
    ASSUME NEW T, NEW a \in Seq(T), NEW b \in Seq(T), NEW c \in Seq(T)
    PROVE  Cat(Cat(a, b), c) = Cat(a, Cat(b, c))
BY ConcatAssociative DEF Cat

\* The empty list is neutral for concatenation.
LEMMA ConcatEmpty ==
    ASSUME NEW T, NEW a \in Seq(T)
    PROVE  a \o <<>> = a /\ <<>> \o a = a
OBVIOUS

\* Concatenating lists of commands gives a list of commands.
LEMMA ConcatType ==
    ASSUME NEW T, NEW a \in Seq(T), NEW b \in Seq(T)
    PROVE  a \o b \in Seq(T)
OBVIOUS

\* The fields of a sequencer after Incoming.
LEMMA IncomingFields ==
    ASSUME NEW C, NEW S \in SequencerType(C), NEW seq \in Word, NEW ack \in Word,
           Masked(seq) >= S.incomingSeq
    PROVE  LET T == Incoming(S, seq, ack) IN
           /\ T \in SequencerType(C)
           /\ T.state = S.state
           /\ T.incomingSeq = Masked(seq)
           /\ T.incomingAck = Masked(ack)
           /\ T.isIncomingAckReliable = IsReliable(ack)
           /\ T.isIncomingSeqReliable =
                 IF IsReliable(seq) THEN ~S.isIncomingSeqReliable
                                    ELSE S.isIncomingSeqReliable
           /\ T.outgoingCommandsBuf =
                 IF IsReliable(ack) = S.isOutgoingSeqReliable
                 THEN <<>> ELSE S.outgoingCommandsBuf
           /\ T.lastReliableSeq = S.lastReliableSeq
           /\ T.outgoingSeq = S.outgoingSeq
           /\ T.isOutgoingSeqReliable = S.isOutgoingSeqReliable
           /\ T.outgoingCommands = S.outgoingCommands
<1>1. /\ Masked(seq) \in Word /\ Masked(ack) \in Word
      /\ IsReliable(seq) \in BOOLEAN /\ IsReliable(ack) \in BOOLEAN
      /\ S.incomingSeq \in Nat /\ ~(Masked(seq) < S.incomingSeq)
  BY WordParts, SequencerFields
<1> DEFINE buf == IF IsReliable(ack) = S.isOutgoingSeqReliable
                  THEN <<>> ELSE S.outgoingCommandsBuf
           bit == IF IsReliable(seq) THEN ~S.isIncomingSeqReliable
                                     ELSE S.isIncomingSeqReliable
<1>2. buf \in Seq(C) /\ bit \in BOOLEAN
  <2>1. buf \in Seq(C)
    BY SequencerFields, EmptySeq
  <2>2. bit \in BOOLEAN
    BY SequencerFields, Zenon
  <2> QED BY <2>1, <2>2
<1>3. Incoming(S, seq, ack) =
        [S EXCEPT !.outgoingCommandsBuf = buf,
                  !.isIncomingSeqReliable = bit,
                  !.incomingSeq = Masked(seq),
                  !.incomingAck = Masked(ack),
                  !.isIncomingAckReliable = IsReliable(ack)]
  BY <1>1 DEF Incoming, SequencerType
<1>4. buf = (IF IsReliable(ack) = S.isOutgoingSeqReliable
             THEN <<>> ELSE S.outgoingCommandsBuf)
      /\ bit = (IF IsReliable(seq) THEN ~S.isIncomingSeqReliable
                                   ELSE S.isIncomingSeqReliable)
  OBVIOUS
<1> HIDE DEF buf, bit
<1> QED
  BY <1>1, <1>2, <1>3, <1>4 DEF SequencerType

\* A rate-limited Process only appends to outgoingCommands.
LEMMA QueuedFields ==
    ASSUME NEW C, NEW S \in SequencerType(C), NEW cmds \in Seq(C)
    PROVE  LET T == Queued(S, cmds) IN
           /\ T \in SequencerType(C)
           /\ T = [S EXCEPT !.outgoingCommands = S.outgoingCommands \o cmds]
BY ConcatType DEF Queued, SequencerType

\* Outgoing starts a batch, repeats the one in flight, or sends none.
LEMMA OutgoingFields ==
    ASSUME NEW C, NEW S \in SequencerType(C), NEW cmds \in Seq(C),
           S.outgoingSeq + 1 < SeqLimit, S.incomingSeq < SeqLimit
    PROVE  LET out    == Outgoing(S, cmds)
               T      == out.next
               start  == /\ S.outgoingCommandsBuf = <<>>
                         /\ S.outgoingCommands \o cmds # <<>>
               resend == MustResend(S)
           IN
           /\ T \in SequencerType(C)
           /\ out.seq \in Word /\ out.ack \in Word /\ out.cmds \in Seq(C)
           /\ Masked(out.seq) = S.outgoingSeq
           /\ IsReliable(out.seq) = (start \/ resend)
           /\ Masked(out.ack) = S.incomingSeq
           /\ IsReliable(out.ack) = S.isIncomingSeqReliable
           /\ out.cmds = IF start \/ resend THEN T.outgoingCommandsBuf ELSE <<>>
           /\ T.state = S.state
           /\ T.incomingSeq = S.incomingSeq
           /\ T.incomingAck = S.incomingAck
           /\ T.isIncomingAckReliable = S.isIncomingAckReliable
           /\ T.isIncomingSeqReliable = S.isIncomingSeqReliable
           /\ T.outgoingSeq = S.outgoingSeq + 1
           /\ T.lastReliableSeq = IF start \/ resend THEN S.outgoingSeq + 1
                                                     ELSE S.lastReliableSeq
           /\ start => /\ T.outgoingCommandsBuf = S.outgoingCommands \o cmds
                       /\ T.outgoingCommands = <<>>
                       /\ T.isOutgoingSeqReliable = ~S.isOutgoingSeqReliable
           /\ ~start => /\ T.outgoingCommandsBuf = S.outgoingCommandsBuf
                        /\ T.outgoingCommands = S.outgoingCommands \o cmds
                        /\ T.isOutgoingSeqReliable = S.isOutgoingSeqReliable
<1> DEFINE Q == Queued(S, cmds)
           start == S.outgoingCommandsBuf = <<>> /\ S.outgoingCommands \o cmds # <<>>
           B == IF start THEN StartBatch(Q) ELSE Q
           rel == MustResend(S) \/ start
<1>1. /\ Q \in SequencerType(C)
      /\ Q = [S EXCEPT !.outgoingCommands = S.outgoingCommands \o cmds]
  BY QueuedFields
<1>2. S.outgoingCommands \o cmds \in Seq(C)
  BY ConcatType DEF SequencerType
<1>3. MustStartBatch(Q) = start /\ MustResend(Q) = MustResend(S)
  BY <1>1 DEF MustStartBatch, MustResend, SequencerType
<1>4. Increment(S.outgoingSeq) = S.outgoingSeq + 1 /\ S.outgoingSeq + 1 \in Word
      /\ S.outgoingSeq \in Nat /\ S.incomingSeq \in Nat
  BY SeqLimitAssumption DEF Increment, Word, SequencerType
<1>5. rel \in BOOLEAN /\ S.isIncomingSeqReliable \in BOOLEAN /\ start \in BOOLEAN
      /\ MustResend(S) \in BOOLEAN
  BY DEF SequencerType, MustResend
<1>6. Outgoing(S, cmds) =
        [seq |-> WithReliable(S.outgoingSeq, rel),
         ack |-> WithReliable(S.incomingSeq, S.isIncomingSeqReliable),
         cmds |-> IF rel THEN B.outgoingCommandsBuf ELSE <<>>,
         next |-> [B EXCEPT !.outgoingSeq = S.outgoingSeq + 1,
                            !.lastReliableSeq = IF rel THEN S.outgoingSeq + 1 ELSE @]]
  BY <1>3, <1>4, Zenon DEF Outgoing
<1>7. /\ B \in SequencerType(C)
      /\ B.state = S.state
      /\ B.incomingSeq = S.incomingSeq
      /\ B.incomingAck = S.incomingAck
      /\ B.lastReliableSeq = S.lastReliableSeq
      /\ B.isIncomingAckReliable = S.isIncomingAckReliable
      /\ B.isIncomingSeqReliable = S.isIncomingSeqReliable
      /\ start => /\ B.outgoingCommandsBuf = S.outgoingCommands \o cmds
                  /\ B.outgoingCommands = <<>>
                  /\ B.isOutgoingSeqReliable = ~S.isOutgoingSeqReliable
      /\ ~start => /\ B.outgoingCommandsBuf = S.outgoingCommandsBuf
                   /\ B.outgoingCommands = S.outgoingCommands \o cmds
                   /\ B.isOutgoingSeqReliable = S.isOutgoingSeqReliable
  <2>1. CASE start
    <3> DEFINE bit == ~S.isOutgoingSeqReliable
               batch == S.outgoingCommands \o cmds
    <3>1. bit \in BOOLEAN /\ batch \in Seq(C) /\ <<>> \in Seq(C)
      BY <1>2, EmptySeq, SequencerFields
    <3>2. Q.outgoingCommands = batch /\ Q.isOutgoingSeqReliable = S.isOutgoingSeqReliable
      BY <1>1 DEF SequencerType
    <3>3. StartBatch(Q) = [Q EXCEPT !.outgoingCommandsBuf = batch,
                                    !.isOutgoingSeqReliable = bit,
                                    !.outgoingCommands = <<>>]
      BY <3>2, Zenon DEF StartBatch
    <3>4. B = StartBatch(Q)
      BY <2>1
    <3>5. start => /\ batch = S.outgoingCommands \o cmds
                   /\ bit = ~S.isOutgoingSeqReliable
      OBVIOUS
    <3> HIDE DEF bit, batch, Q, B, start
    <3> QED BY <2>1, <1>1, <3>1, <3>3, <3>4, <3>5 DEF SequencerType
  <2>2. CASE ~start
    <3> HIDE DEF Q, start
    <3> QED BY <2>2, <1>1, <1>2 DEF SequencerType
  <2> QED BY <2>1, <2>2
<1>8. /\ WithReliable(S.outgoingSeq, rel) \in Word
      /\ Masked(WithReliable(S.outgoingSeq, rel)) = S.outgoingSeq
      /\ IsReliable(WithReliable(S.outgoingSeq, rel)) = rel
      /\ WithReliable(S.incomingSeq, S.isIncomingSeqReliable) \in Word
      /\ Masked(WithReliable(S.incomingSeq, S.isIncomingSeqReliable)) = S.incomingSeq
      /\ IsReliable(WithReliable(S.incomingSeq, S.isIncomingSeqReliable)) = S.isIncomingSeqReliable
  <2> HIDE DEF rel
  <2>1. S.outgoingSeq < SeqLimit /\ S.incomingSeq < SeqLimit
    BY <1>4, SeqLimitAssumption
  <2> QED BY <2>1, HeaderWord, <1>4, <1>5
<1> DEFINE T == [B EXCEPT !.outgoingSeq = S.outgoingSeq + 1,
                          !.lastReliableSeq = IF rel THEN S.outgoingSeq + 1 ELSE @]
           carried == IF rel THEN B.outgoingCommandsBuf ELSE <<>>
<1>9. /\ T \in SequencerType(C)
      /\ T.state = B.state
      /\ T.incomingSeq = B.incomingSeq
      /\ T.incomingAck = B.incomingAck
      /\ T.isIncomingAckReliable = B.isIncomingAckReliable
      /\ T.isIncomingSeqReliable = B.isIncomingSeqReliable
      /\ T.isOutgoingSeqReliable = B.isOutgoingSeqReliable
      /\ T.outgoingCommands = B.outgoingCommands
      /\ T.outgoingCommandsBuf = B.outgoingCommandsBuf
      /\ T.outgoingSeq = S.outgoingSeq + 1
      /\ T.lastReliableSeq = IF rel THEN S.outgoingSeq + 1 ELSE S.lastReliableSeq
  <2> HIDE DEF B, rel
  <2> QED BY <1>4, <1>5, <1>7 DEF SequencerType
<1>10. carried \in Seq(C)
  BY <1>7, EmptySeq DEF SequencerType
<1>11. Outgoing(S, cmds) =
         [seq |-> WithReliable(S.outgoingSeq, rel),
          ack |-> WithReliable(S.incomingSeq, S.isIncomingSeqReliable),
          cmds |-> carried,
          next |-> T]
  BY <1>6
<1>12. /\ Outgoing(S, cmds).next = T
       /\ Outgoing(S, cmds).seq = WithReliable(S.outgoingSeq, rel)
       /\ Outgoing(S, cmds).ack = WithReliable(S.incomingSeq, S.isIncomingSeqReliable)
       /\ Outgoing(S, cmds).cmds = carried
  <2> HIDE DEF T, carried, rel
  <2> QED BY <1>11
<1>13. carried = IF rel THEN T.outgoingCommandsBuf ELSE <<>>
  BY <1>9
<1>14. rel = (start \/ MustResend(S))
  OBVIOUS
<1> HIDE DEF Q, B, T, carried, rel
<1> QED
  BY <1>7, <1>8, <1>9, <1>10, <1>12, <1>13, <1>14, Zenon

------------------------------------------------------------------------------
(* What the methods preserve of one direction.                              *)

Headers(packets) == \A p \in packets : p.seq \in Word /\ p.ack \in Word

\* The sender emits a packet: a new batch only when the last one was handled,
\* an old one only when every earlier copy has become unacceptable.
LEMMA SenderEmits ==
    ASSUME NEW C, NEW S \in SequencerType(C), NEW D, NEW R \in SequencerType(D),
           NEW data, NEW acks, Headers(data), Headers(acks), NEW cmds \in Seq(C),
           S.outgoingSeq + 1 < SeqLimit, S.incomingSeq < SeqLimit,
           \A p \in data : Masked(p.seq) >= R.incomingSeq,
           Direction(S, R, data, acks),
           NEW p, p.seq = Outgoing(S, cmds).seq, p.cmds = Outgoing(S, cmds).cmds
    PROVE  Direction(Outgoing(S, cmds).next, R, data \cup {p}, acks)
<1> DEFINE T == Outgoing(S, cmds).next
           start == S.outgoingCommandsBuf = <<>> /\ S.outgoingCommands \o cmds # <<>>
           resend == MustResend(S)
           handled == S.isOutgoingSeqReliable = R.isIncomingSeqReliable
<1>1. /\ T \in SequencerType(C)
      /\ Masked(p.seq) = S.outgoingSeq
      /\ IsReliable(p.seq) = (start \/ resend)
      /\ p.cmds = IF start \/ resend THEN T.outgoingCommandsBuf ELSE <<>>
      /\ T.incomingAck = S.incomingAck
      /\ T.isIncomingAckReliable = S.isIncomingAckReliable
      /\ T.outgoingSeq = S.outgoingSeq + 1
      /\ T.lastReliableSeq = IF start \/ resend THEN S.outgoingSeq + 1
                                                ELSE S.lastReliableSeq
      /\ start => /\ T.outgoingCommandsBuf = S.outgoingCommands \o cmds
                  /\ T.isOutgoingSeqReliable = ~S.isOutgoingSeqReliable
      /\ ~start => /\ T.outgoingCommandsBuf = S.outgoingCommandsBuf
                   /\ T.isOutgoingSeqReliable = S.isOutgoingSeqReliable
  BY OutgoingFields
<1>2. /\ S.incomingSeq \in Nat /\ S.incomingAck \in Nat
      /\ S.lastReliableSeq \in Nat /\ S.outgoingSeq \in Nat
      /\ R.incomingSeq \in Nat /\ R.outgoingSeq \in Nat
      /\ S.isIncomingAckReliable \in BOOLEAN
      /\ S.isOutgoingSeqReliable \in BOOLEAN /\ R.isIncomingSeqReliable \in BOOLEAN
  BY SequencerFields
<1>3. \A q \in data \cup acks : Masked(q.seq) \in Nat /\ Masked(q.ack) \in Nat
                                /\ IsReliable(q.ack) \in BOOLEAN
  BY WordParts DEF Headers
<1>4. start => handled
  BY DEF Direction, ReleasedWhenHandled
<1>5. resend => ~handled /\ S.incomingAck > S.lastReliableSeq
  BY DEF Direction, ResendIsNeeded, MustResend
<1>6. /\ S.lastReliableSeq <= S.outgoingSeq /\ R.incomingSeq <= S.outgoingSeq
      /\ S.incomingAck <= R.incomingSeq
      /\ \A q \in acks : Masked(q.ack) <= R.incomingSeq
  BY DEF Direction, ResendIsNeeded
<1>7. start \/ resend => \A q \in data : ~IsReliable(q.seq)
  <2>1. start => \A q \in data : ~IsReliable(q.seq)
    BY <1>4 DEF Direction, OnlyLatestBatch
  <2>2. ASSUME resend, NEW q \in data, IsReliable(q.seq) PROVE FALSE
    <3>1. Masked(q.seq) + 1 = S.lastReliableSeq
      BY <2>2 DEF Direction, OnlyLatestBatch
    <3> QED BY <3>1, <2>2, <1>2, <1>3, <1>5, <1>6
  <2> QED BY <2>1, <2>2
<1> HIDE DEF T
<1>8. ReleasedWhenHandled(T, R)
  <2>1. CASE start
    BY <2>1, <1>1 DEF ReleasedWhenHandled
  <2>2. CASE ~start
    BY <2>2, <1>1 DEF Direction, ReleasedWhenHandled
  <2> QED BY <2>1, <2>2
<1>9. OnlyLatestBatch(T, R, data \cup {p})
  <2>1. ASSUME NEW q \in data
        PROVE  /\ Masked(q.seq) < T.outgoingSeq
               /\ ~IsReliable(q.seq) => q.cmds = <<>>
               /\ IsReliable(q.seq) =>
                    /\ Masked(q.seq) + 1 = T.lastReliableSeq
                    /\ q.cmds = T.outgoingCommandsBuf
                    /\ T.isOutgoingSeqReliable # R.isIncomingSeqReliable
    <3>1. Masked(q.seq) < S.outgoingSeq /\ (~IsReliable(q.seq) => q.cmds = <<>>)
      BY DEF Direction, OnlyLatestBatch
    <3>2. Masked(q.seq) < T.outgoingSeq
      BY <3>1, <1>1, <1>2, <1>3
    <3>3. IsReliable(q.seq) => ~start /\ ~resend
      BY <1>7
    <3>4. IsReliable(q.seq) =>
                    /\ Masked(q.seq) + 1 = S.lastReliableSeq
                    /\ q.cmds = S.outgoingCommandsBuf
                    /\ S.isOutgoingSeqReliable # R.isIncomingSeqReliable
      BY DEF Direction, OnlyLatestBatch
    <3> QED BY <3>1, <3>2, <3>3, <3>4, <1>1, Zenon
  <2>2. /\ Masked(p.seq) < T.outgoingSeq
        /\ ~IsReliable(p.seq) => p.cmds = <<>>
        /\ IsReliable(p.seq) =>
             /\ Masked(p.seq) + 1 = T.lastReliableSeq
             /\ p.cmds = T.outgoingCommandsBuf
             /\ T.isOutgoingSeqReliable # R.isIncomingSeqReliable
    <3>1. Masked(p.seq) < T.outgoingSeq
      BY <1>1, <1>2
    <3>2. ~IsReliable(p.seq) => p.cmds = <<>>
      BY <1>1, Zenon
    <3>3. IsReliable(p.seq) =>
             /\ Masked(p.seq) + 1 = T.lastReliableSeq
             /\ p.cmds = T.outgoingCommandsBuf
      BY <1>1, Zenon
    <3>4. start \/ resend => T.isOutgoingSeqReliable # R.isIncomingSeqReliable
      <4>1. CASE start BY <4>1, <1>1, <1>2, <1>4
      <4>2. CASE ~start BY <4>2, <1>1, <1>2, <1>5
      <4> QED BY <4>1, <4>2
    <3> QED BY <3>1, <3>2, <3>3, <3>4, <1>1, Zenon
  <2> QED BY <2>1, <2>2, Zenon DEF OnlyLatestBatch
<1>10. AcksSettle(T, R, acks)
  <2>1. ASSUME NEW q \in acks,
               \/ T.outgoingCommandsBuf = <<>>
               \/ T.isOutgoingSeqReliable # R.isIncomingSeqReliable
        PROVE IsReliable(q.ack) = R.isIncomingSeqReliable
    <3>1. CASE start
      BY <3>1 DEF Direction, AcksSettle
    <3>2. CASE ~start
      BY <3>2, <2>1, <1>1, Zenon DEF Direction, AcksSettle
    <3> QED BY <3>1, <3>2
  <2> QED BY <2>1, Zenon DEF Direction, AcksSettle
<1>11. ASSUME NEW a \in Nat, NEW b \in BOOLEAN, ResendIsNeeded(S, R, a, b)
       PROVE  ResendIsNeeded(T, R, a, b)
  <2>1. CASE start \/ resend
    <3>1. T.lastReliableSeq = S.outgoingSeq + 1
      BY <2>1, <1>1, Zenon
    <3>2. a <= R.incomingSeq
      BY <1>11 DEF ResendIsNeeded
    <3>3. ~(a > T.lastReliableSeq)
      BY <3>1, <3>2, <1>6, <1>2
    <3> QED BY <3>2, <3>3 DEF ResendIsNeeded
  <2>2. CASE ~(start \/ resend)
    BY <2>2, <1>1, <1>11, Zenon DEF ResendIsNeeded
  <2> QED BY <2>1, <2>2
<1>12. ResendIsNeeded(T, R, T.incomingAck, T.isIncomingAckReliable)
  BY <1>1, <1>2, <1>11, Zenon DEF Direction
<1>13. \A q \in acks : ResendIsNeeded(T, R, Masked(q.ack), IsReliable(q.ack))
  BY <1>3, <1>11 DEF Direction
<1>14. T.lastReliableSeq <= T.outgoingSeq /\ R.incomingSeq <= T.outgoingSeq
  BY <1>1, <1>2, <1>6
<1> QED
  BY <1>8, <1>9, <1>10, <1>12, <1>13, <1>14, Zenon DEF Direction, T
\* Direction reads these fields only, and losing packets does not hurt it.
LEMMA DirectionDependsOn ==
    ASSUME NEW S, NEW R, NEW data, NEW acks, Direction(S, R, data, acks),
           NEW T, NEW U, NEW data2 \in SUBSET data, NEW acks2 \in SUBSET acks,
           T.outgoingSeq = S.outgoingSeq, T.lastReliableSeq = S.lastReliableSeq,
           T.outgoingCommandsBuf = S.outgoingCommandsBuf,
           T.isOutgoingSeqReliable = S.isOutgoingSeqReliable,
           T.incomingAck = S.incomingAck,
           T.isIncomingAckReliable = S.isIncomingAckReliable,
           U.incomingSeq = R.incomingSeq, U.outgoingSeq = R.outgoingSeq,
           U.isIncomingSeqReliable = R.isIncomingSeqReliable
    PROVE  Direction(T, U, data2, acks2)
<1>1. ReleasedWhenHandled(T, U)
  BY DEF Direction, ReleasedWhenHandled
<1>2. OnlyLatestBatch(T, U, data2)
  BY DEF Direction, OnlyLatestBatch
<1>3. AcksSettle(T, U, acks2)
  BY DEF Direction, AcksSettle
<1>4. ResendIsNeeded(T, U, T.incomingAck, T.isIncomingAckReliable)
  BY DEF Direction, ResendIsNeeded
<1>5. \A q \in acks2 : ResendIsNeeded(T, U, Masked(q.ack), IsReliable(q.ack))
  BY DEF Direction, ResendIsNeeded
<1> QED
  BY <1>1, <1>2, <1>3, <1>4, <1>5 DEF Direction

\* The sender hears an acknowledgement: it releases a batch only when the batch
\* was handled, and what it may hear later agrees.
LEMMA SenderHears ==
    ASSUME NEW C, NEW S \in SequencerType(C), NEW D, NEW R \in SequencerType(D),
           NEW data, NEW acks, Headers(data), Headers(acks),
           Direction(S, R, data, acks),
           NEW q \in acks, Masked(q.seq) >= S.incomingSeq,
           NEW later \in SUBSET acks,
           \A r \in later : r = q \/ Masked(r.seq) > Masked(q.seq)
    PROVE  Direction(Incoming(S, q.seq, q.ack), R, data, later)
<1> DEFINE T == Incoming(S, q.seq, q.ack)
           releases == IsReliable(q.ack) = S.isOutgoingSeqReliable
           handled == S.isOutgoingSeqReliable = R.isIncomingSeqReliable
<1>1. /\ T.incomingAck = Masked(q.ack)
      /\ T.isIncomingAckReliable = IsReliable(q.ack)
      /\ T.outgoingCommandsBuf = IF releases THEN <<>> ELSE S.outgoingCommandsBuf
      /\ T.lastReliableSeq = S.lastReliableSeq
      /\ T.outgoingSeq = S.outgoingSeq
      /\ T.isOutgoingSeqReliable = S.isOutgoingSeqReliable
  BY IncomingFields DEF Headers
<1>2. /\ S.isOutgoingSeqReliable \in BOOLEAN /\ R.isIncomingSeqReliable \in BOOLEAN
      /\ \A r \in acks : IsReliable(r.ack) \in BOOLEAN
  BY SequencerFields, WordParts DEF Headers
<1> HIDE DEF T
<1>3. releases => handled
  <2>1. ~handled => IsReliable(q.ack) = R.isIncomingSeqReliable
    BY DEF Direction, AcksSettle
  <2> QED BY <2>1, <1>2, Zenon
<1>4. ReleasedWhenHandled(T, R)
  BY <1>1, <1>3, Zenon DEF Direction, ReleasedWhenHandled
<1>5. OnlyLatestBatch(T, R, data)
  BY <1>1, <1>3, Zenon DEF Direction, OnlyLatestBatch
<1>6. AcksSettle(T, R, later)
  <2>1. ASSUME NEW r \in later, releases
        PROVE  IsReliable(r.ack) = R.isIncomingSeqReliable
    <3>1. IsReliable(q.ack) = R.isIncomingSeqReliable
      BY <1>3, <2>1
    <3>2. CASE r = q
      BY <3>1, <3>2
    <3>3. CASE Masked(r.seq) > Masked(q.seq)
      <4>1. Masked(q.seq) < Masked(r.seq)
        BY <3>3, WordParts DEF Headers
      <4> QED BY <4>1, <3>1, Zenon DEF Direction, AcksSettle
    <3> QED BY <3>2, <3>3
  <2>2. ASSUME NEW r \in later,
               \/ T.outgoingCommandsBuf = <<>>
               \/ T.isOutgoingSeqReliable # R.isIncomingSeqReliable
        PROVE  IsReliable(r.ack) = R.isIncomingSeqReliable
    BY <2>1, <2>2, <1>1, Zenon DEF Direction, AcksSettle
  <2> QED BY <2>2, Zenon DEF Direction, AcksSettle
<1>7. ResendIsNeeded(T, R, T.incomingAck, T.isIncomingAckReliable)
  BY <1>1 DEF Direction, ResendIsNeeded
<1>8. \A r \in later : ResendIsNeeded(T, R, Masked(r.ack), IsReliable(r.ack))
  BY <1>1 DEF Direction, ResendIsNeeded
<1>9. T.lastReliableSeq <= T.outgoingSeq /\ R.incomingSeq <= T.outgoingSeq
  BY <1>1 DEF Direction
<1> QED
  BY <1>4, <1>5, <1>6, <1>7, <1>8, <1>9 DEF Direction, T

\* The receiver accepts a packet: a reliable one is the batch in flight, and no
\* second copy of it can be accepted afterwards.
LEMMA ReceiverAccepts ==
    ASSUME NEW C, NEW S \in SequencerType(C), NEW D, NEW R \in SequencerType(D),
           NEW data, NEW acks, Headers(data), Headers(acks),
           Direction(S, R, data, acks),
           NEW p \in data, Masked(p.seq) >= R.incomingSeq,
           NEW later \in SUBSET data,
           \A r \in later : Masked(r.seq) > Masked(p.seq)
    PROVE  Direction(S, Incoming(R, p.seq, p.ack), later, acks)
<1> DEFINE U == Incoming(R, p.seq, p.ack)
<1>1. /\ U.incomingSeq = Masked(p.seq)
      /\ U.isIncomingSeqReliable = IF IsReliable(p.seq) THEN ~R.isIncomingSeqReliable
                                                        ELSE R.isIncomingSeqReliable
      /\ U.outgoingSeq = R.outgoingSeq
  BY IncomingFields DEF Headers
<1>2. /\ S.lastReliableSeq \in Nat /\ S.outgoingSeq \in Nat /\ S.incomingAck \in Nat
      /\ S.isOutgoingSeqReliable \in BOOLEAN
      /\ R.isIncomingSeqReliable \in BOOLEAN /\ R.incomingSeq \in Nat
      /\ S.isIncomingAckReliable \in BOOLEAN
  BY SequencerFields
<1>3. \A r \in data \cup acks : Masked(r.seq) \in Nat /\ Masked(r.ack) \in Nat
                                /\ IsReliable(r.ack) \in BOOLEAN
  BY WordParts DEF Headers
<1>4. /\ S.lastReliableSeq <= S.outgoingSeq /\ Masked(p.seq) < S.outgoingSeq
      /\ S.incomingAck <= R.incomingSeq
      /\ \A q \in acks : Masked(q.ack) <= R.incomingSeq
  BY DEF Direction, OnlyLatestBatch, ResendIsNeeded
<1> HIDE DEF U
<1>5. CASE ~IsReliable(p.seq)
  <2>1. U.isIncomingSeqReliable = R.isIncomingSeqReliable
    BY <1>1, <1>5
  <2>2. /\ ReleasedWhenHandled(S, U) /\ OnlyLatestBatch(S, U, later)
        /\ AcksSettle(S, U, acks)
    <3>1. ReleasedWhenHandled(S, U)
      BY <2>1 DEF Direction, ReleasedWhenHandled
    <3>2. OnlyLatestBatch(S, U, later)
      BY <2>1 DEF Direction, OnlyLatestBatch
    <3>3. AcksSettle(S, U, acks)
      BY <2>1, <1>1 DEF Direction, AcksSettle
    <3> QED BY <3>1, <3>2, <3>3
  <2>3. ASSUME NEW a \in Nat, NEW b, ResendIsNeeded(S, R, a, b)
        PROVE  ResendIsNeeded(S, U, a, b)
    <3>1. a <= U.incomingSeq
      BY <2>3, <1>1, <1>2, <1>3 DEF ResendIsNeeded
    <3> QED BY <3>1, <2>1, <2>3 DEF ResendIsNeeded
  <2>4. /\ ResendIsNeeded(S, U, S.incomingAck, S.isIncomingAckReliable)
        /\ \A q \in acks : ResendIsNeeded(S, U, Masked(q.ack), IsReliable(q.ack))
    BY <2>3, <1>2, <1>3 DEF Direction
  <2>5. S.lastReliableSeq <= S.outgoingSeq /\ U.incomingSeq <= S.outgoingSeq
    BY <1>1, <1>2, <1>3, <1>4
  <2> QED BY <2>2, <2>4, <2>5 DEF Direction, U
<1>6. CASE IsReliable(p.seq)
  <2>1. U.isIncomingSeqReliable = ~R.isIncomingSeqReliable
    BY <1>1, <1>6
  <2>2. /\ Masked(p.seq) + 1 = S.lastReliableSeq
        /\ S.isOutgoingSeqReliable # R.isIncomingSeqReliable
    BY <1>6 DEF Direction, OnlyLatestBatch
  <2>3. S.isOutgoingSeqReliable = U.isIncomingSeqReliable
    BY <2>1, <2>2, <1>2
  <2>4. \A r \in later : ~IsReliable(r.seq)
    <3>1. ASSUME NEW r \in later, IsReliable(r.seq) PROVE FALSE
      <4>1. Masked(r.seq) + 1 = S.lastReliableSeq
        BY <3>1 DEF Direction, OnlyLatestBatch
      <4>2. Masked(r.seq) > Masked(p.seq)
        OBVIOUS
      <4> QED BY <4>1, <4>2, <2>2, <1>3
    <3> QED BY <3>1
  <2>5. \A q \in acks : IsReliable(q.ack) # U.isIncomingSeqReliable
    <3>1. \A q \in acks : IsReliable(q.ack) = R.isIncomingSeqReliable
      BY <2>2 DEF Direction, AcksSettle
    <3> QED BY <3>1, <2>1, <1>2
  <2>6. ReleasedWhenHandled(S, U)
    BY <2>3 DEF ReleasedWhenHandled
  <2>7. OnlyLatestBatch(S, U, later)
    BY <2>4 DEF Direction, OnlyLatestBatch
  <2>8. AcksSettle(S, U, acks)
    <3>1. S.outgoingCommandsBuf = <<>> =>
             S.isOutgoingSeqReliable = R.isIncomingSeqReliable
      BY DEF Direction, ReleasedWhenHandled
    <3> QED BY <3>1, <2>2, <2>3, <2>5, <1>1 DEF Direction, AcksSettle
  <2>9. ASSUME NEW a \in Nat, NEW b, a <= R.incomingSeq
        PROVE  ResendIsNeeded(S, U, a, b)
    BY <2>2, <2>9, <1>1, <1>2, <1>3 DEF ResendIsNeeded
  <2>10. /\ ResendIsNeeded(S, U, S.incomingAck, S.isIncomingAckReliable)
         /\ \A q \in acks : ResendIsNeeded(S, U, Masked(q.ack), IsReliable(q.ack))
    BY <2>9, <1>2, <1>3, <1>4
  <2>11. S.lastReliableSeq <= S.outgoingSeq /\ U.incomingSeq <= S.outgoingSeq
    BY <1>1, <1>2, <1>3, <1>4
  <2> QED BY <2>6, <2>7, <2>8, <2>10, <2>11 DEF Direction, U
<1> QED BY <1>5, <1>6

\* The receiver answers: its acknowledgement is the newest and reports its bit.
LEMMA ReceiverReplies ==
    ASSUME NEW C, NEW S \in SequencerType(C), NEW D, NEW R \in SequencerType(D),
           NEW data, NEW acks, Headers(data), Headers(acks), NEW cmds \in Seq(D),
           R.outgoingSeq + 1 < SeqLimit, R.incomingSeq < SeqLimit,
           Direction(S, R, data, acks),
           NEW q, q.seq = Outgoing(R, cmds).seq, q.ack = Outgoing(R, cmds).ack
    PROVE  Direction(S, Outgoing(R, cmds).next, data, acks \cup {q})
<1> DEFINE U == Outgoing(R, cmds).next
<1>1. /\ Masked(q.seq) = R.outgoingSeq
      /\ Masked(q.ack) = R.incomingSeq
      /\ IsReliable(q.ack) = R.isIncomingSeqReliable
      /\ U.incomingSeq = R.incomingSeq
      /\ U.isIncomingSeqReliable = R.isIncomingSeqReliable
      /\ U.outgoingSeq = R.outgoingSeq + 1
  BY OutgoingFields
<1>2. /\ R.outgoingSeq \in Nat /\ R.incomingSeq \in Nat
      /\ S.isOutgoingSeqReliable \in BOOLEAN /\ R.isIncomingSeqReliable \in BOOLEAN
      /\ \A r \in acks : Masked(r.seq) \in Nat
  BY SequencerFields, WordParts DEF Headers
<1> HIDE DEF U
<1>3. ReleasedWhenHandled(S, U) /\ OnlyLatestBatch(S, U, data)
  BY <1>1 DEF Direction, ReleasedWhenHandled, OnlyLatestBatch
<1>4. AcksSettle(S, U, acks \cup {q})
  <2>1. \A r \in acks : Masked(r.seq) < R.outgoingSeq
    BY DEF Direction, AcksSettle
  <2>2. \A r \in acks \cup {q} : Masked(r.seq) < U.outgoingSeq
    BY <2>1, <1>1, <1>2
  <2>3. \A r \in acks : ~(Masked(q.seq) < Masked(r.seq))
    BY <2>1, <1>1, <1>2
  <2>4. ~(Masked(q.seq) < Masked(q.seq))
    BY <1>1, <1>2
  <2> QED BY <2>2, <2>3, <2>4, <1>1, Zenon DEF Direction, AcksSettle
<1>5. ResendIsNeeded(S, U, S.incomingAck, S.isIncomingAckReliable)
  BY <1>1 DEF Direction, ResendIsNeeded
<1>6. \A r \in acks : ResendIsNeeded(S, U, Masked(r.ack), IsReliable(r.ack))
  BY <1>1 DEF Direction, ResendIsNeeded
<1>7. ResendIsNeeded(S, U, Masked(q.ack), IsReliable(q.ack))
  BY <1>1, <1>2 DEF ResendIsNeeded
<1> QED
  BY <1>1, <1>3, <1>4, <1>5, <1>6, <1>7 DEF Direction, U
------------------------------------------------------------------------------
(* What the methods do to the stream of commands.                           *)

\* What is in flight is a list of the sender's commands.
LEMMA UndeliveredType ==
    ASSUME NEW C, NEW S \in SequencerType(C), NEW R
    PROVE  Undelivered(S, R) \in Seq(C)
BY SequencerFields, EmptySeq DEF Undelivered

\* Emitting a packet moves commands towards the wire and loses none of them.
LEMMA EmitConserves ==
    ASSUME NEW C, NEW S \in SequencerType(C), NEW D, NEW R \in SequencerType(D),
           NEW cmds \in Seq(C), NEW sent, NEW got,
           S.outgoingSeq + 1 < SeqLimit, S.incomingSeq < SeqLimit,
           ReleasedWhenHandled(S, R), Conserved(S, R, cmds, sent, got)
    PROVE  Conserved(Outgoing(S, cmds).next, R, <<>>, sent, got)
<1> DEFINE T == Outgoing(S, cmds).next
           batch == S.outgoingCommands \o cmds
           start == S.outgoingCommandsBuf = <<>> /\ batch # <<>>
<1>1. /\ start => /\ T.outgoingCommandsBuf = batch
                  /\ T.outgoingCommands = <<>>
                  /\ T.isOutgoingSeqReliable = ~S.isOutgoingSeqReliable
      /\ ~start => /\ T.outgoingCommandsBuf = S.outgoingCommandsBuf
                   /\ T.outgoingCommands = batch
                   /\ T.isOutgoingSeqReliable = S.isOutgoingSeqReliable
  BY OutgoingFields
<1>2. batch \in Seq(C) /\ <<>> \in Seq(C) /\ <<>> \o <<>> = <<>>
  BY ConcatType, SequencerFields, EmptySeq, ConcatEmpty
<1>3. batch \o <<>> = batch /\ <<>> \o batch = batch
  BY <1>2, ConcatEmpty
<1>4. got \o (Undelivered(S, R) \o batch) = Upto(sent)
  BY DEF Conserved
<1>5. Undelivered(T, R) \o (T.outgoingCommands \o <<>>) = Undelivered(S, R) \o batch
  <2>1. CASE start
    <3>1. Undelivered(S, R) = <<>>
      BY <2>1 DEF Undelivered
    <3>2. T.isOutgoingSeqReliable # R.isIncomingSeqReliable
      BY <2>1, <1>1, SequencerFields DEF ReleasedWhenHandled
    <3>3. Undelivered(T, R) = batch
      BY <2>1, <1>1, <3>2, Zenon DEF Undelivered
    <3> HIDE DEF T, batch, start
    <3> QED BY <2>1, <1>1, <1>2, <1>3, <3>1, <3>3
  <2>2. CASE ~start
    <3>1. Undelivered(T, R) = Undelivered(S, R)
      BY <2>2, <1>1, Zenon DEF Undelivered
    <3> HIDE DEF T, batch, start
    <3> QED BY <2>2, <1>1, <1>3, <3>1
  <2> QED BY <2>1, <2>2
<1> QED
  BY <1>4, <1>5 DEF Conserved

\* A rate-limited Process keeps every command, in order.
LEMMA QueueConserves ==
    ASSUME NEW C, NEW S \in SequencerType(C), NEW R, NEW cmds \in Seq(C),
           NEW sent, NEW got, Conserved(S, R, cmds, sent, got)
    PROVE  Conserved(Queued(S, cmds), R, <<>>, sent, got)
<1> DEFINE T == Queued(S, cmds)
<1>1. /\ T.outgoingCommands = S.outgoingCommands \o cmds
      /\ T.outgoingCommandsBuf = S.outgoingCommandsBuf
      /\ T.isOutgoingSeqReliable = S.isOutgoingSeqReliable
  BY DEF Queued, SequencerType
<1>2. Undelivered(T, R) = Undelivered(S, R)
  BY <1>1, Zenon DEF Undelivered
<1>3. (S.outgoingCommands \o cmds) \o <<>> = S.outgoingCommands \o cmds
  BY ConcatType, ConcatEmpty, SequencerFields
<1> QED
  BY <1>1, <1>2, <1>3, Zenon DEF Conserved

\* An acknowledgement the sender hears releases only a batch that was handled.
LEMMA HearConserves ==
    ASSUME NEW C, NEW S \in SequencerType(C), NEW D, NEW R \in SequencerType(D),
           NEW data, NEW acks, Headers(acks), Direction(S, R, data, acks),
           NEW q \in acks, Masked(q.seq) >= S.incomingSeq,
           NEW queue, NEW sent, NEW got, Conserved(S, R, queue, sent, got)
    PROVE  Conserved(Incoming(S, q.seq, q.ack), R, queue, sent, got)
<1> DEFINE T == Incoming(S, q.seq, q.ack)
<1>1. /\ T.outgoingCommandsBuf =
            IF IsReliable(q.ack) = S.isOutgoingSeqReliable
            THEN <<>> ELSE S.outgoingCommandsBuf
      /\ T.isOutgoingSeqReliable = S.isOutgoingSeqReliable
      /\ T.outgoingCommands = S.outgoingCommands
  BY IncomingFields DEF Headers
<1>2. S.isOutgoingSeqReliable # R.isIncomingSeqReliable =>
          IsReliable(q.ack) # S.isOutgoingSeqReliable
  BY DEF Direction, AcksSettle
<1>3. Undelivered(T, R) = Undelivered(S, R)
  BY <1>1, <1>2, Zenon DEF Undelivered
<1> QED
  BY <1>1, <1>3, Zenon DEF Conserved

\* A packet the receiver accepts carries exactly the commands that come next.
LEMMA AcceptConserves ==
    ASSUME NEW C, NEW S \in SequencerType(C), NEW D, NEW R \in SequencerType(D),
           NEW data, NEW acks, Headers(data), Direction(S, R, data, acks),
           NEW p \in data, Masked(p.seq) >= R.incomingSeq,
           NEW queue \in Seq(C), NEW sent, NEW got \in Seq(C),
           Conserved(S, R, queue, sent, got)
    PROVE  Conserved(S, Incoming(R, p.seq, p.ack), queue, sent, got \o p.cmds)
<1> DEFINE U == Incoming(R, p.seq, p.ack)
           rest == S.outgoingCommands \o queue
<1>1. U.isIncomingSeqReliable = IF IsReliable(p.seq) THEN ~R.isIncomingSeqReliable
                                                     ELSE R.isIncomingSeqReliable
  BY IncomingFields DEF Headers
<1>2. rest \in Seq(C) /\ Undelivered(S, R) \in Seq(C)
  BY ConcatType, SequencerFields, UndeliveredType
<1>3. got \o (Undelivered(S, R) \o rest) = Upto(sent)
  BY DEF Conserved
<1>4. CASE ~IsReliable(p.seq)
  <2>1. p.cmds = <<>> /\ U.isIncomingSeqReliable = R.isIncomingSeqReliable
    BY <1>1, <1>4 DEF Direction, OnlyLatestBatch
  <2>2. got \o p.cmds = got /\ Undelivered(S, U) = Undelivered(S, R)
    BY <2>1, ConcatEmpty DEF Undelivered
  <2> QED BY <2>2, <1>3 DEF Conserved
<1>5. CASE IsReliable(p.seq)
  <2>1. /\ p.cmds = S.outgoingCommandsBuf
        /\ S.isOutgoingSeqReliable # R.isIncomingSeqReliable
    BY <1>5 DEF Direction, OnlyLatestBatch
  <2>2. S.isOutgoingSeqReliable = U.isIncomingSeqReliable
    BY <1>1, <1>5, <2>1, SequencerFields
  <2>3. Undelivered(S, R) = p.cmds /\ Undelivered(S, U) = <<>>
    BY <2>1, <2>2, Zenon DEF Undelivered
  <2>4. <<>> \o rest = rest
    BY <1>2, ConcatEmpty
  <2>5. (got \o p.cmds) \o rest = got \o (p.cmds \o rest)
    <3>1. p.cmds \in Seq(C) /\ rest \in Seq(C)
      BY <1>2, <2>3
    <3> HIDE DEF rest
    <3>2. Cat(Cat(got, p.cmds), rest) = Cat(got, Cat(p.cmds, rest))
      BY <3>1, ConcatAssoc
    <3> QED BY <3>2 DEF Cat
  <2> QED BY <2>3, <2>4, <2>5, <1>3, Zenon DEF Conserved
<1> QED BY <1>4, <1>5

\* A new command goes to the end of the stream.
LEMMA UptoGrows ==
    ASSUME NEW sent \in Nat, NEW n \in Nat
    PROVE  Upto(sent) \o [i \in 1 .. n |-> sent + i] = Upto(sent + n)
<1> DEFINE a == Upto(sent)
           b == [i \in 1 .. n |-> sent + i]
           c == Upto(sent + n)
<1>1. a \in Seq(Nat) /\ Len(a) = sent /\ b \in Seq(Nat) /\ Len(b) = n
      /\ c \in Seq(Nat) /\ Len(c) = sent + n
  BY DEF Upto
<1>2. a \o b \in Seq(Nat) /\ Len(a \o b) = Len(c)
  BY <1>1, ConcatProperties
<1>3. ASSUME NEW i \in 1 .. Len(c) PROVE (a \o b)[i] = c[i]
  <2>1. i \in 1 .. Len(a) + Len(b)
    BY <1>1
  <2>2. (a \o b)[i] = IF i <= Len(a) THEN a[i] ELSE b[i - Len(a)]
    BY <1>1, <2>1, ConcatProperties
  <2> QED BY <1>1, <2>1, <2>2 DEF Upto
<1> QED BY <1>1, <1>2, <1>3, SeqEqual

\* Commands queued by Enqueue or by a handler extend the stream at its end.
LEMMA EnqueueConserves ==
    ASSUME NEW C, NEW S \in SequencerType(C), NEW R, NEW queue \in Seq(C),
           NEW sent \in Nat, NEW n \in Nat, NEW got \in Seq(C),
           NEW new \in Seq(C), new = [i \in 1 .. n |-> sent + i],
           Conserved(S, R, queue, sent, got)
    PROVE  Conserved(S, R, queue \o new, sent + n, got)
<1> DEFINE u == Undelivered(S, R)
           o == S.outgoingCommands
<1>1. u \in Seq(C) /\ o \in Seq(C)
  BY UndeliveredType, SequencerFields
<1>2. Upto(sent) \o new = Upto(sent + n)
  BY UptoGrows
<1>3. Cat(got, Cat(u, Cat(o, queue))) = Upto(sent)
  BY DEF Conserved, Cat
<1> HIDE DEF u, o
<1>4. Cat(Cat(got, Cat(u, Cat(o, queue))), new) = Cat(got, Cat(u, Cat(o, Cat(queue, new))))
  <2>1. \A x, y \in Seq(C) : Cat(x, y) \in Seq(C)
    BY DEF Cat
  <2>2. \A x, y, z \in Seq(C) : Cat(Cat(x, y), z) = Cat(x, Cat(y, z))
    BY ConcatAssoc
  <2>3. got \in Seq(C) /\ queue \in Seq(C) /\ new \in Seq(C)
    OBVIOUS
  <2> QED BY ONLY <1>1, <2>1, <2>2, <2>3
<1>5. Cat(Upto(sent), new) = Upto(sent + n)
  BY <1>2 DEF Cat
<1>6. Cat(got, Cat(u, Cat(o, Cat(queue, new)))) = Upto(sent + n)
  BY <1>3, <1>4, <1>5
<1> QED BY <1>6 DEF Conserved, Cat, u, o

\* A beginning of 1, 2, ..., n is itself such a run.
LEMMA UptoPrefix ==
    ASSUME NEW n \in Nat, NEW a \in Seq(Nat), NEW b \in Seq(Nat), a \o b = Upto(n)
    PROVE  Len(a) <= n /\ C2S!Follows(a, 0)
<1>1. Len(Upto(n)) = n /\ \A i \in 1 .. n : Upto(n)[i] = i
  BY DEF Upto
<1>2. Len(a) + Len(b) = n
  BY <1>1, ConcatProperties
<1>3. \A i \in 1 .. Len(a) : i \in 1 .. n /\ (a \o b)[i] = a[i]
  BY <1>2, ConcatProperties
<1> QED BY <1>1, <1>2, <1>3 DEF C2S!Follows
------------------------------------------------------------------------------
(* The client's stream.                                                     *)

LinkInv == TypeOK /\ ClientStreamInv

\* What the type invariant says about the sequencers and the packets.
LEMMA TypeFacts ==
    ASSUME TypeOK
    PROVE  /\ cl \in SequencerType(ClientCommand)
           /\ sv \in SequencerType(ServerCommand)
           /\ Headers(c2s) /\ Headers(s2c) /\ Headers(ToServer) /\ Headers(ToClient)
<1>1. Headers(c2s) /\ Headers(s2c)
  BY DEF TypeOK, Packet, Headers
<1>2. Headers(ToServer)
  BY <1>1 DEF Headers, ToServer
<1>3. Headers(ToClient)
  <2>1. 0 \in Word
    BY SeqLimitAssumption DEF Word
  <2> QED BY <1>1, <2>1 DEF Headers, ToClient, Audible
<1> QED BY <1>1, <1>2, <1>3 DEF TypeOK

\* Within the bounds the sequence numbers do not reach the reliable bit.
LEMMA ClientMayEmit ==
    ASSUME LinkInv
    PROVE  /\ cl.outgoingSeq < MaxClientSeq => cl.outgoingSeq + 1 < SeqLimit
           /\ cl.incomingSeq < SeqLimit
           /\ sv.outgoingSeq < MaxServerSeq => sv.outgoingSeq + 1 < SeqLimit
           /\ sv.incomingSeq < SeqLimit
<1>1. /\ cl.outgoingSeq \in Nat /\ sv.outgoingSeq \in Nat
      /\ cl.incomingSeq \in Nat /\ sv.incomingSeq \in Nat
  BY TypeFacts, SequencerFields DEF LinkInv
<1>2. /\ cl.outgoingSeq <= MaxClientSeq /\ sv.outgoingSeq <= MaxServerSeq
      /\ cl.incomingSeq < sv.outgoingSeq /\ sv.incomingSeq <= cl.outgoingSeq
  BY DEF LinkInv, ClientStreamInv, LinkBounds, Direction
<1> QED BY <1>1, <1>2, LinkAssumption, SeqLimitAssumption

\* acceptPacket lets through only what is ahead of the last accepted number.
LEMMA AcceptedIsAhead ==
    ASSUME LinkInv, NEW p \in c2s, AcceptPacket(p)
    PROVE  p \in ToServer
<1>1. Masked(p.seq) \in Nat /\ Masked(p.seq) < SeqLimit
  BY WordParts, TypeFacts DEF LinkInv, Headers
<1>2. incoming = sv.incomingSeq /\ sv.incomingSeq <= cl.outgoingSeq
      /\ cl.outgoingSeq <= MaxClientSeq
  BY DEF LinkInv, ClientStreamInv, LinkBounds, Direction
<1>3. sv.incomingSeq \in Nat /\ cl.outgoingSeq \in Nat
  BY TypeFacts, SequencerFields DEF LinkInv
<1>4. 2 * incoming <= SeqLimit
  BY <1>2, <1>3, LinkAssumption, SeqLimitAssumption
<1>5. received => Masked(p.seq) > incoming
  BY <1>1, <1>2, <1>3, <1>4, SeqLimitAssumption DEF AcceptPacket, Distance
<1> QED BY <1>5 DEF ToServer

\* A packet acceptPacket would let through is not stale for the sequencer either.
LEMMA ServerAhead ==
    ASSUME LinkInv, NEW p \in ToServer
    PROVE  Masked(p.seq) >= sv.incomingSeq
<1>1. Masked(p.seq) \in Nat /\ sv.incomingSeq \in Nat
  BY WordParts, TypeFacts, SequencerFields DEF LinkInv, Headers
<1>2. incoming = sv.incomingSeq /\ (received \/ incoming = 0)
  BY DEF LinkInv, ClientStreamInv, LinkBounds
<1> QED BY <1>1, <1>2 DEF ToServer

\* The first half of Process has turned the sequencer into H, in state st, and
\* net is what the network can still deliver.
Hears(H, st, net) ==
    /\ H \in SequencerType(ClientCommand)
    /\ H.state = st
    /\ H.outgoingSeq = cl.outgoingSeq
    /\ H.incomingSeq < sv.outgoingSeq /\ H.incomingSeq < SeqLimit
    /\ net \subseteq s2c /\ \A r \in net : Masked(r.seq) # H.incomingSeq
    /\ Direction(H, sv, ToServer, Audible(net, H))
    /\ Conserved(H, sv, clCmds, clSent, svGot)

\* SetState changes the state and no other field.
LEMMA SetStateFields ==
    ASSUME NEW C, NEW S \in SequencerType(C), NEW st \in States
    PROVE  /\ SetState(S, st) \in SequencerType(C)
           /\ SetState(S, st) = [S EXCEPT !.state = st]
           /\ SetState(S, st).state = st
           /\ SetState(S, st).incomingSeq = S.incomingSeq
           /\ SetState(S, st).incomingAck = S.incomingAck
           /\ SetState(S, st).lastReliableSeq = S.lastReliableSeq
           /\ SetState(S, st).outgoingSeq = S.outgoingSeq
           /\ SetState(S, st).isIncomingAckReliable = S.isIncomingAckReliable
           /\ SetState(S, st).isIncomingSeqReliable = S.isIncomingSeqReliable
           /\ SetState(S, st).isOutgoingSeqReliable = S.isOutgoingSeqReliable
           /\ SetState(S, st).outgoingCommands = S.outgoingCommands
           /\ SetState(S, st).outgoingCommandsBuf = S.outgoingCommandsBuf
BY DEF SetState, SequencerType

\* The state of the connection is no part of the argument.
LEMMA SetStateHears ==
    ASSUME LinkInv, NEW st \in States
    PROVE  Hears(SetState(cl, st), st, s2c)
<1> DEFINE T == SetState(cl, st)
<1>1. /\ T \in SequencerType(ClientCommand)
      /\ T.state = st
      /\ T.incomingSeq = cl.incomingSeq
      /\ T.incomingAck = cl.incomingAck
      /\ T.lastReliableSeq = cl.lastReliableSeq
      /\ T.outgoingSeq = cl.outgoingSeq
      /\ T.isIncomingAckReliable = cl.isIncomingAckReliable
      /\ T.isIncomingSeqReliable = cl.isIncomingSeqReliable
      /\ T.isOutgoingSeqReliable = cl.isOutgoingSeqReliable
      /\ T.outgoingCommands = cl.outgoingCommands
      /\ T.outgoingCommandsBuf = cl.outgoingCommandsBuf
  BY SetStateFields, TypeFacts DEF LinkInv
<1> HIDE DEF T
<1>2. Direction(cl, sv, ToServer, ToClient)
  BY DEF LinkInv, ClientStreamInv
<1>3. Direction(T, sv, ToServer, Audible(s2c, T))
  <2>1. Audible(s2c, T) = ToClient
    BY <1>1, Zenon DEF Audible, ToClient
  <2> QED BY <1>1, <1>2, <2>1, DirectionDependsOn
<1>4. Conserved(T, sv, clCmds, clSent, svGot)
  <2>1. Undelivered(T, sv) = Undelivered(cl, sv)
    BY <1>1, Zenon DEF Undelivered
  <2> QED BY <2>1, <1>1, Zenon DEF LinkInv, ClientStreamInv, Conserved
<1> QED
  BY <1>1, <1>3, <1>4, ClientMayEmit DEF Hears, LinkInv, ClientStreamInv, LinkBounds, T

\* A packet older than the last one heard changes nothing.
LEMMA StaleHears ==
    ASSUME LinkInv, NEW T, NEW st, Hears(T, st, s2c), NEW seq, NEW ack,
           Masked(seq) < T.incomingSeq, NEW net \in SUBSET s2c
    PROVE  Hears(Incoming(T, seq, ack), st, net)
<1>1. Incoming(T, seq, ack) = T
  BY DEF Incoming
<1>2. Audible(net, T) \in SUBSET Audible(s2c, T)
  BY DEF Audible
<1>3. Direction(T, sv, ToServer, Audible(net, T))
  BY <1>2, DirectionDependsOn DEF Hears
<1> QED BY <1>1, <1>3 DEF Hears

\* Any other packet is an acknowledgement the client was waiting to hear.
LEMMA FreshHears ==
    ASSUME LinkInv, NEW T, NEW st, Hears(T, st, s2c),
           NEW q \in Audible(s2c, T), q.seq \in Word, q.ack \in Word,
           Masked(q.seq) >= T.incomingSeq, Masked(q.seq) < sv.outgoingSeq,
           NEW net \in SUBSET s2c, \A r \in net : Masked(r.seq) # Masked(q.seq),
           \A r \in Audible(net, Incoming(T, q.seq, q.ack)) :
              r = q \/ Masked(r.seq) > Masked(q.seq)
    PROVE  Hears(Incoming(T, q.seq, q.ack), st, net)
<1> DEFINE H == Incoming(T, q.seq, q.ack)
           later == Audible(net, H)
<1>1. T \in SequencerType(ClientCommand) /\ sv \in SequencerType(ServerCommand)
      /\ Headers(ToServer)
  BY TypeFacts DEF Hears, LinkInv
<1>2. /\ H \in SequencerType(ClientCommand)
      /\ H.state = T.state
      /\ H.incomingSeq = Masked(q.seq)
      /\ H.outgoingSeq = T.outgoingSeq
  BY <1>1, IncomingFields
<1>3. Masked(q.seq) \in Nat /\ T.incomingSeq \in Nat /\ Masked(q.seq) < SeqLimit
  BY <1>1, SequencerFields, WordParts
<1>4. \A r \in s2c : r.seq \in Word /\ r.ack \in Word /\ Masked(r.seq) \in Nat
  BY WordParts, TypeFacts DEF LinkInv, Headers
<1>5. Headers(Audible(s2c, T))
  <2>1. 0 \in Word
    BY SeqLimitAssumption DEF Word
  <2> QED BY <1>4, <2>1 DEF Headers, Audible
<1>6. later \in SUBSET Audible(s2c, T)
  <2>1. \A r \in net : Masked(r.seq) > H.incomingSeq => Masked(r.seq) > T.incomingSeq
    <3> HIDE DEF H
    <3> QED BY <1>2, <1>3, <1>4
  <2>2. H.incomingSeq = 0 => T.incomingSeq = 0
    <3> HIDE DEF H
    <3> QED BY <1>2, <1>3
  <2> HIDE DEF H
  <2> QED BY <2>1, <2>2 DEF Audible
<1>7. \A r \in later : r = q \/ Masked(r.seq) > Masked(q.seq)
  OBVIOUS
<1>8. Direction(T, sv, ToServer, Audible(s2c, T)) /\ Conserved(T, sv, clCmds, clSent, svGot)
  BY DEF Hears
<1> HIDE DEF later
<1>9. Direction(H, sv, ToServer, later)
  BY <1>1, <1>5, <1>6, <1>7, <1>8, SenderHears
<1>10. Conserved(H, sv, clCmds, clSent, svGot)
  BY <1>1, <1>5, <1>8, HearConserves
<1> HIDE DEF H
<1>11. Hears(H, st, net)
  BY <1>2, <1>3, <1>9, <1>10 DEF Hears, later
<1> QED BY <1>11 DEF H

\* Hearing a server packet keeps the stream, with what can still arrive after it.
LEMMA PacketHears ==
    ASSUME LinkInv, NEW st \in States, NEW q \in s2c
    PROVE  Hears(Incoming(SetState(cl, st), q.seq, q.ack), st, After(q))
<1> DEFINE T == SetState(cl, st)
           H == Incoming(T, q.seq, q.ack)
<1>1. Hears(T, st, s2c) /\ T \in SequencerType(ClientCommand)
      /\ T.incomingSeq = cl.incomingSeq
  BY SetStateHears, SetStateFields, TypeFacts DEF LinkInv
<1>2. /\ q.seq \in Word /\ q.ack \in Word /\ Masked(q.seq) \in Nat
      /\ cl.incomingSeq \in Nat
      /\ \A r \in s2c : Masked(r.seq) \in Nat
  BY WordParts, TypeFacts, SequencerFields DEF LinkInv, Headers
<1>3. /\ 0 < Masked(q.seq) /\ Masked(q.seq) < sv.outgoingSeq
      /\ Masked(q.seq) # cl.incomingSeq
      /\ \A r \in s2c : Masked(q.seq) = Masked(r.seq) => q = r
  BY DEF LinkInv, ClientStreamInv, LinkBounds
<1>4. After(q) \in SUBSET s2c /\ \A r \in After(q) : Masked(r.seq) # Masked(q.seq)
  BY <1>2, <1>3 DEF After
<1> HIDE DEF T
<1>5. CASE Masked(q.seq) < T.incomingSeq
  BY <1>1, <1>4, <1>5, StaleHears DEF T
<1>6. CASE ~(Masked(q.seq) < T.incomingSeq)
  <2>1. Masked(q.seq) > T.incomingSeq /\ Masked(q.seq) >= T.incomingSeq
    BY <1>1, <1>2, <1>3, <1>6
  <2>2. q \in Audible(s2c, T)
    BY <2>1 DEF Audible
  <2>3. H.incomingSeq = Masked(q.seq)
    BY <1>1, <1>2, <2>1, IncomingFields
  <2>4. H.incomingSeq # 0
    BY <2>3, <1>2, <1>3
  <2> HIDE DEF H
  <2>5. \A r \in Audible(After(q), H) : Masked(r.seq) > Masked(q.seq)
    BY <2>3, <2>4 DEF Audible
  <2>6. \A r \in Audible(After(q), Incoming(T, q.seq, q.ack)) :
            r = q \/ Masked(r.seq) > Masked(q.seq)
    BY <2>5 DEF H
  <2>7. Hears(Incoming(T, q.seq, q.ack), st, After(q))
    BY <1>1, <1>2, <1>3, <1>4, <2>1, <2>2, <2>6, FreshHears
  <2> QED BY <2>7 DEF T
<1> QED BY <1>5, <1>6

\* A read timeout is a zero header: stale, or the one the client starts from.
LEMMA TimeoutHears ==
    ASSUME LinkInv
    PROVE  Hears(Incoming(cl, 0, 0), cl.state, s2c)
<1> DEFINE zero == [seq |-> 0, ack |-> 0, cmds |-> <<>>]
<1>1. cl \in SequencerType(ClientCommand) /\ cl.state \in States
      /\ cl.incomingSeq \in Nat /\ sv.outgoingSeq \in Nat
  BY TypeFacts, SequencerFields DEF LinkInv
<1>2. 0 \in Word /\ Masked(0) = 0
  BY SeqLimitAssumption DEF Word, Masked, IsReliable
<1>3. Hears(SetState(cl, cl.state), cl.state, s2c)
  BY <1>1, SetStateHears
<1>4. SetState(cl, cl.state) = cl
  BY <1>1 DEF SetState, SequencerType
<1>5. Hears(cl, cl.state, s2c)
  BY <1>3, <1>4
<1>6. CASE cl.incomingSeq # 0
  <2>1. Masked(0) < cl.incomingSeq
    BY <1>1, <1>2, <1>6
  <2> QED BY <1>5, <2>1, StaleHears
<1>7. CASE cl.incomingSeq = 0
  <2>1. zero \in Audible(s2c, cl) /\ zero.seq = 0 /\ zero.ack = 0
    BY <1>7 DEF Audible
  <2>2. Masked(zero.seq) >= cl.incomingSeq /\ Masked(zero.seq) < sv.outgoingSeq
    BY <2>1, <1>1, <1>2, <1>7 DEF LinkInv, ClientStreamInv, LinkBounds
  <2>3. \A r \in s2c : Masked(r.seq) # Masked(zero.seq)
    BY <2>1, <1>2, <1>7 DEF LinkInv, ClientStreamInv, LinkBounds
  <2>4. Incoming(cl, zero.seq, zero.ack).incomingSeq = 0
    <3>1. Incoming(cl, zero.seq, zero.ack).incomingSeq = Masked(zero.seq)
      BY <1>1, <1>2, <2>1, <2>2, IncomingFields
    <3> QED BY <3>1, <2>1, <1>2
  <2>5. \A r \in Audible(s2c, Incoming(cl, zero.seq, zero.ack)) :
            r = zero \/ Masked(r.seq) > Masked(zero.seq)
    BY <2>1, <2>4, <1>2 DEF Audible
  <2> HIDE DEF zero
  <2>6. Hears(Incoming(cl, zero.seq, zero.ack), cl.state, s2c)
    BY <1>2, <1>5, <2>1, <2>2, <2>3, <2>5, FreshHears
  <2> QED BY <2>1, <2>6
<1> QED BY <1>6, <1>7
\* The second half of Process: queue the commands, or send a packet with them.
LEMMA ProcessPreserves ==
    ASSUME LinkInv, NEW H, NEW st, Hears(H, st, s2c'), clCmds' = <<>>,
           \/ cl' = Queued(H, clCmds) /\ c2s' = c2s
           \/ /\ H.outgoingSeq < MaxClientSeq
              /\ cl' = Outgoing(H, clCmds).next
              /\ c2s' = c2s \cup {[seq |-> Outgoing(H, clCmds).seq,
                                   ack |-> Outgoing(H, clCmds).ack,
                                   cmds |-> Outgoing(H, clCmds).cmds]},
           clSent' = clSent, svVars' = svVars, clGot' \in Seq(ServerCommand)
    PROVE  LinkInv'
<1>1. /\ H \in SequencerType(ClientCommand) /\ clCmds \in Seq(ClientCommand)
      /\ H.outgoingSeq = cl.outgoingSeq
      /\ H.incomingSeq < sv.outgoingSeq /\ H.incomingSeq < SeqLimit
      /\ s2c' \subseteq s2c /\ \A r \in s2c' : Masked(r.seq) # H.incomingSeq
      /\ Direction(H, sv, ToServer, Audible(s2c', H))
      /\ Conserved(H, sv, clCmds, clSent, svGot)
  BY DEF Hears, LinkInv, TypeOK
<1>2. /\ sv' = sv /\ received' = received /\ incoming' = incoming
      /\ serving' = serving /\ svSent' = svSent /\ svGot' = svGot
  BY DEF svVars
<1>3. sv \in SequencerType(ServerCommand) /\ Headers(ToServer)
  BY TypeFacts DEF LinkInv
<1>4. Headers(Audible(s2c', H))
  <2>1. 0 \in Word
    BY SeqLimitAssumption DEF Word
  <2>2. Headers(s2c)
    BY TypeFacts DEF LinkInv
  <2> QED BY <1>1, <2>1, <2>2 DEF Headers, Audible
<1>5. SUFFICES /\ cl' \in SequencerType(ClientCommand)
               /\ c2s' \subseteq Packet(ClientCommand)
               /\ cl'.outgoingSeq <= MaxClientSeq
               /\ cl'.incomingSeq = H.incomingSeq
               /\ Direction(cl', sv, ToServer', Audible(s2c', H))
               /\ Conserved(cl', sv, <<>>, clSent, svGot)
  <2>1. TypeOK'
    <3>1. <<>> \in Seq(ClientCommand)
      BY EmptySeq
    <3> QED BY <1>1, <1>2, <1>5, <3>1 DEF TypeOK, LinkInv
  <2>2. LinkBounds'
    <3>1. LinkBounds
      BY DEF LinkInv, ClientStreamInv
    <3>2. cl'.outgoingSeq <= MaxClientSeq /\ cl'.incomingSeq < sv.outgoingSeq
      BY <1>1, <1>5
    <3>3. \A q \in s2c' : q \in s2c /\ Masked(q.seq) # cl'.incomingSeq
      BY <1>1, <1>5
    <3>4. sv' = sv /\ incoming' = incoming /\ received' = received
      BY <1>2
    <3> QED BY <3>1, <3>2, <3>3, <3>4 DEF LinkBounds
  <2>3. ToClient' = Audible(s2c', H)
    BY <1>5, Zenon DEF ToClient, Audible
  <2>4. sv' = sv /\ svSent' = svSent /\ svGot' = svGot /\ clSent' = clSent
    BY <1>2
  <2> QED BY <2>4, <1>5, <2>1, <2>2, <2>3 DEF LinkInv, ClientStreamInv
<1>6. CASE cl' = Queued(H, clCmds) /\ c2s' = c2s
  <2>1. cl' \in SequencerType(ClientCommand)
        /\ cl' = [H EXCEPT !.outgoingCommands = H.outgoingCommands \o clCmds]
    <3>1. H \in SequencerType(ClientCommand) /\ clCmds \in Seq(ClientCommand)
      BY <1>1
    <3>2. Queued(H, clCmds) \in SequencerType(ClientCommand)
      BY ONLY <3>1, QueuedFields
    <3>3. Queued(H, clCmds) = [H EXCEPT !.outgoingCommands = H.outgoingCommands \o clCmds]
      BY DEF Queued
    <3> QED BY <1>6, <3>2, <3>3, Zenon
  <2>2. /\ cl'.outgoingSeq = H.outgoingSeq /\ cl'.lastReliableSeq = H.lastReliableSeq
        /\ cl'.outgoingCommandsBuf = H.outgoingCommandsBuf
        /\ cl'.isOutgoingSeqReliable = H.isOutgoingSeqReliable
        /\ cl'.incomingAck = H.incomingAck
        /\ cl'.isIncomingAckReliable = H.isIncomingAckReliable
        /\ cl'.incomingSeq = H.incomingSeq
    BY <1>1, <2>1 DEF SequencerType
  <2>3. ToServer' = ToServer
    BY <1>2, <1>6 DEF ToServer
  <2>4. Direction(cl', sv, ToServer', Audible(s2c', H))
    BY <1>1, <2>2, <2>3, DirectionDependsOn
  <2>5. Conserved(cl', sv, <<>>, clSent, svGot)
    BY <1>1, <1>6, QueueConserves
  <2>6. c2s' \subseteq Packet(ClientCommand) /\ cl'.outgoingSeq <= MaxClientSeq
    BY <1>1, <1>6, <2>2 DEF LinkInv, TypeOK, ClientStreamInv, LinkBounds
  <2> QED BY <2>1, <2>2, <2>4, <2>5, <2>6
<1>7. CASE /\ H.outgoingSeq < MaxClientSeq
           /\ cl' = Outgoing(H, clCmds).next
           /\ c2s' = c2s \cup {[seq |-> Outgoing(H, clCmds).seq,
                                ack |-> Outgoing(H, clCmds).ack,
                                cmds |-> Outgoing(H, clCmds).cmds]}
  <2> DEFINE p == [seq |-> Outgoing(H, clCmds).seq,
                   ack |-> Outgoing(H, clCmds).ack,
                   cmds |-> Outgoing(H, clCmds).cmds]
  <2>1. H.outgoingSeq + 1 < SeqLimit
    BY <1>1, <1>7, ClientMayEmit
  <2>2. /\ cl' \in SequencerType(ClientCommand)
        /\ p.seq \in Word /\ p.ack \in Word /\ p.cmds \in Seq(ClientCommand)
        /\ cl'.incomingSeq = H.incomingSeq
        /\ cl'.outgoingSeq = H.outgoingSeq + 1
    BY <1>1, <1>7, <2>1, OutgoingFields
  <2>3. p.seq = Outgoing(H, clCmds).seq /\ p.cmds = Outgoing(H, clCmds).cmds
        /\ p \in Packet(ClientCommand)
    BY <2>2 DEF Packet
  <2>4. \A r \in ToServer : Masked(r.seq) >= sv.incomingSeq
    BY ServerAhead
  <2> HIDE DEF p
  <2>5. Direction(cl', sv, ToServer \cup {p}, Audible(s2c', H))
    BY <1>1, <1>3, <1>4, <1>7, <2>1, <2>3, <2>4, SenderEmits
  <2>6. ToServer' \in SUBSET (ToServer \cup {p})
    <3>1. c2s' = c2s \cup {p}
      BY <1>7 DEF p
    <3> QED BY <3>1, <1>2 DEF ToServer
  <2>7. Direction(cl', sv, ToServer', Audible(s2c', H))
    BY <2>5, <2>6, DirectionDependsOn
  <2>8. Conserved(cl', sv, <<>>, clSent, svGot)
    <3>1. ReleasedWhenHandled(H, sv)
      BY <1>1 DEF Direction
    <3> QED BY <1>1, <1>3, <1>7, <2>1, <3>1, EmitConserves
  <2>9. c2s' \subseteq Packet(ClientCommand)
    BY <1>7, <2>3 DEF p, LinkInv, TypeOK
  <2>10. cl'.outgoingSeq <= MaxClientSeq
    <3>1. H.outgoingSeq \in Nat
      BY <1>1, SequencerFields
    <3> QED BY <1>7, <2>2, <3>1, LinkAssumption
  <2> QED BY <2>2, <2>7, <2>8, <2>9, <2>10
<1> QED BY <1>6, <1>7

\* Process preserves the invariant once its header has been heard.
LEMMA ProcessActionPreserves ==
    ASSUME LinkInv, NEW s, NEW seq, NEW ack, Process(s, seq, ack),
           Hears(Incoming(s, seq, ack), s.state, s2c'), s.outgoingSeq = cl.outgoingSeq,
           clSent' = clSent, svVars' = svVars, clGot' \in Seq(ServerCommand)
    PROVE  LinkInv'
<1> DEFINE H == Incoming(s, seq, ack)
<1>1. H.outgoingSeq = s.outgoingSeq
  BY DEF Hears
<1>2. /\ clCmds' = <<>>
      /\ \/ cl' = Queued(H, clCmds) /\ c2s' = c2s
         \/ /\ s.outgoingSeq < MaxClientSeq
            /\ cl' = Outgoing(H, clCmds).next
            /\ c2s' = c2s \cup {[seq |-> Outgoing(H, clCmds).seq,
                                 ack |-> Outgoing(H, clCmds).ack,
                                 cmds |-> Outgoing(H, clCmds).cmds]}
  BY Zenon DEF Process
<1> HIDE DEF H
<1>3. Hears(H, s.state, s2c')
  BY DEF H
<1> QED BY <1>1, <1>2, <1>3, ProcessPreserves

\* Enqueue preserves the invariant.
LEMMA EnqueuePreserves ==
    ASSUME LinkInv, Enqueue
    PROVE  LinkInv'
<1>1. /\ clSent' = clSent + 1 /\ clCmds' = Append(clCmds, clSent + 1)
      /\ cl' = cl /\ clGot' = clGot /\ svVars' = svVars /\ c2s' = c2s /\ s2c' = s2c
      /\ clSent < MaxClientCmds
  BY DEF Enqueue
<1>2. clSent \in Nat /\ clCmds \in Seq(ClientCommand) /\ clSent + 1 \in ClientCommand
      /\ svGot \in Seq(ClientCommand) /\ cl \in SequencerType(ClientCommand)
  BY <1>1, LinkAssumption DEF LinkInv, TypeOK, ClientCommand
<1>3. TypeOK'
  BY <1>1, <1>2, LinkAssumption DEF LinkInv, TypeOK, svVars
<1>4. LinkBounds' /\ Direction(cl, sv, ToServer, ToClient)'
  BY <1>1 DEF LinkInv, ClientStreamInv, LinkBounds, svVars, ToServer, ToClient
<1>5. Conserved(cl, sv, clCmds, clSent, svGot)'
  <2> DEFINE n == <<clSent + 1>>
  <2>1. n \in Seq(ClientCommand) /\ n = [i \in 1 .. 1 |-> clSent + i]
    BY <1>2
  <2>2. Append(clCmds, clSent + 1) = clCmds \o n
    BY <1>2, AppendIsConcat
  <2>3. Conserved(cl, sv, clCmds, clSent, svGot)
    BY DEF LinkInv, ClientStreamInv
  <2> HIDE DEF n
  <2>4. Conserved(cl, sv, clCmds \o n, clSent + 1, svGot)
    BY <1>2, <2>1, <2>3, EnqueueConserves
  <2> QED BY <1>1, <2>2, <2>4 DEF Conserved, svVars, Undelivered
<1> QED BY <1>3, <1>4, <1>5 DEF LinkInv, ClientStreamInv

\* A read timeout, with its zero header, preserves the invariant.
LEMMA ReadTimeoutPreserves ==
    ASSUME LinkInv, ReadTimeout
    PROVE  LinkInv'
<1>1. /\ Process(cl, 0, 0) /\ clSent' = clSent /\ clGot' = clGot
      /\ svVars' = svVars /\ s2c' = s2c
  BY DEF ReadTimeout
<1>2. Hears(Incoming(cl, 0, 0), cl.state, s2c')
  BY <1>1, TimeoutHears
<1>3. clGot' \in Seq(ServerCommand)
  BY <1>1 DEF LinkInv, TypeOK
<1> QED BY <1>1, <1>2, <1>3, ProcessActionPreserves

\* Reading a server packet preserves the invariant.
LEMMA ClientReadPreserves ==
    ASSUME LinkInv, NEW q \in s2c, ClientRead(q)
    PROVE  LinkInv'
<1>1. PICK st \in {"Connecting", "Connected"} : Process(SetState(cl, st), q.seq, q.ack)
  BY DEF ClientRead
<1>2. /\ clSent' = clSent /\ clGot' = clGot \o q.cmds
      /\ svVars' = svVars /\ s2c' = After(q)
  BY DEF ClientRead
<1>3. st \in States
  BY DEF States
<1>4. SetState(cl, st).state = st /\ SetState(cl, st).outgoingSeq = cl.outgoingSeq
  BY <1>3, SetStateFields, TypeFacts DEF LinkInv
<1>5. Hears(Incoming(SetState(cl, st), q.seq, q.ack), st, s2c')
  BY <1>2, <1>3, PacketHears
<1>6. clGot' \in Seq(ServerCommand)
  BY <1>2, ConcatType DEF LinkInv, TypeOK, Packet
<1> DEFINE s == SetState(cl, st)
<1>7. Process(s, q.seq, q.ack) /\ s.state = st /\ s.outgoingSeq = cl.outgoingSeq
      /\ Hears(Incoming(s, q.seq, q.ack), s.state, s2c')
  BY <1>1, <1>4, <1>5
<1> HIDE DEF s
<1> QED BY <1>2, <1>6, <1>7, ProcessActionPreserves

\* acceptPacket and the command handlers preserve the invariant.
LEMMA ServerReadPreserves ==
    ASSUME LinkInv, NEW p \in c2s, ServerRead(p)
    PROVE  LinkInv'
<1> DEFINE U == Incoming(sv, p.seq, p.ack)
<1>1. /\ received' = TRUE /\ incoming' = Masked(p.seq)
      /\ sv' = SetState(U, "Connected") /\ svGot' = svGot \o p.cmds
      /\ serving' = TRUE /\ svSent' = svSent /\ c2s' = c2s /\ s2c' = s2c
      /\ cl' = cl /\ clCmds' = clCmds /\ clSent' = clSent /\ clGot' = clGot
      /\ AcceptPacket(p)
  BY DEF ServerRead, clVars
<1>2. p \in ToServer /\ Masked(p.seq) >= sv.incomingSeq
  BY <1>1, AcceptedIsAhead, ServerAhead
<1>3. /\ cl \in SequencerType(ClientCommand) /\ sv \in SequencerType(ServerCommand)
      /\ Headers(ToServer) /\ Headers(ToClient) /\ Headers(c2s)
  BY TypeFacts DEF LinkInv
<1>4. /\ p.seq \in Word /\ p.ack \in Word /\ p.cmds \in Seq(ClientCommand)
      /\ Masked(p.seq) \in Nat /\ Masked(p.seq) < SeqLimit
      /\ \A r \in c2s : Masked(r.seq) \in Nat
  BY <1>3, WordParts DEF LinkInv, TypeOK, Packet, Headers
<1>5. /\ U \in SequencerType(ServerCommand) /\ U.incomingSeq = Masked(p.seq)
      /\ U.outgoingSeq = sv.outgoingSeq
  BY <1>2, <1>3, <1>4, IncomingFields
<1>6. "Connected" \in States
  BY DEF States
<1> HIDE DEF U
<1>7. /\ sv' \in SequencerType(ServerCommand)
      /\ sv'.incomingSeq = U.incomingSeq /\ sv'.outgoingSeq = U.outgoingSeq
      /\ sv'.isIncomingSeqReliable = U.isIncomingSeqReliable
  BY <1>1, <1>5, <1>6, SetStateFields
<1>8. ToServer' = {r \in c2s : Masked(r.seq) > Masked(p.seq)} /\ ToClient' = ToClient
  BY <1>1 DEF ToServer, ToClient
<1>9. ToServer' \in SUBSET ToServer /\ \A r \in ToServer' : Masked(r.seq) > Masked(p.seq)
  <2>1. received => Masked(p.seq) > incoming
    BY <1>2 DEF ToServer
  <2>2. incoming \in Nat
    BY SeqLimitAssumption DEF LinkInv, TypeOK
  <2> QED BY <1>4, <1>8, <2>1, <2>2 DEF ToServer
<1>10. Direction(cl, sv, ToServer, ToClient) /\ Conserved(cl, sv, clCmds, clSent, svGot)
       /\ clCmds \in Seq(ClientCommand) /\ svGot \in Seq(ClientCommand)
  BY DEF LinkInv, ClientStreamInv, TypeOK
<1>11. Direction(cl, U, ToServer', ToClient)
  BY <1>2, <1>3, <1>9, <1>10, ReceiverAccepts DEF U
<1>12. Direction(cl, sv', ToServer', ToClient)
  BY <1>7, <1>11, DirectionDependsOn
<1>13. Conserved(cl, U, clCmds, clSent, svGot')
  BY <1>1, <1>2, <1>3, <1>10, AcceptConserves DEF U
<1>14. Conserved(cl, sv', clCmds, clSent, svGot')
  BY <1>7, <1>13, Zenon DEF Conserved, Undelivered
<1>15. TypeOK'
  <2>1. incoming' \in 0 .. (SeqLimit - 1)
    BY <1>1, <1>4, SeqLimitAssumption
  <2>2. svGot' \in Seq(ClientCommand)
    BY <1>1, <1>4, <1>10, ConcatType
  <2> QED BY <1>1, <1>7, <2>1, <2>2 DEF LinkInv, TypeOK
<1>16. LinkBounds'
  BY <1>1, <1>5, <1>7 DEF LinkInv, ClientStreamInv, LinkBounds
<1> QED
  BY <1>1, <1>8, <1>12, <1>14, <1>15, <1>16 DEF LinkInv, ClientStreamInv

\* flushClient preserves the invariant, on whichever goroutine it runs.
LEMMA FlushPreserves ==
    ASSUME LinkInv, NEW n \in Nat, FlushClient(n), serving' \in BOOLEAN,
           clVars' = clVars, received' = received, incoming' = incoming,
           svGot' = svGot, c2s' = c2s
    PROVE  LinkInv'
<1> DEFINE new == [i \in 1 .. n |-> svSent + i]
           q == [seq |-> Outgoing(sv, new).seq, ack |-> Outgoing(sv, new).ack,
                 cmds |-> Outgoing(sv, new).cmds]
<1>1. /\ sv.outgoingSeq < MaxServerSeq /\ svSent + n <= MaxServerCmds
      /\ svSent' = svSent + n /\ sv' = Outgoing(sv, new).next
      /\ s2c' = s2c \cup {q}
  BY Zenon DEF FlushClient
<1>2. cl' = cl /\ clCmds' = clCmds /\ clSent' = clSent /\ clGot' = clGot
  BY DEF clVars
<1>3. /\ cl \in SequencerType(ClientCommand) /\ sv \in SequencerType(ServerCommand)
      /\ Headers(ToServer) /\ Headers(ToClient) /\ Headers(s2c)
  BY TypeFacts DEF LinkInv
<1>4. new \in Seq(ServerCommand)
  BY <1>1, LinkAssumption DEF ServerCommand, LinkInv, TypeOK
<1>5. sv.outgoingSeq + 1 < SeqLimit /\ sv.incomingSeq < SeqLimit
  BY <1>1, ClientMayEmit
<1>6. q.seq = Outgoing(sv, new).seq /\ q.ack = Outgoing(sv, new).ack
      /\ q.cmds = Outgoing(sv, new).cmds
      /\ q = [seq |-> q.seq, ack |-> q.ack, cmds |-> q.cmds]
  OBVIOUS
<1> HIDE DEF new, q
<1>7. /\ sv' \in SequencerType(ServerCommand)
      /\ q.seq \in Word /\ q.ack \in Word /\ q.cmds \in Seq(ServerCommand)
      /\ Masked(q.seq) = sv.outgoingSeq
      /\ sv'.incomingSeq = sv.incomingSeq
      /\ sv'.isIncomingSeqReliable = sv.isIncomingSeqReliable
      /\ sv'.outgoingSeq = sv.outgoingSeq + 1
  BY <1>1, <1>3, <1>4, <1>5, <1>6, OutgoingFields
<1>8. Direction(cl, sv, ToServer, ToClient) /\ Conserved(cl, sv, clCmds, clSent, svGot)
  BY DEF LinkInv, ClientStreamInv
<1>9. Direction(cl, sv', ToServer, ToClient \cup {q})
  BY <1>1, <1>3, <1>4, <1>5, <1>6, <1>8, ReceiverReplies
<1>10. ToServer' = ToServer /\ ToClient' \in SUBSET (ToClient \cup {q})
  BY <1>1, <1>2 DEF ToServer, ToClient, Audible
<1>11. Direction(cl, sv', ToServer', ToClient')
  BY <1>9, <1>10, DirectionDependsOn
<1>12. Conserved(cl, sv', clCmds, clSent, svGot)
  BY <1>7, <1>8, Zenon DEF Conserved, Undelivered
<1>13. TypeOK'
  <2>1. s2c' \subseteq Packet(ServerCommand)
    BY <1>1, <1>6, <1>7 DEF Packet, LinkInv, TypeOK
  <2>2. svSent' \in 0 .. MaxServerCmds
    BY <1>1, LinkAssumption DEF LinkInv, TypeOK
  <2> QED BY <1>2, <1>7, <2>1, <2>2 DEF LinkInv, TypeOK
<1>14. LinkBounds'
  <2>1. cl.incomingSeq \in Nat /\ sv.outgoingSeq \in Nat
        /\ \A r \in s2c : Masked(r.seq) \in Nat
    BY <1>3, SequencerFields, WordParts DEF Headers
  <2>2. cl'.outgoingSeq <= MaxClientSeq /\ sv'.outgoingSeq <= MaxServerSeq
        /\ cl'.incomingSeq < sv'.outgoingSeq
    BY <1>1, <1>2, <1>7, <2>1, LinkAssumption DEF LinkInv, ClientStreamInv, LinkBounds
  <2>3. incoming' = sv'.incomingSeq /\ (received' \/ incoming' = 0)
    BY <1>7 DEF LinkInv, ClientStreamInv, LinkBounds
  <2>4. \A r \in s2c : /\ 0 < Masked(r.seq) /\ Masked(r.seq) < sv.outgoingSeq
                       /\ Masked(r.seq) # cl.incomingSeq
                       /\ \A t \in s2c : Masked(r.seq) = Masked(t.seq) => r = t
    BY DEF LinkInv, ClientStreamInv, LinkBounds
  <2>5. cl.incomingSeq < sv.outgoingSeq
    BY DEF LinkInv, ClientStreamInv, LinkBounds
  <2>6. ASSUME NEW r \in s2c'
        PROVE  /\ 0 < Masked(r.seq) /\ Masked(r.seq) < sv'.outgoingSeq
               /\ Masked(r.seq) # cl'.incomingSeq
               /\ \A t \in s2c' : Masked(r.seq) = Masked(t.seq) => r = t
    BY <1>1, <1>2, <1>7, <2>1, <2>4, <2>5
  <2> QED BY <2>2, <2>3, <2>6 DEF LinkBounds
<1> QED
  BY <1>2, <1>11, <1>12, <1>13, <1>14 DEF LinkInv, ClientStreamInv

\* A fresh connection satisfies the invariant.
LEMMA InitEstablishes == Init => LinkInv
<1> SUFFICES ASSUME Init PROVE LinkInv
  OBVIOUS
<1> DEFINE zero == [seq |-> 0, ack |-> 0, cmds |-> <<>>]
<1>1. /\ cl = SetState(NewSequencer(0), "Connecting") /\ sv = NewSequencer(1)
      /\ clCmds = <<>> /\ clSent = 0 /\ clGot = <<>>
      /\ received = FALSE /\ incoming = 0 /\ serving = FALSE
      /\ svSent = 0 /\ svGot = <<>> /\ c2s = {} /\ s2c = {}
  BY DEF Init
<1>2. 0 \in Word /\ 1 \in Word /\ Masked(0) = 0 /\ IsReliable(0) = FALSE
  BY SeqLimitAssumption DEF Word, Masked, IsReliable
<1>3. /\ cl \in SequencerType(ClientCommand) /\ sv \in SequencerType(ServerCommand)
      /\ cl.incomingSeq = 0 /\ cl.incomingAck = 0 /\ cl.lastReliableSeq = 0
      /\ cl.outgoingSeq = 0 /\ sv.outgoingSeq = 1 /\ sv.incomingSeq = 0
      /\ cl.isIncomingAckReliable = FALSE /\ cl.isOutgoingSeqReliable = FALSE
      /\ sv.isIncomingSeqReliable = FALSE
      /\ cl.outgoingCommands = <<>> /\ cl.outgoingCommandsBuf = <<>>
  <2>1. <<>> \in Seq(ClientCommand) /\ <<>> \in Seq(ServerCommand)
    BY EmptySeq
  <2>2. "Disconnected" \in States /\ "Connecting" \in States
    BY DEF States
  <2>3. /\ NewSequencer(0) \in SequencerType(ClientCommand)
        /\ NewSequencer(1) \in SequencerType(ServerCommand)
    BY <1>2, <2>1, <2>2 DEF NewSequencer, SequencerType
  <2>4. cl \in SequencerType(ClientCommand) /\ sv \in SequencerType(ServerCommand)
    BY <1>1, <2>2, <2>3, SetStateFields
  <2>5. cl = [NewSequencer(0) EXCEPT !.state = "Connecting"]
    BY <1>1, <2>2, <2>3, SetStateFields
  <2> QED BY <1>1, <2>4, <2>5 DEF NewSequencer
<1>4. TypeOK
  <2>1. <<>> \in Seq(ClientCommand) /\ <<>> \in Seq(ServerCommand)
    BY EmptySeq
  <2>2. 0 \in 0 .. MaxClientCmds /\ 0 \in 0 .. MaxServerCmds /\ 0 \in 0 .. (SeqLimit - 1)
    BY LinkAssumption, SeqLimitAssumption
  <2> QED BY <1>1, <1>3, <2>1, <2>2 DEF TypeOK
<1>5. LinkBounds
  BY <1>1, <1>3, LinkAssumption DEF LinkBounds
<1>6. ToServer = {} /\ ToClient = {zero} /\ zero.seq = 0 /\ zero.ack = 0
  BY <1>1, <1>3 DEF ToServer, ToClient, Audible
<1> HIDE DEF zero
<1>7. Direction(cl, sv, ToServer, ToClient)
  <2>1. ReleasedWhenHandled(cl, sv) /\ OnlyLatestBatch(cl, sv, ToServer)
    BY <1>3, <1>6 DEF ReleasedWhenHandled, OnlyLatestBatch
  <2>2. AcksSettle(cl, sv, ToClient)
    <3>1. \A q \in ToClient : Masked(q.seq) = 0 /\ IsReliable(q.ack) = FALSE
      BY <1>2, <1>6
    <3>2. \A q \in ToClient : /\ Masked(q.seq) < sv.outgoingSeq
                              /\ IsReliable(q.ack) = sv.isIncomingSeqReliable
      <4>1. \A q \in ToClient : Masked(q.seq) < sv.outgoingSeq
        BY <1>3, <3>1
      <4>2. \A q \in ToClient : IsReliable(q.ack) = sv.isIncomingSeqReliable
        BY <1>3, <3>1, Zenon
      <4> QED BY <4>1, <4>2
    <3> QED BY <3>2, Zenon DEF AcksSettle
  <2>3. ResendIsNeeded(cl, sv, cl.incomingAck, cl.isIncomingAckReliable)
    BY <1>3 DEF ResendIsNeeded
  <2>4. \A q \in ToClient : ResendIsNeeded(cl, sv, Masked(q.ack), IsReliable(q.ack))
    BY <1>2, <1>3, <1>6 DEF ResendIsNeeded
  <2> QED BY <1>3, <2>1, <2>2, <2>3, <2>4 DEF Direction
<1>8. Conserved(cl, sv, clCmds, clSent, svGot)
  <2>1. Undelivered(cl, sv) = <<>>
    BY <1>3 DEF Undelivered
  <2>2. Upto(0) = <<>>
    BY DEF Upto
  <2>3. <<>> \o <<>> = <<>>
    BY EmptySeq, ConcatEmpty
  <2> QED BY <1>1, <1>3, <2>1, <2>2, <2>3 DEF Conserved
<1> QED BY <1>4, <1>5, <1>7, <1>8 DEF LinkInv, ClientStreamInv

\* A step that only ends the serving of a packet preserves the invariant.
LEMMA StutterPreserves ==
    ASSUME LinkInv, UNCHANGED <<clVars, sv, received, incoming, svSent, svGot, c2s, s2c>>,
           serving' \in BOOLEAN
    PROVE  LinkInv'
<1>1. TypeOK'
  BY DEF LinkInv, TypeOK, clVars
<1>2. ClientStreamInv'
  BY DEF LinkInv, ClientStreamInv, LinkBounds, ToServer, ToClient, clVars
<1> QED BY <1>1, <1>2 DEF LinkInv

\* Every step of the connection preserves the invariant.
LEMMA NextPreserves == LinkInv /\ [Next]_vars => LinkInv'
<1> SUFFICES ASSUME LinkInv, [Next]_vars PROVE LinkInv'
  OBVIOUS
<1>1. CASE Enqueue
  BY <1>1, EnqueuePreserves
<1>2. CASE ReadTimeout
  BY <1>2, ReadTimeoutPreserves
<1>3. CASE \E q \in s2c : ClientRead(q)
  BY <1>3, ClientReadPreserves
<1>4. CASE \E p \in c2s : ServerRead(p)
  BY <1>4, ServerReadPreserves
<1>5. CASE Flush
  <2>1. PICK n \in 0 .. 1 : FlushClient(n)
    BY <1>5 DEF Flush
  <2>2. n \in Nat /\ serving' = serving
    BY <1>5 DEF Flush
  <2>3. serving' \in BOOLEAN
    BY <2>2 DEF LinkInv, TypeOK
  <2> QED BY <1>5, <2>1, <2>2, <2>3, FlushPreserves DEF Flush
<1>6. CASE Answer
  <2>1. PICK n \in 0 .. 2 : FlushClient(n)
    BY <1>6 DEF Answer
  <2>2. n \in Nat
    OBVIOUS
  <2>3. serving' \in BOOLEAN
    BY <1>6, Zenon DEF Answer
  <2> QED BY <1>6, <2>1, <2>2, <2>3, FlushPreserves DEF Answer
<1>7. CASE Consume
  BY <1>7, StutterPreserves DEF Consume
<1>8. CASE UNCHANGED vars
  <2>1. serving' \in BOOLEAN
    BY <1>8 DEF vars, svVars, LinkInv, TypeOK
  <2> QED BY <1>8, <2>1, StutterPreserves DEF vars, svVars
<1> QED BY <1>1, <1>2, <1>3, <1>4, <1>5, <1>6, <1>7, <1>8 DEF Next

\* Both sequencers and the network keep their types in every behaviour.
THEOREM TypeCorrect == Spec => []TypeOK
<1>1. LinkInv => TypeOK
  BY DEF LinkInv
<1> QED BY <1>1, InitEstablishes, NextPreserves, PTL DEF Spec

\* The inductive invariant of the client's stream holds in every behaviour, for
\* every number of packets and commands and either order of server packets.
THEOREM ClientStreamCorrect == Spec => []ClientStreamInv
<1>1. LinkInv => ClientStreamInv
  BY DEF LinkInv
<1> QED BY <1>1, InitEstablishes, NextPreserves, PTL DEF Spec
------------------------------------------------------------------------------
(* The connection implements a reliable stream of the client's commands.    *)

\* What the server has handled is a beginning of what the client has queued.
LEMMA HandledSoFar ==
    ASSUME LinkInv
    PROVE  svGot \in Seq(Nat) /\ Len(svGot) <= clSent /\ C2S!Follows(svGot, 0)
<1> DEFINE rest == Undelivered(cl, sv) \o (cl.outgoingCommands \o clCmds)
<1>1. /\ cl \in SequencerType(ClientCommand) /\ clCmds \in Seq(ClientCommand)
      /\ svGot \in Seq(ClientCommand) /\ clSent \in Nat
  BY LinkAssumption DEF LinkInv, TypeOK
<1>2. rest \in Seq(ClientCommand)
  <2>1. /\ Undelivered(cl, sv) \in Seq(ClientCommand)
        /\ cl.outgoingCommands \in Seq(ClientCommand)
    BY <1>1, UndeliveredType, SequencerFields
  <2>2. \A x, y \in Seq(ClientCommand) : x \o y \in Seq(ClientCommand)
    BY ConcatType
  <2> QED BY <1>1, <2>1, <2>2
<1>3. svGot \o rest = Upto(clSent)
  BY DEF LinkInv, ClientStreamInv, Conserved
<1>4. ClientCommand \subseteq Nat
  BY DEF ClientCommand
<1> HIDE DEF rest
<1>5. svGot \in Seq(Nat) /\ rest \in Seq(Nat)
  <2>1. \A x \in Seq(ClientCommand) : x \in Seq(Nat)
    BY <1>4, SeqMonotonic
  <2> QED BY <1>1, <1>2, <2>1
<1> QED BY <1>1, <1>3, <1>5, UptoPrefix

\* Every command of the client is handled by the server exactly once, in the
\* order in which it was queued, however the network loses, duplicates or
\* reorders the client's packets: a step of the connection is a step of the
\* abstract stream, or does not concern it.
THEOREM ClientStreamRefines == Spec => ClientCommandsExactlyOnce
<1>1. Init => C2S!Init
  BY DEF Init, C2S!Init
<1>2. LinkInv /\ LinkInv' /\ [Next]_vars => [C2S!Next]_<<clSent, svGot>>
  <2> SUFFICES ASSUME LinkInv, LinkInv', [Next]_vars
               PROVE  [C2S!Next]_<<clSent, svGot>>
    OBVIOUS
  <2>1. CASE Enqueue
    <3>1. clSent \in Nat
      BY LinkAssumption DEF LinkInv, TypeOK
    <3>2. clSent' = clSent + 1 /\ svGot' = svGot
      BY <2>1 DEF Enqueue, svVars
    <3> QED BY <3>1, <3>2 DEF C2S!Next, C2S!Send
  <2>2. CASE \E p \in c2s : ServerRead(p)
    <3>1. PICK p \in c2s : ServerRead(p)
      BY <2>2
    <3>2. clSent' = clSent /\ svGot' = svGot \o p.cmds
      BY <3>1 DEF ServerRead, clVars
    <3>3. svGot \in Seq(ClientCommand) /\ p.cmds \in Seq(ClientCommand)
      BY DEF LinkInv, TypeOK, Packet
    <3>4. /\ svGot \in Seq(Nat) /\ svGot' \in Seq(Nat)
          /\ Len(svGot') <= clSent' /\ C2S!Follows(svGot', 0)
      <4>1. svGot \in Seq(Nat)
        BY HandledSoFar
      <4>2. (svGot \in Seq(Nat) /\ Len(svGot) <= clSent /\ C2S!Follows(svGot, 0))'
        BY HandledSoFar, PTL
      <4> QED BY <4>1, <4>2
    <3>5. CASE p.cmds = <<>>
      BY <3>2, <3>3, <3>5, ConcatEmpty
    <3>6. CASE p.cmds # <<>>
      <4>1. Len(svGot) < Len(svGot')
        BY <3>2, <3>3, <3>6
      <4> QED BY <3>2, <3>4, <4>1 DEF C2S!Next, C2S!Deliver
    <3> QED BY <3>5, <3>6
  <2>3. CASE ReadTimeout
    BY <2>3 DEF ReadTimeout, svVars
  <2>4. CASE \E q \in s2c : ClientRead(q)
    BY <2>4 DEF ClientRead, svVars
  <2>5. CASE Flush \/ Answer \/ Consume
    BY <2>5 DEF Flush, Answer, Consume, clVars
  <2>6. CASE UNCHANGED vars
    BY <2>6 DEF vars, clVars, svVars
  <2> QED BY <2>1, <2>2, <2>3, <2>4, <2>5, <2>6 DEF Next
<1> QED
  BY <1>1, <1>2, InitEstablishes, NextPreserves, PTL DEF Spec, ClientCommandsExactlyOnce, C2S!Spec

------------------------------------------------------------------------------
(* The server as the sender.  The client hands the commands of every packet *)
(* to its handlers before its sequencer looks at the number, so a packet    *)
(* that was overtaken is handled and not acknowledged.  What the client's   *)
(* sequencer has yet to see still obeys Direction, whatever the order of    *)
(* arrival: that is enough to show that no command is let go of before it   *)
(* was handled, and with packets in order it gives the reliable stream.     *)

\* The packets of net that are news to the sequencer R.
Newer(net, R) == {q \in net : Masked(q.seq) > R.incomingSeq}

Handled(S, R) == S.isOutgoingSeqReliable = R.isIncomingSeqReliable

\* Every command is handled, in the batch or queued; the batch was handled when
\* the bits agree; and the packets under way carry nothing else.
Kept(S, R, net, sent, got) ==
    /\ 1 .. sent = Elements(got) \cup Elements(S.outgoingCommandsBuf)
                                 \cup Elements(S.outgoingCommands)
    /\ Handled(S, R) => Elements(S.outgoingCommandsBuf) \subseteq Elements(got)
    /\ \A q \in net : Elements(q.cmds) \subseteq 1 .. sent

\* Packets that cannot overtake each other are all news, and the stream is exact.
Ordered(S, R, net, sent, got) ==
    ~Reordering =>
        /\ \A q \in net : Masked(q.seq) > R.incomingSeq
        /\ Conserved(S, R, <<>>, sent, got)

ServerSide(S, R, net, acks, sent, got) ==
    /\ Direction(S, R, Newer(net, R), acks)
    /\ Kept(S, R, net, sent, got)
    /\ Ordered(S, R, net, sent, got)

ServerInv == LinkInv /\ ServerSide(sv, cl, s2c, ToServer, svSent, clGot)

------------------------------------------------------------------------------
(* The commands of a list.                                                  *)

\* A concatenation holds the commands of both its parts.
LEMMA ElementsConcat ==
    ASSUME NEW T, NEW a \in Seq(T), NEW b \in Seq(T)
    PROVE  Elements(a \o b) = Elements(a) \cup Elements(b)
<1>1. a \o b \in Seq(T) /\ Len(a \o b) = Len(a) + Len(b)
      /\ \A i \in 1 .. (Len(a) + Len(b)) :
            (a \o b)[i] = IF i <= Len(a) THEN a[i] ELSE b[i - Len(a)]
  BY ConcatProperties
<1>2. Len(a) \in Nat /\ Len(b) \in Nat
  OBVIOUS
<1>3. ASSUME NEW i \in 1 .. Len(a \o b)
      PROVE  (a \o b)[i] \in Elements(a) \cup Elements(b)
  <2>1. CASE i <= Len(a)
    <3>1. i \in 1 .. Len(a) /\ (a \o b)[i] = a[i]
      BY <1>1, <1>2, <1>3, <2>1
    <3> QED BY <3>1 DEF Elements
  <2>2. CASE ~(i <= Len(a))
    <3>1. i - Len(a) \in 1 .. Len(b) /\ (a \o b)[i] = b[i - Len(a)]
      BY <1>1, <1>2, <1>3, <2>2
    <3> QED BY <3>1 DEF Elements
  <2> QED BY <2>1, <2>2
<1>4. ASSUME NEW i \in 1 .. Len(a) PROVE a[i] \in Elements(a \o b)
  <2>1. i \in 1 .. Len(a \o b) /\ (a \o b)[i] = a[i]
    BY <1>1, <1>2
  <2> QED BY <2>1 DEF Elements
<1>5. ASSUME NEW i \in 1 .. Len(b) PROVE b[i] \in Elements(a \o b)
  <2>1. i + Len(a) \in 1 .. Len(a \o b) /\ (a \o b)[i + Len(a)] = b[i]
    <3>1. i + Len(a) \in 1 .. (Len(a) + Len(b)) /\ ~(i + Len(a) <= Len(a))
          /\ (i + Len(a)) - Len(a) = i
      BY <1>2
    <3> QED BY <1>1, <3>1
  <2>2. \E j \in 1 .. Len(a \o b) : b[i] = (a \o b)[j]
    BY <2>1
  <2> QED BY <2>2 DEF Elements
<1> QED BY <1>3, <1>4, <1>5 DEF Elements

\* new lists the n commands that follow the first sent.
AreNext(new, sent, n) == new = [i \in 1 .. n |-> sent + i]

\* The empty list holds nothing.
LEMMA ElementsEmpty == Elements(<<>>) = {}
BY DEF Elements

\* n new commands after the first sent are the numbers that follow.
LEMMA ElementsNew ==
    ASSUME NEW sent \in Nat, NEW n \in Nat
    PROVE  1 .. (sent + n) = 1 .. sent \cup Elements([i \in 1 .. n |-> sent + i])
<1> DEFINE new == [i \in 1 .. n |-> sent + i]
<1>1. Len(new) = n /\ \A i \in 1 .. n : new[i] = sent + i
  OBVIOUS
<1>2. \A i \in 1 .. n : sent + i \in 1 .. (sent + n)
  OBVIOUS
<1>3. \A k \in 1 .. (sent + n) : k \in 1 .. sent \/ (k - sent \in 1 .. n /\ k = sent + (k - sent))
  OBVIOUS
<1> HIDE DEF new
<1>4. Elements(new) = {sent + i : i \in 1 .. n}
  BY <1>1 DEF Elements
<1>5. 1 .. (sent + n) = 1 .. sent \cup Elements(new)
  BY <1>2, <1>3, <1>4
<1> QED BY <1>5 DEF new

------------------------------------------------------------------------------
(* What each step preserves of the server's side.                           *)

\* The side reads these fields only, and losing acknowledgements does not hurt.
LEMMA ServerSideDependsOn ==
    ASSUME NEW S, NEW R, NEW net, NEW acks, NEW sent, NEW got,
           ServerSide(S, R, net, acks, sent, got),
           NEW T, NEW U, NEW acks2 \in SUBSET acks,
           T.outgoingSeq = S.outgoingSeq, T.lastReliableSeq = S.lastReliableSeq,
           T.outgoingCommandsBuf = S.outgoingCommandsBuf,
           T.outgoingCommands = S.outgoingCommands,
           T.isOutgoingSeqReliable = S.isOutgoingSeqReliable,
           T.incomingAck = S.incomingAck,
           T.isIncomingAckReliable = S.isIncomingAckReliable,
           U.incomingSeq = R.incomingSeq, U.outgoingSeq = R.outgoingSeq,
           U.isIncomingSeqReliable = R.isIncomingSeqReliable
    PROVE  ServerSide(T, U, net, acks2, sent, got)
<1>1. Newer(net, U) = Newer(net, R)
  BY DEF Newer
<1>2. Direction(T, U, Newer(net, U), acks2)
  <2>1. Direction(S, R, Newer(net, R), acks)
    BY DEF ServerSide
  <2> QED BY <1>1, <2>1, DirectionDependsOn
<1>3. Kept(T, U, net, sent, got)
  BY Zenon DEF ServerSide, Kept, Handled
<1>4. Undelivered(T, U) = Undelivered(S, R)
  BY Zenon DEF Undelivered
<1>5. Ordered(T, U, net, sent, got)
  BY <1>4, Zenon DEF ServerSide, Ordered, Conserved
<1> QED BY <1>2, <1>3, <1>5 DEF ServerSide

\* The client handles a packet that its sequencer finds news: it is empty or the
\* batch in flight, and then the batch has been handled.
LEMMA NewsIsHandled ==
    ASSUME NEW C, NEW S \in SequencerType(C), NEW D, NEW R \in SequencerType(D),
           NEW net, NEW acks, Headers(net), Headers(acks),
           NEW sent \in Nat, NEW got \in Seq(C),
           ServerSide(S, R, net, acks, sent, got),
           NEW p \in net, p.cmds \in Seq(C), Masked(p.seq) > R.incomingSeq,
           NEW after \in SUBSET net,
           ~Reordering => \A r \in after : Masked(r.seq) > Masked(p.seq)
    PROVE  ServerSide(S, Incoming(R, p.seq, p.ack), after, acks, sent, got \o p.cmds)
<1> DEFINE U == Incoming(R, p.seq, p.ack)
<1>1. p.seq \in Word /\ p.ack \in Word /\ Masked(p.seq) \in Nat /\ R.incomingSeq \in Nat
      /\ Masked(p.seq) >= R.incomingSeq
  <2>1. p.seq \in Word /\ p.ack \in Word
    BY DEF Headers
  <2>2. Masked(p.seq) \in Nat /\ R.incomingSeq \in Nat
    BY <2>1, WordParts, SequencerFields
  <2> QED BY <2>1, <2>2
<1>2. /\ U.incomingSeq = Masked(p.seq)
      /\ U.isIncomingSeqReliable = IF IsReliable(p.seq) THEN ~R.isIncomingSeqReliable
                                                        ELSE R.isIncomingSeqReliable
  BY <1>1, IncomingFields
<1>3. /\ Direction(S, R, Newer(net, R), acks)
      /\ Kept(S, R, net, sent, got) /\ Ordered(S, R, net, sent, got)
  BY DEF ServerSide
<1>4. p \in Newer(net, R) /\ Headers(Newer(net, R))
  BY DEF Newer, Headers
<1>5. \A r \in net : Masked(r.seq) \in Nat
  BY WordParts DEF Headers
<1> DEFINE later == Newer(after, U)
<1>6. later \in SUBSET Newer(net, R) /\ \A r \in later : Masked(r.seq) > Masked(p.seq)
  <2> HIDE DEF U
  <2> QED BY <1>1, <1>2, <1>5 DEF Newer
<1> HIDE DEF later
<1>7. Direction(S, U, later, acks)
  BY <1>1, <1>3, <1>4, <1>6, ReceiverAccepts
<1>8. Elements(got \o p.cmds) = Elements(got) \cup Elements(p.cmds)
  BY ElementsConcat
<1>9. IsReliable(p.seq) => p.cmds = S.outgoingCommandsBuf /\ ~Handled(S, R)
  BY <1>3, <1>4 DEF Direction, OnlyLatestBatch, Handled
<1>10. ~IsReliable(p.seq) => p.cmds = <<>>
  BY <1>3, <1>4 DEF Direction, OnlyLatestBatch
<1>11. Conserved(S, R, <<>>, sent, got) => Conserved(S, U, <<>>, sent, got \o p.cmds)
  BY <1>1, <1>3, <1>4, EmptySeq, AcceptConserves
<1> HIDE DEF U
<1>12. Kept(S, U, after, sent, got \o p.cmds)
  <2>1. Elements(p.cmds) \subseteq 1 .. sent
    BY <1>3 DEF Kept
  <2>2. Handled(S, U) => Elements(S.outgoingCommandsBuf) \subseteq Elements(got \o p.cmds)
    <3>1. CASE IsReliable(p.seq)
      BY <1>8, <1>9, <3>1
    <3>2. CASE ~IsReliable(p.seq)
      <4>1. Handled(S, U) = Handled(S, R)
        BY <1>2, <3>2 DEF Handled
      <4> QED BY <1>3, <1>8, <4>1 DEF Kept
    <3> QED BY <3>1, <3>2
  <2>3. 1 .. sent = Elements(got \o p.cmds) \cup Elements(S.outgoingCommandsBuf)
                                            \cup Elements(S.outgoingCommands)
    BY <1>3, <1>8, <2>1, Zenon DEF Kept
  <2>4. \A q \in after : Elements(q.cmds) \subseteq 1 .. sent
    BY <1>3 DEF Kept
  <2> QED BY <2>2, <2>3, <2>4 DEF Kept
<1>13. Ordered(S, U, after, sent, got \o p.cmds)
  BY <1>2, <1>3, <1>11 DEF Ordered
<1>14. ServerSide(S, U, after, acks, sent, got \o p.cmds)
  BY <1>7, <1>12, <1>13 DEF ServerSide, later
<1> QED BY <1>14 DEF U

\* The client handles a packet that was overtaken: the sequencer ignores it, and
\* its commands had been sent.
LEMMA OvertakenIsHandled ==
    ASSUME NEW C, NEW S \in SequencerType(C), NEW R,
           NEW net, NEW acks, NEW sent \in Nat, NEW got \in Seq(C),
           ServerSide(S, R, net, acks, sent, got),
           NEW p \in net, p.cmds \in Seq(C), Masked(p.seq) < R.incomingSeq,
           ~(Masked(p.seq) > R.incomingSeq),
           NEW after \in SUBSET net
    PROVE  ServerSide(S, Incoming(R, p.seq, p.ack), after, acks, sent, got \o p.cmds)
<1>1. Incoming(R, p.seq, p.ack) = R
  BY DEF Incoming
<1>2. /\ Direction(S, R, Newer(net, R), acks)
      /\ Kept(S, R, net, sent, got) /\ Ordered(S, R, net, sent, got)
  BY DEF ServerSide
<1>3. Reordering
  BY <1>2 DEF Ordered
<1>4. Direction(S, R, Newer(after, R), acks)
  <2>1. Newer(after, R) \in SUBSET Newer(net, R)
    BY DEF Newer
  <2> QED BY <1>2, <2>1, DirectionDependsOn
<1>5. Elements(got \o p.cmds) = Elements(got) \cup Elements(p.cmds)
      /\ Elements(p.cmds) \subseteq 1 .. sent
  BY <1>2, ElementsConcat DEF Kept
<1>6. Kept(S, R, after, sent, got \o p.cmds)
  <2>1. 1 .. sent = Elements(got \o p.cmds) \cup Elements(S.outgoingCommandsBuf)
                                            \cup Elements(S.outgoingCommands)
    BY <1>2, <1>5, Zenon DEF Kept
  <2>2. Handled(S, R) => Elements(S.outgoingCommandsBuf) \subseteq Elements(got \o p.cmds)
    BY <1>2, <1>5 DEF Kept
  <2>3. \A q \in after : Elements(q.cmds) \subseteq 1 .. sent
    BY <1>2 DEF Kept
  <2> QED BY <2>1, <2>2, <2>3 DEF Kept
<1> QED BY <1>1, <1>3, <1>4, <1>6 DEF ServerSide, Ordered

\* The client answers: its acknowledgement joins those under way.
LEMMA ClientReplies ==
    ASSUME NEW C, NEW S \in SequencerType(C), NEW D, NEW R \in SequencerType(D),
           NEW net, NEW acks, Headers(net), Headers(acks), NEW cmds \in Seq(D),
           NEW sent, NEW got, ServerSide(S, R, net, acks, sent, got),
           R.outgoingSeq + 1 < SeqLimit, R.incomingSeq < SeqLimit,
           NEW q, q.seq = Outgoing(R, cmds).seq, q.ack = Outgoing(R, cmds).ack
    PROVE  ServerSide(S, Outgoing(R, cmds).next, net, acks \cup {q}, sent, got)
<1> DEFINE U == Outgoing(R, cmds).next
<1>1. /\ U.incomingSeq = R.incomingSeq
      /\ U.isIncomingSeqReliable = R.isIncomingSeqReliable
  BY OutgoingFields
<1>2. Direction(S, R, Newer(net, R), acks) /\ Headers(Newer(net, R))
  BY DEF ServerSide, Newer, Headers
<1>3. Direction(S, U, Newer(net, R), acks \cup {q})
  BY <1>2, ReceiverReplies
<1> HIDE DEF U
<1>4. Newer(net, U) = Newer(net, R)
  BY <1>1 DEF Newer
<1>5. Undelivered(S, U) = Undelivered(S, R)
  BY <1>1, Zenon DEF Undelivered
<1>6. Kept(S, U, net, sent, got) /\ Ordered(S, U, net, sent, got)
  BY <1>1, <1>5, Zenon DEF ServerSide, Kept, Handled, Ordered, Conserved
<1>7. ServerSide(S, U, net, acks \cup {q}, sent, got)
  BY <1>3, <1>4, <1>6 DEF ServerSide
<1> QED BY <1>7 DEF U

\* The server hears an acknowledgement: it lets go of a batch that was handled.
LEMMA ServerHears ==
    ASSUME NEW C, NEW S \in SequencerType(C), NEW D, NEW R \in SequencerType(D),
           NEW net, NEW acks, Headers(net), Headers(acks), NEW sent, NEW got,
           ServerSide(S, R, net, acks, sent, got),
           NEW q \in acks, Masked(q.seq) >= S.incomingSeq,
           NEW later \in SUBSET acks,
           \A r \in later : r = q \/ Masked(r.seq) > Masked(q.seq)
    PROVE  ServerSide(Incoming(S, q.seq, q.ack), R, net, later, sent, got)
<1> DEFINE T == Incoming(S, q.seq, q.ack)
<1>1. /\ T.outgoingCommandsBuf =
            IF IsReliable(q.ack) = S.isOutgoingSeqReliable
            THEN <<>> ELSE S.outgoingCommandsBuf
      /\ T.isOutgoingSeqReliable = S.isOutgoingSeqReliable
      /\ T.outgoingCommands = S.outgoingCommands
  BY IncomingFields DEF Headers
<1>2. /\ Direction(S, R, Newer(net, R), acks) /\ Headers(Newer(net, R))
      /\ Kept(S, R, net, sent, got) /\ Ordered(S, R, net, sent, got)
  BY DEF ServerSide, Newer, Headers
<1>3. Direction(T, R, Newer(net, R), later)
  BY <1>2, SenderHears
<1>4. Conserved(S, R, <<>>, sent, got) => Conserved(T, R, <<>>, sent, got)
  BY <1>2, HearConserves
<1>5. IsReliable(q.ack) = S.isOutgoingSeqReliable => Handled(S, R)
  <2>1. ~Handled(S, R) => IsReliable(q.ack) = R.isIncomingSeqReliable
    BY <1>2 DEF Direction, AcksSettle, Handled
  <2> QED BY <2>1 DEF Handled
<1> HIDE DEF T
<1>6. Kept(T, R, net, sent, got)
  <2>1. CASE IsReliable(q.ack) = S.isOutgoingSeqReliable
    <3>1. /\ Elements(T.outgoingCommandsBuf) = {}
          /\ Elements(S.outgoingCommandsBuf) \subseteq Elements(got)
      BY <1>1, <1>2, <1>5, <2>1, ElementsEmpty DEF Kept
    <3>2. 1 .. sent = Elements(got) \cup Elements(T.outgoingCommandsBuf)
                                    \cup Elements(T.outgoingCommands)
      BY <1>1, <1>2, <3>1, Zenon DEF Kept
    <3> QED BY <1>2, <3>1, <3>2 DEF Kept
  <2>2. CASE IsReliable(q.ack) # S.isOutgoingSeqReliable
    BY <1>1, <1>2, <2>2, Zenon DEF Kept, Handled
  <2> QED BY <2>1, <2>2
<1>7. Ordered(T, R, net, sent, got)
  BY <1>2, <1>4 DEF Ordered
<1> QED BY <1>3, <1>6, <1>7 DEF ServerSide, T

\* Outgoing moves the queue into an empty batch, or leaves both where they are.
LEMMA EmitMoves ==
    ASSUME NEW C, NEW S \in SequencerType(C), NEW cmds \in Seq(C),
           S.outgoingSeq + 1 < SeqLimit, S.incomingSeq < SeqLimit
    PROVE  LET T     == Outgoing(S, cmds).next
               batch == S.outgoingCommands \o cmds
               start == S.outgoingCommandsBuf = <<>> /\ batch # <<>>
           IN
           /\ start => /\ T.outgoingCommandsBuf = batch
                       /\ T.outgoingCommands = <<>>
                       /\ T.isOutgoingSeqReliable = ~S.isOutgoingSeqReliable
           /\ ~start => /\ T.outgoingCommandsBuf = S.outgoingCommandsBuf
                        /\ T.outgoingCommands = batch
                        /\ T.isOutgoingSeqReliable = S.isOutgoingSeqReliable
BY OutgoingFields

\* flushClient: new commands are queued, and a packet joins those under way.
LEMMA ServerEmits ==
    ASSUME NEW C, NEW S \in SequencerType(C), NEW D, NEW R \in SequencerType(D),
           NEW net, NEW acks, Headers(net), Headers(acks),
           NEW sent \in Nat, NEW n \in Nat, NEW got \in Seq(C),
           NEW new \in Seq(C), AreNext(new, sent, n),
           ServerSide(S, R, net, acks, sent, got),
           S.outgoingSeq + 1 < SeqLimit, S.incomingSeq < SeqLimit,
           R.incomingSeq < S.outgoingSeq,
           NEW p, p.seq = Outgoing(S, new).seq, p.cmds = Outgoing(S, new).cmds
    PROVE  ServerSide(Outgoing(S, new).next, R, net \cup {p}, acks, sent + n, got)
<1> DEFINE T == Outgoing(S, new).next
           batch == S.outgoingCommands \o new
           start == S.outgoingCommandsBuf = <<>> /\ batch # <<>>
           resend == MustResend(S)
<1>1. /\ Masked(p.seq) = S.outgoingSeq
      /\ p.cmds = IF start \/ resend THEN T.outgoingCommandsBuf ELSE <<>>
      /\ start => /\ T.outgoingCommandsBuf = batch
                  /\ T.outgoingCommands = <<>>
                  /\ T.isOutgoingSeqReliable = ~S.isOutgoingSeqReliable
      /\ ~start => /\ T.outgoingCommandsBuf = S.outgoingCommandsBuf
                   /\ T.outgoingCommands = batch
                   /\ T.isOutgoingSeqReliable = S.isOutgoingSeqReliable
  <2>1. /\ Masked(p.seq) = S.outgoingSeq
        /\ p.cmds = IF start \/ resend THEN T.outgoingCommandsBuf ELSE <<>>
    BY OutgoingFields
  <2>2. /\ start => /\ T.outgoingCommandsBuf = batch
                    /\ T.outgoingCommands = <<>>
                    /\ T.isOutgoingSeqReliable = ~S.isOutgoingSeqReliable
        /\ ~start => /\ T.outgoingCommandsBuf = S.outgoingCommandsBuf
                     /\ T.outgoingCommands = batch
                     /\ T.isOutgoingSeqReliable = S.isOutgoingSeqReliable
    BY EmitMoves
  <2> HIDE DEF T, batch, start, resend
  <2> QED BY <2>1, <2>2
<1>2. /\ Direction(S, R, Newer(net, R), acks) /\ Headers(Newer(net, R))
      /\ Kept(S, R, net, sent, got) /\ Ordered(S, R, net, sent, got)
  BY DEF ServerSide, Newer, Headers
<1>3. /\ S.outgoingSeq \in Nat /\ R.incomingSeq \in Nat
      /\ S.outgoingCommands \in Seq(C) /\ S.outgoingCommandsBuf \in Seq(C)
      /\ S.isOutgoingSeqReliable \in BOOLEAN /\ R.isIncomingSeqReliable \in BOOLEAN
  BY SequencerFields
<1>4. Masked(p.seq) > R.incomingSeq
  BY <1>1, <1>3
<1>5. Newer(net \cup {p}, R) = Newer(net, R) \cup {p}
  BY <1>4 DEF Newer
<1>6. \A r \in Newer(net, R) : Masked(r.seq) >= R.incomingSeq
  <2>1. \A r \in net : Masked(r.seq) \in Nat
    BY WordParts DEF Headers
  <2> QED BY <1>3, <2>1 DEF Newer
<1>7. Direction(T, R, Newer(net, R) \cup {p}, acks)
  BY <1>2, <1>6, SenderEmits
<1>8. Conserved(S, R, <<>>, sent, got) => Conserved(T, R, <<>>, sent + n, got)
  <2> SUFFICES ASSUME Conserved(S, R, <<>>, sent, got)
               PROVE  Conserved(T, R, <<>>, sent + n, got)
    OBVIOUS
  <2>1. <<>> \in Seq(C) /\ <<>> \o new = new
    BY EmptySeq, ConcatEmpty
  <2>2. Conserved(S, R, <<>> \o new, sent + n, got)
    BY <2>1, EnqueueConserves DEF AreNext
  <2>3. ReleasedWhenHandled(S, R)
    BY <1>2 DEF Direction
  <2> QED BY <2>1, <2>2, <2>3, EmitConserves
<1>9. start => Handled(S, R)
  BY <1>2 DEF Direction, ReleasedWhenHandled, Handled
<1>10. Elements(batch) = Elements(S.outgoingCommands) \cup Elements(new)
  BY <1>3, ElementsConcat
<1>11. 1 .. (sent + n) = 1 .. sent \cup Elements(new)
  BY ElementsNew DEF AreNext
<1> HIDE DEF T, batch, start, resend
<1>12. /\ Elements(T.outgoingCommandsBuf) \cup Elements(T.outgoingCommands) =
             Elements(S.outgoingCommandsBuf) \cup Elements(batch)
       /\ Handled(T, R) => Elements(T.outgoingCommandsBuf) \subseteq Elements(got)
  <2>1. CASE start
    <3>1. S.outgoingCommandsBuf = <<>>
      BY <2>1 DEF start
    <3>2. ~Handled(T, R)
      BY <1>1, <1>3, <1>9, <2>1 DEF Handled
    <3>3. T.outgoingCommandsBuf = batch /\ T.outgoingCommands = <<>>
      BY <1>1, <2>1
    <3>4. Elements(T.outgoingCommands) = {} /\ Elements(S.outgoingCommandsBuf) = {}
      BY <3>1, <3>3, ElementsEmpty
    <3> QED BY <3>2, <3>3, <3>4
  <2>2. CASE ~start
    BY <1>1, <1>2, <2>2 DEF Kept, Handled
  <2> QED BY <2>1, <2>2
<1>13. 1 .. (sent + n) = Elements(got) \cup Elements(T.outgoingCommandsBuf)
                                       \cup Elements(T.outgoingCommands)
  <2>1. 1 .. sent = Elements(got) \cup Elements(S.outgoingCommandsBuf)
                                  \cup Elements(S.outgoingCommands)
    BY <1>2 DEF Kept
  <2>2. 1 .. (sent + n) = Elements(got) \cup (Elements(S.outgoingCommandsBuf)
                                              \cup Elements(batch))
    BY <1>10, <1>11, <2>1
  <2> QED BY <1>12, <2>2
<1>14. Kept(T, R, net \cup {p}, sent + n, got)
  <2>1. \A q \in net : Elements(q.cmds) \subseteq 1 .. (sent + n)
    BY <1>2, <1>11 DEF Kept
  <2>2. Elements(p.cmds) \subseteq 1 .. (sent + n)
    BY <1>1, <1>13, ElementsEmpty
  <2> QED BY <1>12, <1>13, <2>1, <2>2 DEF Kept
<1>15. Ordered(T, R, net \cup {p}, sent + n, got)
  BY <1>2, <1>4, <1>8 DEF Ordered
<1>16. ServerSide(T, R, net \cup {p}, acks, sent + n, got)
  BY <1>5, <1>7, <1>14, <1>15 DEF ServerSide
<1> QED BY <1>16 DEF T

------------------------------------------------------------------------------
(* The steps of the connection.                                             *)

\* The second half of Process, as far as the server's side can see it: the
\* client's sequencer has become H, and sends an acknowledgement or not.
LEMMA ProcessKeepsServerSide ==
    ASSUME ServerInv, NEW s, NEW seq, NEW ack, Process(s, seq, ack),
           s.outgoingSeq = cl.outgoingSeq, svVars' = svVars,
           Incoming(s, seq, ack) \in SequencerType(ClientCommand),
           Incoming(s, seq, ack).outgoingSeq = s.outgoingSeq,
           Incoming(s, seq, ack).incomingSeq < SeqLimit,
           NEW net, Headers(net), NEW got,
           ServerSide(sv, Incoming(s, seq, ack), net, ToServer, svSent, got)
    PROVE  ServerSide(sv, cl', net, ToServer', svSent, got)
<1> DEFINE H == Incoming(s, seq, ack)
           p == [seq |-> Outgoing(H, clCmds).seq,
                 ack |-> Outgoing(H, clCmds).ack,
                 cmds |-> Outgoing(H, clCmds).cmds]
<1>1. \/ cl' = Queued(H, clCmds) /\ c2s' = c2s
      \/ s.outgoingSeq < MaxClientSeq /\ cl' = Outgoing(H, clCmds).next /\ c2s' = c2s \cup {p}
  BY Zenon DEF Process
<1>2. /\ clCmds \in Seq(ClientCommand) /\ sv \in SequencerType(ServerCommand)
      /\ Headers(ToServer)
  BY TypeFacts DEF ServerInv, LinkInv, TypeOK
<1>3. H \in SequencerType(ClientCommand) /\ H.outgoingSeq = cl.outgoingSeq
      /\ H.incomingSeq < SeqLimit
      /\ ServerSide(sv, H, net, ToServer, svSent, got)
  OBVIOUS
<1>4. received' = received /\ incoming' = incoming
  BY DEF svVars
<1>5. p.seq = Outgoing(H, clCmds).seq /\ p.ack = Outgoing(H, clCmds).ack
  OBVIOUS
<1> HIDE DEF H, p
<1>6. CASE cl' = Queued(H, clCmds) /\ c2s' = c2s
  <2>1. cl' = [H EXCEPT !.outgoingCommands = H.outgoingCommands \o clCmds]
    BY <1>2, <1>3, <1>6, QueuedFields
  <2>2. /\ cl'.incomingSeq = H.incomingSeq /\ cl'.outgoingSeq = H.outgoingSeq
        /\ cl'.isIncomingSeqReliable = H.isIncomingSeqReliable
    BY <1>3, <2>1 DEF SequencerType
  <2>3. ToServer' = ToServer
    BY <1>4, <1>6 DEF ToServer
  <2> QED BY <1>3, <2>2, <2>3, ServerSideDependsOn
<1>7. CASE /\ s.outgoingSeq < MaxClientSeq /\ cl' = Outgoing(H, clCmds).next
           /\ c2s' = c2s \cup {p}
  <2>1. H.outgoingSeq + 1 < SeqLimit
    BY <1>3, <1>7, ClientMayEmit DEF ServerInv
  <2>2. ServerSide(sv, cl', net, ToServer \cup {p}, svSent, got)
    BY <1>2, <1>3, <1>5, <1>7, <2>1, ClientReplies
  <2>3. ToServer' \in SUBSET (ToServer \cup {p})
    BY <1>4, <1>7 DEF ToServer
  <2> QED BY <2>2, <2>3, ServerSideDependsOn
<1> QED BY <1>1, <1>6, <1>7

\* A read timeout tells the sequencer nothing about the server's packets.
LEMMA ReadTimeoutServer ==
    ASSUME ServerInv, ReadTimeout
    PROVE  ServerSide(sv, cl, s2c, ToServer, svSent, clGot)'
<1> DEFINE H == Incoming(cl, 0, 0)
<1>1. /\ Process(cl, 0, 0) /\ clGot' = clGot /\ s2c' = s2c /\ svVars' = svVars
      /\ sv' = sv /\ svSent' = svSent
  BY DEF ReadTimeout, svVars
<1>2. cl \in SequencerType(ClientCommand) /\ Headers(s2c) /\ cl.incomingSeq \in Nat
      /\ cl.isIncomingSeqReliable \in BOOLEAN
  BY TypeFacts, SequencerFields DEF ServerInv, LinkInv
<1>3. 0 \in Word /\ Masked(0) = 0 /\ ~IsReliable(0)
  BY SeqLimitAssumption DEF Word, Masked, IsReliable
<1>4. /\ H \in SequencerType(ClientCommand) /\ H.incomingSeq = cl.incomingSeq
      /\ H.outgoingSeq = cl.outgoingSeq
      /\ H.isIncomingSeqReliable = cl.isIncomingSeqReliable
  <2>1. CASE cl.incomingSeq = 0
    <3>1. Masked(0) >= cl.incomingSeq
      BY <1>3, <2>1
    <3> QED BY <1>2, <1>3, <2>1, <3>1, IncomingFields
  <2>2. CASE cl.incomingSeq # 0
    <3>1. Masked(0) < cl.incomingSeq
      BY <1>2, <1>3, <2>2
    <3>2. H = cl
      BY <3>1 DEF Incoming
    <3> QED BY <1>2, <3>2
  <2> QED BY <2>1, <2>2
<1>5. H.incomingSeq < SeqLimit
  BY <1>4, ClientMayEmit DEF ServerInv
<1> HIDE DEF H
<1>6. ServerSide(sv, H, s2c, ToServer, svSent, clGot)
  <2>1. ServerSide(sv, cl, s2c, ToServer, svSent, clGot)
    BY DEF ServerInv
  <2> QED BY <1>4, <2>1, ServerSideDependsOn
<1>7. ServerSide(sv, cl', s2c, ToServer', svSent, clGot)
  BY <1>1, <1>2, <1>4, <1>5, <1>6, ProcessKeepsServerSide DEF H
<1> QED BY <1>1, <1>7

\* Reading a server packet keeps the server's side, in order or overtaken.
LEMMA ClientReadServer ==
    ASSUME ServerInv, NEW q \in s2c, ClientRead(q)
    PROVE  ServerSide(sv, cl, s2c, ToServer, svSent, clGot)'
<1>1. PICK st \in {"Connecting", "Connected"} : Process(SetState(cl, st), q.seq, q.ack)
  BY DEF ClientRead
<1>2. /\ clGot' = clGot \o q.cmds /\ svVars' = svVars /\ s2c' = After(q)
      /\ sv' = sv /\ svSent' = svSent
  BY DEF ClientRead, svVars
<1> DEFINE s == SetState(cl, st)
           H == Incoming(s, q.seq, q.ack)
<1>3. /\ cl \in SequencerType(ClientCommand) /\ sv \in SequencerType(ServerCommand)
      /\ Headers(s2c) /\ Headers(ToServer) /\ LinkInv
      /\ clGot \in Seq(ServerCommand) /\ q.cmds \in Seq(ServerCommand)
      /\ svSent \in Nat
  BY TypeFacts, LinkAssumption DEF ServerInv, LinkInv, TypeOK, Packet
<1>4. /\ s \in SequencerType(ClientCommand) /\ s.incomingSeq = cl.incomingSeq
      /\ s.outgoingSeq = cl.outgoingSeq
      /\ s.isIncomingSeqReliable = cl.isIncomingSeqReliable
  BY <1>3, SetStateFields DEF States
<1> HIDE DEF s
<1>5. ServerSide(sv, s, s2c, ToServer, svSent, clGot)
  <2>1. ServerSide(sv, cl, s2c, ToServer, svSent, clGot)
    BY DEF ServerInv
  <2> QED BY <1>4, <2>1, ServerSideDependsOn
<1>6. /\ q.seq \in Word /\ q.ack \in Word
      /\ Masked(q.seq) \in Nat /\ Masked(q.seq) < SeqLimit
      /\ Masked(q.seq) # cl.incomingSeq /\ cl.incomingSeq \in Nat
      /\ cl.incomingSeq < SeqLimit
  <2>1. q.seq \in Word /\ q.ack \in Word
    BY <1>3 DEF Headers
  <2>2. Masked(q.seq) # cl.incomingSeq
    BY <1>3 DEF LinkInv, ClientStreamInv, LinkBounds
  <2> QED BY <1>3, <2>1, <2>2, WordParts, SequencerFields, ClientMayEmit
<1>7. After(q) \in SUBSET s2c /\ Headers(After(q))
      /\ (~Reordering => \A r \in After(q) : Masked(r.seq) > Masked(q.seq))
  BY <1>3 DEF After, Headers
<1>8. /\ H \in SequencerType(ClientCommand) /\ H.outgoingSeq = s.outgoingSeq
      /\ H.incomingSeq < SeqLimit
      /\ ServerSide(sv, H, After(q), ToServer, svSent, clGot \o q.cmds)
  <2>1. CASE Masked(q.seq) > cl.incomingSeq
    <3>1. Masked(q.seq) >= s.incomingSeq /\ Masked(q.seq) > s.incomingSeq
      BY <1>4, <1>6, <2>1
    <3>2. /\ H \in SequencerType(ClientCommand) /\ H.outgoingSeq = s.outgoingSeq
          /\ H.incomingSeq = Masked(q.seq)
      BY <1>4, <1>6, <3>1, IncomingFields
    <3>3. ServerSide(sv, H, After(q), ToServer, svSent, clGot \o q.cmds)
      BY <1>3, <1>4, <1>5, <1>7, <3>1, NewsIsHandled
    <3> QED BY <1>6, <3>2, <3>3
  <2>2. CASE Masked(q.seq) < cl.incomingSeq
    <3>1. Masked(q.seq) < s.incomingSeq /\ ~(Masked(q.seq) > s.incomingSeq)
      BY <1>4, <1>6, <2>2
    <3>2. H = s
      BY <3>1 DEF Incoming
    <3>3. ServerSide(sv, H, After(q), ToServer, svSent, clGot \o q.cmds)
      BY <1>3, <1>4, <1>5, <1>7, <3>1, OvertakenIsHandled
    <3> HIDE DEF H
    <3> QED BY <1>4, <1>6, <3>2, <3>3
  <2> QED BY <1>6, <2>1, <2>2
<1>9. Process(s, q.seq, q.ack)
  BY <1>1 DEF s
<1> HIDE DEF H
<1>10. ServerSide(sv, cl', After(q), ToServer', svSent, clGot \o q.cmds)
  BY <1>2, <1>4, <1>7, <1>8, <1>9, ProcessKeepsServerSide DEF H
<1> QED BY <1>2, <1>10

\* acceptPacket passes an acknowledgement to the server's sequencer.
LEMMA ServerReadServer ==
    ASSUME ServerInv, NEW p \in c2s, ServerRead(p)
    PROVE  ServerSide(sv, cl, s2c, ToServer, svSent, clGot)'
<1> DEFINE U == Incoming(sv, p.seq, p.ack)
<1>1. /\ received' = TRUE /\ incoming' = Masked(p.seq)
      /\ sv' = SetState(U, "Connected") /\ svSent' = svSent
      /\ c2s' = c2s /\ s2c' = s2c /\ cl' = cl /\ clGot' = clGot /\ AcceptPacket(p)
  BY DEF ServerRead, clVars
<1>2. LinkInv
  BY DEF ServerInv
<1>3. p \in ToServer /\ Masked(p.seq) >= sv.incomingSeq
  BY <1>1, <1>2, AcceptedIsAhead, ServerAhead
<1>4. /\ cl \in SequencerType(ClientCommand) /\ sv \in SequencerType(ServerCommand)
      /\ Headers(ToServer) /\ Headers(s2c) /\ Headers(c2s)
  BY <1>2, TypeFacts DEF LinkInv
<1>5. p.seq \in Word /\ p.ack \in Word /\ \A r \in c2s : Masked(r.seq) \in Nat
  BY <1>4, WordParts DEF Headers
<1>6. U \in SequencerType(ServerCommand)
  BY <1>3, <1>4, <1>5, IncomingFields
<1>7. ToServer' \in SUBSET ToServer /\ \A r \in ToServer' : Masked(r.seq) > Masked(p.seq)
  <2>1. received => Masked(p.seq) > incoming
    BY <1>3 DEF ToServer
  <2>2. incoming \in Nat
    BY <1>2, SeqLimitAssumption DEF LinkInv, TypeOK
  <2>3. ToServer' = {r \in c2s : Masked(r.seq) > Masked(p.seq)}
    BY <1>1 DEF ToServer
  <2> QED BY <1>5, <2>1, <2>2, <2>3 DEF ToServer
<1>8. ServerSide(sv, cl, s2c, ToServer, svSent, clGot)
  BY DEF ServerInv
<1>9. ServerSide(U, cl, s2c, ToServer', svSent, clGot)
  BY <1>3, <1>4, <1>7, <1>8, ServerHears
<1> HIDE DEF U
<1>10. "Connected" \in States
  BY DEF States
<1>11. ServerSide(sv', cl, s2c, ToServer', svSent, clGot)
  BY <1>1, <1>6, <1>9, <1>10, SetStateFields, ServerSideDependsOn
<1> QED BY <1>1, <1>11

\* flushClient keeps the server's side, on whichever goroutine it runs.
LEMMA FlushServer ==
    ASSUME ServerInv, NEW n \in Nat, FlushClient(n),
           clVars' = clVars, received' = received, incoming' = incoming, c2s' = c2s
    PROVE  ServerSide(sv, cl, s2c, ToServer, svSent, clGot)'
<1> DEFINE new == [i \in 1 .. n |-> svSent + i]
           q == [seq |-> Outgoing(sv, new).seq, ack |-> Outgoing(sv, new).ack,
                 cmds |-> Outgoing(sv, new).cmds]
<1>1. /\ sv.outgoingSeq < MaxServerSeq /\ svSent + n <= MaxServerCmds
      /\ svSent' = svSent + n /\ sv' = Outgoing(sv, new).next
      /\ s2c' = s2c \cup {q}
  BY Zenon DEF FlushClient
<1>2. cl' = cl /\ clGot' = clGot /\ ToServer' = ToServer
  BY DEF clVars, ToServer
<1>3. /\ cl \in SequencerType(ClientCommand) /\ sv \in SequencerType(ServerCommand)
      /\ Headers(ToServer) /\ Headers(s2c) /\ LinkInv
      /\ clGot \in Seq(ServerCommand) /\ svSent \in Nat
  BY TypeFacts, LinkAssumption DEF ServerInv, LinkInv, TypeOK
<1>4. new \in Seq(ServerCommand)
  BY <1>1, LinkAssumption DEF ServerCommand, ServerInv, LinkInv, TypeOK
<1>5. sv.outgoingSeq + 1 < SeqLimit /\ sv.incomingSeq < SeqLimit
      /\ cl.incomingSeq < sv.outgoingSeq
  BY <1>1, <1>3, ClientMayEmit DEF LinkInv, ClientStreamInv, LinkBounds
<1>6. /\ q.seq = Outgoing(sv, new).seq /\ q.cmds = Outgoing(sv, new).cmds
      /\ AreNext(new, svSent, n)
  BY DEF AreNext
<1> HIDE DEF new, q
<1>7. ServerSide(sv, cl, s2c, ToServer, svSent, clGot)
  BY DEF ServerInv
<1>8. ServerSide(sv', cl, s2c \cup {q}, ToServer, svSent + n, clGot)
  BY <1>1, <1>3, <1>4, <1>5, <1>6, <1>7, ServerEmits
<1> QED BY <1>1, <1>2, <1>8

\* A fresh connection satisfies the invariant.
LEMMA InitServer == Init => ServerInv
<1> SUFFICES ASSUME Init PROVE ServerInv
  OBVIOUS
<1>1. /\ cl = SetState(NewSequencer(0), "Connecting") /\ sv = NewSequencer(1)
      /\ clGot = <<>> /\ svSent = 0 /\ c2s = {} /\ s2c = {}
  BY DEF Init
<1>2. /\ cl.incomingSeq = 0 /\ cl.outgoingSeq = 0 /\ cl.isIncomingSeqReliable = FALSE
      /\ sv.outgoingSeq = 1 /\ sv.incomingAck = 0 /\ sv.lastReliableSeq = 0
      /\ sv.isIncomingAckReliable = FALSE /\ sv.isOutgoingSeqReliable = FALSE
      /\ sv.outgoingCommands = <<>> /\ sv.outgoingCommandsBuf = <<>>
  BY <1>1 DEF NewSequencer, SetState
<1>3. Newer(s2c, cl) = {} /\ ToServer = {}
  BY <1>1 DEF Newer, ToServer
<1>4. Direction(sv, cl, Newer(s2c, cl), ToServer)
  <2>1. ReleasedWhenHandled(sv, cl)
    BY <1>2 DEF ReleasedWhenHandled
  <2>2. OnlyLatestBatch(sv, cl, {}) /\ AcksSettle(sv, cl, {})
    BY DEF OnlyLatestBatch, AcksSettle
  <2>3. ResendIsNeeded(sv, cl, sv.incomingAck, sv.isIncomingAckReliable)
    BY <1>2 DEF ResendIsNeeded
  <2>4. sv.lastReliableSeq <= sv.outgoingSeq /\ cl.incomingSeq <= sv.outgoingSeq
    BY <1>2
  <2> QED BY <1>3, <2>1, <2>2, <2>3, <2>4 DEF Direction
<1>5. Kept(sv, cl, s2c, svSent, clGot)
  <2>1. 1 .. 0 = {}
    OBVIOUS
  <2> QED BY <1>1, <1>2, <2>1, ElementsEmpty DEF Kept
<1>6. Ordered(sv, cl, s2c, svSent, clGot)
  <2>1. Undelivered(sv, cl) = <<>>
    BY <1>2 DEF Undelivered
  <2>2. Upto(0) = <<>>
    BY DEF Upto
  <2>3. <<>> \o <<>> = <<>>
    BY EmptySeq, ConcatEmpty
  <2> QED BY <1>1, <1>2, <2>1, <2>2, <2>3 DEF Ordered, Conserved
<1> QED BY <1>4, <1>5, <1>6, InitEstablishes DEF ServerInv, ServerSide

\* A step that leaves the sequencers and the network alone keeps the side.
LEMMA SameServer ==
    ASSUME ServerInv, UNCHANGED <<cl, sv, received, incoming, svSent, clGot, c2s, s2c>>
    PROVE  ServerSide(sv, cl, s2c, ToServer, svSent, clGot)'
BY DEF ServerInv, ToServer

\* Every step of the connection preserves the invariant.
LEMMA NextServer == ServerInv /\ [Next]_vars => ServerInv'
<1> SUFFICES ASSUME ServerInv, [Next]_vars
             PROVE  ServerSide(sv, cl, s2c, ToServer, svSent, clGot)'
  BY NextPreserves DEF ServerInv
<1>1. CASE Enqueue
  BY <1>1, SameServer DEF Enqueue, svVars
<1>2. CASE ReadTimeout
  BY <1>2, ReadTimeoutServer
<1>3. CASE \E q \in s2c : ClientRead(q)
  BY <1>3, ClientReadServer
<1>4. CASE \E p \in c2s : ServerRead(p)
  BY <1>4, ServerReadServer
<1>5. CASE Flush
  <2>1. PICK n \in 0 .. 1 : FlushClient(n)
    BY <1>5 DEF Flush
  <2>2. n \in Nat
    OBVIOUS
  <2> QED BY <1>5, <2>1, <2>2, FlushServer DEF Flush
<1>6. CASE Answer
  <2>1. PICK n \in 0 .. 2 : FlushClient(n)
    BY <1>6 DEF Answer
  <2>2. n \in Nat
    OBVIOUS
  <2> QED BY <1>6, <2>1, <2>2, FlushServer DEF Answer
<1>7. CASE Consume
  BY <1>7, SameServer DEF Consume, clVars
<1>8. CASE UNCHANGED vars
  BY <1>8, SameServer DEF vars, clVars, svVars
<1> QED BY <1>1, <1>2, <1>3, <1>4, <1>5, <1>6, <1>7, <1>8 DEF Next

------------------------------------------------------------------------------
(* What the connection guarantees the server.                               *)

\* The server's sequencer lets go of a reliable command only when the client has
\* handled it, for every number of packets and commands and also when packets
\* overtake each other on the way.
THEOREM KeptTheorem == Spec => []ServerCommandsKept
<1>1. ServerInv => ServerCommandsKept
  BY DEF ServerInv, ServerSide, Kept, ServerCommandsKept
<1> QED BY <1>1, InitServer, NextServer, PTL DEF Spec

\* The inductive invariant of the server's stream holds in every behaviour.
THEOREM ServerStreamCorrect == Spec => []ServerStreamInv
<1>1. ServerInv => ServerStreamInv
  <2> SUFFICES ASSUME ServerInv PROVE ServerStreamInv
    OBVIOUS
  <2>1. LinkBounds
    BY DEF ServerInv, LinkInv, ClientStreamInv
  <2>2. ASSUME ~Reordering
        PROVE  /\ Direction(sv, cl, s2c, ToServer)
               /\ \A q \in s2c : Masked(q.seq) > cl.incomingSeq
               /\ Conserved(sv, cl, <<>>, svSent, clGot)
    <3>1. /\ Direction(sv, cl, Newer(s2c, cl), ToServer)
          /\ \A q \in s2c : Masked(q.seq) > cl.incomingSeq
          /\ Conserved(sv, cl, <<>>, svSent, clGot)
      BY <2>2 DEF ServerInv, ServerSide, Ordered
    <3>2. Newer(s2c, cl) = s2c
      BY <3>1 DEF Newer
    <3> QED BY <3>1, <3>2
  <2> QED BY <2>1, <2>2 DEF ServerStreamInv
<1> QED BY <1>1, InitServer, NextServer, PTL DEF Spec

\* What the client has handled is a beginning of what the server has queued.
LEMMA ClientHandledSoFar ==
    ASSUME ServerInv, ~Reordering
    PROVE  clGot \in Seq(Nat) /\ Len(clGot) <= svSent /\ S2C!Follows(clGot, 0)
<1> DEFINE rest == Undelivered(sv, cl) \o (sv.outgoingCommands \o <<>>)
<1>1. /\ sv \in SequencerType(ServerCommand) /\ <<>> \in Seq(ServerCommand)
      /\ clGot \in Seq(ServerCommand) /\ svSent \in Nat
  BY LinkAssumption, EmptySeq DEF ServerInv, LinkInv, TypeOK
<1>2. rest \in Seq(ServerCommand)
  <2>1. /\ Undelivered(sv, cl) \in Seq(ServerCommand)
        /\ sv.outgoingCommands \in Seq(ServerCommand)
    BY <1>1, UndeliveredType, SequencerFields
  <2>2. \A x, y \in Seq(ServerCommand) : x \o y \in Seq(ServerCommand)
    BY ConcatType
  <2> QED BY <1>1, <2>1, <2>2
<1>3. clGot \o rest = Upto(svSent)
  BY DEF ServerInv, ServerSide, Ordered, Conserved
<1>4. ServerCommand \subseteq Nat
  BY DEF ServerCommand
<1> HIDE DEF rest
<1>5. clGot \in Seq(Nat) /\ rest \in Seq(Nat)
  <2>1. \A x \in Seq(ServerCommand) : x \in Seq(Nat)
    BY <1>4, SeqMonotonic
  <2> QED BY <1>1, <1>2, <2>1
<1>6. Len(clGot) <= svSent /\ C2S!Follows(clGot, 0)
  BY <1>1, <1>3, <1>5, UptoPrefix
<1> QED BY <1>5, <1>6 DEF C2S!Follows, S2C!Follows

\* When the server's packets do not overtake each other, every command of the
\* server is handled by the client exactly once, in the order in which it was
\* queued, whatever is lost on the way: a step of the connection is a step of
\* the abstract stream, or does not concern it.
THEOREM ServerStreamRefines == ~Reordering /\ Spec => ServerCommandsExactlyOnce
<1> SUFFICES ASSUME ~Reordering PROVE Spec => ServerCommandsExactlyOnce
  OBVIOUS
<1>1. Init => S2C!Init
  BY DEF Init, S2C!Init
<1>2. ServerInv /\ ServerInv' /\ [Next]_vars => [S2C!Next]_<<svSent, clGot>>
  <2> SUFFICES ASSUME ServerInv, ServerInv', [Next]_vars
               PROVE  [S2C!Next]_<<svSent, clGot>>
    OBVIOUS
  <2>1. svSent \in Nat /\ clGot \in Seq(ServerCommand)
    BY LinkAssumption DEF ServerInv, LinkInv, TypeOK
  <2>2. CASE \E n \in Nat : FlushClient(n) /\ clGot' = clGot
    <3>1. PICK n \in Nat : FlushClient(n) /\ clGot' = clGot
      BY <2>2
    <3>2. svSent' = svSent + n
      BY <3>1 DEF FlushClient
    <3>3. CASE n = 0
      BY <2>1, <3>1, <3>2, <3>3
    <3>4. CASE n # 0
      BY <2>1, <3>1, <3>2, <3>4 DEF S2C!Next, S2C!Send
    <3> QED BY <3>3, <3>4
  <2>3. CASE \E q \in s2c : ClientRead(q)
    <3>1. PICK q \in s2c : ClientRead(q)
      BY <2>3
    <3>2. svSent' = svSent /\ clGot' = clGot \o q.cmds
      BY <3>1 DEF ClientRead, svVars
    <3>3. q.cmds \in Seq(ServerCommand)
      BY DEF ServerInv, LinkInv, TypeOK, Packet
    <3>4. /\ clGot' \in Seq(Nat)
          /\ Len(clGot') <= svSent' /\ S2C!Follows(clGot', 0)
      <4>1. (clGot \in Seq(Nat) /\ Len(clGot) <= svSent /\ S2C!Follows(clGot, 0))'
        BY ClientHandledSoFar, PTL
      <4> QED BY <4>1
    <3>5. CASE q.cmds = <<>>
      BY <2>1, <3>2, <3>3, <3>5, ConcatEmpty
    <3>6. CASE q.cmds # <<>>
      <4>1. Len(clGot) < Len(clGot')
        BY <2>1, <3>2, <3>3, <3>6
      <4> QED BY <3>2, <3>4, <4>1 DEF S2C!Next, S2C!Deliver
    <3> QED BY <3>5, <3>6
  <2>4. CASE Enqueue \/ ReadTimeout
    BY <2>4 DEF Enqueue, ReadTimeout, svVars
  <2>5. CASE \E p \in c2s : ServerRead(p)
    BY <2>5 DEF ServerRead, clVars
  <2>6. CASE Flush \/ Answer
    <3>1. clGot' = clGot /\ ((\E n \in 0 .. 1 : FlushClient(n))
                            \/ (\E n \in 0 .. 2 : FlushClient(n)))
      BY <2>6 DEF Flush, Answer, clVars
    <3>2. \A n \in 0 .. 2 : n \in Nat
      OBVIOUS
    <3>3. \A n \in 0 .. 1 : n \in Nat
      OBVIOUS
    <3> QED BY <2>2, <3>1, <3>2, <3>3
  <2>7. CASE Consume
    BY <2>7 DEF Consume, clVars
  <2>8. CASE UNCHANGED vars
    BY <2>8 DEF vars, clVars, svVars
  <2> QED BY <2>2, <2>3, <2>4, <2>5, <2>6, <2>7, <2>8 DEF Next
<1> QED
  BY <1>1, <1>2, InitServer, NextServer, PTL
  DEF Spec, ServerCommandsExactlyOnce, S2C!Spec
==============================================================================
