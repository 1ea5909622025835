------------------------- MODULE PacketWriterProofs --------------------------
(***************************************************************************)
(* Proofs about PacketWriter, for any number of packets, writers and       *)
(* delays: packets stay in order, none is dropped while the client is      *)
(* connected, and every granted hold is respected.                         *)
(***************************************************************************)
EXTENDS PacketWriter, TLAPS

Labels == {"unborn", "next", "idle", "sleep", "timer", "write", "done"}

TypeOK ==
    /\ now \in Nat /\ received \in Nat /\ promised \in Nat
    /\ delaying \in [Callers -> Nat]
    /\ clcWriterMu \in Callers \cup {"free"}
    /\ started \in 0 .. MaxWriters /\ clcWriter \in 0 .. started
    /\ removed \in BOOLEAN
    /\ queue \in [Writers -> Seq(Nat)]
    /\ holdUntil \in [Writers -> Nat] /\ deadline \in [Writers -> Nat]
    /\ closed \in [Writers -> BOOLEAN] /\ wake \in [Writers -> BOOLEAN]
    /\ pc \in [Writers -> Labels]
    /\ packet \in [Writers -> Nat]
    /\ sent \in Seq(Nat)
    /\ heldTill \in Seq(Nat) /\ Len(heldTill) = received

\* clcWriterMu is held by the one caller that has yet to set its hold, and the
\* writer it has published stays the current one as long.
LockInv ==
    /\ \A c \in Callers : delaying[c] # 0 <=> clcWriterMu = c
    /\ clcWriterMu # "free" => clcWriter # None

\* The current writer is open and its goroutine running; every earlier one is
\* closed and empty, and is not writing unless the client has gone.
WriterInv ==
    /\ clcWriter # None => ~closed[clcWriter] /\ pc[clcWriter] \notin {"unborn", "done"}
    /\ \A w \in Writers : w # clcWriter =>
          /\ queue[w] = <<>>
          /\ ~removed => pc[w] # "write"
    /\ \A w \in Writers : w > started => ~closed[w] /\ pc[w] = "unborn"

\* How many packets the current writer's goroutine holds in its hand.
InHand == IF clcWriter # None /\ pc[clcWriter] = "write" THEN 1 ELSE 0

\* What is written, then the packet in hand, then the queue, is 1 .. received.
StreamInv ==
    /\ \A i \in 1 .. Len(sent) : sent[i] = i
    /\ ~removed /\ clcWriter = None => received = Len(sent)
    /\ ~removed /\ clcWriter # None =>
          /\ received = Len(sent) + InHand + Len(queue[clcWriter])
          /\ pc[clcWriter] = "write" => packet[clcWriter] = Len(sent) + 1
          /\ \A i \in 1 .. Len(queue[clcWriter]) :
                queue[clcWriter][i] = Len(sent) + InHand + i

\* Every granted hold is over or is the current writer's hold, and a packet in
\* hand is past its hold.
HoldInv ==
    /\ \A n \in 1 .. received : heldTill[n] <= promised
    /\ ~removed =>
          /\ \/ promised <= now
             \/ clcWriter # None /\ promised <= holdUntil[clcWriter]
          /\ clcWriter # None /\ pc[clcWriter] = "write" =>
                packet[clcWriter] \in 1 .. received
                /\ heldTill[packet[clcWriter]] <= now

IInv == TypeOK /\ LockInv /\ WriterInv /\ StreamInv /\ HoldInv

\* The clock ends holds and disturbs nothing else.
LEMMA TickKeeps ==
  ASSUME IInv, Tick
  PROVE  IInv'
<1> USE DEF Tick, clientVars, writerVars, history
<1>1. TypeOK' /\ LockInv' /\ WriterInv'
  BY DEF IInv, TypeOK, LockInv, WriterInv
<1>2. StreamInv'
  BY DEF IInv, StreamInv, InHand
<1>3. HoldInv'
  <2>1. now \in Nat /\ now' = now + 1 /\ promised \in Nat /\ heldTill \in Seq(Nat)
        /\ Len(heldTill) = received /\ received \in Nat
    BY DEF IInv, TypeOK
  <2>2. \A n \in 1 .. received : heldTill[n] \in Nat
    BY <2>1
  <2> QED
    BY <2>1, <2>2 DEF IInv, HoldInv
<1> QED
  BY <1>1, <1>2, <1>3 DEF IInv

\* DelayCLCFor publishes an open, empty writer, or keeps the current one.
LEMMA DelayCLCForKeeps ==
  ASSUME IInv, NEW c \in Callers, NEW delay \in Delays, DelayCLCFor(c, delay)
  PROVE  IInv'
<1> USE DEF DelayCLCFor, CanLockClcWriter, history, None
<1>a. delay \in Nat /\ delay # 0 /\ MaxWriters \in Nat
  BY WriterAssumption
<1>1. CASE clcWriter # None
  <2>1. TypeOK'
    BY <1>1, <1>a DEF IInv, TypeOK
  <2>2. LockInv'
    BY <1>1, <1>a DEF IInv, TypeOK, LockInv, Callers
  <2>3. WriterInv'
    BY <1>1 DEF IInv, WriterInv
  <2>4. StreamInv'
    BY <1>1 DEF IInv, StreamInv, InHand
  <2>5. HoldInv'
    BY <1>1 DEF IInv, HoldInv
  <2> QED
    BY <2>1, <2>2, <2>3, <2>4, <2>5 DEF IInv
<1>2. CASE clcWriter = None
  <2>1. /\ started \in Nat /\ started < MaxWriters /\ started' = started + 1
        /\ clcWriter' = started' /\ started' \in Writers /\ started' # 0
        /\ pc' = [pc EXCEPT ![started'] = "next"] /\ pc \in [Writers -> Labels]
    <3>1. started \in Nat /\ started < MaxWriters /\ pc \in [Writers -> Labels]
      BY <1>2 DEF IInv, TypeOK
    <3>2. /\ started' = started + 1 /\ clcWriter' = started'
          /\ pc' = [pc EXCEPT ![started'] = "next"]
      BY <1>2, <3>1
    <3>3. started' \in Writers /\ started' # 0
      BY <1>a, <3>1, <3>2 DEF Writers
    <3> QED
      BY <3>1, <3>2, <3>3
  <2>2. TypeOK'
    <3>1. delaying' \in [Callers -> Nat] /\ clcWriterMu' \in Callers \cup {"free"}
      BY <1>a DEF IInv, TypeOK
    <3>2. started' \in 0 .. MaxWriters /\ clcWriter' \in 0 .. started'
      BY <1>a, <2>1
    <3>3. pc' \in [Writers -> Labels]
      BY <2>1 DEF Labels
    <3> QED
      BY <3>1, <3>2, <3>3 DEF IInv, TypeOK
  <2>3. LockInv'
    BY <1>2, <1>a, <2>1 DEF IInv, TypeOK, LockInv, Callers
  <2>4. pc'[started'] = "next" /\ queue[started'] = <<>> /\ ~closed[started']
    BY <1>2, <2>1 DEF IInv, WriterInv
  <2>5. WriterInv'
    <3>1. \A w \in Writers : w # started' => pc'[w] = pc[w]
      BY <2>1
    <3>2. \A w \in Writers : w # clcWriter
      BY <1>2 DEF Writers
    <3>3. \A w \in Writers : w \in Nat
      BY DEF Writers
    <3> QED
      BY <1>2, <2>1, <2>4, <3>1, <3>2, <3>3 DEF IInv, WriterInv
  <2>6. StreamInv'
    <3>1. InHand' = 0 /\ Len(queue'[clcWriter']) = 0
      BY <2>1, <2>4 DEF InHand
    <3>2. received \in Nat /\ Len(sent) \in Nat
      BY DEF IInv, TypeOK
    <3> QED
      BY <1>2, <2>1, <2>4, <3>1, <3>2 DEF IInv, StreamInv
  <2>7. HoldInv'
    BY <1>2, <2>1, <2>4 DEF IInv, HoldInv
  <2> QED
    BY <2>2, <2>3, <2>5, <2>6, <2>7 DEF IInv
<1> QED
  BY <1>1, <1>2

\* holdFor reaches the writer that DelayCLCFor published, which is still open.
LEMMA HoldForKeeps ==
  ASSUME IInv, NEW c \in Callers, HoldFor(c)
  PROVE  IInv'
<1> USE DEF HoldFor, Signal
<1>1. /\ clcWriter # None /\ clcWriter \in Writers /\ ~closed[clcWriter]
      /\ clcWriterMu = c
  <2>1. clcWriterMu = c /\ clcWriter # None
    BY DEF IInv, LockInv, Callers
  <2>2. clcWriter \in Writers
    BY <2>1, WriterAssumption DEF IInv, TypeOK, Writers, None
  <2> QED
    BY <2>1, <2>2 DEF IInv, WriterInv
<1>2. /\ now + delaying[c] \in Nat /\ now \in Nat /\ promised \in Nat
      /\ holdUntil[clcWriter] \in Nat /\ holdUntil \in [Writers -> Nat]
  BY <1>1 DEF IInv, TypeOK
<1>3. /\ holdUntil' = [holdUntil EXCEPT ![clcWriter] = Later(@, now + delaying[c])]
      /\ promised' = Later(promised, now + delaying[c])
  BY <1>1
<1>4. TypeOK'
  <2>1. /\ holdUntil' \in [Writers -> Nat] /\ promised' \in Nat
    BY <1>2, <1>3 DEF Later
  <2> QED
    BY <2>1, <1>1 DEF IInv, TypeOK
<1>5. LockInv'
  BY <1>1 DEF IInv, TypeOK, LockInv, Callers
<1>6. WriterInv' /\ StreamInv'
  BY DEF IInv, WriterInv, StreamInv, InHand
<1>7. HoldInv'
  <2>1. \A n \in 1 .. received : heldTill[n] \in Nat
    BY DEF IInv, TypeOK
  <2>2. holdUntil'[clcWriter] = Later(holdUntil[clcWriter], now + delaying[c])
    BY <1>1, <1>2, <1>3
  <2>3. promised <= promised'
    BY <1>2, <1>3 DEF Later
  <2>4. ~removed => promised' <= now \/ promised' <= holdUntil'[clcWriter]
    BY <1>1, <1>2, <1>3, <2>2 DEF Later, IInv, HoldInv
  <2>5. \A n \in 1 .. received : heldTill[n] <= promised'
    BY <1>2, <1>3, <2>1, <2>3 DEF IInv, HoldInv, Later
  <2> QED
    BY <1>1, <2>4, <2>5 DEF IInv, HoldInv
<1> QED
  BY <1>4, <1>5, <1>6, <1>7 DEF IInv

\* writeCLC puts the next number behind everything that is on its way.
LEMMA WriteCLCKeeps ==
  ASSUME IInv, WriteCLC
  PROVE  IInv'
<1> USE DEF WriteCLC
<1>t. /\ received \in Nat /\ received' = received + 1 /\ promised \in Nat /\ now \in Nat
      /\ heldTill \in Seq(Nat) /\ Len(heldTill) = received /\ sent \in Seq(Nat)
      /\ heldTill' = Append(heldTill, promised)
  BY DEF IInv, TypeOK
<1>h. /\ heldTill' \in Seq(Nat) /\ Len(heldTill') = received'
      /\ \A n \in 1 .. received : heldTill'[n] = heldTill[n]
      /\ heldTill'[received'] = promised
      /\ \A n \in 1 .. received' : n \in 1 .. received \/ n = received'
  BY <1>t
<1>u. UNCHANGED <<now, delaying, clcWriterMu, clcWriter, removed, started,
                  holdUntil, closed, pc, packet, deadline, promised>>
  OBVIOUS
<1>1. CASE MustQueue
  <2> DEFINE w == clcWriter
             q == queue[clcWriter]
  <2>1. /\ w \in Writers /\ w # None /\ ~closed[w] /\ queue \in [Writers -> Seq(Nat)]
        /\ q \in Seq(Nat)
    BY <1>1, WriterAssumption DEF MustQueue, IInv, TypeOK, WriterInv, Writers, None
  <2>2. /\ queue' = [queue EXCEPT ![w] = Append(q, received')]
        /\ Signal(w) /\ UNCHANGED sent
    BY <1>1, <2>1 DEF IInv, WriterInv, MustQueue
  <2>3. /\ queue'[w] = Append(q, received') /\ Len(queue'[w]) = Len(q) + 1
        /\ \A i \in 1 .. Len(q) : queue'[w][i] = q[i]
        /\ queue'[w][Len(q) + 1] = received'
        /\ Len(q) \in Nat
    BY <2>1, <2>2
  <2>4. TypeOK'
    <3>1. queue' \in [Writers -> Seq(Nat)] /\ wake' \in [Writers -> BOOLEAN]
      BY <1>t, <2>1, <2>2 DEF Signal, IInv, TypeOK
    <3>2. sent' \in Seq(Nat) /\ received' \in Nat
      BY <1>t, <2>2
    <3> HIDE DEF WriteCLC
    <3> QED
      BY <1>t, <1>h, <1>u, <3>1, <3>2 DEF IInv, TypeOK
  <2>5. LockInv'
    BY DEF IInv, LockInv
  <2>6. WriterInv'
    BY <2>1, <2>2 DEF IInv, WriterInv
  <2>7. StreamInv'
    <3>1. ASSUME ~removed
          PROVE  /\ received' = Len(sent) + InHand + Len(queue'[w])
                 /\ \A i \in 1 .. Len(queue'[w]) : queue'[w][i] = Len(sent) + InHand + i
      <4>1. /\ received = Len(sent) + InHand + Len(q)
            /\ \A i \in 1 .. Len(q) : q[i] = Len(sent) + InHand + i
            /\ Len(sent) \in Nat /\ InHand \in Nat
        BY <1>t, <2>1, <3>1 DEF IInv, StreamInv, InHand
      <4>2. \A i \in 1 .. Len(queue'[w]) : i \in 1 .. Len(q) \/ i = Len(q) + 1
        BY <2>3
      <4> HIDE DEF WriteCLC, q
      <4>3. received' = Len(sent) + InHand + Len(queue'[w])
        BY <1>t, <2>3, <4>1
      <4>4. ASSUME NEW i \in 1 .. Len(q)
            PROVE  queue'[w][i] = Len(sent) + InHand + i
        BY <2>3, <4>1
      <4>5. queue'[w][Len(q) + 1] = Len(sent) + InHand + (Len(q) + 1)
        BY <1>t, <2>3, <4>1
      <4> QED
        BY <4>2, <4>3, <4>4, <4>5
    <3>2. InHand' = InHand
      BY DEF InHand
    <3> QED
      BY <2>1, <2>2, <3>1, <3>2 DEF IInv, StreamInv
  <2>8. HoldInv'
    <3>1. \A n \in 1 .. received' : heldTill'[n] <= promised
      BY <1>t, <1>h DEF IInv, HoldInv
    <3>2. 1 .. received \subseteq 1 .. received'
      BY <1>t
    <3> QED
      BY <1>h, <3>1, <3>2 DEF IInv, HoldInv
  <2> QED
    BY <2>4, <2>5, <2>6, <2>7, <2>8 DEF IInv
<1>2. CASE ~MustQueue
  <2>1. /\ clcWriter = None /\ queue' = queue /\ wake' = wake
        /\ sent' = IF removed THEN sent ELSE Append(sent, received')
    BY <1>2 DEF MustQueue, WriteToPeer
  <2>2. /\ sent' \in Seq(Nat)
        /\ removed => sent' = sent
        /\ ~removed => /\ Len(sent') = Len(sent) + 1
                       /\ \A i \in 1 .. Len(sent) : sent'[i] = sent[i]
                       /\ sent'[Len(sent) + 1] = received'
    BY <1>t, <2>1
  <2>3. TypeOK'
    BY <1>t, <1>h, <2>1, <2>2 DEF IInv, TypeOK
  <2>4. LockInv' /\ WriterInv'
    BY <2>1 DEF IInv, LockInv, WriterInv
  <2>5. StreamInv'
    <3>1. CASE removed
      BY <2>1, <2>2, <3>1 DEF IInv, StreamInv
    <3>2. CASE ~removed
      <4>1. received = Len(sent) /\ \A i \in 1 .. Len(sent) : sent[i] = i
        BY <2>1, <3>2 DEF IInv, StreamInv
      <4>2. \A i \in 1 .. Len(sent') : i \in 1 .. Len(sent) \/ i = Len(sent) + 1
        BY <1>t, <2>2, <3>2
      <4>3. \A i \in 1 .. Len(sent') : sent'[i] = i
        BY <1>t, <2>2, <3>2, <4>1, <4>2
      <4> QED
        BY <1>t, <2>1, <2>2, <3>2, <4>1, <4>3 DEF StreamInv, None
    <3> QED
      BY <3>1, <3>2
  <2>6. HoldInv'
    <3>1. \A n \in 1 .. received' : heldTill'[n] <= promised
      BY <1>t, <1>h DEF IInv, HoldInv
    <3> QED
      BY <2>1, <3>1 DEF IInv, HoldInv
  <2> QED
    BY <2>3, <2>4, <2>5, <2>6 DEF IInv
<1> QED
  BY <1>1, <1>2

\* removeClient empties the current writer and ends the stream.
LEMMA RemoveClientKeeps ==
  ASSUME IInv, RemoveClient
  PROVE  IInv'
<1> USE DEF RemoveClient, CanLockClcWriter, history
<1>1. TypeOK'
  <2>1. closed' \in [Writers -> BOOLEAN] /\ queue' \in [Writers -> Seq(Nat)]
    BY DEF IInv, TypeOK
  <2>2. clcWriter' \in 0 .. started
    BY DEF IInv, TypeOK, None
  <2> QED
    BY <2>1, <2>2 DEF IInv, TypeOK
<1>2. LockInv'
  BY DEF IInv, LockInv
<1>3. WriterInv'
  <2>1. \A w \in Writers : w \in Nat /\ (w > started => w # clcWriter)
    BY WriterAssumption DEF IInv, TypeOK, Writers
  <2>2. \A w \in Writers : queue'[w] = <<>>
    BY DEF IInv, WriterInv
  <2> QED
    BY <2>1, <2>2 DEF IInv, WriterInv
<1>4. StreamInv'
  BY DEF IInv, StreamInv
<1>5. HoldInv'
  BY DEF IInv, HoldInv
<1> QED
  BY <1>1, <1>2, <1>3, <1>4, <1>5 DEF IInv

\* A step that moves w's goroutine, but neither into nor out of the write to the
\* peer, and leaves the client alone keeps the invariant.
LEMMA MoveKeeps ==
  ASSUME IInv, NEW w \in Writers, NEW label \in Labels \ {"unborn", "write"},
         pc[w] \notin {"unborn", "write"}, Goto(w, label),
         label = "done" => closed[w],
         wake' \in [Writers -> BOOLEAN], deadline' \in [Writers -> Nat],
         UNCHANGED <<now, clientVars, queue, holdUntil, closed, packet, history>>
  PROVE  IInv'
<1> USE DEF Goto, clientVars, history
<1>1. pc' = [pc EXCEPT ![w] = label] /\ pc \in [Writers -> Labels] /\ pc'[w] = label
      /\ \A v \in Writers \ {w} : pc'[v] = pc[v]
  BY DEF IInv, TypeOK
<1>2. TypeOK'
  BY <1>1 DEF IInv, TypeOK
<1>3. LockInv'
  BY DEF IInv, LockInv
<1>4. \A v \in Writers : pc'[v] = "write" <=> pc[v] = "write"
  BY <1>1
<1>5. clcWriter # None => clcWriter \in Writers
  BY WriterAssumption DEF IInv, TypeOK, Writers, None
<1>6. WriterInv'
  <2>1. w <= started
    BY DEF IInv, WriterInv, TypeOK, Writers
  <2>2. clcWriter # None => pc'[clcWriter] \notin {"unborn", "done"}
    BY <1>1, <1>5 DEF IInv, WriterInv
  <2>3. \A v \in Writers : v > started => v # w
    BY <2>1 DEF Writers, IInv, TypeOK
  <2> QED
    BY <1>1, <1>4, <2>2, <2>3 DEF IInv, WriterInv
<1>7. StreamInv'
  <2>1. InHand' = InHand
    BY <1>4, <1>5 DEF InHand
  <2> QED
    BY <1>4, <1>5, <2>1 DEF IInv, StreamInv
<1>8. HoldInv'
  BY <1>4, <1>5 DEF IInv, HoldInv
<1> QED
  BY <1>2, <1>3, <1>6, <1>7, <1>8 DEF IInv

\* Waking up moves the goroutine only.
LEMMA WaitKeeps ==
  ASSUME IInv, NEW w \in Writers, Wait(w)
  PROVE  IInv'
<1>1. PICK label \in {"next", "done"} : Goto(w, label) /\ (label = "done" => closed[w])
  BY DEF Wait
<1>2. wake' \in [Writers -> BOOLEAN] /\ deadline' \in [Writers -> Nat]
  BY DEF Wait, IInv, TypeOK
<1> QED
  BY <1>1, <1>2, MoveKeeps DEF Wait, Labels

\* next takes the head of the queue only when the writer's hold is over.
LEMMA NextPacketKeeps ==
  ASSUME IInv, NEW w \in Writers, NextPacket(w)
  PROVE  IInv'
<1> DEFINE taking == ~closed[w] /\ HoldExpired(w) /\ queue[w] # <<>>
<1>1. CASE ~taking
  <2>1. PICK label \in {"done", "timer", "idle"} :
           Goto(w, label) /\ (label = "done" => closed[w])
    BY <1>1 DEF NextPacket
  <2>2. deadline' \in [Writers -> Nat] /\ UNCHANGED <<queue, packet>>
    BY <1>1 DEF NextPacket, IInv, TypeOK
  <2>3. wake' \in [Writers -> BOOLEAN]
    BY DEF NextPacket, IInv, TypeOK
  <2> QED
    BY <2>1, <2>2, <2>3, MoveKeeps DEF NextPacket, Labels
<1>2. CASE taking
  <2>1. /\ pc[w] = "next" /\ Goto(w, "write")
        /\ packet' = [packet EXCEPT ![w] = Head(queue[w])]
        /\ queue' = [queue EXCEPT ![w] = Tail(queue[w])]
        /\ UNCHANGED <<now, deadline, clientVars, holdUntil, closed, wake, history>>
    BY <1>2 DEF NextPacket
  <2>2. /\ w = clcWriter /\ w # None /\ w <= started
        /\ queue \in [Writers -> Seq(Nat)] /\ queue[w] \in Seq(Nat) /\ Len(queue[w]) # 0
    <3>1. w = clcWriter
      BY <1>2 DEF IInv, WriterInv
    <3>2. w # None /\ w <= started
      BY <3>1 DEF IInv, TypeOK, Writers, None
    <3>3. queue \in [Writers -> Seq(Nat)] /\ queue[w] \in Seq(Nat)
      BY DEF IInv, TypeOK
    <3> QED
      BY <1>2, <3>1, <3>2, <3>3
  <2>3. /\ Head(queue[w]) = queue[w][1] /\ Head(queue[w]) \in Nat
        /\ Tail(queue[w]) \in Seq(Nat) /\ Len(Tail(queue[w])) = Len(queue[w]) - 1
        /\ \A i \in 1 .. Len(Tail(queue[w])) : Tail(queue[w])[i] = queue[w][i + 1]
        /\ Len(queue[w]) \in Nat
    BY <2>2
  <2>4. /\ queue'[w] = Tail(queue[w]) /\ packet'[w] = queue[w][1] /\ pc'[w] = "write"
        /\ \A v \in Writers \ {w} : queue'[v] = queue[v] /\ pc'[v] = pc[v]
        /\ queue' \in [Writers -> Seq(Nat)] /\ packet' \in [Writers -> Nat]
        /\ pc' \in [Writers -> Labels]
    BY <2>1, <2>2, <2>3 DEF IInv, TypeOK, Goto, Labels
  <2> USE DEF clientVars, history
  <2>5. TypeOK'
    BY <2>1, <2>4 DEF IInv, TypeOK
  <2>6. LockInv'
    <3>1. delaying' = delaying /\ clcWriterMu' = clcWriterMu /\ clcWriter' = clcWriter
      BY <2>1
    <3> QED
      BY <3>1 DEF IInv, LockInv
  <2>7. WriterInv'
    <3>1. \A v \in Writers : v > started => v # w
      <4>1. started \in Nat /\ w <= started
        BY <2>2 DEF IInv, TypeOK
      <4> QED
        BY <4>1 DEF Writers
    <3>2. /\ clcWriter' = clcWriter /\ closed' = closed /\ started' = started
          /\ removed' = removed
      BY <2>1
    <3>3. WriterInv
      BY DEF IInv
    <3>4. \A v \in Writers : v # clcWriter' =>
             /\ queue'[v] = <<>>
             /\ ~removed' => pc'[v] # "write"
      BY <2>2, <2>4, <3>2, <3>3 DEF WriterInv
    <3>5. clcWriter' # None => ~closed'[clcWriter'] /\ pc'[clcWriter'] \notin {"unborn", "done"}
      BY <2>2, <2>4, <3>2, <3>3 DEF WriterInv
    <3>6. \A v \in Writers : v > started' => ~closed'[v] /\ pc'[v] = "unborn"
      BY <2>4, <3>1, <3>2, <3>3 DEF WriterInv
    <3> QED
      BY <3>4, <3>5, <3>6 DEF WriterInv
  <2>8. ~removed => /\ packet'[w] = Len(sent) + 1 /\ packet'[w] \in 1 .. received
                    /\ received = Len(sent) + 1 + Len(queue'[w])
                    /\ \A i \in 1 .. Len(queue'[w]) : queue'[w][i] = Len(sent) + 1 + i
    <3>1. HAVE ~removed
    <3>2. /\ received = Len(sent) + Len(queue[w]) /\ Len(sent) \in Nat
          /\ \A i \in 1 .. Len(queue[w]) : queue[w][i] = Len(sent) + i
      BY <2>1, <2>2, <3>1 DEF IInv, TypeOK, StreamInv, InHand
    <3>3. packet'[w] = Len(sent) + 1 /\ packet'[w] \in 1 .. received
      BY <2>2, <2>3, <2>4, <3>2
    <3>4. received = Len(sent) + 1 + Len(queue'[w])
      <4>1. Len(queue'[w]) = Len(queue[w]) - 1
        BY <2>3, <2>4
      <4>2. \A a, b \in Nat : a + b = a + 1 + (b - 1)
        OBVIOUS
      <4> QED
        BY <2>3, <3>2, <4>1, <4>2
    <3>5. ASSUME NEW i \in 1 .. Len(queue'[w])
          PROVE  queue'[w][i] = Len(sent) + 1 + i
      BY <2>3, <2>4, <3>2
    <3> QED
      BY <3>3, <3>4, <3>5
  <2>9. StreamInv'
    <3>1. InHand' = 1
      BY <2>1, <2>2, <2>4 DEF InHand
    <3> QED
      BY <2>1, <2>2, <2>4, <2>8, <3>1 DEF IInv, StreamInv
  <2>10. HoldInv'
    <3>1. ~removed => promised <= now
      BY <1>2, <2>2 DEF HoldExpired, IInv, TypeOK, HoldInv
    <3>2. ~removed => heldTill[packet'[w]] <= now
      <4>1. HAVE ~removed
      <4>2. heldTill[packet'[w]] <= promised /\ heldTill[packet'[w]] \in Nat
        <5>1. \A n \in 1 .. received : heldTill[n] \in Nat /\ heldTill[n] <= promised
          BY DEF IInv, TypeOK, HoldInv
        <5> QED
          BY <2>8, <4>1, <5>1
      <4> QED
        BY <3>1, <4>1, <4>2 DEF IInv, TypeOK
    <3> QED
      BY <2>1, <2>2, <2>8, <3>1, <3>2 DEF IInv, HoldInv
  <2> QED
    BY <2>5, <2>6, <2>7, <2>9, <2>10 DEF IInv
<1> QED
  BY <1>1, <1>2

\* A writer closes itself only when its queue is empty and its hold is over.
LEMMA CloseIdleKeeps ==
  ASSUME IInv, NEW w \in Writers, CloseIdleCLCWriter(w)
  PROVE  IInv'
<1>a. /\ pc[w] = "idle"
      /\ UNCHANGED <<now, received, delaying, clcWriterMu, removed, started,
                     holdUntil, wake, packet, deadline, history>>
  BY DEF CloseIdleCLCWriter
<1>1. CASE clcWriter = w /\ ~closed[w] /\ Busy(w)
  <2>1. Goto(w, "sleep") /\ UNCHANGED <<closed, queue, clcWriter>>
    BY <1>1 DEF CloseIdleCLCWriter
  <2>2. wake' \in [Writers -> BOOLEAN] /\ deadline' \in [Writers -> Nat]
    BY <1>a DEF IInv, TypeOK
  <2> QED
    BY <1>a, <2>1, <2>2, MoveKeeps DEF clientVars, Labels
<1>2. CASE ~(clcWriter = w /\ ~closed[w] /\ Busy(w))
  <2> USE DEF history
  <2>1. /\ closed' = [closed EXCEPT ![w] = TRUE]
        /\ queue' = [queue EXCEPT ![w] = <<>>]
        /\ Goto(w, "done") /\ clcWriterMu = "free"
        /\ \/ clcWriter # w /\ clcWriter' = clcWriter
           \/ clcWriter = w /\ clcWriter' = None /\ ~Busy(w)
    BY <1>2 DEF CloseIdleCLCWriter, CanLockClcWriter, IInv, WriterInv, None, Writers
  <2>2. /\ closed'[w] = TRUE /\ queue'[w] = <<>> /\ pc'[w] = "done"
        /\ \A v \in Writers \ {w} : closed'[v] = closed[v] /\ queue'[v] = queue[v]
                                    /\ pc'[v] = pc[v]
        /\ closed' \in [Writers -> BOOLEAN] /\ queue' \in [Writers -> Seq(Nat)]
        /\ pc' \in [Writers -> Labels]
    BY <2>1 DEF IInv, TypeOK, Goto, Labels
  <2>3. clcWriter' \in 0 .. started
    BY <2>1 DEF IInv, TypeOK, None
  <2>4. TypeOK'
    BY <1>a, <2>2, <2>3 DEF IInv, TypeOK
  <2>5. LockInv'
    BY <1>a, <2>1 DEF IInv, LockInv
  <2>6. WriterInv'
    <3>1. w <= started
      BY <1>a DEF IInv, WriterInv, TypeOK, Writers
    <3>2. \A v \in Writers : v > started => v # w
      <4>1. started \in Nat /\ w <= started
        BY <3>1 DEF IInv, TypeOK
      <4> QED
        BY <4>1 DEF Writers
    <3>3. clcWriter' # None => clcWriter \in Writers /\ clcWriter # w /\ clcWriter' = clcWriter
      <4>1. started \in 0 .. MaxWriters /\ clcWriter \in 0 .. started
        BY DEF IInv, TypeOK
      <4>2. clcWriter # 0 => clcWriter \in Writers
        BY <4>1, WriterAssumption DEF Writers
      <4> QED
        BY <2>1, <4>2 DEF None
    <3> QED
      BY <1>a, <2>1, <2>2, <3>2, <3>3 DEF IInv, WriterInv
  <2>7. CASE clcWriter # w
    <3>1. clcWriter' = clcWriter /\ (clcWriter # None => clcWriter \in Writers)
      BY <2>1, <2>7, WriterAssumption DEF IInv, TypeOK, Writers, None
    <3>2. clcWriter # None => pc'[clcWriter] = pc[clcWriter] /\ queue'[clcWriter] = queue[clcWriter]
      BY <2>2, <2>7, <3>1
    <3>3. InHand' = InHand
      BY <3>1, <3>2 DEF InHand
    <3>4. StreamInv'
      BY <1>a, <3>1, <3>2, <3>3 DEF IInv, StreamInv
    <3>5. HoldInv'
      BY <1>a, <3>1, <3>2 DEF IInv, HoldInv
    <3> QED
      BY <2>4, <2>5, <2>6, <3>4, <3>5 DEF IInv
  <2>8. CASE clcWriter = w
    <3>1. clcWriter' = None /\ queue[w] = <<>> /\ now >= holdUntil[w] /\ w # None
      BY <2>1, <2>8 DEF Busy, HoldExpired, Writers, None
    <3>2. StreamInv'
      <4>1. InHand = 0 /\ Len(queue[w]) = 0 /\ Len(sent) \in Nat
        BY <1>a, <2>8, <3>1 DEF InHand, IInv, TypeOK
      <4>2. ~removed => received = Len(sent)
        BY <2>8, <3>1, <4>1 DEF IInv, StreamInv
      <4> QED
        BY <1>a, <3>1, <4>2 DEF IInv, StreamInv
    <3>3. HoldInv'
      <4>1. ~removed => promised <= now
        BY <2>8, <3>1 DEF IInv, TypeOK, HoldInv
      <4> QED
        BY <1>a, <3>1, <4>1 DEF IInv, HoldInv
    <3> QED
      BY <2>4, <2>5, <2>6, <3>2, <3>3 DEF IInv
  <2> QED
    BY <2>7, <2>8
<1> QED
  BY <1>1, <1>2

\* The packet in hand is the one that is due.
LEMMA WritePacketKeeps ==
  ASSUME IInv, NEW w \in Writers, WritePacket(w)
  PROVE  IInv'
<1>1. /\ pc[w] = "write" /\ WriteToPeer(packet[w])
      /\ packet' = [packet EXCEPT ![w] = None] /\ Goto(w, "next")
      /\ UNCHANGED <<now, clientVars, queue, holdUntil, closed, wake, deadline,
                     promised, heldTill>>
  BY DEF WritePacket
<1> USE DEF clientVars
<1>2. /\ packet' \in [Writers -> Nat] /\ pc' \in [Writers -> Labels] /\ sent' \in Seq(Nat)
      /\ pc'[w] = "next" /\ \A v \in Writers \ {w} : pc'[v] = pc[v] /\ packet'[v] = packet[v]
  BY <1>1 DEF WriteToPeer, Goto, IInv, TypeOK, Labels, None
<1>3. TypeOK'
  BY <1>1, <1>2 DEF IInv, TypeOK
<1>4. LockInv'
  BY <1>1 DEF IInv, LockInv
<1>5. w <= started /\ \A v \in Writers : v > started => v # w
  BY <1>1 DEF IInv, WriterInv, TypeOK, Writers
<1>6. WriterInv'
  <2>1. clcWriter # None => clcWriter \in Writers
    BY WriterAssumption DEF IInv, TypeOK, Writers, None
  <2>2. \A v \in Writers : ~removed /\ v # clcWriter => pc'[v] # "write"
    BY <1>2 DEF IInv, WriterInv
  <2>3. \A v \in Writers : v > started => ~closed[v] /\ pc'[v] = "unborn"
    BY <1>2, <1>5 DEF IInv, WriterInv
  <2>4. clcWriter # None => ~closed[clcWriter] /\ pc'[clcWriter] \notin {"unborn", "done"}
    BY <1>2, <2>1 DEF IInv, WriterInv
  <2> QED
    BY <1>1, <2>2, <2>3, <2>4 DEF IInv, WriterInv
<1>7. CASE removed
  <2>1. sent' = sent
    BY <1>1, <1>7 DEF WriteToPeer
  <2>2. StreamInv'
    BY <1>1, <1>7, <2>1 DEF IInv, StreamInv
  <2>3. HoldInv'
    BY <1>1, <1>7 DEF IInv, HoldInv
  <2> QED
    BY <1>3, <1>4, <1>6, <2>2, <2>3 DEF IInv
<1>8. CASE ~removed
  <2>1. w = clcWriter /\ w # None
    BY <1>1, <1>8 DEF IInv, WriterInv, Writers, None
  <2>2. /\ packet[w] = Len(sent) + 1
        /\ received = Len(sent) + 1 + Len(queue[w])
        /\ \A i \in 1 .. Len(queue[w]) : queue[w][i] = Len(sent) + 1 + i
        /\ \A i \in 1 .. Len(sent) : sent[i] = i
    BY <1>1, <1>8, <2>1 DEF IInv, StreamInv, InHand
  <2>3. /\ sent \in Seq(Nat) /\ Len(sent) \in Nat /\ sent' = Append(sent, Len(sent) + 1)
        /\ Len(queue[w]) \in Nat
    BY <1>1, <1>8, <2>2 DEF WriteToPeer, IInv, TypeOK
  <2>4. /\ Len(sent') = Len(sent) + 1
        /\ \A i \in 1 .. Len(sent) : sent'[i] = sent[i]
        /\ sent'[Len(sent) + 1] = Len(sent) + 1
        /\ \A i \in 1 .. Len(sent') : i \in 1 .. Len(sent) \/ i = Len(sent) + 1
    BY <2>3
  <2>5. \A i \in 1 .. Len(sent') : sent'[i] = i
    BY <2>2, <2>4
  <2>6. StreamInv'
    <3>1. InHand' = 0
      BY <1>1, <1>2, <2>1 DEF InHand
    <3>2. received = Len(sent') + 0 + Len(queue[w])
      BY <2>2, <2>3, <2>4
    <3>3. \A i \in 1 .. Len(queue[w]) : queue[w][i] = Len(sent') + 0 + i
      BY <2>2, <2>3, <2>4
    <3> QED
      BY <1>1, <1>2, <2>1, <2>5, <3>1, <3>2, <3>3 DEF StreamInv
  <2>7. HoldInv'
    BY <1>1, <1>2, <1>8, <2>1 DEF IInv, HoldInv
  <2> QED
    BY <1>3, <1>4, <1>6, <2>6, <2>7 DEF IInv
<1> QED
  BY <1>7, <1>8

\* The invariant holds before the first packet.
LEMMA InitIInv == Init => IInv
<1> SUFFICES ASSUME Init PROVE IInv
  OBVIOUS
<1> USE WriterAssumption DEF Init, None
<1>1. TypeOK
  <2>1. queue \in [Writers -> Seq(Nat)] /\ sent \in Seq(Nat) /\ heldTill \in Seq(Nat)
        /\ Len(heldTill) = received
    OBVIOUS
  <2>2. /\ pc \in [Writers -> Labels] /\ packet \in [Writers -> Nat]
        /\ holdUntil \in [Writers -> Nat] /\ deadline \in [Writers -> Nat]
    BY DEF Labels
  <2>3. closed \in [Writers -> BOOLEAN] /\ wake \in [Writers -> BOOLEAN]
    OBVIOUS
  <2>4. started \in 0 .. MaxWriters /\ clcWriter \in 0 .. started
    OBVIOUS
  <2>5. /\ delaying \in [Callers -> Nat] /\ clcWriterMu \in Callers \cup {"free"}
        /\ removed \in BOOLEAN /\ now \in Nat /\ received \in Nat /\ promised \in Nat
    OBVIOUS
  <2> HIDE DEF Init
  <2> QED
    BY <2>1, <2>2, <2>3, <2>4, <2>5 DEF TypeOK
<1>2. LockInv /\ WriterInv
  BY DEF LockInv, WriterInv, Callers
<1>3. StreamInv /\ HoldInv
  BY DEF StreamInv, HoldInv
<1> QED
  BY <1>1, <1>2, <1>3 DEF IInv

\* Every step keeps the invariant.
LEMMA NextIInv == IInv /\ [Next]_vars => IInv'
<1> SUFFICES ASSUME IInv, [Next]_vars PROVE IInv'
  OBVIOUS
<1>1. CASE Next
  BY <1>1, TickKeeps, DelayCLCForKeeps, HoldForKeeps, WriteCLCKeeps, RemoveClientKeeps,
     NextPacketKeeps, CloseIdleKeeps, WaitKeeps, WritePacketKeeps DEF Next, Run
<1>2. CASE UNCHANGED vars
  <2> USE <1>2 DEF vars, clientVars, writerVars, history
  <2>1. TypeOK' /\ LockInv' /\ WriterInv'
    BY DEF IInv, TypeOK, LockInv, WriterInv
  <2>2. StreamInv' /\ HoldInv'
    BY DEF IInv, StreamInv, InHand, HoldInv
  <2> QED
    BY <2>1, <2>2 DEF IInv
<1> QED
  BY <1>1, <1>2

\* The invariant holds in every state of every behaviour.
THEOREM Invariance == Spec => []IInv
  BY InitIInv, NextIInv, PTL DEF Spec

\* The peer sees 1, 2, 3, ...: no hold, writer or disconnect reorders, repeats or
\* skips a packet that writeCLC was given.
THEOREM OrderTheorem == Spec => []InOrder
<1>1. IInv => InOrder
  BY DEF IInv, StreamInv, InOrder
<1> QED
  BY <1>1, Invariance, PTL

\* While the client is connected, a packet is written, in the goroutine's hand or
\* in the current writer's queue: closeIfIdle loses none.
THEOREM NothingDroppedTheorem == Spec => []NothingDropped
<1>1. IInv => NothingDropped
  <2> SUFFICES ASSUME IInv, ~removed PROVE NothingDropped
    BY DEF NothingDropped
  <2>1. CASE clcWriter = None
    <3>1. received = Len(sent) /\ Len(sent) \in Nat
      BY <2>1 DEF IInv, TypeOK, StreamInv
    <3> QED
      BY <2>1, <3>1 DEF NothingDropped
  <2>2. CASE clcWriter # None
    <3>1. clcWriter \in Writers
      BY <2>2, WriterAssumption DEF IInv, TypeOK, Writers, None
    <3>2. /\ Len(sent) \in Nat /\ Len(queue[clcWriter]) \in Nat
      BY <3>1 DEF IInv, TypeOK
    <3>3. /\ received = Len(sent) + InHand + Len(queue[clcWriter])
          /\ InHand = IF pc[clcWriter] = "write" THEN 1 ELSE 0
      BY <2>2 DEF IInv, StreamInv, InHand
    <3>4. received = Len(sent) + (Len(queue[clcWriter]) + InHand)
      <4>1. \A a, b, c \in Nat : a + b + c = a + (c + b)
        OBVIOUS
      <4> QED
        BY <3>2, <3>3, <4>1
    <3> QED
      BY <2>2, <3>3, <3>4 DEF NothingDropped
  <2> QED
    BY <2>1, <2>2
<1> QED
  BY <1>1, Invariance, PTL

\* What Append adds can be read off its result.
LEMMA AppendDetermines ==
  ASSUME NEW s \in Seq(Nat), NEW m \in Nat, NEW n \in Nat, Append(s, m) = Append(s, n)
  PROVE  m = n
<1>1. Append(s, m)[Len(s) + 1] = m /\ Append(s, n)[Len(s) + 1] = n
  OBVIOUS
<1> QED
  BY <1>1

\* A step that writes packet n to the peer finds n's hold over: writeCLC writes
\* past the queue only when no hold is left, and the goroutine took n from the
\* queue after the hold's end.
LEMMA StepRespectsHold ==
  ASSUME IInv, Next, NEW n \in 1 .. received', sent' = Append(sent, n)
  PROVE  now >= heldTill'[n]
<1>a. /\ sent \in Seq(Nat) /\ heldTill \in Seq(Nat) /\ Len(heldTill) = received
      /\ received \in Nat /\ promised \in Nat /\ now \in Nat
  BY DEF IInv, TypeOK
<1>b. received' \in Nat
  BY <1>a, NextIInv DEF IInv, TypeOK
<1>c. sent' # sent
  <2>1. n \in Nat
    BY <1>b
  <2>2. Len(sent') = Len(sent) + 1
    BY <1>a, <2>1
  <2> QED
    BY <1>a, <2>2
<1>1. CASE WriteCLC
  <2>1. /\ clcWriter = None /\ ~removed /\ sent' = Append(sent, received')
        /\ received' = received + 1 /\ heldTill' = Append(heldTill, promised)
    BY <1>1, <1>c DEF WriteCLC, WriteToPeer, MustQueue
  <2>2. n = received'
    <3>1. n \in Nat
      BY <1>b
    <3> QED
      BY <1>a, <1>b, <2>1, <3>1, AppendDetermines
  <2>3. heldTill'[n] = promised
    BY <1>a, <2>1, <2>2
  <2>4. promised <= now
    BY <2>1 DEF IInv, HoldInv
  <2> QED
    BY <1>a, <2>3, <2>4
<1>2. ASSUME NEW w \in Writers, WritePacket(w)
      PROVE  now >= heldTill'[n]
  <2>1. /\ pc[w] = "write" /\ ~removed /\ sent' = Append(sent, packet[w])
        /\ heldTill' = heldTill
    BY <1>2, <1>c DEF WritePacket, WriteToPeer
  <2>2. w = clcWriter /\ w # None
    BY <2>1 DEF IInv, WriterInv, Writers, None
  <2>3. n = packet[w]
    <3>1. n \in Nat /\ packet[w] \in Nat
      BY <1>b DEF IInv, TypeOK
    <3> QED
      BY <1>a, <2>1, <3>1, AppendDetermines
  <2>4. heldTill[n] <= now /\ n \in 1 .. received
    BY <2>1, <2>2, <2>3 DEF IInv, HoldInv
  <2> QED
    BY <1>a, <2>1, <2>4
<1>3. CASE Tick \/ RemoveClient
  BY <1>3, <1>c DEF Tick, RemoveClient, history
<1>4. ASSUME NEW c \in Callers, HoldFor(c) \/ \E delay \in Delays : DelayCLCFor(c, delay)
      PROVE  FALSE
  BY <1>4, <1>c DEF HoldFor, DelayCLCFor, history
<1>5. ASSUME NEW w \in Writers, NextPacket(w) \/ CloseIdleCLCWriter(w) \/ Wait(w)
      PROVE  FALSE
  BY <1>5, <1>c DEF NextPacket, CloseIdleCLCWriter, Wait, history
<1> QED
  BY <1>1, <1>2, <1>3, <1>4, <1>5 DEF Next, Run

\* A packet received while a hold lasts is written when every hold granted
\* before it is over, for any delays, in any order.
THEOREM HoldTheorem == Spec => HoldRespected
<1>1. ASSUME IInv, [Next]_vars
      PROVE  [\A n \in 1 .. received' :
                 sent' = Append(sent, n) => now >= heldTill'[n]]_vars
  BY <1>1, StepRespectsHold
<1> QED
  BY <1>1, Invariance, PTL DEF Spec, HoldRespected
==============================================================================
