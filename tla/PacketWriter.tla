---------------------------- MODULE PacketWriter -----------------------------
(***************************************************************************)
(* The hold on a proxied client's packets: DelayCLCFor, writeCLC and the   *)
(* packetWriter goroutine of proxy/packetwriter.go, for one Client.        *)
(*                                                                         *)
(* Serve forwards the client's packets, numbered in the order it received  *)
(* them.  Handlers on Serve's goroutine and on handlePeer's goroutine may  *)
(* ask for a hold.  The first hold creates a packetWriter and its          *)
(* goroutine, which closes itself once it has nothing to wait for.         *)
(*                                                                         *)
(* Locks: a section under packetWriter.mu is one step.  Client.clcWriterMu *)
(* is explicit only where its section has more than one step: DelayCLCFor  *)
(* publishes the writer, whose goroutine is already running, before it     *)
(* sets the hold.                                                          *)
(***************************************************************************)
EXTENDS Naturals, Sequences

CONSTANTS MaxPackets,  \* bound: packets Serve forwards
          MaxWriters,  \* bound: packetWriters created for the client
          MaxTime,     \* bound: no hold is asked for at or after this time
          Delays       \* the delays handlers ask for

ASSUME WriterAssumption ==
    /\ MaxPackets \in Nat /\ MaxWriters \in Nat /\ MaxTime \in Nat
    /\ Delays \subseteq Nat \ {0}

Callers == {"serve", "peer"}    \* the goroutines on which handlers run
Writers == 1 .. MaxWriters
None    == 0

VARIABLES now,          \* the clock
          received,     \* packets passed to writeCLC so far
          delaying,     \* delaying[c]: the delay c has yet to set, 0 if none
          clcWriterMu,  \* the caller inside DelayCLCFor, or "free"
          clcWriter,    \* Client.clcWriter
          removed,      \* removeClient has closed the writer and the peer
          started,      \* packetWriters created so far
          queue, holdUntil, closed, wake,   \* fields of each packetWriter
          pc,           \* where its goroutine is: unborn, next, idle, sleep, timer, write or done
          packet,       \* the packet it took from the queue
          deadline,     \* when its timer fires
          sent,         \* packets written to the peer, in order
          promised,     \* the latest end of a hold that DelayCLCFor granted
          heldTill      \* heldTill[n]: that end when packet n was received

writerVars == <<queue, holdUntil, closed, wake, pc, packet, deadline>>
clientVars == <<received, delaying, clcWriterMu, clcWriter, removed, started>>
history    == <<sent, promised, heldTill>>
vars       == <<now, clientVars, writerVars, history>>

Init ==
    /\ now = 0
    /\ received = 0
    /\ delaying = [c \in Callers |-> 0]
    /\ clcWriterMu = "free" /\ clcWriter = None
    /\ removed = FALSE /\ started = 0
    /\ queue = [w \in Writers |-> <<>>]
    /\ holdUntil = [w \in Writers |-> 0]
    /\ closed = [w \in Writers |-> FALSE]
    /\ wake = [w \in Writers |-> FALSE]
    /\ pc = [w \in Writers |-> "unborn"]
    /\ packet = [w \in Writers |-> None]
    /\ deadline = [w \in Writers |-> 0]
    /\ sent = <<>> /\ promised = 0 /\ heldTill = <<>>

\* The clock runs to MaxTime and to the end of every hold.
Tick ==
    /\ now < MaxTime \/ \E w \in Writers : now < holdUntil[w]
    /\ now' = now + 1
    /\ UNCHANGED <<clientVars, writerVars, history>>

------------------------------------------------------------------------------
(* The goroutines that call into the Client.                                *)

\* Mutant: nobody wakes the goroutine.
SignalLost(w) == UNCHANGED wake

\* The wake channel holds one token; a second one is dropped.
Signal(w) == wake' = [wake EXCEPT ![w] = TRUE]

CanLockClcWriter == clcWriterMu = "free"

\* DelayCLCFor, up to the creation of the writer and its goroutine.
DelayCLCFor(c, delay) ==
    /\ delaying[c] = 0 /\ CanLockClcWriter
    /\ now < MaxTime
    /\ clcWriterMu' = c
    /\ delaying' = [delaying EXCEPT ![c] = delay]
    /\ \/ /\ clcWriter # None
          /\ UNCHANGED <<clcWriter, started, pc>>
       \/ /\ clcWriter = None
          /\ started < MaxWriters
          /\ started' = started + 1
          /\ clcWriter' = started'
          /\ pc' = [pc EXCEPT ![started'] = "next"]
    /\ UNCHANGED <<now, received, removed, queue, holdUntil, closed, wake,
                   packet, deadline, history>>

Later(a, b) == IF a > b THEN a ELSE b

\* packetWriter.holdFor, with which DelayCLCFor ends.
HoldFor(c) ==
    LET until == now + delaying[c]
    IN  /\ delaying[c] # 0
        /\ holdUntil' = [holdUntil EXCEPT
                           ![clcWriter] = IF closed[clcWriter] THEN @ ELSE Later(@, until)]
        /\ Signal(clcWriter)
        /\ promised' = Later(promised, until)
        /\ delaying' = [delaying EXCEPT ![c] = 0]
        /\ clcWriterMu' = "free"
        /\ UNCHANGED <<now, received, clcWriter, removed, started,
                       queue, closed, pc, packet, deadline, sent, heldTill>>

\* What writing n to the peer does: a closed peer answers with an error.
WriteToPeer(n) == sent' = IF removed THEN sent ELSE Append(sent, n)

\* Mutant: the queue is used only while a hold lasts.
MustQueueHeld == clcWriter # None /\ now < holdUntil[clcWriter]

\* writeCLC goes through the queue as long as there is a writer.
MustQueue == clcWriter # None

WriteCLC ==
    /\ delaying["serve"] = 0 /\ CanLockClcWriter
    /\ received < MaxPackets
    /\ received' = received + 1
    /\ heldTill' = Append(heldTill, promised)
    /\ IF MustQueue
       THEN /\ queue' = [queue EXCEPT
                           ![clcWriter] = IF closed[clcWriter] THEN @
                                          ELSE Append(@, received')]
            /\ Signal(clcWriter)
            /\ UNCHANGED sent
       ELSE WriteToPeer(received') /\ UNCHANGED <<queue, wake>>
    /\ UNCHANGED <<now, delaying, clcWriterMu, clcWriter, removed, started,
                   holdUntil, closed, pc, packet, deadline, promised>>

\* removeClient, on handlePeer's goroutine: closeCLCWriter, then peer.Close.
RemoveClient ==
    /\ delaying["peer"] = 0 /\ CanLockClcWriter
    /\ ~removed
    /\ removed' = TRUE
    /\ clcWriter' = None
    /\ closed' = [w \in Writers |-> closed[w] \/ w = clcWriter]
    /\ queue' = [w \in Writers |-> IF w = clcWriter THEN <<>> ELSE queue[w]]
    /\ UNCHANGED <<now, received, delaying, clcWriterMu, started,
                   holdUntil, wake, pc, packet, deadline, history>>

------------------------------------------------------------------------------
(* The goroutine of packetWriter w: run().                                  *)

Goto(w, label) == pc' = [pc EXCEPT ![w] = label]

HoldExpired(w) == now >= holdUntil[w]

NextPacket(w) ==
    /\ pc[w] = "next"
    /\ \/ /\ closed[w]
          /\ Goto(w, "done")
          /\ UNCHANGED <<queue, packet, deadline>>
       \/ /\ ~closed[w] /\ ~HoldExpired(w)
          /\ Goto(w, "timer")
          /\ deadline' = [deadline EXCEPT ![w] = holdUntil[w]]
          /\ UNCHANGED <<queue, packet>>
       \/ /\ ~closed[w] /\ HoldExpired(w) /\ queue[w] = <<>>
          /\ Goto(w, "idle")
          /\ UNCHANGED <<queue, packet, deadline>>
       \/ /\ ~closed[w] /\ HoldExpired(w) /\ queue[w] # <<>>
          /\ Goto(w, "write")
          /\ packet' = [packet EXCEPT ![w] = Head(queue[w])]
          /\ queue' = [queue EXCEPT ![w] = Tail(@)]
          /\ UNCHANGED deadline
    /\ UNCHANGED <<now, clientVars, holdUntil, closed, wake, history>>

\* Mutants: closeIfIdle forgets the queue, or the hold.
BusyHolding(w) == ~HoldExpired(w)
BusyQueue(w)   == queue[w] # <<>>

\* closeIfIdle finds a reason to go on.
Busy(w) == queue[w] # <<>> \/ ~HoldExpired(w)

CloseIdleCLCWriter(w) ==
    /\ pc[w] = "idle" /\ CanLockClcWriter
    /\ \/ /\ clcWriter # w
          /\ closed' = [closed EXCEPT ![w] = TRUE]
          /\ queue' = [queue EXCEPT ![w] = <<>>]
          /\ Goto(w, "done")
          /\ UNCHANGED clcWriter
       \/ /\ clcWriter = w /\ ~closed[w] /\ Busy(w)
          /\ Goto(w, "sleep")
          /\ UNCHANGED <<closed, queue, clcWriter>>
       \/ /\ clcWriter = w /\ (closed[w] \/ ~Busy(w))
          /\ closed' = [closed EXCEPT ![w] = TRUE]
          /\ queue' = [queue EXCEPT ![w] = <<>>]
          /\ clcWriter' = None
          /\ Goto(w, "done")
    /\ UNCHANGED <<now, received, delaying, clcWriterMu, removed, started,
                   holdUntil, wake, packet, deadline, history>>

\* The two selects of run(): a wake token, the end of the writer, or the timer.
Wait(w) ==
    /\ pc[w] \in {"sleep", "timer"}
    /\ \/ /\ wake[w]
          /\ wake' = [wake EXCEPT ![w] = FALSE]
          /\ Goto(w, "next")
       \/ /\ closed[w]
          /\ Goto(w, "done")
          /\ UNCHANGED wake
       \/ /\ pc[w] = "timer" /\ now >= deadline[w]
          /\ Goto(w, "next")
          /\ UNCHANGED wake
    /\ UNCHANGED <<now, clientVars, queue, holdUntil, closed, packet, deadline, history>>

WritePacket(w) ==
    /\ pc[w] = "write" /\ CanLockClcWriter
    /\ WriteToPeer(packet[w])
    /\ packet' = [packet EXCEPT ![w] = None]
    /\ Goto(w, "next")
    /\ UNCHANGED <<now, clientVars, queue, holdUntil, closed, wake, deadline,
                   promised, heldTill>>

------------------------------------------------------------------------------
Run(w) == NextPacket(w) \/ CloseIdleCLCWriter(w) \/ Wait(w) \/ WritePacket(w)

Next ==
    \/ Tick
    \/ \E c \in Callers, delay \in Delays : DelayCLCFor(c, delay)
    \/ \E c \in Callers : HoldFor(c)
    \/ WriteCLC
    \/ RemoveClient
    \/ \E w \in Writers : Run(w)

\* The scheduler runs every goroutine, a sync.Mutex does not starve a waiter,
\* and time passes.  Nobody has to send packets, ask for holds or disconnect.
Fairness ==
    /\ WF_vars(Tick)
    /\ \A c \in Callers : WF_vars(HoldFor(c))
    /\ \A w \in Writers :
          /\ WF_vars(NextPacket(w)) /\ WF_vars(Wait(w))
          /\ SF_vars(CloseIdleCLCWriter(w)) /\ SF_vars(WritePacket(w))

Spec == Init /\ [][Next]_vars

FairSpec == Spec /\ Fairness

------------------------------------------------------------------------------
\* The peer sees the client's packets in the order in which Serve received them,
\* without a gap or a repetition, across any number of holds and writers.
InOrder == \A i \in 1 .. Len(sent) : sent[i] = i

\* As long as the client is connected every packet is written, about to be
\* written by the current writer, or in its queue: a writer that closes itself
\* never takes a packet with it.
NothingDropped ==
    removed \/ received = Len(sent) + (IF clcWriter = None THEN 0
                                       ELSE Len(queue[clcWriter])
                                            + (IF pc[clcWriter] = "write" THEN 1 ELSE 0))

\* A packet received after DelayCLCFor has granted a hold reaches the peer only
\* when the hold is over, and a shorter hold granted meanwhile does not free it.
HoldRespected ==
    [][\A n \in 1 .. received' :
          sent' = Append(sent, n) => now >= heldTill'[n]]_vars

\* A received packet is written in the end, unless the client goes away: no wake
\* up of the goroutine is lost.
Forwarded ==
    \A n \in 1 .. MaxPackets : received = n ~> (Len(sent) >= n \/ removed)

\* A writer's goroutine ends: because it is idle, or because it was closed.
WritersFinish ==
    \A w \in Writers : pc[w] = "next" ~> pc[w] = "done"
==============================================================================
