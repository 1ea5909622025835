---------------------------- MODULE SignOnProofs ----------------------------
(***************************************************************************)
(* Proofs about SignOn: however many packets are lost, deadlines pass      *)
(* early and flushes come between, the server takes only a connected       *)
(* client for active, unless it is restarted.                              *)
(*                                                                         *)
(* The argument is about the order of what is on its way.  A getchallenge  *)
(* is answered by a challenge, that by a connect, that by an accepted; and *)
(* an accepted by the first command of the conversation, which goes on     *)
(* with replies to replies.  A network that keeps the order lets nothing   *)
(* of the handshake stay behind the conversation for long: each reply      *)
(* shows that one more kind of handshake packet has passed.                *)
(***************************************************************************)
EXTENDS SignOn, TLAPS, WellFoundedInduction

Elements(s) == {s[i] : i \in 1 .. Len(s)}

InQueues(s) == Elements(s.outgoingCommandsBuf) \cup Elements(s.outgoingCommands)

ClientCommands == {"new", "soundlist", "modellist", "prespawn", "spawn", "begin"}
ServerCommands == {"serverdata", "fullserverinfo", "soundlist", "modellist", "cmd spawn",
                   "skins"}
Stages == {"none", "idle", "serverdata", "prespawn", "spawn", "active"}

GamePackets(Command) == [kind : {"game"}, seq : Word, ack : Word, cmds : Seq(Command)]
ToServer == {Oob("getchallenge"), Oob("connect")} \cup GamePackets(ClientCommands)
ToClient == {Oob("challenge"), Oob("accepted")} \cup GamePackets(ServerCommands)

TypeOK ==
    /\ cl \in SequencerType(ClientCommands)
    /\ session \in [stage : Stages, seq : SequencerType(ServerCommands),
                    received : BOOLEAN, incoming : Word]
    /\ toServer \in Seq(ToServer) /\ toClient \in Seq(ToClient)
    /\ left \in [losses : Nat, early : Nat, restarts : {0}, flushes : Nat]

------------------------------------------------------------------------------
(* How far a packet of the handshake is, and how much of the handshake a    *)
(* command has seen pass.                                                   *)

Step(p) == CASE p = Oob("getchallenge") -> 1
             [] p = Oob("challenge")    -> 2
             [] p = Oob("connect")      -> 3
             [] p = Oob("accepted")     -> 4
             [] OTHER                   -> 6

ClientLevel == [c \in ClientCommands |-> IF c = "new" THEN 1 ELSE IF c = "soundlist" THEN 3 ELSE 5]
ServerLevel == [c \in ServerCommands |-> IF c \in {"serverdata", "fullserverinfo"} THEN 2 ELSE 4]
StageLevel(stage) == CASE stage \in {"none", "idle"} -> 0 [] stage = "serverdata" -> 2
                       [] OTHER -> 5

\* Every handshake packet on its way, in q, has come as far as n; behind the i-th it is further.
From(q, n) == \A i \in 1 .. Len(q) : Step(q[i]) >= n
Behind(q, i, n) == \A j \in 1 .. Len(q) : j > i => Step(q[j]) > n

Passed(q, r, n) == From(q, n) /\ From(r, n)

\* The commands in the packets of q have seen pass what their levels say, in q and in r.
Carries(q, level, r) ==
    \A i \in 1 .. Len(q) : q[i].kind = "game" =>
        \A c \in Elements(q[i].cmds) : Passed(q, r, level[c]) /\ Behind(q, i, level[c])

\* With q and r on their way to the server and to the client: so have the commands A and B
\* that these have to send, and the stage that the server's client has reached.
Ordered(q, r, A, B, stage) ==
    /\ \A c \in A : Passed(q, r, ClientLevel[c])
    /\ \A c \in B : Passed(q, r, ServerLevel[c])
    /\ Passed(q, r, StageLevel(stage))
    /\ Carries(q, ClientLevel, r)
    /\ Carries(r, ServerLevel, q)

OrderInv == Ordered(toServer, toClient, InQueues(cl), InQueues(session.seq), session.stage)

\* No packet of q has a command; one has the client's last.
Silent(q) == \A i \in 1 .. Len(q) : q[i].kind = "game" => q[i].cmds = <<>>
Begins(q) == \E i \in 1 .. Len(q) : "begin" \in Elements(q[i].cmds)

\* During the handshake nobody has a command to send.
HandshakeInv == cl.state = "Handshake" =>
    /\ InQueues(cl) = {} /\ InQueues(session.seq) = {}
    /\ session.stage \in {"none", "idle"}
    /\ Silent(toServer) /\ Silent(toClient)

\* The last command of the client was sent by a client that is connected.
HasBegun == "begin" \in InQueues(cl) \/ Begins(toServer) \/ session.stage = "active"
BeginInv == HasBegun => cl.state = "Connected"

IInv == TypeOK /\ OrderInv /\ HandshakeInv /\ BeginInv
------------------------------------------------------------------------------
(* Induction, and the functions that handle the commands of a packet.       *)

\* Every nonempty set of naturals has a least element.
LEMMA LeastNatural ==
    ASSUME NEW S \in SUBSET Nat, S # {}
    PROVE  \E s \in S : \A t \in S : s <= t
<1>1. \E s \in S : \A t \in S : ~ (<<t, s>> \in OpToRel(<, Nat))
  BY NatLessThanWellFounded, WFMin
<1>2. \A s, t \in Nat : t < s => <<t, s>> \in OpToRel(<, Nat)
  BY DEF OpToRel
<1>3. PICK s \in S : \A t \in S : ~ (<<t, s>> \in OpToRel(<, Nat))
  BY <1>1
<1>4. \A t \in S : ~ (t < s)
  BY <1>2, <1>3
<1> QED
  BY <1>4

\* Induction over the naturals up to a bound, for a set.
LEMMA SetInduction ==
    ASSUME NEW N \in Nat, NEW S, 0 \in S,
           \A n \in 1 .. N : n - 1 \in S => n \in S
    PROVE  0 .. N \subseteq S
<1>1. SUFFICES ASSUME (0 .. N) \ S # {}
               PROVE  FALSE
  OBVIOUS
<1>2. PICK m \in (0 .. N) \ S : \A t \in (0 .. N) \ S : m <= t
  <2>1. (0 .. N) \ S \in SUBSET Nat
    OBVIOUS
  <2> QED
    BY <1>1, <2>1, LeastNatural
<1>3. m # 0 /\ m \in 1 .. N /\ m - 1 \in 0 .. N /\ m - 1 \notin (0 .. N) \ S
  BY <1>2
<1> QED
  BY <1>2, <1>3

\* The functions that a recursion over 1 .. N defines.
Recursive(N, A, a, F) ==
    {g \in [0 .. N -> A] : \A n \in 0 .. N : g[n] = IF n = 0 THEN a ELSE F[<<g[n - 1], n>>]}

\* There is one.
LEMMA Recursion ==
    ASSUME NEW N \in Nat, NEW A, NEW a \in A, NEW F \in [A \X (1 .. N) -> A]
    PROVE  Recursive(N, A, a, F) # {}
<1> DEFINE Solves(g, m) == \A n \in 0 .. m : g[n] = IF n = 0 THEN a ELSE F[<<g[n - 1], n>>]
           S == {m \in 0 .. N : \E g \in [0 .. m -> A] : Solves(g, m)}
<1>1. 0 \in S
  <2> DEFINE g == [n \in 0 .. 0 |-> a]
  <2>1. g \in [0 .. 0 -> A] /\ Solves(g, 0)
    OBVIOUS
  <2>2. \E k \in [0 .. 0 -> A] : Solves(k, 0)
    <3> HIDE DEF g, Solves
    <3> QED
      BY <2>1
  <2> QED
    BY <2>2
<1>2. ASSUME NEW n \in 1 .. N, n - 1 \in S
      PROVE  n \in S
  <2>1. PICK g \in [0 .. n - 1 -> A] : Solves(g, n - 1)
    BY <1>2
  <2> DEFINE h == [k \in 0 .. n |-> IF k = n THEN F[<<g[n - 1], n>>] ELSE g[k]]
  <2>2. g[n - 1] \in A
    OBVIOUS
  <2>3. F[<<g[n - 1], n>>] \in A
    BY <2>2
  <2>4. h \in [0 .. n -> A]
    BY <2>3
  <2>5. ASSUME NEW k \in 0 .. n
        PROVE  h[k] = IF k = 0 THEN a ELSE F[<<h[k - 1], k>>]
    <3>1. CASE k = n
      <4>1. h[k] = F[<<g[n - 1], n>>] /\ h[n - 1] = g[n - 1] /\ k # 0
        BY <3>1
      <4> QED
        BY <3>1, <4>1
    <3>2. CASE k # n
      <4>1. k \in 0 .. n - 1 /\ h[k] = g[k]
        BY <3>2
      <4>2. k # 0 => h[k - 1] = g[k - 1]
        BY <4>1
      <4> HIDE DEF h
      <4> QED
        BY <2>1, <4>1, <4>2
    <3> QED
      BY <3>1, <3>2
  <2>6. Solves(h, n)
    <3> HIDE DEF h
    <3> QED
      BY <2>5
  <2>7. \E k \in [0 .. n -> A] : Solves(k, n)
    <3> HIDE DEF h, Solves
    <3> QED
      BY <2>4, <2>6
  <2>8. n \in 0 .. N
    OBVIOUS
  <2> QED
    BY <2>7, <2>8
<1>3. 0 .. N \subseteq S
  <2> HIDE DEF S
  <2> QED
    BY <1>1, <1>2, SetInduction
<1>4. N \in S
  BY <1>3
<1> QED
  BY <1>4 DEF Recursive

\* What a client makes of a packet's commands, one after the other.
ServerSays == ServerCommands \cup {"accepted", "challenge"}

Client == [state : States, reply : Seq(ClientCommands)]

\* Which command of the client answers which of the server.
ClientAnswers == {<<"accepted", "new">>, <<"fullserverinfo", "soundlist">>,
                  <<"soundlist", "modellist">>, <<"modellist", "prespawn">>,
                  <<"cmd spawn", "spawn">>, <<"skins", "begin">>}

\* The elements of a list are of the set that it is over.
LEMMA ElementsIn == ASSUME NEW S, NEW q \in Seq(S) PROVE Elements(q) \subseteq S
BY DEF Elements

\* The elements of two lists in one.
LEMMA ElementsConcat ==
    ASSUME NEW S, NEW q \in Seq(S), NEW r \in Seq(S)
    PROVE  /\ Elements(q \o r) = Elements(q) \cup Elements(r)
           /\ Elements(q) \subseteq S
<1>1. /\ Len(q) \in Nat /\ Len(r) \in Nat /\ Len(q \o r) = Len(q) + Len(r)
      /\ \A i \in 1 .. Len(q) : (q \o r)[i] = q[i] /\ q[i] \in S
      /\ \A i \in 1 .. Len(r) : (q \o r)[Len(q) + i] = r[i]
  OBVIOUS
<1>2. Elements(q) \subseteq Elements(q \o r)
  <2>1. \A i \in 1 .. Len(q) : i \in 1 .. Len(q \o r)
    BY <1>1
  <2> QED
    BY <1>1, <2>1 DEF Elements
<1>3. Elements(r) \subseteq Elements(q \o r)
  <2>1. \A i \in 1 .. Len(r) : Len(q) + i \in 1 .. Len(q \o r)
    BY <1>1
  <2> QED
    BY <1>1, <2>1 DEF Elements
<1>4. Elements(q \o r) \subseteq Elements(q) \cup Elements(r)
  <2> SUFFICES ASSUME NEW i \in 1 .. Len(q \o r)
               PROVE  (q \o r)[i] \in Elements(q) \cup Elements(r)
    BY DEF Elements
  <2>1. CASE i \in 1 .. Len(q)
    BY <1>1, <2>1 DEF Elements
  <2>2. CASE i \notin 1 .. Len(q)
    <3>1. i - Len(q) \in 1 .. Len(r) /\ i = Len(q) + (i - Len(q))
      BY <1>1, <2>2
    <3>2. (q \o r)[i] = r[i - Len(q)]
      BY <1>1, <3>1
    <3> QED
      BY <3>1, <3>2 DEF Elements
  <2> QED
    BY <2>1, <2>2
<1> QED
  BY <1>1, <1>2, <1>3, <1>4 DEF Elements

\* The empty list has none.
LEMMA ElementsEmpty == Elements(<<>>) = {}
BY DEF Elements

\* A list of one has that.
LEMMA ElementsOne == ASSUME NEW a PROVE Elements(<<a>>) = {a}
<1>1. Len(<<a>>) = 1 /\ <<a>>[1] = a
  OBVIOUS
<1> QED
  BY <1>1 DEF Elements

\* A list of two has these.
LEMMA ElementsTwo == ASSUME NEW a, NEW b PROVE Elements(<<a, b>>) = {a, b}
<1>1. Len(<<a, b>>) = 2 /\ <<a, b>>[1] = a /\ <<a, b>>[2] = b
  OBVIOUS
<1>2. 1 .. 2 = {1, 2}
  OBVIOUS
<1> QED
  BY <1>1, <1>2 DEF Elements

\* One command's answer and the state it leaves.
LEMMA HandleOne ==
    ASSUME NEW d \in ServerSays, NEW state \in States
    PROVE  LET one == HandleServerCommand(d, state) IN
           /\ one \in Client
           /\ one.state = CASE d = "accepted" -> "Connecting" [] d = "skins" -> "Connected"
                            [] OTHER -> state
           /\ \A c \in Elements(one.reply) : <<d, c>> \in ClientAnswers
<1>1. HandleServerCommand(d, state) \in Client
  <2>1. "Connecting" \in States /\ "Connected" \in States
    BY DEF States
  <2>2. \A c \in ClientCommands : <<c>> \in Seq(ClientCommands)
    OBVIOUS
  <2>3. \A c \in {"new", "soundlist", "modellist", "prespawn", "spawn", "begin"} :
           <<c>> \in Seq(ClientCommands)
    BY <2>2 DEF ClientCommands
  <2>4. \A st \in States, rp \in Seq(ClientCommands) : [state |-> st, reply |-> rp] \in Client
    BY DEF Client
  <2>5. <<>> \in Seq(ClientCommands)
    OBVIOUS
  <2> QED
    BY <2>1, <2>3, <2>4, <2>5 DEF HandleServerCommand
<1>2. HandleServerCommand(d, state).state =
        CASE d = "accepted" -> "Connecting" [] d = "skins" -> "Connected" [] OTHER -> state
  BY DEF HandleServerCommand
<1>3. \A c \in Elements(HandleServerCommand(d, state).reply) : <<d, c>> \in ClientAnswers
  <2>1. /\ Elements(<<"new">>) = {"new"} /\ Elements(<<"soundlist">>) = {"soundlist"}
        /\ Elements(<<"modellist">>) = {"modellist"} /\ Elements(<<"prespawn">>) = {"prespawn"}
        /\ Elements(<<"spawn">>) = {"spawn"} /\ Elements(<<"begin">>) = {"begin"}
    BY ElementsOne
  <2>2. Elements(<<>>) = {}
    BY ElementsEmpty
  <2>3. HandleServerCommand(d, state).reply =
          CASE d = "accepted" -> <<"new">> [] d = "fullserverinfo" -> <<"soundlist">>
            [] d = "soundlist" -> <<"modellist">> [] d = "modellist" -> <<"prespawn">>
            [] d = "cmd spawn" -> <<"spawn">> [] d = "skins" -> <<"begin">> [] OTHER -> <<>>
    BY DEF HandleServerCommand
  <2> QED
    BY <2>1, <2>2, <2>3 DEF ClientAnswers
<1> QED
  BY <1>1, <1>2, <1>3

\* The client stays one.
LEMMA HandleType ==
    ASSUME NEW x \in Client, NEW d \in ServerSays
    PROVE  HandleNext(x, d) \in Client
<1>1. HandleServerCommand(d, x.state) \in Client
  BY HandleOne DEF Client
<1> QED
  BY <1>1 DEF HandleNext, Client

\* Handling says what it is meant to say: the function of its recursion exists.
LEMMA HandlingEquation ==
    ASSUME NEW cmds \in Seq(ServerSays), NEW start \in States
    PROVE  \A n \in 0 .. Len(cmds) :
              Handling(cmds, start)[n] =
                IF n = 0 THEN [state |-> start, reply |-> <<>>]
                         ELSE HandleNext(Handling(cmds, start)[n - 1], cmds[n])
<1> DEFINE N == Len(cmds)
           a == [state |-> start, reply |-> <<>>]
           F == [x \in Client \X (1 .. N) |-> HandleNext(x[1], cmds[x[2]])]
           Is(g) == g = [n \in 0 .. N |-> IF n = 0 THEN a ELSE HandleNext(g[n - 1], cmds[n])]
<1>1. N \in Nat /\ a \in Client
  BY DEF Client
<1>2. F \in [Client \X (1 .. N) -> Client]
  <2>1. ASSUME NEW x \in Client \X (1 .. N)
        PROVE  HandleNext(x[1], cmds[x[2]]) \in Client
    <3>1. x[1] \in Client /\ cmds[x[2]] \in ServerSays
      OBVIOUS
    <3> QED
      BY <3>1, HandleType
  <2> QED
    BY <2>1
<1>3. PICK g \in [0 .. N -> Client] :
           \A n \in 0 .. N : g[n] = IF n = 0 THEN a ELSE F[<<g[n - 1], n>>]
  <2>1. Recursive(N, Client, a, F) # {}
    <3> HIDE DEF F, a, N, Is
    <3> QED
      BY <1>1, <1>2, Recursion
  <2> HIDE DEF F, a, N, Is
  <2> QED
    BY <2>1 DEF Recursive
<1>4. \A n \in 1 .. N : F[<<g[n - 1], n>>] = HandleNext(g[n - 1], cmds[n])
  <2> TAKE n \in 1 .. N
  <2>1. g[n - 1] \in Client
    BY <1>3, <1>1
  <2> QED
    BY <2>1
<1>5. \A n \in 0 .. N : g[n] = IF n = 0 THEN a ELSE HandleNext(g[n - 1], cmds[n])
  <2> HIDE DEF F, a
  <2> QED
    BY <1>1, <1>3, <1>4
<1>6. Is(g)
  <2> HIDE DEF a
  <2>1. g = [n \in 0 .. N |-> g[n]]
    OBVIOUS
  <2> QED
    BY <1>5, <2>1
<1>7. Is(Handling(cmds, start))
  <2>1. \E h : Is(h)
    <3> HIDE DEF Is
    <3> QED
      BY <1>6
  <2> QED
    BY <2>1 DEF Handling
<1> HIDE DEF a
<1>8. Handling(cmds, start) =
        [n \in 0 .. N |-> IF n = 0 THEN a ELSE HandleNext(Handling(cmds, start)[n - 1], cmds[n])]
  BY <1>7
<1> HIDE DEF Is
<1>9. \A n \in 0 .. N : Handling(cmds, start)[n] =
        IF n = 0 THEN a ELSE HandleNext(Handling(cmds, start)[n - 1], cmds[n])
  BY <1>8
<1> QED
  BY <1>9 DEF a

\* What is known of the client x, in the state start before, after the first n commands.
Handled(cmds, start, n, x) ==
    /\ x \in Client
    /\ x.state \in {start, "Connecting", "Connected"}
    /\ (\A i \in 1 .. n : cmds[i] # "accepted") =>
         x.state = IF \E i \in 1 .. n : cmds[i] = "skins" THEN "Connected" ELSE start
    /\ \A c \in Elements(x.reply) : \E i \in 1 .. n : <<cmds[i], c>> \in ClientAnswers

\* What is known of the client stays so with the next command.
LEMMA HandledNext ==
    ASSUME NEW cmds \in Seq(ServerSays), NEW start \in States, NEW n \in 1 .. Len(cmds),
           NEW x, Handled(cmds, start, n - 1, x)
    PROVE  Handled(cmds, start, n, HandleNext(x, cmds[n]))
<1> DEFINE one == HandleServerCommand(cmds[n], x.state)
           y == HandleNext(x, cmds[n])
<1>1. x \in Client /\ x.state \in States /\ x.reply \in Seq(ClientCommands) /\ cmds[n] \in ServerSays
  BY DEF Handled, Client
<1>2. /\ one \in Client /\ one.reply \in Seq(ClientCommands)
      /\ one.state = CASE cmds[n] = "accepted" -> "Connecting" [] cmds[n] = "skins" -> "Connected"
                       [] OTHER -> x.state
      /\ \A c \in Elements(one.reply) : <<cmds[n], c>> \in ClientAnswers
  BY <1>1, HandleOne DEF Client
<1>3. y.state = one.state /\ y.reply = x.reply \o one.reply
  BY DEF HandleNext
<1>4. y \in Client
  BY <1>1, HandleType
<1> HIDE DEF one, y
<1>5. n \in Nat /\ (1 .. n) = (1 .. (n - 1)) \cup {n}
  OBVIOUS
<1>6. y.state \in {start, "Connecting", "Connected"}
  BY <1>2, <1>3 DEF Handled
<1>7. ASSUME \A i \in 1 .. n : cmds[i] # "accepted"
      PROVE  y.state = IF \E i \in 1 .. n : cmds[i] = "skins" THEN "Connected" ELSE start
  <2>1. cmds[n] # "accepted" /\ \A i \in 1 .. n - 1 : cmds[i] # "accepted"
    BY <1>5, <1>7
  <2>2. x.state = IF \E i \in 1 .. n - 1 : cmds[i] = "skins" THEN "Connected" ELSE start
    BY <2>1 DEF Handled
  <2>3. (\E i \in 1 .. n : cmds[i] = "skins")
           <=> (cmds[n] = "skins" \/ \E i \in 1 .. n - 1 : cmds[i] = "skins")
    BY <1>5
  <2>4. CASE cmds[n] = "skins"
    BY <1>2, <1>3, <2>1, <2>3, <2>4
  <2>5. CASE cmds[n] # "skins"
    BY <1>2, <1>3, <2>1, <2>2, <2>3, <2>5
  <2> QED
    BY <2>4, <2>5
<1>8. ASSUME NEW c \in Elements(y.reply)
      PROVE  \E i \in 1 .. n : <<cmds[i], c>> \in ClientAnswers
  <2>1. c \in Elements(x.reply) \/ c \in Elements(one.reply)
    BY <1>1, <1>2, <1>3, <1>8, ElementsConcat
  <2>2. CASE c \in Elements(x.reply)
    BY <1>5, <2>2 DEF Handled
  <2>3. CASE c \in Elements(one.reply)
    BY <1>2, <1>5, <2>3
  <2> QED
    BY <2>1, <2>2, <2>3
<1>9. Handled(cmds, start, n, y)
  BY <1>4, <1>6, <1>7, <1>8 DEF Handled
<1> QED
  BY <1>9 DEF y

\* What is known of the client once it has handled a packet.
LEMMA HandleAllFacts ==
    ASSUME NEW cmds \in Seq(ServerSays), NEW start \in States
    PROVE  Handled(cmds, start, Len(cmds), HandleAll(cmds, start))
<1> DEFINE h == Handling(cmds, start)
           S == {n \in 0 .. Len(cmds) : Handled(cmds, start, n, h[n])}
<1>0. Len(cmds) \in Nat
  OBVIOUS
<1>1. 0 \in S
  <2>1. h[0] = [state |-> start, reply |-> <<>>]
    BY <1>0, HandlingEquation
  <2>2. Handled(cmds, start, 0, [state |-> start, reply |-> <<>>])
    <3>1. Elements(<<>>) = {} /\ 1 .. 0 = {}
      BY ElementsEmpty
    <3>2. <<>> \in Seq(ClientCommands)
      OBVIOUS
    <3> QED
      BY <3>1, <3>2 DEF Handled, Client
  <2> QED
    BY <1>0, <2>1, <2>2
<1>2. ASSUME NEW n \in 1 .. Len(cmds), n - 1 \in S
      PROVE  n \in S
  <2>1. h[n] = HandleNext(h[n - 1], cmds[n])
    <3>1. n \in 0 .. Len(cmds) /\ n # 0
      BY <1>0
    <3> HIDE DEF h
    <3>2. \A k \in 0 .. Len(cmds) :
            h[k] = IF k = 0 THEN [state |-> start, reply |-> <<>>]
                            ELSE HandleNext(h[k - 1], cmds[k])
      BY HandlingEquation DEF h
    <3> QED
      BY <3>1, <3>2
  <2>2. Handled(cmds, start, n - 1, h[n - 1])
    BY <1>2
  <2> HIDE DEF h
  <2>3. Handled(cmds, start, n, HandleNext(h[n - 1], cmds[n]))
    BY <2>2, HandledNext
  <2> QED
    BY <2>1, <2>3
<1>3. 0 .. Len(cmds) \subseteq S
  <2> HIDE DEF S
  <2> QED
    BY <1>0, <1>1, <1>2, SetInduction
<1> QED
  BY <1>0, <1>3 DEF HandleAll

\* What the server makes of a packet's commands, in the same way.
Answered == [stage : Stages, reply : Seq(ServerCommands)]

\* One command's answer and the stage it leads to.
LEMMA DispatchOne ==
    ASSUME NEW d \in ClientCommands, NEW stage \in Stages
    PROVE  LET one == LobbyCommand(d, stage) IN
           /\ one \in Answered
           /\ \A c \in Elements(one.reply) : ServerLevel[c] <= ClientLevel[d] + 1
           /\ StageLevel(one.stage) <= StageLevel(stage)
                \/ StageLevel(one.stage) <= ClientLevel[d] + 1
           /\ one.stage = "active" => stage = "active" \/ d = "begin"
<1> DEFINE Fits(st, rp) ==
              /\ st \in Stages /\ rp \in Seq(ServerCommands)
              /\ \A c \in Elements(rp) : ServerLevel[c] <= ClientLevel[d] + 1
              /\ StageLevel(st) <= StageLevel(stage) \/ StageLevel(st) <= ClientLevel[d] + 1
              /\ st = "active" => stage = "active" \/ d = "begin"
<1>1. SUFFICES \E st, rp : /\ Fits(st, rp)
                           /\ LobbyCommand(d, stage) = [stage |-> st, reply |-> rp]
  BY DEF Answered
<1>2. /\ <<>> \in Seq(ServerCommands) /\ <<"serverdata", "fullserverinfo">> \in Seq(ServerCommands)
      /\ <<"soundlist">> \in Seq(ServerCommands) /\ <<"modellist">> \in Seq(ServerCommands)
      /\ <<"cmd spawn">> \in Seq(ServerCommands) /\ <<"skins">> \in Seq(ServerCommands)
  BY DEF ServerCommands
<1>3. {"serverdata", "prespawn", "spawn", "active"} \subseteq Stages
  BY DEF Stages
<1>4. /\ Elements(<<>>) = {}
      /\ Elements(<<"serverdata", "fullserverinfo">>) = {"serverdata", "fullserverinfo"}
      /\ Elements(<<"soundlist">>) = {"soundlist"} /\ Elements(<<"modellist">>) = {"modellist"}
      /\ Elements(<<"cmd spawn">>) = {"cmd spawn"} /\ Elements(<<"skins">>) = {"skins"}
  BY ElementsEmpty, ElementsOne, ElementsTwo
<1>6. StageLevel(stage) \in Nat
  BY DEF StageLevel
<1>7. CASE d = "new"
  <2>1. LobbyCommand(d, stage) =
          [stage |-> "serverdata", reply |-> <<"serverdata", "fullserverinfo">>]
    BY <1>7 DEF LobbyCommand
  <2>2. PICK rp : rp = <<"serverdata", "fullserverinfo">>
    OBVIOUS
  <2>3. rp \in Seq(ServerCommands) /\ Elements(rp) = {"serverdata", "fullserverinfo"}
    BY <2>2, <1>2, <1>4
  <2>4. Fits("serverdata", rp)
    <3>1. ASSUME NEW c \in Elements(rp)
          PROVE  ServerLevel[c] <= ClientLevel[d] + 1
      <4>1. c \in {"serverdata", "fullserverinfo"}
        BY <2>3, <3>1
      <4>2. ServerLevel[c] = 2
        BY <4>1 DEF ServerLevel, ServerCommands
      <4>3. ClientLevel[d] + 1 >= 2
        BY <1>7 DEF ClientLevel, ClientCommands
      <4> QED
        BY <4>2, <4>3
    <3>2. StageLevel("serverdata") <= ClientLevel[d] + 1
      BY <1>7 DEF StageLevel, ClientLevel, ClientCommands
    <3> QED
      BY <1>7, <2>3, <3>1, <3>2, <1>3
  <2> HIDE DEF Fits
  <2> QED
    BY <2>1, <2>2, <2>4
<1>8. CASE d = "soundlist" /\ stage # "idle"
  <2>1. LobbyCommand(d, stage) = [stage |-> stage, reply |-> <<"soundlist">>]
    BY <1>8 DEF LobbyCommand
  <2>2. PICK rp : rp = <<"soundlist">>
    OBVIOUS
  <2>3. rp \in Seq(ServerCommands) /\ Elements(rp) = {"soundlist"}
    BY <2>2, <1>2, <1>4
  <2>4. Fits(stage, rp)
    <3>1. ASSUME NEW c \in Elements(rp)
          PROVE  ServerLevel[c] <= ClientLevel[d] + 1
      <4>1. c \in {"soundlist"}
        BY <2>3, <3>1
      <4>2. ServerLevel[c] = 4
        BY <4>1 DEF ServerLevel, ServerCommands
      <4>3. ClientLevel[d] + 1 >= 4
        BY <1>8 DEF ClientLevel, ClientCommands
      <4> QED
        BY <4>2, <4>3
    <3>2. StageLevel(stage) <= StageLevel(stage)
      BY <1>6
    <3> QED
      BY <1>8, <2>3, <3>1, <3>2, <1>3
  <2> HIDE DEF Fits
  <2> QED
    BY <2>1, <2>2, <2>4
<1>9. CASE d = "modellist" /\ stage # "idle"
  <2>1. LobbyCommand(d, stage) = [stage |-> stage, reply |-> <<"modellist">>]
    BY <1>9 DEF LobbyCommand
  <2>2. PICK rp : rp = <<"modellist">>
    OBVIOUS
  <2>3. rp \in Seq(ServerCommands) /\ Elements(rp) = {"modellist"}
    BY <2>2, <1>2, <1>4
  <2>4. Fits(stage, rp)
    <3>1. ASSUME NEW c \in Elements(rp)
          PROVE  ServerLevel[c] <= ClientLevel[d] + 1
      <4>1. c \in {"modellist"}
        BY <2>3, <3>1
      <4>2. ServerLevel[c] = 4
        BY <4>1 DEF ServerLevel, ServerCommands
      <4>3. ClientLevel[d] + 1 >= 4
        BY <1>9 DEF ClientLevel, ClientCommands
      <4> QED
        BY <4>2, <4>3
    <3>2. StageLevel(stage) <= StageLevel(stage)
      BY <1>6
    <3> QED
      BY <1>9, <2>3, <3>1, <3>2, <1>3
  <2> HIDE DEF Fits
  <2> QED
    BY <2>1, <2>2, <2>4
<1>10. CASE d = "prespawn" /\ stage = "serverdata"
  <2>1. LobbyCommand(d, stage) = [stage |-> "prespawn", reply |-> <<"cmd spawn">>]
    BY <1>10 DEF LobbyCommand
  <2>2. PICK rp : rp = <<"cmd spawn">>
    OBVIOUS
  <2>3. rp \in Seq(ServerCommands) /\ Elements(rp) = {"cmd spawn"}
    BY <2>2, <1>2, <1>4
  <2>4. Fits("prespawn", rp)
    <3>1. ASSUME NEW c \in Elements(rp)
          PROVE  ServerLevel[c] <= ClientLevel[d] + 1
      <4>1. c \in {"cmd spawn"}
        BY <2>3, <3>1
      <4>2. ServerLevel[c] = 4
        BY <4>1 DEF ServerLevel, ServerCommands
      <4>3. ClientLevel[d] + 1 >= 4
        BY <1>10 DEF ClientLevel, ClientCommands
      <4> QED
        BY <4>2, <4>3
    <3>2. StageLevel("prespawn") <= ClientLevel[d] + 1
      BY <1>10 DEF StageLevel, ClientLevel, ClientCommands
    <3> QED
      BY <1>10, <2>3, <3>1, <3>2, <1>3
  <2> HIDE DEF Fits
  <2> QED
    BY <2>1, <2>2, <2>4
<1>11. CASE d = "spawn" /\ stage = "prespawn"
  <2>1. LobbyCommand(d, stage) = [stage |-> "spawn", reply |-> <<"skins">>]
    BY <1>11 DEF LobbyCommand
  <2>2. PICK rp : rp = <<"skins">>
    OBVIOUS
  <2>3. rp \in Seq(ServerCommands) /\ Elements(rp) = {"skins"}
    BY <2>2, <1>2, <1>4
  <2>4. Fits("spawn", rp)
    <3>1. ASSUME NEW c \in Elements(rp)
          PROVE  ServerLevel[c] <= ClientLevel[d] + 1
      <4>1. c \in {"skins"}
        BY <2>3, <3>1
      <4>2. ServerLevel[c] = 4
        BY <4>1 DEF ServerLevel, ServerCommands
      <4>3. ClientLevel[d] + 1 >= 4
        BY <1>11 DEF ClientLevel, ClientCommands
      <4> QED
        BY <4>2, <4>3
    <3>2. StageLevel("spawn") <= ClientLevel[d] + 1
      BY <1>11 DEF StageLevel, ClientLevel, ClientCommands
    <3> QED
      BY <1>11, <2>3, <3>1, <3>2, <1>3
  <2> HIDE DEF Fits
  <2> QED
    BY <2>1, <2>2, <2>4
<1>12. CASE d = "begin" /\ stage = "spawn"
  <2>1. LobbyCommand(d, stage) = [stage |-> "active", reply |-> <<>>]
    BY <1>12 DEF LobbyCommand
  <2>2. PICK rp : rp = <<>>
    OBVIOUS
  <2>3. rp \in Seq(ServerCommands) /\ Elements(rp) = {}
    BY <2>2, <1>2, <1>4
  <2>4. Fits("active", rp)
    <3>1. \A c \in Elements(rp) : ServerLevel[c] <= ClientLevel[d] + 1
      BY <1>12, <2>3 DEF ServerLevel, ClientLevel, ServerCommands, ClientCommands
    <3>2. StageLevel("active") <= ClientLevel[d] + 1
      BY <1>12 DEF StageLevel, ClientLevel, ClientCommands
    <3> QED
      BY <1>12, <2>3, <3>1, <3>2, <1>3
  <2> HIDE DEF Fits
  <2> QED
    BY <2>1, <2>2, <2>4
<1>13. CASE ~ (d = "new" \/ (d \in {"soundlist", "modellist"} /\ stage # "idle")
               \/ (d = "prespawn" /\ stage = "serverdata") \/ (d = "spawn" /\ stage = "prespawn")
               \/ (d = "begin" /\ stage = "spawn"))
  <2>1. LobbyCommand(d, stage) = [stage |-> stage, reply |-> <<>>]
    BY <1>13 DEF LobbyCommand
  <2>2. PICK rp : rp = <<>>
    OBVIOUS
  <2>3. rp \in Seq(ServerCommands) /\ Elements(rp) = {}
    BY <2>2, <1>2, <1>4
  <2>4. Fits(stage, rp)
    <3>1. \A c \in Elements(rp) : ServerLevel[c] <= ClientLevel[d] + 1
      BY <2>3
    <3>2. StageLevel(stage) <= StageLevel(stage)
      BY <1>6
    <3> QED
      BY <2>3, <3>1, <3>2
  <2> HIDE DEF Fits
  <2> QED
    BY <2>1, <2>2, <2>4
<1> QED
  BY <1>7, <1>8, <1>9, <1>10, <1>11, <1>12, <1>13

\* The session stays one.
LEMMA DispatchType ==
    ASSUME NEW x \in Answered, NEW d \in ClientCommands
    PROVE  DispatchNext(x, d) \in Answered
<1>1. LobbyCommand(d, x.stage) \in Answered
  BY DispatchOne DEF Answered
<1> QED
  BY <1>1 DEF DispatchNext, Answered

\* Dispatching says what it is meant to say: the function of its recursion exists.
LEMMA DispatchingEquation ==
    ASSUME NEW cmds \in Seq(ClientCommands), NEW start \in Stages
    PROVE  \A n \in 0 .. Len(cmds) :
              Dispatching(cmds, start)[n] =
                IF n = 0 THEN [stage |-> start, reply |-> <<>>]
                         ELSE DispatchNext(Dispatching(cmds, start)[n - 1], cmds[n])
<1> DEFINE N == Len(cmds)
           a == [stage |-> start, reply |-> <<>>]
           F == [x \in Answered \X (1 .. N) |-> DispatchNext(x[1], cmds[x[2]])]
           Is(g) == g = [n \in 0 .. N |-> IF n = 0 THEN a ELSE DispatchNext(g[n - 1], cmds[n])]
<1>1. N \in Nat /\ a \in Answered
  BY DEF Answered
<1>2. F \in [Answered \X (1 .. N) -> Answered]
  <2>1. ASSUME NEW x \in Answered \X (1 .. N)
        PROVE  DispatchNext(x[1], cmds[x[2]]) \in Answered
    <3>1. x[1] \in Answered /\ cmds[x[2]] \in ClientCommands
      OBVIOUS
    <3> QED
      BY <3>1, DispatchType
  <2> QED
    BY <2>1
<1>3. PICK g \in [0 .. N -> Answered] :
           \A n \in 0 .. N : g[n] = IF n = 0 THEN a ELSE F[<<g[n - 1], n>>]
  <2>1. Recursive(N, Answered, a, F) # {}
    <3> HIDE DEF F, a, N, Is
    <3> QED
      BY <1>1, <1>2, Recursion
  <2> HIDE DEF F, a, N, Is
  <2> QED
    BY <2>1 DEF Recursive
<1>4. \A n \in 1 .. N : F[<<g[n - 1], n>>] = DispatchNext(g[n - 1], cmds[n])
  <2> TAKE n \in 1 .. N
  <2>1. g[n - 1] \in Answered
    BY <1>3, <1>1
  <2> QED
    BY <2>1
<1>5. \A n \in 0 .. N : g[n] = IF n = 0 THEN a ELSE DispatchNext(g[n - 1], cmds[n])
  <2> HIDE DEF F, a
  <2> QED
    BY <1>1, <1>3, <1>4
<1>6. Is(g)
  <2> HIDE DEF a
  <2>1. g = [n \in 0 .. N |-> g[n]]
    OBVIOUS
  <2> QED
    BY <1>5, <2>1
<1>7. Is(Dispatching(cmds, start))
  <2>1. \E h : Is(h)
    <3> HIDE DEF Is
    <3> QED
      BY <1>6
  <2> QED
    BY <2>1 DEF Dispatching
<1> HIDE DEF a
<1>8. Dispatching(cmds, start) =
        [n \in 0 .. N |-> IF n = 0 THEN a ELSE DispatchNext(Dispatching(cmds, start)[n - 1], cmds[n])]
  BY <1>7
<1> HIDE DEF Is
<1>9. \A n \in 0 .. N : Dispatching(cmds, start)[n] =
        IF n = 0 THEN a ELSE DispatchNext(Dispatching(cmds, start)[n - 1], cmds[n])
  BY <1>8
<1> QED
  BY <1>9 DEF a

\* What is known of the session, in the stage start before, after the first n commands.
Dispatched(cmds, start, n, x) ==
    /\ x \in Answered
    /\ \A c \in Elements(x.reply) :
         \E i \in 1 .. n : ServerLevel[c] <= ClientLevel[cmds[i]] + 1
    /\ \/ StageLevel(x.stage) <= StageLevel(start)
       \/ \E i \in 1 .. n : StageLevel(x.stage) <= ClientLevel[cmds[i]] + 1
    /\ x.stage = "active" => start = "active" \/ \E i \in 1 .. n : cmds[i] = "begin"

\* What is known of the session stays so with the next command.
LEMMA DispatchedNext ==
    ASSUME NEW cmds \in Seq(ClientCommands), NEW start \in Stages, NEW n \in 1 .. Len(cmds),
           NEW x, Dispatched(cmds, start, n - 1, x)
    PROVE  Dispatched(cmds, start, n, DispatchNext(x, cmds[n]))
<1> DEFINE one == LobbyCommand(cmds[n], x.stage)
           y == DispatchNext(x, cmds[n])
<1>1. /\ x \in Answered /\ x.stage \in Stages /\ x.reply \in Seq(ServerCommands)
      /\ cmds[n] \in ClientCommands
  BY DEF Dispatched, Answered
<1>2. /\ one \in Answered /\ one.reply \in Seq(ServerCommands)
      /\ \A c \in Elements(one.reply) : ServerLevel[c] <= ClientLevel[cmds[n]] + 1
      /\ StageLevel(one.stage) <= StageLevel(x.stage)
           \/ StageLevel(one.stage) <= ClientLevel[cmds[n]] + 1
      /\ one.stage = "active" => x.stage = "active" \/ cmds[n] = "begin"
  BY <1>1, DispatchOne DEF Answered
<1>3. y.stage = one.stage /\ y.reply = x.reply \o one.reply
  BY DEF DispatchNext
<1>4. y \in Answered
  BY <1>1, DispatchType
<1> HIDE DEF one, y
<1>5. n \in Nat /\ (1 .. n) = (1 .. (n - 1)) \cup {n}
  OBVIOUS
<1>6. ASSUME NEW c \in Elements(y.reply)
      PROVE  \E i \in 1 .. n : ServerLevel[c] <= ClientLevel[cmds[i]] + 1
  <2>1. c \in Elements(x.reply) \/ c \in Elements(one.reply)
    BY <1>1, <1>2, <1>3, <1>6, ElementsConcat
  <2>2. CASE c \in Elements(x.reply)
    BY <1>5, <2>2 DEF Dispatched
  <2>3. CASE c \in Elements(one.reply)
    BY <1>2, <1>5, <2>3
  <2> QED
    BY <2>1, <2>2, <2>3
<1>7. \/ StageLevel(y.stage) <= StageLevel(start)
      \/ \E i \in 1 .. n : StageLevel(y.stage) <= ClientLevel[cmds[i]] + 1
  <2>1. CASE StageLevel(y.stage) <= ClientLevel[cmds[n]] + 1
    BY <1>5, <2>1
  <2>2. CASE StageLevel(y.stage) <= StageLevel(x.stage)
    <3>1. StageLevel(y.stage) \in Nat /\ StageLevel(x.stage) \in Nat /\ StageLevel(start) \in Nat
          /\ \A i \in 1 .. n : ClientLevel[cmds[i]] \in Nat
      BY DEF StageLevel, ClientLevel
    <3>2. CASE StageLevel(x.stage) <= StageLevel(start)
      BY <2>2, <3>1, <3>2
    <3>3. ASSUME NEW i \in 1 .. n - 1, StageLevel(x.stage) <= ClientLevel[cmds[i]] + 1
          PROVE  \E k \in 1 .. n : StageLevel(y.stage) <= ClientLevel[cmds[k]] + 1
      <4>1. i \in 1 .. n
        BY <1>5
      <4> QED
        BY <2>2, <3>1, <3>3, <4>1
    <3> QED
      BY <3>2, <3>3 DEF Dispatched
  <2> QED
    BY <1>2, <1>3, <2>1, <2>2
<1>8. y.stage = "active" => start = "active" \/ \E i \in 1 .. n : cmds[i] = "begin"
  BY <1>2, <1>3, <1>5 DEF Dispatched
<1>9. Dispatched(cmds, start, n, y)
  BY <1>4, <1>6, <1>7, <1>8 DEF Dispatched
<1> QED
  BY <1>9 DEF y

\* What is known of the session once it has handled a packet.
LEMMA DispatchFacts ==
    ASSUME NEW cmds \in Seq(ClientCommands), NEW start \in Stages
    PROVE  Dispatched(cmds, start, Len(cmds), DispatchCommands(cmds, start))
<1> DEFINE h == Dispatching(cmds, start)
           S == {n \in 0 .. Len(cmds) : Dispatched(cmds, start, n, h[n])}
<1>0. Len(cmds) \in Nat
  OBVIOUS
<1>1. 0 \in S
  <2>1. h[0] = [stage |-> start, reply |-> <<>>]
    BY <1>0, DispatchingEquation
  <2>2. Dispatched(cmds, start, 0, [stage |-> start, reply |-> <<>>])
    <3>1. PICK rp : rp = <<>>
      OBVIOUS
    <3>2. Elements(rp) = {} /\ rp \in Seq(ServerCommands)
      BY <3>1, ElementsEmpty
    <3>3. StageLevel(start) <= StageLevel(start)
      BY DEF StageLevel
    <3>4. [stage |-> start, reply |-> rp] \in Answered
      BY <3>2 DEF Answered
    <3> QED
      BY <3>1, <3>2, <3>3, <3>4 DEF Dispatched
  <2> QED
    BY <1>0, <2>1, <2>2
<1>2. ASSUME NEW n \in 1 .. Len(cmds), n - 1 \in S
      PROVE  n \in S
  <2>1. h[n] = DispatchNext(h[n - 1], cmds[n])
    <3>1. n \in 0 .. Len(cmds) /\ n # 0
      BY <1>0
    <3> HIDE DEF h
    <3>2. \A k \in 0 .. Len(cmds) :
            h[k] = IF k = 0 THEN [stage |-> start, reply |-> <<>>]
                            ELSE DispatchNext(h[k - 1], cmds[k])
      BY DispatchingEquation DEF h
    <3> QED
      BY <3>1, <3>2
  <2>2. Dispatched(cmds, start, n - 1, h[n - 1])
    BY <1>2
  <2> HIDE DEF h
  <2>3. Dispatched(cmds, start, n, DispatchNext(h[n - 1], cmds[n]))
    BY <2>2, DispatchedNext
  <2> QED
    BY <2>1, <2>3
<1>3. 0 .. Len(cmds) \subseteq S
  <2> HIDE DEF S
  <2> QED
    BY <1>0, <1>1, <1>2, SetInduction
<1> QED
  BY <1>0, <1>3 DEF DispatchCommands

------------------------------------------------------------------------------
(* The sequencer: what comes out was put in.                                *)

\* The numbers of headers stay words.
LEMMA Words ==
    /\ 0 \in Word
    /\ \A w \in Word : Masked(w) \in Word /\ Increment(w) \in Word
    /\ \A w \in Word, reliable \in BOOLEAN : WithReliable(w, reliable) \in Word
BY SeqLimitAssumption DEF Word, Masked, IsReliable, Increment, WithReliable

\* A new sequencer has nothing to send.
LEMMA NewSequencerType ==
    ASSUME NEW C, NEW n \in Word
    PROVE  /\ NewSequencer(n) \in SequencerType(C)
           /\ InQueues(NewSequencer(n)) = {}
<1>1. PICK none : none = <<>>
  OBVIOUS
<1>2. none \in Seq(C) /\ Elements(none) = {}
  BY <1>1, ElementsEmpty
<1>3. NewSequencer(n) =
        [state |-> "Disconnected", incomingSeq |-> 0, incomingAck |-> 0, lastReliableSeq |-> 0,
         outgoingSeq |-> n, isIncomingAckReliable |-> FALSE, isOutgoingSeqReliable |-> FALSE,
         isIncomingSeqReliable |-> FALSE, outgoingCommands |-> none,
         outgoingCommandsBuf |-> none]
  BY <1>1 DEF NewSequencer
<1>4. 0 \in Word /\ "Disconnected" \in States
  BY Words DEF States
<1>5. NewSequencer(n) \in SequencerType(C)
  BY <1>2, <1>3, <1>4 DEF SequencerType
<1>6. InQueues(NewSequencer(n)) = {}
  BY <1>2, <1>3 DEF InQueues
<1> QED
  BY <1>5, <1>6

\* A state that is set leaves the queues alone.
LEMMA SetStateType ==
    ASSUME NEW C, NEW s \in SequencerType(C), NEW st \in States
    PROVE  /\ SetState(s, st) \in SequencerType(C)
           /\ InQueues(SetState(s, st)) = InQueues(s)
           /\ SetState(s, st).state = st
BY DEF SetState, SequencerType, InQueues

\* A header that arrives adds nothing to the queues.
LEMMA IncomingType ==
    ASSUME NEW C, NEW s \in SequencerType(C), NEW seq \in Word, NEW ack \in Word
    PROVE  /\ Incoming(s, seq, ack) \in SequencerType(C)
           /\ InQueues(Incoming(s, seq, ack)) \subseteq InQueues(s)
           /\ Incoming(s, seq, ack).state = s.state
<1> DEFINE r == Incoming(s, seq, ack)
<1>1. CASE Masked(seq) < s.incomingSeq
  BY <1>1 DEF Incoming
<1>2. CASE ~ (Masked(seq) < s.incomingSeq)
  <2>1. PICK none : none = <<>>
    OBVIOUS
  <2>2. none \in Seq(C) /\ Elements(none) = {}
    BY <2>1, ElementsEmpty
  <2>3. PICK buf : buf = IF IsReliable(ack) = s.isOutgoingSeqReliable THEN none
                                                            ELSE s.outgoingCommandsBuf
    OBVIOUS
  <2>4. buf \in Seq(C) /\ Elements(buf) \subseteq Elements(s.outgoingCommandsBuf)
    BY <2>2, <2>3 DEF SequencerType
  <2>5. PICK bit : bit = IF IsReliable(seq) THEN ~ s.isIncomingSeqReliable
                                            ELSE s.isIncomingSeqReliable
    OBVIOUS
  <2>6. bit \in BOOLEAN
    BY <2>5 DEF SequencerType
  <2>7. Masked(seq) \in Word /\ Masked(ack) \in Word /\ IsReliable(ack) \in BOOLEAN
    BY Words DEF IsReliable
  <2>8. r = [s EXCEPT !.outgoingCommandsBuf = buf, !.isIncomingSeqReliable = bit,
                      !.incomingSeq = Masked(seq), !.incomingAck = Masked(ack),
                      !.isIncomingAckReliable = IsReliable(ack)]
    BY <1>2, <2>1, <2>3, <2>5 DEF Incoming
  <2> HIDE DEF r
  <2>9. r \in SequencerType(C)
    BY <2>4, <2>6, <2>7, <2>8 DEF SequencerType
  <2>10. InQueues(r) \subseteq InQueues(s) /\ r.state = s.state
    BY <2>4, <2>8 DEF InQueues, SequencerType
  <2> QED
    BY <2>9, <2>10 DEF r
<1> QED
  BY <1>1, <1>2

\* Commands that are queued are in the queues.
LEMMA QueuedType ==
    ASSUME NEW C, NEW s \in SequencerType(C), NEW cmds \in Seq(C)
    PROVE  /\ Queued(s, cmds) \in SequencerType(C)
           /\ InQueues(Queued(s, cmds)) = InQueues(s) \cup Elements(cmds)
           /\ Queued(s, cmds).state = s.state
<1>1. s.outgoingCommands \in Seq(C) /\ s.outgoingCommands \o cmds \in Seq(C)
  BY DEF SequencerType
<1>2. Elements(s.outgoingCommands \o cmds) = Elements(s.outgoingCommands) \cup Elements(cmds)
  BY <1>1, ElementsConcat
<1> QED
  BY <1>1, <1>2 DEF Queued, SequencerType, InQueues

\* A packet that is numbered has commands of the queues or the new ones; they stay queued.
LEMMA OutgoingType ==
    ASSUME NEW C, NEW s \in SequencerType(C), NEW cmds \in Seq(C)
    PROVE  LET out == Outgoing(s, cmds) IN
           /\ GamePacket(out) \in GamePackets(C)
           /\ Elements(GamePacket(out).cmds) \subseteq InQueues(s) \cup Elements(cmds)
           /\ out.next \in SequencerType(C)
           /\ InQueues(out.next) \subseteq InQueues(s) \cup Elements(cmds)
           /\ out.next.state = s.state
<1> DEFINE queued == Queued(s, cmds)
           batched == IF MustStartBatch(queued) THEN StartBatch(queued) ELSE queued
           reliable == MustResend(queued) \/ MustStartBatch(queued)
           next == Increment(s.outgoingSeq)
           out == Outgoing(s, cmds)
<1>1. /\ queued \in SequencerType(C) /\ queued.state = s.state
      /\ InQueues(queued) = InQueues(s) \cup Elements(cmds)
  BY QueuedType
<1>2. /\ batched \in SequencerType(C) /\ batched.state = queued.state
      /\ InQueues(batched) \subseteq InQueues(queued)
  <2> HIDE DEF queued
  <2>1. CASE MustStartBatch(queued)
    <3>1. PICK none : none = <<>>
      OBVIOUS
    <3>2. none \in Seq(C) /\ Elements(none) = {}
      BY <3>1, ElementsEmpty
    <3>3. batched = [queued EXCEPT !.outgoingCommandsBuf = queued.outgoingCommands,
                                   !.isOutgoingSeqReliable = ~@, !.outgoingCommands = none]
      BY <2>1, <3>1 DEF StartBatch
    <3> HIDE DEF batched
    <3> QED
      BY <1>1, <3>2, <3>3 DEF SequencerType, InQueues
  <2>2. CASE ~ MustStartBatch(queued)
    BY <1>1, <2>2
  <2> QED
    BY <2>1, <2>2
<1>3. reliable \in BOOLEAN
  BY DEF MustResend, MustStartBatch
<1>4. next \in Word /\ s.outgoingSeq \in Word /\ s.incomingSeq \in Word
      /\ s.isIncomingSeqReliable \in BOOLEAN /\ batched.lastReliableSeq \in Word
  BY <1>2, Words DEF SequencerType
<1>5. /\ out.seq = WithReliable(s.outgoingSeq, reliable)
      /\ out.ack = WithReliable(s.incomingSeq, s.isIncomingSeqReliable)
      /\ out.cmds = IF reliable THEN batched.outgoingCommandsBuf ELSE <<>>
      /\ out.next = [batched EXCEPT !.outgoingSeq = next,
                                    !.lastReliableSeq = IF reliable THEN next ELSE @]
  BY DEF Outgoing
<1> HIDE DEF queued, batched, reliable, next, out
<1>6. /\ out.cmds \in Seq(C) /\ Elements(out.cmds) \subseteq InQueues(batched)
  <2>1. PICK none : none = <<>>
    OBVIOUS
  <2>2. none \in Seq(C) /\ Elements(none) = {}
    BY <2>1, ElementsEmpty
  <2>3. out.cmds = IF reliable THEN batched.outgoingCommandsBuf ELSE none
    BY <1>5, <2>1
  <2> QED
    BY <1>2, <2>2, <2>3 DEF SequencerType, InQueues
<1>7. out.seq \in Word /\ out.ack \in Word
  BY <1>3, <1>4, <1>5, Words
<1>8. out.next \in SequencerType(C) /\ out.next.state = s.state
      /\ InQueues(out.next) = InQueues(batched)
  BY <1>1, <1>2, <1>4, <1>5 DEF SequencerType, InQueues
<1>9. GamePacket(out) \in GamePackets(C) /\ GamePacket(out).cmds = out.cmds
  BY <1>6, <1>7 DEF GamePacket, GamePackets
<1> QED
  BY <1>1, <1>2, <1>6, <1>8, <1>9 DEF out

------------------------------------------------------------------------------
(* Channels: what is at the end of them, and what is taken from their head. *)

\* The packets of the handshake alternate between the two directions.
LEMMA Steps ==
    /\ \A p \in ToServer : Step(p) \in {1, 3, 6} /\ (p.kind = "game" => Step(p) = 6)
    /\ \A p \in ToClient : Step(p) \in {2, 4, 6} /\ (p.kind = "game" => Step(p) = 6)
    /\ \A p : Step(p) \in 1 .. 6
    /\ Step(Oob("getchallenge")) = 1 /\ Step(Oob("challenge")) = 2
    /\ Step(Oob("connect")) = 3 /\ Step(Oob("accepted")) = 4
BY DEF Step, ToServer, ToClient, Oob, GamePackets

\* What levels are.
LEMMA Levels ==
    /\ ClientLevel \in [ClientCommands -> {1, 3, 5}]
    /\ ServerLevel \in [ServerCommands -> {2, 4}]
    /\ \A stage : StageLevel(stage) \in {0, 2, 5}
BY DEF ClientLevel, ServerLevel, StageLevel

\* An answer is at most one level beyond what it answers.
LEMMA AnswerLevel ==
    ASSUME NEW d, NEW c, <<d, c>> \in ClientAnswers
    PROVE  /\ d = "accepted" => c = "new"
           /\ d # "accepted" => d \in ServerCommands /\ ClientLevel[c] <= ServerLevel[d] + 1
           /\ c = "begin" => d = "skins"
           /\ d \in ServerSays /\ d # "challenge" /\ c \in ClientCommands
<1>1. \/ d = "accepted" /\ c = "new"
      \/ d = "fullserverinfo" /\ c = "soundlist"
      \/ d = "soundlist" /\ c = "modellist"
      \/ d = "modellist" /\ c = "prespawn"
      \/ d = "cmd spawn" /\ c = "spawn"
      \/ d = "skins" /\ c = "begin"
  BY DEF ClientAnswers
<1>2. /\ ClientLevel["soundlist"] = 3 /\ ClientLevel["modellist"] = 5
      /\ ClientLevel["prespawn"] = 5 /\ ClientLevel["spawn"] = 5 /\ ClientLevel["begin"] = 5
  BY DEF ClientLevel, ClientCommands
<1>3. /\ ServerLevel["fullserverinfo"] = 2 /\ ServerLevel["soundlist"] = 4
      /\ ServerLevel["modellist"] = 4 /\ ServerLevel["cmd spawn"] = 4 /\ ServerLevel["skins"] = 4
  BY DEF ServerLevel, ServerCommands
<1>4. d # "accepted" => ClientLevel[c] <= ServerLevel[d] + 1
  <2>1. CASE d = "fullserverinfo" /\ c = "soundlist"
    <3>1. ClientLevel[c] = 3 /\ ServerLevel[d] = 2
      BY <1>2, <1>3, <2>1
    <3> QED
      BY <3>1
  <2>2. CASE d = "soundlist" /\ c = "modellist"
    <3>1. ClientLevel[c] = 5 /\ ServerLevel[d] = 4
      BY <1>2, <1>3, <2>2
    <3> QED
      BY <3>1
  <2>3. CASE d = "modellist" /\ c = "prespawn"
    <3>1. ClientLevel[c] = 5 /\ ServerLevel[d] = 4
      BY <1>2, <1>3, <2>3
    <3> QED
      BY <3>1
  <2>4. CASE d = "cmd spawn" /\ c = "spawn"
    <3>1. ClientLevel[c] = 5 /\ ServerLevel[d] = 4
      BY <1>2, <1>3, <2>4
    <3> QED
      BY <3>1
  <2>5. CASE d = "skins" /\ c = "begin"
    <3>1. ClientLevel[c] = 5 /\ ServerLevel[d] = 4
      BY <1>2, <1>3, <2>5
    <3> QED
      BY <3>1
  <2> QED
    BY <1>1, <2>1, <2>2, <2>3, <2>4, <2>5
<1> QED
  BY <1>1, <1>4 DEF ClientCommands, ServerCommands, ServerSays

\* What is in the rest of a list.
LEMMA TailOf ==
    ASSUME NEW S, NEW q \in Seq(S), q # <<>>
    PROVE  /\ Tail(q) \in Seq(S) /\ Head(q) = q[1] /\ Head(q) \in S /\ 1 \in 1 .. Len(q)
           /\ Len(q) \in Nat /\ Len(Tail(q)) = Len(q) - 1
           /\ \A i \in 1 .. Len(Tail(q)) : i + 1 \in 1 .. Len(q) /\ Tail(q)[i] = q[i + 1]
OBVIOUS

\* What is in a list with one more at its end.
LEMMA AppendOf ==
    ASSUME NEW S, NEW q \in Seq(S), NEW x \in S
    PROVE  /\ Append(q, x) \in Seq(S) /\ Len(q) \in Nat /\ Len(Append(q, x)) = Len(q) + 1
           /\ 1 .. Len(Append(q, x)) = (1 .. Len(q)) \cup {Len(q) + 1}
           /\ \A i \in 1 .. Len(q) : Append(q, x)[i] = q[i] /\ q[i] \in S
           /\ Append(q, x)[Len(q) + 1] = x
           /\ q \o <<x>> = Append(q, x)
OBVIOUS

\* The rest of a list is as far as the list, and further if all behind the head is.
LEMMA TailFrom ==
    ASSUME NEW S, NEW q \in Seq(S), q # <<>>, NEW n \in Nat
    PROVE  /\ From(q, n) => From(Tail(q), n) /\ Step(Head(q)) >= n
           /\ Behind(q, 1, n) => From(Tail(q), n + 1)
<1>1. From(q, n) => From(Tail(q), n) /\ Step(Head(q)) >= n
  BY TailOf DEF From
<1>2. ASSUME Behind(q, 1, n), NEW i \in 1 .. Len(Tail(q))
      PROVE  Step(Tail(q)[i]) >= n + 1
  <2>1. i + 1 \in 1 .. Len(q) /\ Tail(q)[i] = q[i + 1] /\ i + 1 > 1
    BY TailOf
  <2>2. Step(q[i + 1]) > n
    BY <1>2, <2>1 DEF Behind
  <2> QED
    BY <2>1, <2>2, Steps
<1> QED
  BY <1>1, <1>2 DEF From

\* A longer list is as far as the list and what is added to it.
LEMMA AppendFrom ==
    ASSUME NEW S, NEW q \in Seq(S), NEW x \in S, NEW n \in Nat
    PROVE  From(Append(q, x), n) <=> From(q, n) /\ Step(x) >= n
BY AppendOf DEF From

\* What is far is less far too.
LEMMA FromLess ==
    ASSUME NEW q, NEW n \in Nat, NEW m \in Nat, m <= n, From(q, n)
    PROVE  From(q, m)
<1> SUFFICES ASSUME NEW i \in 1 .. Len(q) PROVE Step(q[i]) >= m
  BY DEF From
<1>1. Step(q[i]) >= n /\ Step(q[i]) \in 1 .. 6
  BY Steps DEF From
<1> QED
  BY <1>1

\* A packet of a direction is as far as a level only if it is one further.
LEMMA FromNext ==
    /\ \A q \in Seq(ToServer) : \A n \in {2, 4} : From(q, n) => From(q, n + 1)
    /\ \A q \in Seq(ToClient) : \A n \in {1, 3, 5} : From(q, n) => From(q, n + 1)
<1>1. ASSUME NEW q \in Seq(ToServer), NEW n \in {2, 4}, From(q, n), NEW i \in 1 .. Len(q)
      PROVE  Step(q[i]) >= n + 1
  <2>1. q[i] \in ToServer /\ Step(q[i]) >= n
    BY <1>1 DEF From
  <2>2. Step(q[i]) \in {1, 3, 6}
    BY <2>1, Steps
  <2> QED
    BY <2>1, <2>2
<1>2. ASSUME NEW q \in Seq(ToClient), NEW n \in {1, 3, 5}, From(q, n), NEW i \in 1 .. Len(q)
      PROVE  Step(q[i]) >= n + 1
  <2>1. q[i] \in ToClient /\ Step(q[i]) >= n
    BY <1>2 DEF From
  <2>2. Step(q[i]) \in {2, 4, 6}
    BY <2>1, Steps
  <2> QED
    BY <2>1, <2>2
<1> QED
  BY <1>1, <1>2 DEF From

\* Lists of packets whose game packets have commands with levels.
Lists(S, C) == {q \in Seq(S) : \A i \in 1 .. Len(q) :
                                  q[i].kind = "game" => Elements(q[i].cmds) \subseteq C}

\* What the commands of a list have seen pass stays so while everything moves on, ...
LEMMA KeepCarries ==
    ASSUME NEW S, NEW C, NEW q \in Lists(S, C), NEW level \in [C -> 0 .. 5], NEW r, NEW r2,
           \A n \in 0 .. 5 : Passed(q, r, n) => Passed(q, r2, n),
           Carries(q, level, r)
    PROVE  Carries(q, level, r2)
<1> SUFFICES ASSUME NEW i \in 1 .. Len(q), q[i].kind = "game", NEW c \in Elements(q[i].cmds)
             PROVE  Passed(q, r2, level[c]) /\ Behind(q, i, level[c])
  BY DEF Carries
<1>1. Passed(q, r, level[c]) /\ Behind(q, i, level[c])
  BY DEF Carries
<1>2. level[c] \in 0 .. 5
  BY DEF Lists
<1> QED
  BY <1>1, <1>2

\* ... when the head of the list is taken, ...
LEMMA TailCarries ==
    ASSUME NEW S, NEW C, NEW q \in Lists(S, C), q # <<>>, NEW level \in [C -> 0 .. 5],
           NEW r, NEW r2,
           \A n \in 0 .. 5 : Passed(q, r, n) => Passed(Tail(q), r2, n),
           Carries(q, level, r)
    PROVE  Carries(Tail(q), level, r2)
<1> DEFINE t == Tail(q)
<1>0. q \in Seq(S)
  BY DEF Lists
<1> SUFFICES ASSUME NEW i \in 1 .. Len(t), t[i].kind = "game", NEW c \in Elements(t[i].cmds)
             PROVE  Passed(t, r2, level[c]) /\ Behind(t, i, level[c])
  BY DEF Carries
<1>1. i + 1 \in 1 .. Len(q) /\ t[i] = q[i + 1] /\ Len(t) \in Nat
  BY <1>0, TailOf
<1>2. Passed(q, r, level[c]) /\ Behind(q, i + 1, level[c])
  BY <1>1 DEF Carries
<1>3. level[c] \in 0 .. 5
  BY <1>1 DEF Lists
<1>4. Passed(t, r2, level[c])
  BY <1>2, <1>3
<1>5. ASSUME NEW j \in 1 .. Len(t), j > i
      PROVE  Step(t[j]) > level[c]
  <2>1. j + 1 \in 1 .. Len(q) /\ t[j] = q[j + 1]
    BY <1>0, TailOf
  <2>2. j + 1 > i + 1
    BY <1>1, <1>5
  <2> QED
    BY <1>2, <2>1, <2>2 DEF Behind
<1> QED
  BY <1>4, <1>5 DEF Behind

\* ... and when a packet is added to it that is further on, and so have the commands in that.
LEMMA AppendCarries ==
    ASSUME NEW S, NEW C, NEW q \in Lists(S, C), NEW level \in [C -> 0 .. 5], NEW r, NEW r2,
           NEW x \in S,
           \A n \in 0 .. 5 : Passed(q, r, n) => Passed(Append(q, x), r2, n) /\ Step(x) > n,
           x.kind = "game" => \A c \in Elements(x.cmds) : Passed(Append(q, x), r2, level[c]),
           Carries(q, level, r)
    PROVE  Carries(Append(q, x), level, r2)
<1> DEFINE t == Append(q, x)
<1>0. q \in Seq(S)
  BY DEF Lists
<1>1. /\ Len(q) \in Nat /\ 1 .. Len(t) = (1 .. Len(q)) \cup {Len(q) + 1}
      /\ \A i \in 1 .. Len(q) : t[i] = q[i]
      /\ t[Len(q) + 1] = x
  BY <1>0, AppendOf
<1> SUFFICES ASSUME NEW i \in 1 .. Len(t), t[i].kind = "game", NEW c \in Elements(t[i].cmds)
             PROVE  Passed(t, r2, level[c]) /\ Behind(t, i, level[c])
  BY DEF Carries
<1> HIDE DEF t
<1>2. CASE i \in 1 .. Len(q)
  <2>1. Passed(q, r, level[c]) /\ Behind(q, i, level[c])
    BY <1>1, <1>2 DEF Carries
  <2>2. level[c] \in 0 .. 5
    BY <1>1, <1>2 DEF Lists
  <2>3. Passed(t, r2, level[c]) /\ Step(x) > level[c]
    BY <2>1, <2>2 DEF t
  <2>4. ASSUME NEW j \in 1 .. Len(t), j > i
        PROVE  Step(t[j]) > level[c]
    BY <1>1, <2>1, <2>3, <2>4 DEF Behind
  <2> QED
    BY <2>3, <2>4 DEF Behind
<1>3. CASE i = Len(q) + 1
  <2>1. Passed(t, r2, level[c])
    BY <1>1, <1>3 DEF t
  <2>2. \A j \in 1 .. Len(t) : ~ (j > i)
    BY <1>1, <1>3
  <2> QED
    BY <2>1, <2>2 DEF Behind
<1> QED
  BY <1>1, <1>2, <1>3

\* The game packets of a channel have the commands of their sender.
LEMMA ListsOf ==
    /\ Seq(ToServer) \subseteq Lists(ToServer, ClientCommands)
    /\ Seq(ToClient) \subseteq Lists(ToClient, ServerCommands)
<1>1. \A p \in ToServer : p.kind = "game" => p.cmds \in Seq(ClientCommands)
  BY DEF ToServer, Oob, GamePackets
<1>2. \A p \in ToClient : p.kind = "game" => p.cmds \in Seq(ServerCommands)
  BY DEF ToClient, Oob, GamePackets
<1>3. \A S : \A s \in Seq(S) : Elements(s) \subseteq S
  BY ElementsIn
<1>4. ASSUME NEW q \in Seq(ToServer), NEW i \in 1 .. Len(q), q[i].kind = "game"
      PROVE  Elements(q[i].cmds) \subseteq ClientCommands
  <2>1. q[i] \in ToServer
    OBVIOUS
  <2> QED
    BY <1>1, <1>3, <1>4, <2>1
<1>5. ASSUME NEW q \in Seq(ToClient), NEW i \in 1 .. Len(q), q[i].kind = "game"
      PROVE  Elements(q[i].cmds) \subseteq ServerCommands
  <2>1. q[i] \in ToClient
    OBVIOUS
  <2> QED
    BY <1>2, <1>3, <1>5, <2>1
<1> QED
  BY <1>4, <1>5 DEF Lists

\* Fewer commands to send have seen as much pass.
LEMMA OrderedFewer ==
    ASSUME NEW q, NEW r, NEW A, NEW B, NEW stage, NEW A2 \in SUBSET A, NEW B2 \in SUBSET B,
           Ordered(q, r, A, B, stage)
    PROVE  Ordered(q, r, A2, B2, stage)
BY DEF Ordered

\* Packets taken from the head of a channel only leave less to pass.
LEMMA OrderedTails ==
    ASSUME NEW q \in Seq(ToServer), NEW r \in Seq(ToClient), NEW A \in SUBSET ClientCommands,
           NEW B \in SUBSET ServerCommands, NEW stage, Ordered(q, r, A, B, stage)
    PROVE  /\ q # <<>> => Ordered(Tail(q), r, A, B, stage)
           /\ r # <<>> => Ordered(q, Tail(r), A, B, stage)
<1>1. q \in Lists(ToServer, ClientCommands) /\ r \in Lists(ToClient, ServerCommands)
  BY ListsOf
<1>2. /\ ClientLevel \in [ClientCommands -> 0 .. 5] /\ ServerLevel \in [ServerCommands -> 0 .. 5]
      /\ StageLevel(stage) \in 0 .. 5
  BY Levels
<1>3. ASSUME q # <<>> PROVE Ordered(Tail(q), r, A, B, stage)
  <2>1. \A n \in 0 .. 5 : From(q, n) => From(Tail(q), n)
    BY <1>3, TailFrom
  <2>2. \A n \in 0 .. 5 : Passed(q, r, n) => Passed(Tail(q), r, n)
    BY <2>1 DEF Passed
  <2>3. \A n \in 0 .. 5 : Passed(r, q, n) => Passed(r, Tail(q), n)
    BY <2>1 DEF Passed
  <2>4. Carries(Tail(q), ClientLevel, r)
    BY <1>1, <1>2, <1>3, <2>2, TailCarries DEF Ordered
  <2>5. Carries(r, ServerLevel, Tail(q))
    BY <1>1, <1>2, <2>3, KeepCarries DEF Ordered
  <2> QED
    BY <1>2, <2>2, <2>4, <2>5 DEF Ordered
<1>4. ASSUME r # <<>> PROVE Ordered(q, Tail(r), A, B, stage)
  <2>1. \A n \in 0 .. 5 : From(r, n) => From(Tail(r), n)
    BY <1>4, TailFrom
  <2>2. \A n \in 0 .. 5 : Passed(q, r, n) => Passed(q, Tail(r), n)
    BY <2>1 DEF Passed
  <2>3. \A n \in 0 .. 5 : Passed(r, q, n) => Passed(Tail(r), q, n)
    BY <2>1 DEF Passed
  <2>4. Carries(q, ClientLevel, Tail(r))
    BY <1>1, <1>2, <2>2, KeepCarries DEF Ordered
  <2>5. Carries(Tail(r), ServerLevel, q)
    BY <1>1, <1>2, <1>4, <2>3, TailCarries DEF Ordered
  <2> QED
    BY <1>2, <2>2, <2>4, <2>5 DEF Ordered
<1> QED
  BY <1>3, <1>4

\* A packet that the client sends with commands it had to send, and that is further than
\* what has passed.
LEMMA OrderedToServer ==
    ASSUME NEW q \in Seq(ToServer), NEW r \in Seq(ToClient), NEW A \in SUBSET ClientCommands,
           NEW B \in SUBSET ServerCommands, NEW stage, Ordered(q, r, A, B, stage),
           NEW x \in ToServer, x.kind = "game" => Elements(x.cmds) \subseteq A,
           \A n \in 0 .. 5 : Passed(q, r, n) => Step(x) > n
    PROVE  Ordered(Append(q, x), r, A, B, stage)
<1> DEFINE t == Append(q, x)
<1>1. q \in Lists(ToServer, ClientCommands) /\ r \in Lists(ToClient, ServerCommands)
  BY ListsOf
<1>2. /\ ClientLevel \in [ClientCommands -> 0 .. 5] /\ ServerLevel \in [ServerCommands -> 0 .. 5]
      /\ StageLevel(stage) \in 0 .. 5
  BY Levels
<1>3. ASSUME NEW n \in 0 .. 5, Passed(q, r, n) PROVE Passed(t, r, n)
  <2>1. Step(x) > n /\ From(q, n) /\ From(r, n) /\ Step(x) \in 1 .. 6
    BY <1>3, Steps DEF Passed
  <2>2. From(t, n) <=> From(q, n) /\ Step(x) >= n
    BY AppendFrom
  <2> QED
    BY <2>1, <2>2 DEF Passed
<1>4. \A n \in 0 .. 5 : Passed(r, q, n) => Passed(r, t, n)
  BY <1>3 DEF Passed
<1> HIDE DEF t
<1>5. \A c \in A : Passed(t, r, ClientLevel[c])
  BY <1>2, <1>3 DEF Ordered
<1>6. Carries(t, ClientLevel, r)
  <2>1. \A n \in 0 .. 5 : Passed(q, r, n) => Passed(Append(q, x), r, n) /\ Step(x) > n
    BY <1>3 DEF t
  <2>2. x.kind = "game" => \A c \in Elements(x.cmds) : Passed(Append(q, x), r, ClientLevel[c])
    BY <1>5 DEF t
  <2>3. Carries(q, ClientLevel, r)
    BY DEF Ordered
  <2> QED
    BY <1>1, <1>2, <2>1, <2>2, <2>3, AppendCarries DEF t
<1>7. Carries(r, ServerLevel, t)
  BY <1>1, <1>2, <1>4, KeepCarries DEF Ordered
<1>8. Ordered(t, r, A, B, stage)
  BY <1>2, <1>3, <1>5, <1>6, <1>7 DEF Ordered
<1> QED
  BY <1>8 DEF t

\* The same of one that the server sends.
LEMMA OrderedToClient ==
    ASSUME NEW q \in Seq(ToServer), NEW r \in Seq(ToClient), NEW A \in SUBSET ClientCommands,
           NEW B \in SUBSET ServerCommands, NEW stage, Ordered(q, r, A, B, stage),
           NEW x \in ToClient, x.kind = "game" => Elements(x.cmds) \subseteq B,
           \A n \in 0 .. 5 : Passed(q, r, n) => Step(x) > n
    PROVE  Ordered(q, Append(r, x), A, B, stage)
<1> DEFINE t == Append(r, x)
<1>1. q \in Lists(ToServer, ClientCommands) /\ r \in Lists(ToClient, ServerCommands)
  BY ListsOf
<1>2. /\ ClientLevel \in [ClientCommands -> 0 .. 5] /\ ServerLevel \in [ServerCommands -> 0 .. 5]
      /\ StageLevel(stage) \in 0 .. 5
  BY Levels
<1>3. ASSUME NEW n \in 0 .. 5, Passed(q, r, n) PROVE Passed(q, t, n)
  <2>1. Step(x) > n /\ From(q, n) /\ From(r, n) /\ Step(x) \in 1 .. 6
    BY <1>3, Steps DEF Passed
  <2>2. From(t, n) <=> From(r, n) /\ Step(x) >= n
    BY AppendFrom
  <2> QED
    BY <2>1, <2>2 DEF Passed
<1>4. \A n \in 0 .. 5 : Passed(r, q, n) => Passed(t, q, n) /\ Step(x) > n
  BY <1>3 DEF Passed
<1> HIDE DEF t
<1>5. \A c \in B : Passed(q, t, ServerLevel[c])
  BY <1>2, <1>3 DEF Ordered
<1>6. Carries(t, ServerLevel, q)
  <2>1. \A n \in 0 .. 5 : Passed(r, q, n) => Passed(Append(r, x), q, n) /\ Step(x) > n
    BY <1>4 DEF t
  <2>2. x.kind = "game" => \A c \in Elements(x.cmds) : Passed(Append(r, x), q, ServerLevel[c])
    BY <1>5 DEF t, Passed
  <2>3. Carries(r, ServerLevel, q)
    BY DEF Ordered
  <2> QED
    BY <1>1, <1>2, <2>1, <2>2, <2>3, AppendCarries DEF t
<1>7. Carries(q, ClientLevel, t)
  BY <1>1, <1>2, <1>3, KeepCarries DEF Ordered
<1>8. Ordered(q, t, A, B, stage)
  BY <1>2, <1>3, <1>5, <1>6, <1>7 DEF Ordered
<1> QED
  BY <1>8 DEF t

\* What is behind a game packet for the client is further than its commands by one; so are
\* the answers.
LEMMA ClientReplies ==
    ASSUME NEW q \in Seq(ToServer), NEW r \in Seq(ToClient), NEW A \in SUBSET ClientCommands,
           NEW B \in SUBSET ServerCommands, NEW stage, Ordered(q, r, A, B, stage),
           r # <<>>, Head(r).kind = "game", NEW R \in SUBSET ClientCommands,
           \A c \in R : \E d \in Elements(Head(r).cmds) : ClientLevel[c] <= ServerLevel[d] + 1
    PROVE  Ordered(q, Tail(r), A \cup R, B, stage)
<1>1. Ordered(q, Tail(r), A, B, stage)
  BY OrderedTails
<1>2. ASSUME NEW c \in R PROVE Passed(q, Tail(r), ClientLevel[c])
  <2>1. PICK d \in Elements(Head(r).cmds) : ClientLevel[c] <= ServerLevel[d] + 1
    OBVIOUS
  <2>2. Head(r) = r[1] /\ 1 \in 1 .. Len(r)
    BY TailOf
  <2>3. d \in ServerCommands
    BY <2>1, <2>2, ListsOf DEF Lists
  <2> DEFINE m == ServerLevel[d]
             k == ClientLevel[c]
  <2>4. m \in {2, 4} /\ k \in {1, 3, 5} /\ k <= m + 1
    BY <2>1, <2>3, Levels
  <2>5. Passed(r, q, m) /\ Behind(r, 1, m)
    BY <2>1, <2>2 DEF Ordered, Carries
  <2> HIDE DEF m, k
  <2>6. From(Tail(r), m + 1)
    BY <2>4, <2>5, TailFrom
  <2>7. From(q, m + 1)
    BY <2>4, <2>5, FromNext DEF Passed
  <2>8. m + 1 \in Nat /\ k \in Nat
    BY <2>4
  <2>9. From(q, k) /\ From(Tail(r), k)
    BY <2>4, <2>6, <2>7, <2>8, FromLess
  <2> QED
    BY <2>9 DEF Passed, k
<1> QED
  BY <1>1, <1>2 DEF Ordered

\* The same of one for the server, of its answers and of the stage it leads to.
LEMMA ServerReplies ==
    ASSUME NEW q \in Seq(ToServer), NEW r \in Seq(ToClient), NEW A \in SUBSET ClientCommands,
           NEW B \in SUBSET ServerCommands, NEW stage, Ordered(q, r, A, B, stage),
           q # <<>>, Head(q).kind = "game", NEW R \in SUBSET ServerCommands, NEW next,
           \A c \in R : \E d \in Elements(Head(q).cmds) : ServerLevel[c] <= ClientLevel[d] + 1,
           \/ StageLevel(next) <= StageLevel(stage)
           \/ \E d \in Elements(Head(q).cmds) : StageLevel(next) <= ClientLevel[d] + 1
    PROVE  Ordered(Tail(q), r, A, B \cup R, next)
<1>1. Ordered(Tail(q), r, A, B, stage)
  BY OrderedTails
<1>2. ASSUME NEW d \in Elements(Head(q).cmds), NEW k \in Nat, k <= ClientLevel[d] + 1
      PROVE  Passed(Tail(q), r, k)
  <2>2. Head(q) = q[1] /\ 1 \in 1 .. Len(q)
    BY TailOf
  <2>3. d \in ClientCommands
    BY <2>2, ListsOf DEF Lists
  <2> DEFINE m == ClientLevel[d]
  <2>4. m \in {1, 3, 5} /\ k <= m + 1
    BY <1>2, <2>3, Levels
  <2>5. Passed(q, r, m) /\ Behind(q, 1, m)
    BY <2>2 DEF Ordered, Carries
  <2> HIDE DEF m
  <2>6. From(Tail(q), m + 1)
    BY <2>4, <2>5, TailFrom
  <2>7. From(r, m + 1)
    BY <2>4, <2>5, FromNext DEF Passed
  <2>8. m + 1 \in Nat
    BY <2>4
  <2>9. From(Tail(q), k) /\ From(r, k)
    BY <2>4, <2>6, <2>7, <2>8, FromLess
  <2> QED
    BY <2>9 DEF Passed
<1>3. ASSUME NEW c \in R PROVE Passed(Tail(q), r, ServerLevel[c])
  <2>1. ServerLevel[c] \in Nat
    BY Levels
  <2> QED
    BY <1>2, <2>1
<1>4. StageLevel(next) \in Nat /\ StageLevel(stage) \in Nat
  BY Levels
<1>5. Passed(Tail(q), r, StageLevel(next))
  <2>1. CASE StageLevel(next) <= StageLevel(stage)
    <3>1. From(Tail(q), StageLevel(stage)) /\ From(r, StageLevel(stage))
      BY <1>1 DEF Ordered, Passed
    <3> QED
      BY <1>4, <2>1, <3>1, FromLess DEF Passed
  <2>2. CASE \E d \in Elements(Head(q).cmds) : StageLevel(next) <= ClientLevel[d] + 1
    BY <1>2, <1>4, <2>2
  <2> QED
    BY <2>1, <2>2
<1> QED
  BY <1>1, <1>3, <1>5 DEF Ordered

------------------------------------------------------------------------------
(* The actions.                                                             *)

\* What the client does with a packet: what it sends behind q, to which it may have been
\* about to reply R.
ClientSends(s, q, R) ==
    /\ cl' \in SequencerType(ClientCommands) /\ cl'.state = s.state
    /\ InQueues(cl') \subseteq InQueues(s) \cup R
    /\ s.state = "Handshake" => cl' = s
    /\ \/ toServer' = q
       \/ \E g \in GamePackets(ClientCommands) :
             /\ s.state # "Handshake"
             /\ toServer' = Append(q, g)
             /\ Elements(g.cmds) \subseteq InQueues(s) \cup R

\* That is what Process does.
LEMMA ProcessEffect ==
    ASSUME NEW s \in SequencerType(ClientCommands), NEW p, p.seq \in Word, p.ack \in Word,
           NEW replies \in Seq(ClientCommands), NEW oob,
           toServer \o oob \in Seq(ToServer), Process(s, p, replies, oob)
    PROVE  ClientSends(s, toServer \o oob, Elements(replies))
<1> DEFINE heard == Incoming(s, p.seq, p.ack)
           out == Outgoing(heard, replies)
           q == toServer \o oob
<1>1. /\ heard \in SequencerType(ClientCommands) /\ InQueues(heard) \subseteq InQueues(s)
      /\ heard.state = s.state
  BY IncomingType
<1>2. \/ cl' = s /\ toServer' = q
      \/ cl' = Queued(heard, replies) /\ toServer' = q /\ s.state = "Connected"
      \/ /\ cl' = out.next /\ toServer' = q \o <<GamePacket(out)>>
         /\ s.state \in {"Connecting", "Connected"}
  BY DEF Process
<1> HIDE DEF heard, q
<1>3. /\ GamePacket(out) \in GamePackets(ClientCommands)
      /\ Elements(GamePacket(out).cmds) \subseteq InQueues(heard) \cup Elements(replies)
      /\ out.next \in SequencerType(ClientCommands)
      /\ InQueues(out.next) \subseteq InQueues(heard) \cup Elements(replies)
      /\ out.next.state = heard.state
  BY <1>1, OutgoingType
<1>4. q \o <<GamePacket(out)>> = Append(q, GamePacket(out))
  <2>1. q \in Seq(ToServer) /\ GamePacket(out) \in ToServer
    BY <1>3 DEF q, ToServer
  <2> QED
    BY <2>1, AppendOf
<1> HIDE DEF out
<1>5. CASE cl' = s /\ toServer' = q
  BY <1>5 DEF ClientSends, q
<1>6. CASE cl' = Queued(heard, replies) /\ toServer' = q /\ s.state = "Connected"
  <2>1. /\ Queued(heard, replies) \in SequencerType(ClientCommands)
        /\ InQueues(Queued(heard, replies)) = InQueues(heard) \cup Elements(replies)
        /\ Queued(heard, replies).state = heard.state
    BY <1>1, QueuedType
  <2> QED
    BY <1>1, <1>6, <2>1 DEF ClientSends, q
<1>7. CASE /\ cl' = out.next /\ toServer' = q \o <<GamePacket(out)>>
           /\ s.state \in {"Connecting", "Connected"}
  BY <1>1, <1>3, <1>4, <1>7 DEF ClientSends, q
<1> QED
  BY <1>2, <1>5, <1>6, <1>7

\* What the client sends behind q keeps the order.
LEMMA ClientSendsOrdered ==
    ASSUME NEW s, NEW q \in Seq(ToServer), NEW r \in Seq(ToClient),
           NEW R \in SUBSET ClientCommands, InQueues(s) \subseteq ClientCommands,
           NEW B \in SUBSET ServerCommands, NEW stage,
           Ordered(q, r, InQueues(s) \cup R, B, stage), ClientSends(s, q, R)
    PROVE  /\ toServer' \in Seq(ToServer)
           /\ Ordered(toServer', r, InQueues(cl'), B, stage)
<1>1. InQueues(cl') \subseteq InQueues(s) \cup R
  BY DEF ClientSends
<1>2. CASE toServer' = q
  BY <1>1, <1>2, OrderedFewer
<1>3. ASSUME NEW g \in GamePackets(ClientCommands), toServer' = Append(q, g),
             Elements(g.cmds) \subseteq InQueues(s) \cup R
      PROVE  /\ toServer' \in Seq(ToServer)
             /\ Ordered(toServer', r, InQueues(cl'), B, stage)
  <2>1. g \in ToServer /\ g.kind = "game"
    BY DEF ToServer, GamePackets
  <2>2. Step(g) = 6
    BY <2>1, Steps
  <2>3. \A n \in 0 .. 5 : Passed(q, r, n) => Step(g) > n
    BY <2>2
  <2> DEFINE A == InQueues(s) \cup R
  <2>4. A \in SUBSET ClientCommands /\ Ordered(q, r, A, B, stage) /\ Elements(g.cmds) \subseteq A
    BY <1>3
  <2> HIDE DEF A
  <2>5. Ordered(Append(q, g), r, A, B, stage)
    BY <2>1, <2>3, <2>4, OrderedToServer
  <2>6. Append(q, g) \in Seq(ToServer)
    BY <2>1, AppendOf
  <2> QED
    BY <1>1, <1>3, <2>5, <2>6, OrderedFewer DEF A
<1> QED
  BY <1>2, <1>3 DEF ClientSends

\* What follows from the types of the queues and of what is on its way.
LEMMA TypeFacts ==
    ASSUME TypeOK
    PROVE  /\ InQueues(cl) \in SUBSET ClientCommands
           /\ InQueues(session.seq) \in SUBSET ServerCommands
           /\ cl.state \in States
<1>1. /\ cl.outgoingCommandsBuf \in Seq(ClientCommands) /\ cl.outgoingCommands \in Seq(ClientCommands)
      /\ session.seq.outgoingCommandsBuf \in Seq(ServerCommands)
      /\ session.seq.outgoingCommands \in Seq(ServerCommands) /\ cl.state \in States
  BY DEF TypeOK, SequencerType
<1>2. /\ Elements(cl.outgoingCommandsBuf) \subseteq ClientCommands
      /\ Elements(cl.outgoingCommands) \subseteq ClientCommands
  BY <1>1, ElementsIn
<1>3. /\ Elements(session.seq.outgoingCommandsBuf) \subseteq ServerCommands
      /\ Elements(session.seq.outgoingCommands) \subseteq ServerCommands
  BY <1>1, ElementsIn
<1> QED
  BY <1>1, <1>2, <1>3 DEF InQueues

\* The first packet for the client, and what the client makes of it.
ClientHandles(p, handled) ==
    /\ handled.state \in States /\ handled.reply \in Seq(ClientCommands)
    /\ handled.state \in {cl.state, "Connecting", "Connected"}
    /\ \/ p = Oob("challenge") /\ Elements(handled.reply) = {} /\ handled.state = cl.state
       \/ p = Oob("accepted") /\ Elements(handled.reply) \subseteq {"new"}
       \/ /\ p \in GamePackets(ServerCommands)
          /\ \A c \in Elements(handled.reply) : \E d \in Elements(p.cmds) :
                ClientLevel[c] <= ServerLevel[d] + 1 /\ (c = "begin" => d = "skins")
          /\ handled.state =
               IF "skins" \in Elements(p.cmds) THEN "Connected" ELSE cl.state

\* That is what HandleAll makes of it.
LEMMA ClientHandlesPacket ==
    ASSUME NEW p \in ToClient, cl.state \in States
    PROVE  ClientHandles(p, HandleAll(p.cmds, cl.state))
<1> DEFINE h == HandleAll(p.cmds, cl.state)
           n == Len(p.cmds)
<1>1. /\ p = Oob("challenge") => p.cmds = <<"challenge">>
      /\ p = Oob("accepted") => p.cmds = <<"accepted">>
      /\ p \in GamePackets(ServerCommands) => p.cmds \in Seq(ServerCommands)
  BY DEF Oob, GamePackets
<1>2. p.cmds \in Seq(ServerSays)
  <2>1. <<"challenge">> \in Seq(ServerSays) /\ <<"accepted">> \in Seq(ServerSays)
    BY DEF ServerSays
  <2>2. Seq(ServerCommands) \subseteq Seq(ServerSays)
    BY DEF ServerSays
  <2> QED
    BY <1>1, <2>1, <2>2 DEF ToClient
<1>3. Handled(p.cmds, cl.state, n, h)
  BY <1>2, HandleAllFacts
<1> HIDE DEF h
<1>4. /\ h.state \in States /\ h.reply \in Seq(ClientCommands)
      /\ h.state \in {cl.state, "Connecting", "Connected"}
  BY <1>3 DEF Handled, Client
<1>5. \A c \in Elements(h.reply) : \E d \in Elements(p.cmds) : <<d, c>> \in ClientAnswers
  BY <1>3 DEF Handled, Elements
<1>6. \A i \in 1 .. n : p.cmds[i] \in Elements(p.cmds)
  BY DEF Elements
<1>7. (\A i \in 1 .. n : p.cmds[i] # "accepted") =>
         h.state = IF \E i \in 1 .. n : p.cmds[i] = "skins" THEN "Connected" ELSE cl.state
  BY <1>3 DEF Handled
<1>8. (\E i \in 1 .. n : p.cmds[i] = "skins") <=> "skins" \in Elements(p.cmds)
  BY DEF Elements
<1> HIDE DEF n
<1>9. CASE p = Oob("challenge")
  <2>1. Elements(p.cmds) = {"challenge"}
    BY <1>1, <1>9, ElementsOne
  <2>2. Elements(h.reply) = {}
    BY <1>5, <2>1, AnswerLevel
  <2>3. h.state = cl.state
    BY <1>6, <1>7, <1>8, <2>1
  <2> QED
    BY <1>4, <1>9, <2>2, <2>3 DEF ClientHandles, h
<1>10. CASE p = Oob("accepted")
  <2>1. Elements(p.cmds) = {"accepted"}
    BY <1>1, <1>10, ElementsOne
  <2>2. Elements(h.reply) \subseteq {"new"}
    BY <1>5, <2>1, AnswerLevel
  <2> QED
    BY <1>4, <1>10, <2>2 DEF ClientHandles, h
<1>11. CASE p \in GamePackets(ServerCommands)
  <2>1. Elements(p.cmds) \subseteq ServerCommands
    BY <1>1, <1>11, ElementsIn
  <2>2. "accepted" \notin Elements(p.cmds)
    BY <2>1 DEF ServerCommands
  <2>3. h.state = IF "skins" \in Elements(p.cmds) THEN "Connected" ELSE cl.state
    BY <1>6, <1>7, <1>8, <2>2
  <2>4. \A c \in Elements(h.reply) : \E d \in Elements(p.cmds) :
           ClientLevel[c] <= ServerLevel[d] + 1 /\ (c = "begin" => d = "skins")
    <3> TAKE c \in Elements(h.reply)
    <3>1. PICK d \in Elements(p.cmds) : <<d, c>> \in ClientAnswers
      BY <1>5
    <3>2. d # "accepted"
      BY <2>2
    <3>3. ClientLevel[c] <= ServerLevel[d] + 1 /\ (c = "begin" => d = "skins")
      BY <3>1, <3>2, AnswerLevel
    <3> QED
      BY <3>3
  <2> QED
    BY <1>4, <1>11, <2>3, <2>4 DEF ClientHandles, h
<1> QED
  BY <1>9, <1>10, <1>11 DEF ToClient

\* What Silent and Begins say of the rest of a list and of a longer one.
LEMMA SilentOf ==
    ASSUME NEW S, NEW q \in Seq(S)
    PROVE  /\ q # <<>> /\ Silent(q) => Silent(Tail(q))
           /\ \A x \in S : Silent(q) /\ (x.kind = "game" => x.cmds = <<>>) => Silent(Append(q, x))
           /\ q # <<>> /\ Begins(Tail(q)) => Begins(q)
           /\ q # <<>> /\ "begin" \in Elements(Head(q).cmds) => Begins(q)
           /\ \A x \in S : Begins(Append(q, x)) => Begins(q) \/ "begin" \in Elements(x.cmds)
<1>1. ASSUME q # <<>>
      PROVE  /\ Silent(q) => Silent(Tail(q))
             /\ Begins(Tail(q)) => Begins(q)
             /\ "begin" \in Elements(Head(q).cmds) => Begins(q)
  BY <1>1, TailOf DEF Silent, Begins
<1>2. ASSUME NEW x \in S
      PROVE  /\ Silent(q) /\ (x.kind = "game" => x.cmds = <<>>) => Silent(Append(q, x))
             /\ Begins(Append(q, x)) => Begins(q) \/ "begin" \in Elements(x.cmds)
  BY AppendOf DEF Silent, Begins
<1> QED
  BY <1>1, <1>2

\* The packets of the handshake are not the client's last.
LEMMA BeginIsGame ==
    ASSUME NEW p \in ToServer
    PROVE  /\ "begin" \in Elements(p.cmds) => p.kind = "game"
           /\ p.kind = "game" <=> p \in GamePackets(ClientCommands)
<1>1. /\ Oob("getchallenge").cmds = <<"getchallenge">> /\ Oob("connect").cmds = <<"connect">>
      /\ Oob("getchallenge").kind = "oob" /\ Oob("connect").kind = "oob"
  BY DEF Oob
<1>2. Elements(<<"getchallenge">>) = {"getchallenge"} /\ Elements(<<"connect">>) = {"connect"}
  BY ElementsOne
<1>3. p = Oob("getchallenge") \/ p = Oob("connect") \/ p \in GamePackets(ClientCommands)
  BY DEF ToServer
<1>4. p \in GamePackets(ClientCommands) => p.kind = "game"
  BY DEF GamePackets
<1> QED
  BY <1>1, <1>2, <1>3, <1>4

\* When the client has sent its last command the handshake is over, on both ways.
LEMMA BegunIsOver ==
    ASSUME TypeOK, OrderInv, HasBegun
    PROVE  Passed(toServer, toClient, 5)
<1>1. ClientLevel["begin"] = 5 /\ StageLevel("active") = 5
  BY DEF ClientLevel, ClientCommands, StageLevel
<1>2. CASE "begin" \in InQueues(cl)
  BY <1>1, <1>2 DEF OrderInv, Ordered
<1>3. CASE session.stage = "active"
  BY <1>1, <1>3 DEF OrderInv, Ordered
<1>4. CASE Begins(toServer)
  <2>1. PICK i \in 1 .. Len(toServer) : "begin" \in Elements(toServer[i].cmds)
    BY <1>4 DEF Begins
  <2>2. toServer[i] \in ToServer
    BY DEF TypeOK
  <2>3. toServer[i].kind = "game"
    BY <2>1, <2>2, BeginIsGame
  <2> QED
    BY <1>1, <2>1, <2>3 DEF OrderInv, Ordered, Carries
<1> QED
  BY <1>2, <1>3, <1>4 DEF HasBegun

\* What the client sends behind q does not begin the game unless it was to.
LEMMA ClientSendsBegin ==
    ASSUME NEW s, NEW q \in Seq(ToServer), NEW R, ClientSends(s, q, R),
           "begin" \in InQueues(cl') \/ Begins(toServer')
    PROVE  "begin" \in InQueues(s) \/ "begin" \in R \/ Begins(q)
<1>1. CASE "begin" \in InQueues(cl') \/ toServer' = q
  BY <1>1 DEF ClientSends
<1>2. ASSUME NEW g \in GamePackets(ClientCommands), toServer' = Append(q, g),
             Elements(g.cmds) \subseteq InQueues(s) \cup R, Begins(toServer')
      PROVE  "begin" \in InQueues(s) \/ "begin" \in R \/ Begins(q)
  <2>1. g \in ToServer
    BY DEF ToServer
  <2>2. Begins(q) \/ "begin" \in Elements(g.cmds)
    BY <1>2, <2>1, SilentOf
  <2> QED
    BY <1>2, <2>2
<1> QED
  BY <1>1, <1>2 DEF ClientSends

\* The client reads a packet: the invariant's parts, one after the other.
LEMMA ClientReadStep ==
    ASSUME SignOnAssumption, IInv, ClientRead
    PROVE  IInv'
<1> USE DEF IInv
<1> DEFINE p == Head(toClient)
           t == Tail(toClient)
           h == HandleAll(p.cmds, cl.state)
           s == SetState(cl, h.state)
           oob == IF p.cmds = <<"challenge">> THEN <<Oob("connect")>> ELSE <<>>
           q == toServer \o oob
           R == Elements(h.reply)
           B == InQueues(session.seq)
<1>1. /\ toClient # <<>> /\ toClient' = t /\ session' = session /\ left' = left
      /\ Process(s, p, h.reply, oob)
  BY DEF ClientRead
<1>2. /\ toServer \in Seq(ToServer) /\ toClient \in Seq(ToClient) /\ t \in Seq(ToClient)
      /\ p \in ToClient /\ cl \in SequencerType(ClientCommands)
      /\ InQueues(cl) \in SUBSET ClientCommands /\ B \in SUBSET ServerCommands /\ cl.state \in States
  BY <1>1, TailOf, TypeFacts DEF TypeOK
<1>3. p.seq \in Word /\ p.ack \in Word
  BY <1>2, Words DEF ToClient, Oob, GamePackets
<1>4. ClientHandles(p, h)
  BY <1>2, ClientHandlesPacket
<1> HIDE DEF h
<1>5. /\ s \in SequencerType(ClientCommands) /\ InQueues(s) = InQueues(cl) /\ s.state = h.state
      /\ h.reply \in Seq(ClientCommands) /\ R \in SUBSET ClientCommands
  <2>1. h.state \in States /\ h.reply \in Seq(ClientCommands)
    BY <1>4 DEF ClientHandles
  <2> QED
    BY <1>2, <2>1, SetStateType, ElementsIn
<1> HIDE DEF s, R, B
<1>6. /\ p = Oob("challenge") => q = Append(toServer, Oob("connect"))
      /\ p # Oob("challenge") => q = toServer
      /\ q \in Seq(ToServer) /\ Oob("connect") \in ToServer
  <2>1. Oob("connect") \in ToServer
    BY DEF ToServer
  <2>2. p.cmds = <<"challenge">> <=> p = Oob("challenge")
    <3>1. CASE p = Oob("challenge")
      BY <3>1 DEF Oob
    <3>2. CASE p = Oob("accepted")
      BY <3>2 DEF Oob
    <3>3. CASE p \in GamePackets(ServerCommands)
      <4>1. p.cmds \in Seq(ServerCommands) /\ p.kind = "game"
        BY <3>3 DEF GamePackets
      <4>2. Elements(p.cmds) \subseteq ServerCommands
        BY <4>1, ElementsIn
      <4>3. Elements(<<"challenge">>) = {"challenge"}
        BY ElementsOne
      <4>4. "challenge" \notin ServerCommands
        BY DEF ServerCommands
      <4>5. p.cmds # <<"challenge">>
        BY <4>2, <4>3, <4>4
      <4> QED
        BY <4>1, <4>5 DEF Oob
    <3> QED
      BY <1>2, <3>1, <3>2, <3>3 DEF ToClient
  <2>3. CASE p = Oob("challenge")
    <3>1. q = toServer \o <<Oob("connect")>>
      BY <2>2, <2>3
    <3> HIDE DEF q
    <3> QED
      BY <1>2, <2>1, <2>3, <3>1, AppendOf
  <2>4. CASE p # Oob("challenge")
    <3>1. q = toServer \o <<>>
      BY <2>2, <2>4
    <3>2. toServer \o <<>> = toServer
      BY <1>2
    <3> HIDE DEF q
    <3> QED
      BY <1>2, <2>1, <2>4, <3>1, <3>2
  <2> QED
    BY <2>3, <2>4
<1>7. ClientSends(s, q, R)
  <2> HIDE DEF p, oob
  <2> QED
    BY <1>1, <1>3, <1>5, <1>6, ProcessEffect DEF R
<1> HIDE DEF q, oob
<1>8. p \in GamePackets(ServerCommands) => p.kind = "game"
  BY DEF GamePackets
<1>9. Ordered(q, t, InQueues(s) \cup R, B, session.stage)
  <2> DEFINE A == InQueues(cl)
  <2>1. Ordered(toServer, toClient, A, B, session.stage)
    BY DEF OrderInv, B
  <2>2. A \in SUBSET ClientCommands /\ A \cup {} = A /\ InQueues(s) = A
    BY <1>2, <1>5
  <2> HIDE DEF A
  <2>3. CASE p = Oob("challenge")
    <3>1. Step(p) = 2 /\ Step(Oob("connect")) = 3 /\ Oob("connect").kind # "game"
      BY <2>3, Steps DEF Oob
    <3>2. \A n \in 0 .. 5 : Passed(toServer, toClient, n) => Step(Oob("connect")) > n
      <4> SUFFICES ASSUME NEW n \in 0 .. 5, Passed(toServer, toClient, n)
                   PROVE  Step(Oob("connect")) > n
        OBVIOUS
      <4>1. Step(p) >= n
        BY <1>1, <1>2, TailFrom DEF Passed
      <4> QED
        BY <3>1, <4>1
    <3>3. /\ toServer \in Seq(ToServer) /\ toClient \in Seq(ToClient)
          /\ A \in SUBSET ClientCommands /\ B \in SUBSET ServerCommands
          /\ Oob("connect") \in ToServer
      BY <1>2, <1>6, <2>2
    <3>4. Ordered(Append(toServer, Oob("connect")), toClient, A, B, session.stage)
      BY <2>1, <3>1, <3>2, <3>3, OrderedToServer
    <3>5. Ordered(q, toClient, A, B, session.stage)
      BY <1>6, <2>3, <3>4
    <3>6. Ordered(q, t, A, B, session.stage)
      BY <1>1, <1>2, <1>6, <2>2, <3>5, OrderedTails
    <3>7. R = {}
      BY <1>4, <2>3 DEF ClientHandles, R, Oob, GamePackets
    <3> QED
      BY <2>2, <3>6, <3>7
  <2>4. CASE p = Oob("accepted")
    <3>1. q = toServer
      BY <1>6, <2>4 DEF Oob
    <3>2. Ordered(q, t, A, B, session.stage)
      BY <1>1, <1>2, <2>1, <2>2, <3>1, OrderedTails
    <3>3. R \subseteq {"new"}
      BY <1>4, <2>4 DEF ClientHandles, R, Oob, GamePackets
    <3>4. Passed(q, t, 1)
      BY Steps DEF Passed, From
    <3>5. ClientLevel["new"] = 1
      BY DEF ClientLevel, ClientCommands
    <3> QED
      BY <2>2, <3>2, <3>3, <3>4, <3>5 DEF Ordered
  <2>5. CASE p \in GamePackets(ServerCommands)
    <3>1. p # Oob("challenge") /\ p # Oob("accepted")
      BY <1>8, <2>5 DEF Oob
    <3>2. \A c \in R : \E d \in Elements(p.cmds) : ClientLevel[c] <= ServerLevel[d] + 1
      BY <1>4, <3>1 DEF ClientHandles, R
    <3>3. Ordered(toServer, t, A \cup R, B, session.stage)
      BY <1>1, <1>2, <1>5, <1>8, <2>1, <2>2, <2>5, <3>2, ClientReplies
    <3> QED
      BY <1>6, <2>2, <3>1, <3>3
  <2> QED
    BY <1>2, <2>3, <2>4, <2>5 DEF ToClient
<1>10. toServer' \in Seq(ToServer) /\ Ordered(toServer', t, InQueues(cl'), B, session.stage)
  BY <1>2, <1>5, <1>6, <1>7, <1>9, ClientSendsOrdered
<1>11. TypeOK'
  BY <1>1, <1>2, <1>7, <1>10 DEF TypeOK, ClientSends
<1>12. OrderInv'
  BY <1>1, <1>10 DEF OrderInv, B
<1>13. HandshakeInv'
  <2> SUFFICES ASSUME cl'.state = "Handshake"
               PROVE  /\ InQueues(cl') = {} /\ InQueues(session'.seq) = {}
                      /\ session'.stage \in {"none", "idle"}
                      /\ Silent(toServer') /\ Silent(toClient')
    BY DEF HandshakeInv
  <2>1. h.state = "Handshake" /\ s.state = "Handshake"
    BY <1>5, <1>7 DEF ClientSends
  <2>2. cl.state = "Handshake"
    BY <1>4, <2>1 DEF ClientHandles
  <2>3. cl' = s /\ toServer' = q
    BY <1>7, <2>1 DEF ClientSends
  <2>4. /\ InQueues(cl) = {} /\ InQueues(session.seq) = {}
        /\ session.stage \in {"none", "idle"} /\ Silent(toServer) /\ Silent(toClient)
    BY <2>2 DEF HandshakeInv
  <2>5. Silent(q)
    <3>1. Oob("connect").kind # "game"
      BY DEF Oob
    <3>2. Silent(Append(toServer, Oob("connect")))
      <4>1. toServer \in Seq(ToServer) /\ Oob("connect") \in ToServer /\ Silent(toServer)
        BY <1>2, <1>6, <2>4
      <4> QED
        BY <3>1, <4>1, SilentOf
    <3> QED
      BY <1>6, <2>4, <3>2
  <2>6. Silent(t)
    BY <1>1, <1>2, <2>4, SilentOf
  <2> QED
    BY <1>1, <1>5, <2>3, <2>4, <2>5, <2>6
<1>14. BeginInv'
  <2> SUFFICES ASSUME HasBegun'
               PROVE  cl'.state = "Connected"
    BY DEF BeginInv
  <2>1. cl'.state = h.state
    BY <1>5, <1>7 DEF ClientSends
  <2>2. "begin" \in R \/ HasBegun
    <3>1. Begins(q) => Begins(toServer)
      <4>1. toServer \in Seq(ToServer) /\ Oob("connect") \in ToServer
        BY <1>2, <1>6
      <4>2. "begin" \notin Elements(Oob("connect").cmds)
        BY <4>1, BeginIsGame DEF Oob
      <4>3. Begins(Append(toServer, Oob("connect"))) => Begins(toServer)
        BY <4>1, <4>2, SilentOf
      <4> QED
        BY <1>6, <4>3
    <3>2. "begin" \in InQueues(cl') \/ Begins(toServer') \/ session.stage = "active"
      BY <1>1 DEF HasBegun
    <3> QED
      BY <1>5, <1>6, <1>7, <3>1, <3>2, ClientSendsBegin DEF HasBegun
  <2>3. CASE "begin" \in R
    <3>1. p \in GamePackets(ServerCommands)
      BY <1>4, <2>3 DEF ClientHandles, R
    <3>2. p # Oob("challenge") /\ p # Oob("accepted")
      BY <1>8, <3>1 DEF Oob
    <3>3. /\ "skins" \in Elements(p.cmds)
          /\ h.state = IF "skins" \in Elements(p.cmds) THEN "Connected" ELSE cl.state
      BY <1>4, <2>3, <3>2 DEF ClientHandles, R
    <3> QED
      BY <2>1, <3>3
  <2>4. CASE HasBegun
    <3>1. Passed(toServer, toClient, 5)
      BY <2>4, BegunIsOver
    <3>2. Step(p) >= 5
      BY <1>1, <1>2, <3>1, TailFrom DEF Passed
    <3>3. p # Oob("accepted")
      BY <3>2, Steps
    <3>4. cl.state = "Connected"
      BY <2>4 DEF BeginInv
    <3>5. h.state = "Connected"
      BY <1>4, <3>3, <3>4 DEF ClientHandles
    <3> QED
      BY <2>1, <3>5
  <2> QED
    BY <2>2, <2>3, <2>4
<1> QED
  BY <1>11, <1>12, <1>13, <1>14

\* A list without elements is empty.
LEMMA ElementsNone ==
    ASSUME NEW S, NEW q \in Seq(S), Elements(q) = {}
    PROVE  q = <<>>
<1>1. Len(q) = 0
  <2> SUFFICES ASSUME Len(q) # 0 PROVE FALSE
    OBVIOUS
  <2>1. Len(q) \in Nat /\ 1 \in 1 .. Len(q)
    OBVIOUS
  <2>2. q[1] \in Elements(q)
    BY <2>1 DEF Elements
  <2> QED
    BY <2>2
<1> QED
  BY <1>1

\* Before the sign-on there is nothing to have seen pass.
LEMMA OrderedIdle ==
    ASSUME NEW q, NEW r, NEW A, NEW B, NEW stage, NEW idle \in {"none", "idle"},
           Ordered(q, r, A, B, stage)
    PROVE  Ordered(q, r, A, {}, idle)
<1>1. StageLevel(idle) = 0
  BY DEF StageLevel
<1>2. Passed(q, r, 0)
  BY Steps DEF Passed, From
<1> QED
  BY <1>1, <1>2 DEF Ordered

\* What a silent network carries has seen nothing pass either.
LEMMA OrderedSilent ==
    ASSUME NEW q, NEW r, NEW idle \in {"none", "idle"}, Silent(q), Silent(r)
    PROVE  Ordered(q, r, {}, {}, idle)
<1>1. StageLevel(idle) = 0
  BY DEF StageLevel
<1>2. Passed(q, r, 0)
  BY Steps DEF Passed, From
<1>3. \A i \in 1 .. Len(q) : q[i].kind = "game" => Elements(q[i].cmds) = {}
  BY ElementsEmpty DEF Silent
<1>4. \A i \in 1 .. Len(r) : r[i].kind = "game" => Elements(r[i].cmds) = {}
  BY ElementsEmpty DEF Silent
<1> QED
  BY <1>1, <1>2, <1>3, <1>4 DEF Ordered, Carries

\* The client's read deadline passes.
LEMMA ReadTimeoutStep ==
    ASSUME SignOnAssumption, IInv, ReadTimeout
    PROVE  IInv'
<1> USE DEF IInv
<1>1. /\ session' = session /\ toClient' = toClient
      /\ left' \in [losses : Nat, early : Nat, restarts : {0}, flushes : Nat]
  <2>1. left' = left \/ (left.early > 0 /\ left' = [left EXCEPT !.early = @ - 1])
    BY DEF ReadTimeout
  <2> QED
    BY <2>1 DEF ReadTimeout, TypeOK
<1>2. /\ toServer \in Seq(ToServer) /\ toClient \in Seq(ToClient)
      /\ cl \in SequencerType(ClientCommands) /\ InQueues(cl) \in SUBSET ClientCommands
      /\ InQueues(session.seq) \in SUBSET ServerCommands
  BY TypeFacts DEF TypeOK
<1>3. CASE /\ cl.state = "Handshake" /\ cl' = AfterChallenge
           /\ toServer' = Append(toServer, Oob("getchallenge"))
  <2>1. Oob("getchallenge") \in ToServer /\ Oob("getchallenge").kind # "game"
    BY DEF ToServer, Oob
  <2>2. toServer' \in Seq(ToServer)
    BY <1>2, <1>3, <2>1, AppendOf
  <2>3. /\ cl' \in SequencerType(ClientCommands) /\ InQueues(cl') = {}
        /\ cl'.state = "Handshake"
    <3>1. cl.state \in States /\ "Handshake" \in States
      BY <1>2 DEF SequencerType, States
    <3>2. /\ Reset(cl) \in SequencerType(ClientCommands) /\ InQueues(Reset(cl)) = {}
      BY <3>1, Words, NewSequencerType, SetStateType DEF Reset
    <3> QED
      BY <1>3, <3>1, <3>2, SetStateType DEF AfterChallenge
  <2>4. /\ InQueues(session.seq) = {} /\ session.stage \in {"none", "idle"}
        /\ Silent(toServer) /\ Silent(toClient) /\ InQueues(cl) = {}
    BY <1>3 DEF HandshakeInv
  <2>5. Silent(toServer')
    BY <1>2, <1>3, <2>1, <2>4, SilentOf
  <2>6. TypeOK'
    BY <1>1, <1>2, <2>2, <2>3 DEF TypeOK
  <2>7. OrderInv'
    BY <1>1, <2>3, <2>4, <2>5, OrderedSilent DEF OrderInv
  <2>8. HandshakeInv'
    BY <1>1, <2>3, <2>4, <2>5 DEF HandshakeInv
  <2>9. BeginInv'
    <3>1. "begin" \notin Elements(Oob("getchallenge").cmds)
      BY <2>1, BeginIsGame
    <3>2. ~ HasBegun
      BY <1>3 DEF BeginInv
    <3>3. ~ HasBegun'
      BY <1>1, <1>2, <1>3, <2>1, <2>3, <3>1, <3>2, SilentOf DEF HasBegun
    <3> QED
      BY <3>3 DEF BeginInv
  <2> QED
    BY <2>6, <2>7, <2>8, <2>9
<1>4. CASE cl.state # "Handshake" /\ Process(cl, Oob("timeout"), <<>>, <<>>)
  <2>1. PICK none : none = <<>>
    OBVIOUS
  <2>2. none \in Seq(ClientCommands) /\ Elements(none) = {} /\ toServer \o none = toServer
    BY <1>2, <2>1, ElementsEmpty
  <2>3. Oob("timeout").seq \in Word /\ Oob("timeout").ack \in Word
    BY Words DEF Oob
  <2>4. Process(cl, Oob("timeout"), none, none)
    BY <1>4, <2>1
  <2>5. ClientSends(cl, toServer \o none, Elements(none))
    BY <1>2, <2>2, <2>3, <2>4, ProcessEffect
  <2>6. ClientSends(cl, toServer, {})
    BY <2>2, <2>5
  <2>7. Ordered(toServer, toClient, InQueues(cl) \cup {}, InQueues(session.seq), session.stage)
    BY DEF OrderInv
  <2>8. /\ toServer' \in Seq(ToServer)
        /\ Ordered(toServer', toClient, InQueues(cl'), InQueues(session.seq), session.stage)
    BY <1>2, <2>6, <2>7, ClientSendsOrdered
  <2>9. TypeOK'
    BY <1>1, <1>2, <2>6, <2>8 DEF TypeOK, ClientSends
  <2>10. OrderInv'
    BY <1>1, <2>8 DEF OrderInv
  <2>11. cl'.state = cl.state
    BY <2>6 DEF ClientSends
  <2>12. HandshakeInv'
    BY <1>4, <2>11 DEF HandshakeInv
  <2>13. BeginInv'
    <3>1. HasBegun' => HasBegun
      BY <1>1, <1>2, <2>6, ClientSendsBegin DEF HasBegun
    <3> QED
      BY <2>11, <3>1 DEF BeginInv
  <2> QED
    BY <2>9, <2>10, <2>12, <2>13
<1> QED
  BY <1>3, <1>4 DEF ReadTimeout

\* What the server does when it numbers a packet for the session s: it sends it behind r, and
\* may have been about to reply R.
ServerSends(s, r, R) ==
    \E g \in GamePackets(ServerCommands) :
       /\ toClient' = Append(r, g) /\ Elements(g.cmds) \subseteq InQueues(s.seq) \cup R
       /\ session'.seq \in SequencerType(ServerCommands)
       /\ session' = [s EXCEPT !.seq = session'.seq]
       /\ InQueues(session'.seq) \subseteq InQueues(s.seq) \cup R

\* That is what FlushClient does.
LEMMA FlushEffect ==
    ASSUME NEW s \in [stage : Stages, seq : SequencerType(ServerCommands),
                      received : BOOLEAN, incoming : Word],
           NEW replies \in Seq(ServerCommands), FlushClient(s, replies)
    PROVE  ServerSends(s, toClient, Elements(replies))
<1> DEFINE out == Outgoing(s.seq, replies)
<1>1. /\ session' = [s EXCEPT !.seq = out.next]
      /\ toClient' = Append(toClient, GamePacket(out))
  BY DEF FlushClient
<1>2. /\ GamePacket(out) \in GamePackets(ServerCommands)
      /\ Elements(GamePacket(out).cmds) \subseteq InQueues(s.seq) \cup Elements(replies)
      /\ out.next \in SequencerType(ServerCommands)
      /\ InQueues(out.next) \subseteq InQueues(s.seq) \cup Elements(replies)
  BY OutgoingType
<1> HIDE DEF out
<1>3. session'.seq = out.next
  BY <1>1
<1> QED
  BY <1>1, <1>2, <1>3 DEF ServerSends

\* What the server sends keeps the order.
LEMMA ServerSendsOrdered ==
    ASSUME NEW s, NEW q \in Seq(ToServer), NEW r \in Seq(ToClient),
           NEW R \in SUBSET ServerCommands, InQueues(s.seq) \subseteq ServerCommands,
           NEW A \in SUBSET ClientCommands, NEW stage,
           Ordered(q, r, A, InQueues(s.seq) \cup R, stage), ServerSends(s, r, R)
    PROVE  /\ toClient' \in Seq(ToClient)
           /\ Ordered(q, toClient', A, InQueues(session'.seq), stage)
<1>1. PICK g \in GamePackets(ServerCommands) :
             /\ toClient' = Append(r, g) /\ Elements(g.cmds) \subseteq InQueues(s.seq) \cup R
             /\ InQueues(session'.seq) \subseteq InQueues(s.seq) \cup R
  BY DEF ServerSends
<1>2. g \in ToClient /\ g.kind = "game"
  BY DEF ToClient, GamePackets
<1>3. Step(g) = 6
  BY <1>2, Steps
<1>4. \A n \in 0 .. 5 : Passed(q, r, n) => Step(g) > n
  BY <1>3
<1> DEFINE B == InQueues(s.seq) \cup R
<1>5. B \in SUBSET ServerCommands /\ Ordered(q, r, A, B, stage) /\ Elements(g.cmds) \subseteq B
      /\ InQueues(session'.seq) \subseteq B
  BY <1>1
<1> HIDE DEF B
<1>6. Ordered(q, Append(r, g), A, B, stage)
  BY <1>2, <1>4, <1>5, OrderedToClient
<1>7. Append(r, g) \in Seq(ToClient)
  BY <1>2, AppendOf
<1> QED
  BY <1>1, <1>5, <1>6, <1>7, OrderedFewer

\* The application flushes.
LEMMA FlushStep ==
    ASSUME SignOnAssumption, IInv, Flush
    PROVE  IInv'
<1> USE DEF IInv
<1>1. /\ cl' = cl /\ toServer' = toServer
      /\ left' \in [losses : Nat, early : Nat, restarts : {0}, flushes : Nat]
  BY DEF Flush, TypeOK
<1>2. /\ toServer \in Seq(ToServer) /\ toClient \in Seq(ToClient)
      /\ InQueues(cl) \in SUBSET ClientCommands /\ InQueues(session.seq) \subseteq ServerCommands
      /\ session \in [stage : Stages, seq : SequencerType(ServerCommands),
                      received : BOOLEAN, incoming : Word]
  BY TypeFacts DEF TypeOK
<1>3. ServerSends(session, toClient, {})
  <2>1. PICK none : none = <<>>
    OBVIOUS
  <2>2. none \in Seq(ServerCommands) /\ Elements(none) = {} /\ FlushClient(session, none)
    BY <2>1, ElementsEmpty DEF Flush
  <2>3. ServerSends(session, toClient, Elements(none))
    BY <1>2, <2>2, FlushEffect
  <2> QED
    BY <2>2, <2>3
<1>4. Ordered(toServer, toClient, InQueues(cl), InQueues(session.seq) \cup {}, session.stage)
  BY DEF OrderInv
<1>5. /\ toClient' \in Seq(ToClient)
      /\ Ordered(toServer, toClient', InQueues(cl), InQueues(session'.seq), session.stage)
  BY <1>2, <1>3, <1>4, ServerSendsOrdered
<1>6. PICK g \in GamePackets(ServerCommands) :
             /\ toClient' = Append(toClient, g) /\ Elements(g.cmds) \subseteq InQueues(session.seq)
             /\ session'.seq \in SequencerType(ServerCommands)
             /\ session' = [session EXCEPT !.seq = session'.seq]
             /\ InQueues(session'.seq) \subseteq InQueues(session.seq)
  BY <1>3 DEF ServerSends
<1>7. session'.stage = session.stage
  BY <1>2, <1>6
<1>8. TypeOK'
  BY <1>1, <1>2, <1>5, <1>6 DEF TypeOK
<1>9. OrderInv'
  BY <1>1, <1>5, <1>7 DEF OrderInv
<1>10. HandshakeInv'
  <2> SUFFICES ASSUME cl.state = "Handshake"
               PROVE  /\ InQueues(cl') = {} /\ InQueues(session'.seq) = {}
                      /\ session'.stage \in {"none", "idle"}
                      /\ Silent(toServer') /\ Silent(toClient')
    BY <1>1 DEF HandshakeInv
  <2>1. /\ InQueues(cl) = {} /\ InQueues(session.seq) = {}
        /\ session.stage \in {"none", "idle"} /\ Silent(toServer) /\ Silent(toClient)
    BY DEF HandshakeInv
  <2>2. g.cmds = <<>> /\ g \in ToClient
    <3>1. g.cmds \in Seq(ServerCommands) /\ g \in ToClient
      BY DEF GamePackets, ToClient
    <3> QED
      BY <1>6, <2>1, <3>1, ElementsNone
  <2>3. Silent(toClient')
    BY <1>2, <1>6, <2>1, <2>2, SilentOf
  <2> QED
    BY <1>1, <1>6, <1>7, <2>1, <2>3
<1>11. BeginInv'
  <2>1. HasBegun' <=> HasBegun
    BY <1>1, <1>7 DEF HasBegun
  <2> QED
    BY <1>1, <2>1 DEF BeginInv
<1> QED
  BY <1>8, <1>9, <1>10, <1>11

\* The first packet of a channel is lost.
LEMMA LoseStep ==
    ASSUME SignOnAssumption, IInv, Lose
    PROVE  IInv'
<1> USE DEF IInv
<1>1. /\ cl' = cl /\ session' = session
      /\ left' \in [losses : Nat, early : Nat, restarts : {0}, flushes : Nat]
      /\ \/ toServer # <<>> /\ toServer' = Tail(toServer) /\ toClient' = toClient
         \/ toClient # <<>> /\ toClient' = Tail(toClient) /\ toServer' = toServer
  <2>1. left' \in [losses : Nat, early : Nat, restarts : {0}, flushes : Nat]
    <3>1. left \in [losses : Nat, early : Nat, restarts : {0}, flushes : Nat]
      BY DEF TypeOK
    <3>2. left.losses > 0 /\ left' = [left EXCEPT !.losses = left.losses - 1]
      BY DEF Lose
    <3> QED
      BY <3>1, <3>2
  <2> HIDE DEF IInv
  <2> QED
    BY <2>1 DEF Lose
<1>2. /\ toServer \in Seq(ToServer) /\ toClient \in Seq(ToClient)
      /\ InQueues(cl) \in SUBSET ClientCommands /\ InQueues(session.seq) \in SUBSET ServerCommands
  BY TypeFacts DEF TypeOK
<1>3. toServer' \in Seq(ToServer) /\ toClient' \in Seq(ToClient)
  <2>1. /\ toServer # <<>> => Tail(toServer) \in Seq(ToServer)
        /\ toClient # <<>> => Tail(toClient) \in Seq(ToClient)
    BY <1>2, TailOf
  <2> QED
    BY <1>1, <1>2, <2>1
<1>4. TypeOK'
  <2>1. cl \in SequencerType(ClientCommands) /\ session' = session /\ cl' = cl
    BY <1>1 DEF TypeOK
  <2> QED
    BY <1>1, <1>3, <2>1 DEF TypeOK
<1>5. OrderInv'
  <2>1. Ordered(toServer', toClient', InQueues(cl), InQueues(session.seq), session.stage)
    <3> DEFINE A == InQueues(cl)
               B == InQueues(session.seq)
    <3>1. Ordered(toServer, toClient, A, B, session.stage)
      BY DEF OrderInv
    <3>2. A \in SUBSET ClientCommands /\ B \in SUBSET ServerCommands
      BY <1>2
    <3> HIDE DEF A, B
    <3>3. /\ toServer # <<>> => Ordered(Tail(toServer), toClient, A, B, session.stage)
          /\ toClient # <<>> => Ordered(toServer, Tail(toClient), A, B, session.stage)
      BY <1>2, <3>1, <3>2, OrderedTails
    <3>4. Ordered(toServer', toClient', A, B, session.stage)
      BY <1>1, <3>3
    <3> QED
      BY <3>4 DEF A, B
  <2> QED
    BY <1>1, <2>1 DEF OrderInv
<1>6. HandshakeInv'
  <2>1. /\ toServer # <<>> /\ Silent(toServer) => Silent(Tail(toServer))
        /\ toClient # <<>> /\ Silent(toClient) => Silent(Tail(toClient))
    BY <1>2, SilentOf
  <2>2. Silent(toServer) /\ Silent(toClient) => Silent(toServer') /\ Silent(toClient')
    BY <1>1, <2>1
  <2> QED
    BY <1>1, <2>2 DEF HandshakeInv
<1>7. BeginInv'
  <2>1. Begins(toServer') => Begins(toServer)
    <3>1. toServer # <<>> /\ Begins(Tail(toServer)) => Begins(toServer)
      BY <1>2, SilentOf
    <3> QED
      BY <1>1, <3>1
  <2>2. HasBegun' => HasBegun
    BY <1>1, <2>1 DEF HasBegun
  <2> QED
    BY <1>1, <2>2 DEF BeginInv
<1> QED
  BY <1>4, <1>5, <1>6, <1>7

\* The stage of a session that begins and the queues of one that has none.
LEMMA NewSessions ==
    ASSUME SignOnAssumption
    PROVE  /\ Nobody \in [stage : Stages, seq : SequencerType(ServerCommands),
                          received : BOOLEAN, incoming : Word]
           /\ NewSession \in [stage : Stages, seq : SequencerType(ServerCommands),
                              received : BOOLEAN, incoming : Word]
           /\ Nobody.stage = "none" /\ NewSession.stage = "idle"
           /\ InQueues(Nobody.seq) = {} /\ InQueues(NewSession.seq) = {}
<1>1. 1 \in Word /\ 0 \in Word
  BY SeqLimitAssumption DEF Word
<1>2. /\ NewSequencer(1) \in SequencerType(ServerCommands)
      /\ InQueues(NewSequencer(1)) = {}
  BY <1>1, NewSequencerType
<1>3. "none" \in Stages /\ "idle" \in Stages
  BY DEF Stages
<1> QED
  BY <1>1, <1>2, <1>3 DEF Nobody, NewSession

\* What the server's client becomes with a packet of commands.
ServerHandles(p, handled) ==
    /\ handled.stage \in Stages /\ handled.reply \in Seq(ServerCommands)
    /\ \A c \in Elements(handled.reply) : \E d \in Elements(p.cmds) :
          ServerLevel[c] <= ClientLevel[d] + 1
    /\ \/ StageLevel(handled.stage) <= StageLevel(session.stage)
       \/ \E d \in Elements(p.cmds) : StageLevel(handled.stage) <= ClientLevel[d] + 1
    /\ handled.stage = "active" => session.stage = "active" \/ "begin" \in Elements(p.cmds)

\* That is what DispatchCommands makes of it.
LEMMA ServerHandlesPacket ==
    ASSUME NEW p \in GamePackets(ClientCommands), session.stage \in Stages
    PROVE  ServerHandles(p, DispatchCommands(p.cmds, session.stage))
<1> DEFINE h == DispatchCommands(p.cmds, session.stage)
           n == Len(p.cmds)
<1>1. p.cmds \in Seq(ClientCommands)
  BY DEF GamePackets
<1>2. Dispatched(p.cmds, session.stage, n, h)
  BY <1>1, DispatchFacts
<1> HIDE DEF h
<1>3. \A i \in 1 .. n : p.cmds[i] \in Elements(p.cmds)
  BY DEF Elements
<1> HIDE DEF n
<1>4. h.stage \in Stages /\ h.reply \in Seq(ServerCommands)
  BY <1>2 DEF Dispatched, Answered
<1>5. \A c \in Elements(h.reply) : \E d \in Elements(p.cmds) :
          ServerLevel[c] <= ClientLevel[d] + 1
  BY <1>2, <1>3 DEF Dispatched
<1>6. \/ StageLevel(h.stage) <= StageLevel(session.stage)
      \/ \E d \in Elements(p.cmds) : StageLevel(h.stage) <= ClientLevel[d] + 1
  BY <1>2, <1>3 DEF Dispatched
<1>7. h.stage = "active" => session.stage = "active" \/ "begin" \in Elements(p.cmds)
  BY <1>2, <1>3 DEF Dispatched
<1> QED
  BY <1>4, <1>5, <1>6, <1>7 DEF ServerHandles, h

\* The server answers a packet of the handshake.
LEMMA ServerAnswersStep ==
    ASSUME SignOnAssumption, IInv, toServer # <<>>, NEW x \in ToClient, x.kind # "game",
           Step(x) > Step(Head(toServer)), cl' = cl, left' = left,
           toServer' = Tail(toServer), toClient' = Append(toClient, x),
           session' = session \/ session' = NewSession
    PROVE  IInv'
<1> USE DEF IInv
<1> DEFINE A == InQueues(cl)
           B == InQueues(session.seq)
<1>1. /\ toServer \in Seq(ToServer) /\ toClient \in Seq(ToClient)
      /\ A \in SUBSET ClientCommands /\ B \in SUBSET ServerCommands
  BY TypeFacts DEF TypeOK
<1>2. toServer' \in Seq(ToServer) /\ toClient' \in Seq(ToClient)
  BY <1>1, TailOf, AppendOf
<1>3. TypeOK'
  BY <1>2, NewSessions DEF TypeOK
<1>4. Ordered(Tail(toServer), Append(toClient, x), A, B, session.stage)
  <2>1. Ordered(toServer, toClient, A, B, session.stage)
    BY DEF OrderInv
  <2> HIDE DEF A, B
  <2>2. \A n \in 0 .. 5 : Passed(toServer, toClient, n) => Step(x) > n
    <3> SUFFICES ASSUME NEW n \in 0 .. 5, Passed(toServer, toClient, n) PROVE Step(x) > n
      OBVIOUS
    <3>1. Step(Head(toServer)) >= n
      BY <1>1, TailFrom DEF Passed
    <3>2. Step(x) \in 1 .. 6 /\ Step(Head(toServer)) \in 1 .. 6
      BY Steps
    <3> QED
      BY <3>1, <3>2
  <2>3. Ordered(toServer, Append(toClient, x), A, B, session.stage)
    BY <1>1, <2>1, <2>2, OrderedToClient
  <2>4. Append(toClient, x) \in Seq(ToClient)
    BY <1>1, AppendOf
  <2> QED
    BY <1>1, <2>3, <2>4, OrderedTails
<1>5. OrderInv'
  <2>1. CASE session' = session
    BY <1>4, <2>1 DEF OrderInv
  <2>2. CASE session' = NewSession
    <3>1. Ordered(Tail(toServer), Append(toClient, x), A, {}, "idle")
      <4> HIDE DEF A, B
      <4> QED
        BY <1>4, OrderedIdle
    <3> QED
      BY <2>2, <3>1, NewSessions DEF OrderInv
  <2> QED
    BY <2>1, <2>2
<1>6. HandshakeInv'
  <2>1. Silent(toServer) /\ Silent(toClient) => Silent(toServer') /\ Silent(toClient')
    BY <1>1, SilentOf
  <2> QED
    BY <2>1, NewSessions DEF HandshakeInv
<1>7. BeginInv'
  <2>1. Begins(toServer') => Begins(toServer)
    BY <1>1, SilentOf
  <2>2. HasBegun' => HasBegun
    BY <2>1, NewSessions DEF HasBegun
  <2> QED
    BY <2>2 DEF BeginInv
<1> QED
  BY <1>3, <1>5, <1>6, <1>7

\* The server answers the commands of a packet, in the session s.
LEMMA ServerGameStep ==
    ASSUME SignOnAssumption, IInv, toServer # <<>>, Head(toServer).kind = "game",
           NEW h, ServerHandles(Head(toServer), h),
           NEW s \in [stage : Stages, seq : SequencerType(ServerCommands),
                      received : BOOLEAN, incoming : Word],
           InQueues(s.seq) \subseteq InQueues(session.seq), s.stage = h.stage,
           FlushClient(s, h.reply), cl' = cl, left' = left, toServer' = Tail(toServer)
    PROVE  IInv'
<1> USE DEF IInv
<1> DEFINE p == Head(toServer)
           t == Tail(toServer)
           R == Elements(h.reply)
           A == InQueues(cl)
           B == InQueues(session.seq)
<1>1. /\ toServer \in Seq(ToServer) /\ toClient \in Seq(ToClient) /\ t \in Seq(ToServer)
      /\ A \in SUBSET ClientCommands /\ B \in SUBSET ServerCommands
  BY TypeFacts, TailOf DEF TypeOK
<1>2. h.reply \in Seq(ServerCommands) /\ R \in SUBSET ServerCommands
  BY ElementsIn DEF ServerHandles
<1>3. ServerSends(s, toClient, R)
  BY <1>2, FlushEffect
<1>4. PICK g \in GamePackets(ServerCommands) :
             /\ toClient' = Append(toClient, g) /\ Elements(g.cmds) \subseteq InQueues(s.seq) \cup R
             /\ session'.seq \in SequencerType(ServerCommands)
             /\ session' = [s EXCEPT !.seq = session'.seq]
             /\ InQueues(session'.seq) \subseteq InQueues(s.seq) \cup R
  BY <1>3 DEF ServerSends
<1>5. session'.stage = h.stage
  BY <1>4
<1>6. Ordered(t, toClient, A, InQueues(s.seq) \cup R, h.stage)
  <2>1. Ordered(toServer, toClient, A, B, session.stage)
    BY DEF OrderInv
  <2>2. \A c \in R : \E d \in Elements(p.cmds) : ServerLevel[c] <= ClientLevel[d] + 1
    BY DEF ServerHandles
  <2>3. \/ StageLevel(h.stage) <= StageLevel(session.stage)
        \/ \E d \in Elements(p.cmds) : StageLevel(h.stage) <= ClientLevel[d] + 1
    BY DEF ServerHandles
  <2>4. InQueues(s.seq) \cup R \in SUBSET (B \cup R)
    OBVIOUS
  <2> HIDE DEF A, B, R
  <2>5. Ordered(t, toClient, A, B \cup R, h.stage)
    BY <1>1, <1>2, <2>1, <2>2, <2>3, ServerReplies
  <2> QED
    BY <2>4, <2>5, OrderedFewer
<1>7. /\ toClient' \in Seq(ToClient)
      /\ Ordered(t, toClient', A, InQueues(session'.seq), h.stage)
  <2>1. InQueues(s.seq) \subseteq ServerCommands
    BY <1>1
  <2> HIDE DEF A, B, R, t
  <2> QED
    BY <1>1, <1>2, <1>3, <1>6, <2>1, ServerSendsOrdered
<1>8. TypeOK'
  BY <1>1, <1>4, <1>7 DEF TypeOK
<1>9. OrderInv'
  BY <1>5, <1>7 DEF OrderInv
<1>10. HandshakeInv'
  <2> SUFFICES ASSUME cl.state = "Handshake"
               PROVE  /\ InQueues(cl') = {} /\ InQueues(session'.seq) = {}
                      /\ session'.stage \in {"none", "idle"}
                      /\ Silent(toServer') /\ Silent(toClient')
    BY DEF HandshakeInv
  <2>1. /\ A = {} /\ B = {}
        /\ session.stage \in {"none", "idle"} /\ Silent(toServer) /\ Silent(toClient)
    BY DEF HandshakeInv
  <2>2. Elements(p.cmds) = {}
    <3>1. p = toServer[1] /\ 1 \in 1 .. Len(toServer)
      BY <1>1, TailOf
    <3>2. p.cmds = <<>>
      BY <2>1, <3>1 DEF Silent
    <3> QED
      BY <3>2, ElementsEmpty
  <2>3. R = {}
    BY <2>2 DEF ServerHandles
  <2>4. h.stage \in {"none", "idle"}
    <3>1. StageLevel(h.stage) <= StageLevel(session.stage)
      BY <2>2 DEF ServerHandles
    <3>2. StageLevel(session.stage) = 0
      BY <2>1 DEF StageLevel
    <3> QED
      BY <3>1, <3>2 DEF StageLevel
  <2>5. g.cmds = <<>> /\ g \in ToClient
    <3>1. g.cmds \in Seq(ServerCommands) /\ g \in ToClient
      BY DEF GamePackets, ToClient
    <3>2. Elements(g.cmds) \subseteq {}
      BY <1>4, <2>1, <2>3
    <3>3. Elements(g.cmds) = {}
      BY <3>2
    <3>4. g.cmds = <<>>
      BY <3>1, <3>3, ElementsNone
    <3> QED
      BY <3>1, <3>4
  <2>6. Silent(toClient') /\ Silent(toServer')
    <3>1. Silent(Append(toClient, g))
      <4>1. toClient \in Seq(ToClient) /\ Silent(toClient) /\ g.cmds = <<>> /\ g \in ToClient
        BY <1>1, <2>1, <2>5
      <4>2. \A x \in ToClient :
               Silent(toClient) /\ (x.kind = "game" => x.cmds = <<>>) => Silent(Append(toClient, x))
        BY <4>1, SilentOf
      <4> QED
        BY <4>1, <4>2
    <3>2. Silent(t)
      BY <1>1, <2>1, SilentOf
    <3> QED
      BY <1>4, <3>1, <3>2
  <2> QED
    BY <1>4, <1>5, <2>1, <2>3, <2>4, <2>6
<1>11. BeginInv'
  <2>1. Begins(toServer') => Begins(toServer)
    BY <1>1, SilentOf
  <2>2. h.stage = "active" => session.stage = "active" \/ Begins(toServer)
    BY <1>1, SilentOf DEF ServerHandles
  <2>3. HasBegun' => HasBegun
    BY <1>5, <2>1, <2>2 DEF HasBegun
  <2> QED
    BY <2>3 DEF BeginInv
<1> QED
  BY <1>8, <1>9, <1>10, <1>11

\* The server reads a packet.
LEMMA ServerReadStep ==
    ASSUME SignOnAssumption, IInv, ServerRead
    PROVE  IInv'
<1> USE DEF IInv
<1> DEFINE p == Head(toServer)
           heard == [session EXCEPT
                       !.received = TRUE, !.incoming = Masked(p.seq),
                       !.seq = SetState(Incoming(@, p.seq, p.ack), "Connected")]
           handled == DispatchCommands(p.cmds, session.stage)
           Session == [stage : Stages, seq : SequencerType(ServerCommands),
                       received : BOOLEAN, incoming : Word]
<1>1. /\ toServer # <<>> /\ toServer' = Tail(toServer) /\ cl' = cl /\ left' = left
  BY DEF ServerRead
<1>2. /\ toServer \in Seq(ToServer) /\ toClient \in Seq(ToClient) /\ p \in ToServer
      /\ session \in Session
  BY <1>1, TailOf DEF TypeOK
<1>3. p \in GamePackets(ClientCommands) =>
        p.kind = "game" /\ p.cmds # <<"getchallenge">> /\ p.cmds # <<"connect">>
  <2> SUFFICES ASSUME p \in GamePackets(ClientCommands)
               PROVE  p.kind = "game" /\ p.cmds # <<"getchallenge">> /\ p.cmds # <<"connect">>
    OBVIOUS
  <2>1. p.kind = "game" /\ p.cmds \in Seq(ClientCommands)
    BY DEF GamePackets
  <2>2. Elements(p.cmds) \subseteq ClientCommands
    BY <2>1, ElementsIn
  <2>3. /\ Elements(<<"getchallenge">>) = {"getchallenge"}
        /\ Elements(<<"connect">>) = {"connect"}
    BY ElementsOne
  <2>4. "getchallenge" \notin ClientCommands /\ "connect" \notin ClientCommands
    BY DEF ClientCommands
  <2> QED
    BY <2>1, <2>2, <2>3, <2>4
<1>4. /\ p = Oob("getchallenge") => p.cmds = <<"getchallenge">> /\ p.kind # "game"
      /\ p = Oob("connect") => p.cmds = <<"connect">> /\ p.kind # "game"
      /\ <<"getchallenge">> # <<"connect">>
  <2>1. <<"getchallenge">>[1] # <<"connect">>[1]
    OBVIOUS
  <2> QED
    BY <2>1 DEF Oob
<1>5. CASE p.cmds = <<"getchallenge">> /\ toClient' = Append(toClient, Oob("challenge"))
           /\ session' = session
  <2>1. p = Oob("getchallenge")
    BY <1>2, <1>3, <1>4, <1>5 DEF ToServer
  <2>2. Oob("challenge") \in ToClient /\ Oob("challenge").kind # "game"
    BY DEF ToClient, Oob
  <2>3. Step(Oob("challenge")) > Step(p)
    BY <2>1, Steps
  <2> QED
    BY <1>1, <1>5, <2>2, <2>3, ServerAnswersStep
<1>6. CASE p.cmds = <<"connect">> /\ toClient' = Append(toClient, Oob("accepted"))
           /\ session' = NewSession
  <2>1. p = Oob("connect")
    BY <1>2, <1>3, <1>4, <1>6 DEF ToServer
  <2>2. Oob("accepted") \in ToClient /\ Oob("accepted").kind # "game"
    BY DEF ToClient, Oob
  <2>3. Step(Oob("accepted")) > Step(p)
    BY <2>1, Steps
  <2> QED
    BY <1>1, <1>6, <2>2, <2>3, ServerAnswersStep
<1>7. CASE p.kind = "game" /\ session' = session /\ toClient' = toClient
  <2> DEFINE A == InQueues(cl)
             B == InQueues(session.seq)
  <2>1. A \in SUBSET ClientCommands /\ B \in SUBSET ServerCommands
    BY TypeFacts
  <2>2. TypeOK'
    BY <1>1, <1>2, <1>7, TailOf DEF TypeOK
  <2>3. OrderInv'
    <3>1. Ordered(toServer, toClient, A, B, session.stage)
      BY DEF OrderInv
    <3> HIDE DEF A, B
    <3>2. Ordered(Tail(toServer), toClient, A, B, session.stage)
      BY <1>1, <1>2, <2>1, <3>1, OrderedTails
    <3> QED
      BY <1>1, <1>7, <3>2 DEF OrderInv, A, B
  <2>4. HandshakeInv'
    <3>1. Silent(toServer) => Silent(toServer')
      BY <1>1, <1>2, SilentOf
    <3> QED
      BY <1>1, <1>7, <3>1 DEF HandshakeInv
  <2>5. BeginInv'
    <3>1. Begins(toServer') => Begins(toServer)
      BY <1>1, <1>2, SilentOf
    <3>2. HasBegun' => HasBegun
      BY <1>1, <1>7, <3>1 DEF HasBegun
    <3> QED
      BY <1>1, <3>2 DEF BeginInv
  <2> QED
    BY <2>2, <2>3, <2>4, <2>5
<1>8. CASE p.kind = "game" /\ FlushClient([heard EXCEPT !.stage = handled.stage], handled.reply)
  <2> DEFINE s == [heard EXCEPT !.stage = handled.stage]
  <2>1. p \in GamePackets(ClientCommands)
    BY <1>2, <1>8, BeginIsGame
  <2>2. ServerHandles(p, handled)
    BY <1>2, <2>1, ServerHandlesPacket
  <2> HIDE DEF handled
  <2>3. p.seq \in Word /\ p.ack \in Word
    BY <2>1 DEF GamePackets
  <2>4. PICK seq : seq = SetState(Incoming(session.seq, p.seq, p.ack), "Connected")
    OBVIOUS
  <2>5. seq \in SequencerType(ServerCommands) /\ InQueues(seq) \subseteq InQueues(session.seq)
    <3>1. session.seq \in SequencerType(ServerCommands) /\ "Connected" \in States
      BY <1>2 DEF States
    <3>2. /\ Incoming(session.seq, p.seq, p.ack) \in SequencerType(ServerCommands)
          /\ InQueues(Incoming(session.seq, p.seq, p.ack)) \subseteq InQueues(session.seq)
      BY <2>3, <3>1, IncomingType
    <3> QED
      BY <2>4, <3>1, <3>2, SetStateType
  <2>6. heard = [session EXCEPT !.received = TRUE, !.incoming = Masked(p.seq), !.seq = seq]
    BY <1>2, <2>4
  <2> HIDE DEF heard
  <2>7. Masked(p.seq) \in Word /\ handled.stage \in Stages
    BY <2>2, <2>3, Words DEF ServerHandles
  <2>8. s \in Session /\ s.seq = seq /\ s.stage = handled.stage
    BY <1>2, <2>5, <2>6, <2>7
  <2> HIDE DEF s
  <2>9. FlushClient(s, handled.reply)
    BY <1>8 DEF s
  <2> QED
    BY <1>1, <1>8, <2>2, <2>5, <2>8, <2>9, ServerGameStep
<1> QED
  <2>1. \/ p.cmds = <<"getchallenge">> /\ toClient' = Append(toClient, Oob("challenge"))
             /\ session' = session
        \/ p.cmds = <<"connect">> /\ toClient' = Append(toClient, Oob("accepted"))
             /\ session' = NewSession
        \/ p.kind = "game" /\ session' = session /\ toClient' = toClient
        \/ p.kind = "game" /\ FlushClient([heard EXCEPT !.stage = handled.stage], handled.reply)
    BY DEF ServerRead
  <2> QED
    BY <1>5, <1>6, <1>7, <1>8, <2>1

------------------------------------------------------------------------------
(* The theorem.                                                             *)

\* The invariant holds at first.
LEMMA InitInv ==
    ASSUME SignOnAssumption, Init, left.restarts = 0
    PROVE  IInv
<1>1. /\ cl = SetState(NewSequencer(0), "Handshake") /\ session = Nobody
      /\ toServer = <<Oob("getchallenge")>> /\ toClient = <<>> /\ left \in Failures
  BY DEF Init
<1>2. PICK none : none = <<>>
  OBVIOUS
<1>3. none \in Seq(ToServer) /\ none \in Seq(ToClient) /\ Silent(none) /\ ~ Begins(none)
  BY <1>2 DEF Silent, Begins
<1>4. Oob("getchallenge") \in ToServer /\ Oob("getchallenge").kind # "game"
  BY DEF ToServer, Oob
<1>5. toServer = Append(none, Oob("getchallenge"))
  BY <1>1, <1>2
<1>6. toServer \in Seq(ToServer) /\ Silent(toServer) /\ ~ Begins(toServer)
  BY <1>3, <1>4, <1>5, AppendOf, SilentOf, BeginIsGame
<1>7. toClient \in Seq(ToClient) /\ Silent(toClient)
  BY <1>1, <1>2, <1>3
<1>8. cl \in SequencerType(ClientCommands) /\ InQueues(cl) = {} /\ cl.state = "Handshake"
  <2>1. 0 \in Word /\ "Handshake" \in States
    BY Words DEF States
  <2>2. /\ NewSequencer(0) \in SequencerType(ClientCommands)
        /\ InQueues(NewSequencer(0)) = {}
    BY <2>1, NewSequencerType
  <2> QED
    BY <1>1, <2>1, <2>2, SetStateType
<1>9. left \in [losses : Nat, early : Nat, restarts : {0}, flushes : Nat]
  <2>1. left \in [losses : Nat, early : Nat, restarts : Nat, flushes : Nat]
    BY <1>1 DEF SignOnAssumption
  <2> QED
    BY <2>1
<1>10. TypeOK
  BY <1>1, <1>6, <1>7, <1>8, <1>9, NewSessions DEF TypeOK
<1>11. OrderInv
  <2>1. session.stage \in {"none", "idle"} /\ InQueues(session.seq) = {}
    BY <1>1, NewSessions
  <2>2. Ordered(toServer, toClient, {}, {}, session.stage)
    BY <1>6, <1>7, <2>1, OrderedSilent
  <2> QED
    BY <1>8, <2>1, <2>2 DEF OrderInv
<1>12. HandshakeInv
  BY <1>1, <1>6, <1>7, <1>8, NewSessions DEF HandshakeInv
<1>13. BeginInv
  BY <1>1, <1>6, <1>8, NewSessions DEF BeginInv, HasBegun
<1> QED
  BY <1>10, <1>11, <1>12, <1>13 DEF IInv

\* Every step preserves it.
LEMMA NextInv ==
    ASSUME SignOnAssumption, IInv, [Next]_vars
    PROVE  IInv'
<1>1. CASE ClientRead
  BY <1>1, ClientReadStep
<1>2. CASE ReadTimeout
  BY <1>2, ReadTimeoutStep
<1>3. CASE ServerRead
  BY <1>3, ServerReadStep
<1>4. CASE Flush
  BY <1>4, FlushStep
<1>5. CASE Lose
  BY <1>5, LoseStep
<1>6. CASE Restart
  BY <1>6 DEF Restart, IInv, TypeOK
<1>7. CASE UNCHANGED vars
  BY <1>7 DEF vars, IInv, TypeOK, OrderInv, HandshakeInv, HasBegun, BeginInv
<1> QED
  BY <1>1, <1>2, <1>3, <1>4, <1>5, <1>6, <1>7 DEF Next

\* However many packets are lost, deadlines of the client pass early and flushes come between:
\* while the server is not restarted, the client that lobbyCommand takes for active is one that
\* handleServerCommand has connected.
THEOREM ActiveTheorem == left.restarts = 0 /\ Spec => []ActiveIsConnected
<1>1. Init /\ left.restarts = 0 => IInv
  BY SignOnAssumption, InitInv
<1>2. IInv /\ [Next]_vars => IInv'
  BY SignOnAssumption, NextInv
<1>3. IInv => ActiveIsConnected
  BY DEF IInv, BeginInv, HasBegun, ActiveIsConnected
<1> QED
  BY <1>1, <1>2, <1>3, PTL DEF Spec
=============================================================================
