-------------------------- MODULE LobbyServerProofs --------------------------
(***************************************************************************)
(* Proofs about LobbyServer, for any addresses, names, inputs and bounds:  *)
(* slots and names of connected clients are unique, a client's done        *)
(* channel is closed once, packets are written in the order in which they  *)
(* were numbered, and no scoreboard goes back to an earlier player.        *)
(***************************************************************************)
EXTENDS LobbyServer, TLAPS, FiniteSetTheorems, WellFoundedInduction

Ids     == 1 .. nextUserID      \* the client objects created so far
Names   == [prefix : Seq(Nat), base : Bases \cup {"none"}]
Entries == [userID : Nat, name : Names]
Boards  == [Slots -> Entries]
Labels  == {"out", "lock", "snapshot", "players", "write"}
Holding == {"snapshot", "players", "write"}    \* flushClient has sendMu

RegistryType ==
    /\ nextUserID \in 0 .. MaxUserID
    /\ clients \in [Addrs -> {Nobody} \cup Ids]
    /\ addr \in [Objects -> Addrs \cup {SomeAddr}]
    /\ \A k \in Ids : addr[k] \in Addrs
    /\ slot \in [Objects -> Slots]
    /\ name \in [Objects -> Names]
    /\ doneClosed \in [Objects -> Nat]

FlushType ==
    /\ scoreboard \in [Objects -> Boards]
    /\ sendMu \in [Objects -> Threads \cup {"free"}]
    /\ unsent \in [Objects -> Seq(Threads)]
    /\ pc \in [Threads -> Labels]
    /\ target \in [Threads -> {Nobody} \cup Ids]
    /\ \A g \in Threads : pc[g] # "out" => target[g] \in Ids
    /\ todo \in [Threads -> SUBSET Ids]
    /\ players \in [Threads -> Boards]
    /\ list \subseteq Ids

\* A client object is registered at its own address only; the slots and the names
\* of the registered ones differ; done is closed for those that have left.
RegistryInv ==
    /\ \A a \in Addrs : clients[a] # Nobody => addr[clients[a]] = a
    /\ SlotsAndNamesUnique
    /\ DoneOnce

\* Serve flushes or dispatches, never both, and the address of a client that
\* is being admitted is free.
ServeInv ==
    /\ serve.at \in {"read", "admit", "dispatch", "stopped"}
    /\ serve.at # "read" => pc["serve"] = "out"
    /\ serve.at = "dispatch" => serve.client \in Ids
    /\ serve.at = "admit" =>
          /\ serve.from \in Addrs /\ clients[serve.from] = Nobody
          /\ nextUserID < MaxUserID
          /\ \E n \in Chosen : serve.cmds = <<n>>

\* sendMu[k] is held by g exactly while g is inside flushClient(k), and only the
\* holder has an unwritten packet.
SendInv ==
    /\ \A g \in Threads : pc[g] \in Holding => sendMu[target[g]] = g
    /\ \A k \in Objects, g \in Threads : sendMu[k] = g => pc[g] \in Holding /\ target[g] = k
    /\ \A k \in Objects, g \in Threads :
          sendMu[k] = g /\ pc[g] = "write" => unsent[k] = <<g>>
    /\ \A k \in Objects :
          (\A g \in Threads : sendMu[k] = g => pc[g] # "write") => unsent[k] = <<>>

\* No board names a client from the future, and no scoreboard names anybody newer
\* than the client who is registered in the slot.
BoardInv ==
    /\ \A k \in Objects, s \in Slots : scoreboard[k][s].userID <= nextUserID
    /\ \A g \in Threads, s \in Slots : players[g][s].userID <= nextUserID
    /\ \A k \in Objects, m \in Snapshot : scoreboard[k][slot[m]].userID <= m

\* While g reads the players, neither what it has read nor what it has yet to read
\* is newer than the registered client of the slot or older than the entry of the
\* scoreboard that g is about to update.
ReadingInv ==
    \A g \in Threads : pc[g] = "players" =>
        /\ \A m \in Snapshot : players[g][slot[m]].userID <= m
        /\ \A j \in todo[g], m \in Snapshot : slot[j] = slot[m] => j <= m
        /\ \A j \in todo[g] : scoreboard[target[g]][slot[j]].userID <= j
        /\ \A s \in Slots : \/ players[g][s].userID = Nobody
                            \/ scoreboard[target[g]][s].userID <= players[g][s].userID

IInv == RegistryType /\ FlushType /\ RegistryInv /\ ServeInv /\ SendInv /\ BoardInv /\ ReadingInv

------------------------------------------------------------------------------
(* Facts about numbers, names and boards.                                   *)

\* A set of naturals that is not empty has a least member.
LEMMA LeastNatural ==
  ASSUME NEW S \in SUBSET Nat, S # {}
  PROVE  \E s \in S : \A t \in S : s <= t
<1>1. \E s \in S : \A t \in S : ~ (<<t, s>> \in OpToRel(<, Nat))
  BY NatLessThanWellFounded, WFMin
<1>2. \A s, t \in Nat : t < s => <<t, s>> \in OpToRel(<, Nat)
  BY DEF OpToRel
<1>3. PICK s \in S : \A t \in S : ~ (<<t, s>> \in OpToRel(<, Nat))
  BY <1>1
<1>4. \A t \in S : ~ (t < s)
  BY <1>2, <1>3
<1> QED
  BY <1>4

\* The lowest free slot is free.
LEMMA LowestSlot ==
  ASSUME NEW free \in SUBSET Slots, free # {}
  PROVE  (CHOOSE s \in free : \A t \in free : s <= t) \in free
<1>1. free \in SUBSET Nat
  BY LobbyAssumption DEF Slots
<1> QED
  BY <1>1, LeastNatural

\* The names that uniqueLobbyName tries, and their keys.
Candidate(base, n) == IF n = 1 THEN base ELSE [base EXCEPT !.prefix = <<n>> \o @]
Used(board) == {NameKey(board[s].name) : s \in {t \in Slots : board[t].userID # Nobody}}

\* Two different numbers give two names with different keys.
LEMMA CandidatesDiffer ==
  ASSUME NEW base \in Chosen, NEW m \in Nat \ {0}, NEW n \in Nat \ {0}, m # n
  PROVE  NameKey(Candidate(base, m)) # NameKey(Candidate(base, n))
<1>1. PICK b \in Bases : base = [prefix |-> <<>>, base |-> b]
  BY DEF Chosen
<1>2. \A j \in Nat \ {0} : NameKey(Candidate(base, j)).prefix = IF j = 1 THEN <<>> ELSE <<j>>
  BY <1>1 DEF Candidate, NameKey
<1>3. \A i, j \in Nat : <<i>> = <<j>> => i = j
  OBVIOUS
<1>4. \A i \in Nat : <<i>> # <<>>
  OBVIOUS
<1>5. NameKey(Candidate(base, m)).prefix # NameKey(Candidate(base, n)).prefix
  <2>0. /\ NameKey(Candidate(base, m)).prefix = IF m = 1 THEN <<>> ELSE <<m>>
        /\ NameKey(Candidate(base, n)).prefix = IF n = 1 THEN <<>> ELSE <<n>>
    BY <1>2
  <2>1. CASE m = 1
    <3>1. n # 1 /\ n \in Nat
      BY <2>1
    <3> QED
      BY <1>4, <2>0, <2>1, <3>1
  <2>2. CASE n = 1
    <3>1. m # 1 /\ m \in Nat
      BY <2>2
    <3> QED
      BY <1>4, <2>0, <2>2, <3>1
  <2>3. CASE m # 1 /\ n # 1
    <3>1. <<m>> # <<n>>
      BY <1>3
    <3> QED
      BY <2>0, <2>3, <3>1
  <2> QED
    BY <2>1, <2>2, <2>3
<1> QED
  BY <1>5

\* Among one more candidates than there are slots, one is not in use.
LEMMA CandidateFree ==
  ASSUME NEW base \in Chosen, NEW board
  PROVE  \E m \in 1 .. (MaxClients + 1) : NameKey(Candidate(base, m)) \notin Used(board)
<1> SUFFICES ASSUME \A m \in 1 .. (MaxClients + 1) : NameKey(Candidate(base, m)) \in Used(board)
             PROVE  FALSE
  OBVIOUS
<1> DEFINE D == 1 .. (MaxClients + 1)
           by(m, s) == board[s].userID # Nobody
                       /\ NameKey(board[s].name) = NameKey(Candidate(base, m))
           f == [m \in D |-> CHOOSE s \in Slots : by(m, s)]
<1>0. MaxClients \in Nat /\ MaxClients # 0
  BY LobbyAssumption
<1>1. \A m \in D : \E s \in Slots : by(m, s)
  BY DEF Used
<1>2. \A m \in D : f[m] \in Slots /\ by(m, f[m])
  BY <1>1
<1>3. f \in [D -> Slots]
  BY <1>2
<1>4. IsFiniteSet(D) /\ Cardinality(D) = MaxClients + 1
  BY <1>0, FS_Interval
<1>5. IsFiniteSet(Slots) /\ Cardinality(Slots) = MaxClients
  BY <1>0, FS_Interval DEF Slots
<1>6. Cardinality(Slots) < Cardinality(D)
  BY <1>0, <1>4, <1>5
<1> HIDE DEF D, f
<1>7. PICK m, n \in D : m # n /\ f[m] = f[n]
  BY <1>3, <1>4, <1>5, <1>6, FS_PigeonHole
<1>8. NameKey(Candidate(base, m)) = NameKey(Candidate(base, n))
  BY <1>2, <1>7
<1>9. m \in Nat \ {0} /\ n \in Nat \ {0}
  BY <1>0 DEF D
<1> QED
  BY <1>7, <1>8, <1>9, CandidatesDiffer

\* uniqueLobbyName returns a name that no player of the board has.
LEMMA UniqueNameIsFree ==
  ASSUME NEW base \in Chosen, NEW board
  PROVE  /\ NameKey(UniqueLobbyName(base, board)) \notin Used(board)
         /\ UniqueLobbyName(base, board) \in Names
<1> DEFINE D == 1 .. (MaxClients + 1)
           good(m) == /\ NameKey(Candidate(base, m)) \notin Used(board)
                      /\ \A j \in 1 .. (m - 1) : NameKey(Candidate(base, j)) \in Used(board)
           free == {m \in D : NameKey(Candidate(base, m)) \notin Used(board)}
           n == CHOOSE m \in D : good(m)
<1>0. MaxClients \in Nat
  BY LobbyAssumption
<1>1. \E m \in D : good(m)
  <2>1. free \in SUBSET Nat /\ free # {}
    BY <1>0, CandidateFree
  <2>2. PICK m \in free : \A t \in free : m <= t
    BY <2>1, LeastNatural
  <2>3. \A j \in 1 .. (m - 1) : j \in D /\ ~ (m <= j)
    BY <1>0
  <2> QED
    BY <2>2, <2>3
<1>2. n \in D /\ good(n)
  BY <1>1
<1>3. UniqueLobbyName(base, board) = Candidate(base, n)
  BY DEF UniqueLobbyName, Candidate, Used
<1>4. Candidate(base, n) \in Names
  <2>1. PICK b \in Bases : base = [prefix |-> <<>>, base |-> b]
    BY DEF Chosen
  <2>2. n \in Nat
    BY <1>0, <1>2
  <2>3. <<n>> \o <<>> \in Seq(Nat) /\ <<>> \in Seq(Nat)
    BY <2>2
  <2> HIDE DEF n
  <2> QED
    BY <2>1, <2>3 DEF Candidate, Names
<1> QED
  BY <1>2, <1>3, <1>4

------------------------------------------------------------------------------
(* Facts about the registry.                                                *)

\* The registered clients are objects that exist, each at its own address.
LEMMA SnapshotFacts ==
  ASSUME RegistryType, RegistryInv
  PROVE  /\ Ids \subseteq Objects /\ Snapshot \subseteq Ids
         /\ \A k \in Snapshot : addr[k] \in Addrs /\ clients[addr[k]] = k
         /\ \A a \in Addrs : clients[a] # Nobody => clients[a] \in Snapshot
<1>1. Ids \subseteq Objects
  BY LobbyAssumption DEF RegistryType, Ids, Objects
<1>2. Snapshot \subseteq Ids
  BY DEF RegistryType, Snapshot
<1>3. \A k \in Snapshot : addr[k] \in Addrs /\ clients[addr[k]] = k
  BY DEF Snapshot, RegistryInv
<1>4. \A a \in Addrs : clients[a] # Nobody => clients[a] \in Snapshot
  BY DEF Snapshot
<1> QED
  BY <1>1, <1>2, <1>3, <1>4

\* lobbyPlayers shows every client of a set with distinct slots in its slot, and
\* nobody in the others.
LEMMA LobbyPlayersShow ==
  ASSUME RegistryType, NEW present \in SUBSET Ids,
         \A j, k \in present : j # k => slot[j] # slot[k]
  PROVE  /\ \A k \in present : LobbyPlayers(present)[slot[k]] = Entry(k)
         /\ \A k \in present : NameKey(name[k]) \in Used(LobbyPlayers(present))
         /\ \A k \in present : slot[k] \notin FreeSlots(LobbyPlayers(present))
<1> DEFINE who(s) == CHOOSE k \in present : slot[k] = s
<1>1. ASSUME NEW k \in present
      PROVE  LobbyPlayers(present)[slot[k]] = Entry(k) /\ slot[k] \in Slots /\ k # Nobody
  <2>1. k \in Objects /\ k # Nobody /\ slot[k] \in Slots
    BY LobbyAssumption DEF RegistryType, Ids, Objects, Nobody
  <2>2. who(slot[k]) = k
    BY <1>1
  <2> QED
    BY <1>1, <2>1, <2>2 DEF LobbyPlayers
<1>2. \A k \in present : Entry(k).userID = k /\ Entry(k).name = name[k]
  BY DEF Entry
<1>3. \A k \in present : NameKey(name[k]) \in Used(LobbyPlayers(present))
  BY <1>1, <1>2 DEF Used
<1>4. \A k \in present : slot[k] \notin FreeSlots(LobbyPlayers(present))
  BY <1>1, <1>2 DEF FreeSlots
<1> QED
  BY <1>1, <1>3, <1>4

\* Clients that leave, whose done is then closed, leave the registry in order.
LEMMA LeavingKeepsRegistry ==
  ASSUME RegistryType, RegistryInv, NEW gone \in SUBSET Snapshot,
         clients' = [a \in Addrs |-> IF clients[a] \in gone THEN Nobody ELSE clients[a]],
         doneClosed' = [k \in Objects |-> doneClosed[k] + (IF k \in gone THEN 1 ELSE 0)],
         UNCHANGED <<nextUserID, addr, slot, name>>
  PROVE  RegistryType' /\ RegistryInv' /\ Snapshot' = Snapshot \ gone
<1>1. Snapshot \subseteq Ids /\ Ids \subseteq Objects
  BY SnapshotFacts
<1>2. Snapshot' = Snapshot \ gone
  BY <1>1 DEF Snapshot
<1>3. RegistryType'
  <2>1. Ids' = Ids
    BY DEF Ids
  <2>2. clients' \in [Addrs -> {Nobody} \cup Ids]
    BY DEF RegistryType
  <2>3. doneClosed' \in [Objects -> Nat]
    BY DEF RegistryType
  <2> QED
    BY <2>1, <2>2, <2>3 DEF RegistryType
<1>4. \A a \in Addrs : clients'[a] # Nobody => addr'[clients'[a]] = a
  BY DEF RegistryInv
<1>5. SlotsAndNamesUnique'
  BY <1>2 DEF RegistryInv, SlotsAndNamesUnique, NameKey
<1>6. DoneOnce'
  <2> SUFFICES ASSUME NEW k \in Objects
               PROVE  doneClosed'[k] = IF k <= nextUserID /\ k \notin Snapshot' THEN 1 ELSE 0
    BY DEF DoneOnce
  <2>1. doneClosed[k] = IF k <= nextUserID /\ k \notin Snapshot THEN 1 ELSE 0
    BY DEF RegistryInv, DoneOnce
  <2>2. doneClosed'[k] = doneClosed[k] + (IF k \in gone THEN 1 ELSE 0)
    OBVIOUS
  <2>3. k \in Snapshot => k <= nextUserID
    BY <1>1 DEF Ids
  <2>4. CASE k \in gone
    <3>1. k \in Snapshot /\ k <= nextUserID
      BY <2>3, <2>4
    <3>2. doneClosed[k] = 0
      BY <2>1, <3>1
    <3> QED
      BY <1>2, <2>2, <2>4, <3>1, <3>2
  <2>5. CASE k \notin gone
    BY <1>2, <2>1, <2>2, <2>5
  <2> QED
    BY <2>4, <2>5
<1> QED
  BY <1>2, <1>3, <1>4, <1>5, <1>6 DEF RegistryInv

\* removeClient takes out the very object, or nothing if it has left already.
LEMMA RemoveClientKeepsRegistry ==
  ASSUME RegistryType, RegistryInv, NEW k \in {Nobody} \cup Ids, RemoveClient(k),
         UNCHANGED <<nextUserID, addr, slot, name>>
  PROVE  RegistryType' /\ RegistryInv' /\ Snapshot' = Snapshot \ {k}
<1>0. doneClosed \in [Objects -> Nat] /\ clients \in [Addrs -> {Nobody} \cup Ids] /\ Nobody \notin Ids
      /\ Ids \subseteq Objects
  BY SnapshotFacts DEF RegistryType, Ids, Nobody
<1>1. CASE k \in Snapshot
  <2>1. /\ addr[k] \in Addrs /\ clients[addr[k]] = k /\ k # Nobody /\ k \in Objects
    BY <1>0, <1>1, SnapshotFacts
  <2>2. \A a \in Addrs : clients[a] = k => a = addr[k]
    BY <2>1 DEF RegistryInv
  <2>3. clients' = [a \in Addrs |-> IF clients[a] \in {k} THEN Nobody ELSE clients[a]]
    BY <1>0, <2>1, <2>2 DEF RemoveClient
  <2>4. doneClosed' = [j \in Objects |-> doneClosed[j] + (IF j \in {k} THEN 1 ELSE 0)]
    BY <1>0, <2>1 DEF RemoveClient
  <2> QED
    BY <1>1, <2>3, <2>4, LeavingKeepsRegistry
<1>2. CASE k \notin Snapshot
  <2>1. UNCHANGED <<clients, doneClosed>>
    <3>1. k # Nobody => clients[addr[k]] # k
      BY <1>2 DEF Snapshot, RegistryType
    <3> QED
      BY <3>1 DEF RemoveClient
  <2>2. RegistryType' /\ Snapshot' = Snapshot
    BY <2>1 DEF RegistryType, Ids, Snapshot
  <2>3. RegistryInv'
    BY <2>1, <2>2 DEF RegistryInv, SlotsAndNamesUnique, DoneOnce, NameKey
  <2> QED
    BY <1>2, <2>2, <2>3
<1> QED
  BY <1>1, <1>2

------------------------------------------------------------------------------
(* Serve's steps.                                                           *)

\* A step that leaves flushClient, the slots and the scoreboards alone, and adds
\* nobody to the registry, keeps what is said of them.
LEMMA FlushFrame ==
  ASSUME IInv, UNCHANGED <<nextUserID, slot, scoreboard, flushVars>>,
         Snapshot' \subseteq Snapshot
  PROVE  FlushType' /\ SendInv' /\ BoardInv' /\ ReadingInv'
<1> USE DEF flushVars
<1>0. Ids' = Ids
  BY DEF Ids
<1>1. FlushType'
  BY <1>0 DEF IInv, FlushType
<1>2. SendInv'
  BY DEF IInv, SendInv
<1>3. BoardInv'
  BY DEF IInv, BoardInv
<1>4. ReadingInv'
  BY DEF IInv, ReadingInv
<1> QED
  BY <1>1, <1>2, <1>3, <1>4

\* A connect first removes the client that its address has.
LEMMA ConnectKeeps ==
  ASSUME IInv, NEW a \in Addrs, NEW n \in Chosen, Connect(a, n)
  PROVE  IInv'
<1> DEFINE k == clients[a]
<1>1. k \in {Nobody} \cup Ids
  BY DEF IInv, RegistryType
<1>2. RemoveClient(k) /\ UNCHANGED <<nextUserID, addr, slot, name, sessionVars, flushVars>>
  BY DEF Connect
<1>3. RegistryType' /\ RegistryInv' /\ Snapshot' = Snapshot \ {k}
  BY <1>1, <1>2, RemoveClientKeepsRegistry DEF IInv
<1>4. FlushType' /\ SendInv' /\ BoardInv' /\ ReadingInv'
  BY <1>2, <1>3, FlushFrame DEF sessionVars
<1>5. clients'[a] = Nobody
  <2>1. clients'[a] = Nobody \/ clients'[a] = k
    BY <1>2 DEF RemoveClient, IInv, RegistryType
  <2>2. clients'[a] # Nobody => clients'[a] \in Snapshot'
    BY DEF Snapshot
  <2> QED
    BY <1>3, <2>1, <2>2
<1>6. ServeInv'
  BY <1>5 DEF Connect, Idle, IInv, ServeInv, flushVars
<1> QED
  BY <1>3, <1>4, <1>6 DEF IInv

\* A game packet changes what Serve is about to dispatch only.
LEMMA GameDataKeeps ==
  ASSUME IInv, NEW a \in Addrs, NEW cmds \in Inputs, GameData(a, cmds)
  PROVE  IInv'
<1>1. UNCHANGED <<registryVars, sessionVars, flushVars>> /\ clients[a] # Nobody
      /\ serve' = Dispatching(clients[a], cmds) /\ Idle
  BY DEF GameData
<1>2. Snapshot' = Snapshot /\ Ids' = Ids /\ clients[a] \in Ids
  BY <1>1 DEF Snapshot, Ids, registryVars, IInv, RegistryType
<1>3. RegistryType' /\ RegistryInv'
  BY <1>1, <1>2 DEF registryVars, IInv, RegistryType, RegistryInv, SlotsAndNamesUnique,
                    DoneOnce, NameKey
<1>4. FlushType' /\ SendInv' /\ BoardInv' /\ ReadingInv'
  BY <1>1, <1>2, FlushFrame DEF registryVars, sessionVars
<1>5. serve'.at = "dispatch" /\ serve'.client = clients[a] /\ pc'["serve"] = "out"
  BY <1>1 DEF Dispatching, Reading, Idle, flushVars
<1>6. ServeInv'
  BY <1>2, <1>5 DEF ServeInv
<1> QED
  BY <1>3, <1>4, <1>6 DEF IInv

\* renameLobbyClient gives k a name that nobody else has.
LEMMA RenameKeeps ==
  ASSUME IInv, NEW a \in Addrs, NEW n \in Chosen, Rename(a, n)
  PROVE  IInv'
<1> DEFINE k == clients[a]
           others == Snapshot \ {k}
           new == UniqueLobbyName(n, LobbyPlayers(others))
<1>1. /\ k # Nobody /\ name' = [name EXCEPT ![k] = new] /\ serve' = Dispatching(k, <<>>)
      /\ Idle
      /\ UNCHANGED <<clients, nextUserID, addr, slot, doneClosed, sessionVars, flushVars>>
  BY DEF Rename
<1>2. /\ Snapshot \subseteq Ids /\ Ids \subseteq Objects /\ k \in Snapshot
      /\ Snapshot' = Snapshot /\ Ids' = Ids
  BY <1>1, SnapshotFacts DEF IInv, Snapshot, Ids
<1>3. new \in Names /\ NameKey(new) \notin Used(LobbyPlayers(others))
  BY UniqueNameIsFree
<1> HIDE DEF new
<1>4. \A j \in others : NameKey(name[j]) \in Used(LobbyPlayers(others))
  <2>1. others \in SUBSET Ids /\ \A i, j \in others : i # j => slot[i] # slot[j]
    BY <1>2 DEF IInv, RegistryInv, SlotsAndNamesUnique
  <2> QED
    BY <2>1, LobbyPlayersShow DEF IInv
<1>5. /\ name' \in [Objects -> Names] /\ name'[k] = new
      /\ \A j \in Objects \ {k} : name'[j] = name[j]
  BY <1>1, <1>2, <1>3 DEF IInv, RegistryType
<1>6. RegistryType'
  BY <1>1, <1>2, <1>5 DEF IInv, RegistryType
<1>7. SlotsAndNamesUnique'
  <2> SUFFICES ASSUME NEW i \in Snapshot, NEW j \in Snapshot, i # j
               PROVE  slot[i] # slot[j] /\ NameKey(name'[i]) # NameKey(name'[j])
    BY <1>1, <1>2 DEF SlotsAndNamesUnique, NameKey
  <2>1. slot[i] # slot[j] /\ NameKey(name[i]) # NameKey(name[j])
    BY DEF IInv, RegistryInv, SlotsAndNamesUnique
  <2>2. CASE i = k
    BY <1>2, <1>3, <1>4, <1>5, <2>1, <2>2
  <2>3. CASE j = k
    BY <1>2, <1>3, <1>4, <1>5, <2>1, <2>3
  <2>4. CASE i # k /\ j # k
    BY <1>2, <1>5, <2>1, <2>4
  <2> QED
    BY <2>2, <2>3, <2>4
<1>8. RegistryInv'
  BY <1>1, <1>2, <1>7 DEF IInv, RegistryInv, DoneOnce
<1>9. FlushType' /\ SendInv' /\ BoardInv' /\ ReadingInv'
  BY <1>1, <1>2, FlushFrame DEF sessionVars
<1>10. ServeInv'
  <2>1. serve'.at = "dispatch" /\ serve'.client = k /\ pc'["serve"] = "out"
    BY <1>1 DEF Dispatching, Reading, Idle, flushVars
  <2> QED
    BY <1>2, <2>1 DEF ServeInv
<1> QED
  BY <1>6, <1>8, <1>9, <1>10 DEF IInv

\* A packet that a handler of the application consumes changes nothing.
LEMMA ConsumeKeeps ==
  ASSUME IInv, Consume
  PROVE  IInv'
<1>1. UNCHANGED <<registryVars, sessionVars, flushVars>> /\ serve' = Reading
  BY DEF Consume
<1>2. Snapshot' = Snapshot /\ Ids' = Ids
  BY <1>1 DEF Snapshot, Ids, registryVars
<1>3. RegistryType' /\ RegistryInv'
  BY <1>1, <1>2 DEF registryVars, IInv, RegistryType, RegistryInv, SlotsAndNamesUnique,
                    DoneOnce, NameKey
<1>4. FlushType' /\ SendInv' /\ BoardInv' /\ ReadingInv'
  BY <1>1, <1>2, FlushFrame DEF registryVars, sessionVars
<1>5. serve'.at = "read"
  BY <1>1 DEF Reading
<1>6. ServeInv'
  BY <1>5 DEF ServeInv
<1> QED
  BY <1>3, <1>4, <1>6 DEF IInv

\* When Serve returns every registered client leaves at once.
LEMMA StopKeeps ==
  ASSUME IInv, Stop
  PROVE  IInv'
<1>1. RegistryType' /\ RegistryInv' /\ Snapshot' = Snapshot \ Snapshot
  <2>1. \A a \in Addrs : clients[a] # Nobody => clients[a] \in Snapshot
    BY SnapshotFacts DEF IInv
  <2>2. clients' = [a \in Addrs |-> IF clients[a] \in Snapshot THEN Nobody ELSE clients[a]]
    BY <2>1 DEF Stop
  <2>3. doneClosed' = [k \in Objects |-> doneClosed[k] + (IF k \in Snapshot THEN 1 ELSE 0)]
    BY DEF Stop
  <2>4. UNCHANGED <<nextUserID, addr, slot, name>>
    BY DEF Stop
  <2> QED
    BY <2>2, <2>3, <2>4, LeavingKeepsRegistry DEF IInv
<1>2. FlushType' /\ SendInv' /\ BoardInv' /\ ReadingInv'
  BY <1>1, FlushFrame DEF Stop, sessionVars
<1>3. serve'.at = "stopped" /\ pc'["serve"] = "out"
  BY DEF Stop, Reading, Idle, flushVars
<1>4. ServeInv'
  BY <1>3 DEF ServeInv
<1> QED
  BY <1>1, <1>2, <1>4 DEF IInv

\* A client that has been silent for too long leaves.
LEMMA ExpireKeeps ==
  ASSUME IInv, NEW k \in Objects, Expire(k)
  PROVE  IInv'
<1>1. /\ k \in Ids /\ RemoveClient(k) /\ Idle
      /\ UNCHANGED <<nextUserID, addr, slot, name, sessionVars, flushVars, serve>>
  BY SnapshotFacts DEF Expire, IInv
<1>2. RegistryType' /\ RegistryInv' /\ Snapshot' = Snapshot \ {k}
  BY <1>1, RemoveClientKeepsRegistry DEF IInv
<1>3. FlushType' /\ SendInv' /\ BoardInv' /\ ReadingInv'
  BY <1>1, <1>2, FlushFrame DEF sessionVars
<1>4. ServeInv'
  BY <1>1 DEF Idle, ServeInv
<1> QED
  BY <1>2, <1>3, <1>4 DEF IInv

\* A new object takes a free slot and a free name, and it is newer than everybody
\* whom a board can show in that slot.
LEMMA AdmitKeeps ==
  ASSUME IInv, Admit
  PROVE  IInv'
<1> DEFINE board == LobbyPlayers(Snapshot)
           k     == nextUserID + 1
           free  == FreeSlots(board)
           s     == CHOOSE x \in free : \A t \in free : x <= t
           new   == UniqueLobbyName(serve.cmds[1], board)
<1>0. /\ serve.at = "admit" /\ UNCHANGED <<doneClosed, sessionVars, flushVars>>
      /\ serve.from \in Addrs /\ clients[serve.from] = Nobody /\ nextUserID < MaxUserID
      /\ serve.cmds[1] \in Chosen /\ pc["serve"] = "out"
  BY DEF Admit, IInv, ServeInv
<1>1. CASE free = {}
  <2>1. UNCHANGED <<clients, nextUserID, addr, slot, name>> /\ serve' = Reading
    BY <1>1 DEF Admit
  <2>2. Snapshot' = Snapshot /\ Ids' = Ids /\ serve'.at = "read"
    BY <2>1 DEF Snapshot, Ids, Reading
  <2>3. RegistryType' /\ RegistryInv'
    BY <1>0, <2>1, <2>2 DEF IInv, RegistryType, RegistryInv, SlotsAndNamesUnique, DoneOnce,
                            NameKey
  <2>4. FlushType' /\ SendInv' /\ BoardInv' /\ ReadingInv'
    BY <1>0, <2>1, <2>2, FlushFrame DEF sessionVars
  <2>5. ServeInv'
    BY <2>2 DEF ServeInv
  <2> QED
    BY <2>3, <2>4, <2>5 DEF IInv
<1>2. CASE free # {}
  <2>1. /\ nextUserID' = k /\ clients' = [clients EXCEPT ![serve.from] = k]
        /\ addr' = [addr EXCEPT ![k] = serve.from] /\ slot' = [slot EXCEPT ![k] = s]
        /\ name' = [name EXCEPT ![k] = new] /\ serve' = Dispatching(k, <<"connect">>)
    BY <1>2 DEF Admit
  <2>2. /\ Snapshot \subseteq Ids /\ Ids \subseteq Objects
        /\ nextUserID \in Nat /\ k \in Objects /\ k \notin Ids /\ k # Nobody
        /\ Ids' = Ids \cup {k} /\ \A j \in Ids : j < k /\ j \in Nat
    <3>1. nextUserID \in Nat /\ MaxUserID \in Nat
      BY LobbyAssumption DEF IInv, RegistryType
    <3> QED
      BY <1>0, <2>1, <3>1, SnapshotFacts DEF IInv, Ids, Objects, Nobody
  <2>3. \A i, j \in Snapshot : i # j => slot[i] # slot[j] /\ NameKey(name[i]) # NameKey(name[j])
    BY DEF IInv, RegistryInv, SlotsAndNamesUnique
  <2>4. /\ \A j \in Snapshot : NameKey(name[j]) \in Used(board)
        /\ \A j \in Snapshot : slot[j] \notin free
    BY <2>2, <2>3, LobbyPlayersShow DEF IInv
  <2>5. new \in Names /\ NameKey(new) \notin Used(board)
    BY <1>0, UniqueNameIsFree
  <2>6. s \in free /\ s \in Slots
    BY <1>2, LowestSlot DEF FreeSlots
  <2> HIDE DEF new, s, free, board, k
  <2>7. Snapshot' = Snapshot \cup {k}
    <3>1. \A a \in Addrs : clients'[a] = IF a = serve.from THEN k ELSE clients[a]
      BY <1>0, <2>1 DEF IInv, RegistryType
    <3>2. \A j \in Snapshot : \E a \in Addrs : clients'[a] = j
      BY <1>0, <3>1 DEF Snapshot
    <3> QED
      BY <1>0, <2>2, <3>1, <3>2 DEF Snapshot
  <2>8. /\ slot' \in [Objects -> Slots] /\ slot'[k] = s
        /\ name' \in [Objects -> Names] /\ name'[k] = new
        /\ addr' \in [Objects -> Addrs \cup {SomeAddr}] /\ addr'[k] = serve.from
        /\ \A j \in Ids : slot'[j] = slot[j] /\ name'[j] = name[j] /\ addr'[j] = addr[j]
    BY <1>0, <2>1, <2>2, <2>5, <2>6 DEF IInv, RegistryType
  <2>9. RegistryType'
    <3>1. clients' \in [Addrs -> {Nobody} \cup Ids']
      BY <1>0, <2>1, <2>2 DEF IInv, RegistryType
    <3>2. nextUserID' \in 0 .. MaxUserID
      BY <1>0, <2>1, <2>2, LobbyAssumption DEF k
    <3>3. \A j \in Ids' : addr'[j] \in Addrs
      BY <1>0, <2>2, <2>8 DEF IInv, RegistryType
    <3> QED
      BY <1>0, <2>8, <3>1, <3>2, <3>3 DEF IInv, RegistryType
  <2>10. \A a \in Addrs : clients'[a] # Nobody => addr'[clients'[a]] = a
    <3> SUFFICES ASSUME NEW a \in Addrs, clients'[a] # Nobody
                 PROVE  addr'[clients'[a]] = a
      OBVIOUS
    <3>1. CASE a = serve.from
      BY <1>0, <2>1, <2>8, <3>1 DEF IInv, RegistryType
    <3>2. CASE a # serve.from
      <4>1. clients'[a] = clients[a] /\ clients[a] \in Ids
        BY <2>1, <3>2 DEF IInv, RegistryType
      <4> QED
        BY <2>8, <4>1 DEF IInv, RegistryInv
    <3> QED
      BY <3>1, <3>2
  <2>11. SlotsAndNamesUnique'
    <3> SUFFICES ASSUME NEW i \in Snapshot', NEW j \in Snapshot', i # j
                 PROVE  slot'[i] # slot'[j] /\ NameKey(name'[i]) # NameKey(name'[j])
      BY DEF SlotsAndNamesUnique, NameKey
    <3>1. CASE i = k
      <4>1. j \in Snapshot
        BY <2>7, <3>1
      <4> QED
        BY <2>2, <2>4, <2>5, <2>6, <2>8, <3>1, <4>1
    <3>2. CASE j = k
      <4>1. i \in Snapshot
        BY <2>7, <3>2
      <4> QED
        BY <2>2, <2>4, <2>5, <2>6, <2>8, <3>2, <4>1
    <3>3. CASE i # k /\ j # k
      BY <2>2, <2>3, <2>7, <2>8, <3>3
    <3> QED
      BY <3>1, <3>2, <3>3
  <2>12. DoneOnce'
    <3> SUFFICES ASSUME NEW j \in Objects
                 PROVE  doneClosed[j] = IF j <= k /\ j \notin Snapshot' THEN 1 ELSE 0
      BY <1>0, <2>1 DEF DoneOnce
    <3>1. doneClosed[j] = IF j <= nextUserID /\ j \notin Snapshot THEN 1 ELSE 0
      BY DEF IInv, RegistryInv, DoneOnce
    <3>2. j \in Nat
      BY DEF Objects
    <3>3. CASE j = k
      BY <2>2, <2>7, <3>1, <3>3 DEF k
    <3>4. CASE j # k
      <4>1. j <= k <=> j <= nextUserID
        BY <2>2, <3>2, <3>4 DEF k
      <4> QED
        BY <2>7, <3>1, <3>4, <4>1
    <3> QED
      BY <3>3, <3>4
  <2>13. RegistryInv'
    BY <2>10, <2>11, <2>12 DEF RegistryInv
  <2>14. ServeInv'
    <3>1. serve'.at = "dispatch" /\ serve'.client = k /\ pc'["serve"] = "out"
      BY <1>0, <2>1 DEF Dispatching, Reading, flushVars
    <3> QED
      BY <2>2, <3>1 DEF ServeInv
  <2>15. FlushType'
    BY <1>0, <2>2 DEF IInv, FlushType, sessionVars, flushVars
  <2>16. SendInv'
    BY <1>0 DEF IInv, SendInv, flushVars
  <2>17. /\ \A b \in Objects, t \in Slots : scoreboard[b][t].userID \in Nat /\ scoreboard[b][t].userID < k
         /\ \A g \in Threads, t \in Slots : players[g][t].userID \in Nat /\ players[g][t].userID < k
    <3>1. /\ \A b \in Objects, t \in Slots : scoreboard[b][t].userID \in Nat
          /\ \A g \in Threads, t \in Slots : players[g][t].userID \in Nat
      BY DEF IInv, FlushType, Boards, Entries
    <3> QED
      BY <2>2, <3>1 DEF IInv, BoardInv, k
  <2>18. BoardInv'
    <3>1. /\ \A b \in Objects, t \in Slots : scoreboard[b][t].userID <= k
          /\ \A g \in Threads, t \in Slots : players[g][t].userID <= k
      BY <2>2, <2>17 DEF k
    <3>2. ASSUME NEW b \in Objects, NEW m \in Snapshot'
          PROVE  scoreboard[b][slot'[m]].userID <= m
      <4>1. CASE m = k
        BY <2>6, <2>8, <3>1, <4>1
      <4>2. CASE m # k
        BY <2>2, <2>7, <2>8, <4>2 DEF IInv, BoardInv
      <4> QED
        BY <4>1, <4>2
    <3> QED
      BY <1>0, <2>1, <3>1, <3>2 DEF BoardInv, sessionVars, flushVars
  <2>19. ReadingInv'
    <3> SUFFICES ASSUME NEW g \in Threads, pc[g] = "players"
                 PROVE  /\ \A m \in Snapshot' : players[g][slot'[m]].userID <= m
                        /\ \A j \in todo[g], m \in Snapshot' : slot'[j] = slot'[m] => j <= m
                        /\ \A j \in todo[g] : scoreboard[target[g]][slot'[j]].userID <= j
                        /\ \A t \in Slots :
                              \/ players[g][t].userID = Nobody
                              \/ scoreboard[target[g]][t].userID <= players[g][t].userID
      BY <1>0 DEF ReadingInv, sessionVars, flushVars
    <3>1. todo[g] \subseteq Ids
      BY DEF IInv, FlushType
    <3>2. ASSUME NEW m \in Snapshot'
          PROVE  players[g][slot'[m]].userID <= m
      <4>1. CASE m = k
        <5>1. players[g][s].userID \in Nat /\ players[g][s].userID < k /\ k \in Nat
          BY <2>2, <2>6, <2>17 DEF Objects
        <5> QED
          BY <2>8, <4>1, <5>1
      <4>2. CASE m # k
        BY <2>2, <2>7, <2>8, <4>2 DEF IInv, ReadingInv
      <4> QED
        BY <4>1, <4>2
    <3>3. ASSUME NEW j \in todo[g], NEW m \in Snapshot', slot'[j] = slot'[m]
          PROVE  j <= m
      <4>1. CASE m = k
        BY <2>2, <3>1, <4>1 DEF k
      <4>2. CASE m # k
        BY <2>2, <2>7, <2>8, <3>1, <3>3, <4>2 DEF IInv, ReadingInv
      <4> QED
        BY <4>1, <4>2
    <3>4. \A j \in todo[g] : scoreboard[target[g]][slot'[j]].userID <= j
      BY <2>8, <3>1 DEF IInv, ReadingInv
    <3> QED
      BY <3>2, <3>3, <3>4 DEF IInv, ReadingInv
  <2> QED
    BY <2>9, <2>13, <2>14, <2>15, <2>16, <2>18, <2>19 DEF IInv
<1> QED
  BY <1>1, <1>2

\* A board with no players, and what an empty entry says.
LEMMA NoBoardFacts ==
  /\ NoBoard \in Boards
  /\ \A s \in Slots : NoBoard[s].userID = Nobody
<1>1. <<>> \in Seq(Nat)
  OBVIOUS
<1>2. NoName \in Names
  BY <1>1 DEF NoName, Names
<1>3. Empty \in Entries /\ Empty.userID = Nobody
  BY <1>2 DEF Empty, Entries, Nobody
<1> QED
  BY <1>3 DEF NoBoard, Boards

\* Wiping scoreboards breaks nothing that is said of boards.
LEMMA WipeKeepsBoards ==
  ASSUME IInv, UNCHANGED <<nextUserID, slot, todo, players>>, Snapshot' \subseteq Snapshot,
         \A g \in Threads : pc'[g] = "players" => pc[g] = "players" /\ target'[g] = target[g],
         scoreboard' \in [Objects -> Boards],
         \A k \in Objects, s \in Slots :
            scoreboard'[k][s].userID \in {Nobody, scoreboard[k][s].userID}
  PROVE  BoardInv' /\ ReadingInv'
<1>0. /\ \A k \in Objects, s \in Slots : scoreboard[k][s].userID \in Nat
      /\ \A g \in Threads, s \in Slots : players[g][s].userID \in Nat
      /\ nextUserID \in Nat /\ \A m \in Snapshot : m \in Nat /\ slot[m] \in Slots
      /\ Ids \subseteq Objects
  <2>1. \A k \in Objects, s \in Slots : scoreboard[k][s].userID \in Nat
    BY DEF IInv, FlushType, Boards, Entries
  <2>2. \A g \in Threads, s \in Slots : players[g][s].userID \in Nat
    BY DEF IInv, FlushType, Boards, Entries
  <2>3. nextUserID \in Nat
    BY DEF IInv, RegistryType
  <2>4. Snapshot \subseteq Objects /\ Ids \subseteq Objects
    BY SnapshotFacts DEF IInv
  <2>5. \A m \in Snapshot : m \in Nat /\ slot[m] \in Slots
    BY <2>4 DEF IInv, RegistryType, Objects
  <2> QED
    BY <2>1, <2>2, <2>3, <2>4, <2>5
<1>1. \A k \in Objects, s \in Slots : \A b \in Nat :
         scoreboard[k][s].userID <= b => scoreboard'[k][s].userID <= b
  BY <1>0 DEF Nobody
<1>2. BoardInv'
  <2>1. \A k \in Objects, s \in Slots : scoreboard'[k][s].userID <= nextUserID
    BY <1>0, <1>1 DEF IInv, BoardInv
  <2>2. \A k \in Objects, m \in Snapshot : scoreboard'[k][slot[m]].userID <= m
    BY <1>0, <1>1 DEF IInv, BoardInv
  <2> QED
    BY <2>1, <2>2 DEF IInv, BoardInv
<1>3. ReadingInv'
  <2> SUFFICES ASSUME NEW g \in Threads, pc[g] = "players", target'[g] = target[g]
               PROVE  /\ \A m \in Snapshot' : players[g][slot[m]].userID <= m
                      /\ \A j \in todo[g], m \in Snapshot' : slot[j] = slot[m] => j <= m
                      /\ \A j \in todo[g] : scoreboard'[target[g]][slot[j]].userID <= j
                      /\ \A s \in Slots :
                            \/ players[g][s].userID = Nobody
                            \/ scoreboard'[target[g]][s].userID <= players[g][s].userID
    BY DEF ReadingInv
  <2>1. target[g] \in Objects /\ todo[g] \subseteq Objects
    BY <1>0 DEF IInv, FlushType
  <2>2. \A j \in todo[g] : scoreboard'[target[g]][slot[j]].userID <= j
    <3>1. \A j \in todo[g] : j \in Nat /\ slot[j] \in Slots
      BY <2>1 DEF IInv, RegistryType, Objects
    <3> QED
      BY <1>1, <2>1, <3>1 DEF IInv, ReadingInv
  <2>3. \A s \in Slots : \/ players[g][s].userID = Nobody
                         \/ scoreboard'[target[g]][s].userID <= players[g][s].userID
    BY <1>0, <1>1, <2>1 DEF IInv, ReadingInv
  <2> QED
    BY <2>2, <2>3 DEF IInv, ReadingInv
<1> QED
  BY <1>2, <1>3

\* What dispatchCommands does to the scoreboard, the registry and the flush.
LEMMA DispatchKeeps ==
  ASSUME IInv, Dispatch
  PROVE  IInv'
<1> DEFINE k == serve.client
           restarting == \E i \in 1 .. Len(serve.cmds) : serve.cmds[i] \in Restarts
<1>1. /\ serve.at = "dispatch" /\ serve' = Reading
      /\ scoreboard' = [scoreboard EXCEPT ![k] = IF restarting THEN NoBoard ELSE @]
      /\ RemoveClient(k) \/ UNCHANGED <<clients, doneClosed>>
      /\ \/ UNCHANGED <<pc, target>>
         \/ /\ pc' = [pc EXCEPT !["serve"] = "lock"]
            /\ target' = [target EXCEPT !["serve"] = k]
      /\ UNCHANGED <<nextUserID, addr, slot, name, sendMu, unsent, todo, players, list>>
  BY DEF Dispatch
<1> HIDE DEF restarting
<1>2. k \in Ids /\ pc["serve"] = "out" /\ Ids' = Ids /\ Ids \subseteq Objects
  BY <1>1, SnapshotFacts DEF IInv, ServeInv, Ids
<1>3. RegistryType' /\ RegistryInv' /\ Snapshot' \subseteq Snapshot
  <2>1. CASE RemoveClient(k)
    BY <1>1, <1>2, <2>1, RemoveClientKeepsRegistry DEF IInv
  <2>2. CASE UNCHANGED <<clients, doneClosed>>
    <3>1. Snapshot' = Snapshot
      BY <2>2 DEF Snapshot
    <3> QED
      BY <1>1, <1>2, <2>2, <3>1 DEF IInv, RegistryType, RegistryInv, SlotsAndNamesUnique,
                                    DoneOnce, NameKey
  <2> QED
    BY <1>1, <2>1, <2>2
<1>4. /\ scoreboard' \in [Objects -> Boards]
      /\ \A j \in Objects, s \in Slots :
            scoreboard'[j][s].userID \in {Nobody, scoreboard[j][s].userID}
  BY <1>1, <1>2, NoBoardFacts DEF IInv, FlushType
<1>5. /\ pc' \in [Threads -> Labels] /\ target' \in [Threads -> {Nobody} \cup Ids]
      /\ pc'["flush"] = pc["flush"] /\ target'["flush"] = target["flush"]
      /\ pc'["serve"] \in {"out", "lock"}
      /\ pc'["serve"] = "lock" => target'["serve"] \in Ids
  BY <1>1, <1>2 DEF IInv, FlushType, Threads, Labels
<1>6. FlushType'
  <2>1. \A g \in Threads : pc'[g] # "out" => target'[g] \in Ids
    BY <1>5 DEF IInv, FlushType, Threads
  <2> QED
    BY <1>1, <1>2, <1>4, <1>5, <2>1 DEF IInv, FlushType
<1>7. SendInv'
  <2>1. \A j \in Objects : sendMu[j] # "serve"
    BY <1>2 DEF IInv, SendInv, Holding, Threads
  <2> QED
    BY <1>1, <1>5, <2>1 DEF IInv, SendInv, Holding, Threads
<1>8. BoardInv' /\ ReadingInv'
  <2>1. \A g \in Threads : pc'[g] = "players" => pc[g] = "players" /\ target'[g] = target[g]
    BY <1>5 DEF Threads
  <2> QED
    BY <1>1, <1>3, <1>4, <2>1, WipeKeepsBoards
<1>9. ServeInv'
  BY <1>1 DEF ServeInv, Reading
<1> QED
  BY <1>3, <1>6, <1>7, <1>8, <1>9 DEF IInv

\* ResetClient wipes a scoreboard at any moment of a flush.
LEMMA ResetClientKeeps ==
  ASSUME IInv, NEW k \in Objects, ResetClient(k)
  PROVE  IInv'
<1>1. /\ scoreboard' = [scoreboard EXCEPT ![k] = NoBoard]
      /\ UNCHANGED <<registryVars, flushVars, serve>>
  BY DEF ResetClient
<1>2. Snapshot' = Snapshot /\ Ids' = Ids
  BY <1>1 DEF Snapshot, Ids, registryVars
<1>3. RegistryType' /\ RegistryInv'
  BY <1>1, <1>2 DEF registryVars, IInv, RegistryType, RegistryInv, SlotsAndNamesUnique,
                    DoneOnce, NameKey
<1>4. /\ scoreboard' \in [Objects -> Boards]
      /\ \A j \in Objects, s \in Slots :
            scoreboard'[j][s].userID \in {Nobody, scoreboard[j][s].userID}
  BY <1>1, NoBoardFacts DEF IInv, FlushType
<1>5. FlushType'
  BY <1>1, <1>2, <1>4 DEF IInv, FlushType, flushVars
<1>6. SendInv' /\ ServeInv'
  BY <1>1, <1>2 DEF IInv, SendInv, ServeInv, flushVars, registryVars
<1>7. BoardInv' /\ ReadingInv'
  BY <1>1, <1>2, <1>4, WipeKeepsBoards DEF flushVars, registryVars
<1> QED
  BY <1>3, <1>5, <1>6, <1>7 DEF IInv

------------------------------------------------------------------------------
(* The steps of flushClient.                                                *)

\* Flushing leaves the registry and Serve's packet alone.
LEMMA RegistryFrame ==
  ASSUME IInv, UNCHANGED <<registryVars, serve>>, pc["serve"] = "out" => pc'["serve"] = "out"
  PROVE  RegistryType' /\ RegistryInv' /\ ServeInv' /\ Snapshot' = Snapshot /\ Ids' = Ids
<1>1. Snapshot' = Snapshot /\ Ids' = Ids
  BY DEF Snapshot, Ids, registryVars
<1>2. RegistryType' /\ RegistryInv'
  BY <1>1 DEF registryVars, IInv, RegistryType, RegistryInv, SlotsAndNamesUnique,
              DoneOnce, NameKey
<1>3. ServeInv'
  BY <1>1 DEF IInv, ServeInv, registryVars
<1> QED
  BY <1>1, <1>2, <1>3

\* What the provers need to know of one step of thread g.
LEMMA ThreadFacts ==
  ASSUME IInv, NEW g \in Threads, pc[g] # "out"
  PROVE  /\ target[g] \in Ids /\ target[g] \in Objects
         /\ \A h \in Threads : pc[h] \in Holding => target[h] \in Objects
         /\ \A h \in Threads : h # "free"
<1>1. Ids \subseteq Objects
  BY SnapshotFacts DEF IInv
<1> QED
  BY <1>1 DEF IInv, FlushType, Threads, Holding

\* Flush takes the clients of one moment as its list.
LEMMA FlushKeeps ==
  ASSUME IInv, Flush
  PROVE  IInv'
<1>1. /\ list' = Snapshot
      /\ UNCHANGED <<registryVars, sessionVars, serve, sendMu, unsent, pc, target, todo, players>>
  BY DEF Flush
<1>2. RegistryType' /\ RegistryInv' /\ ServeInv' /\ Snapshot' = Snapshot /\ Ids' = Ids
  BY <1>1, RegistryFrame
<1>3. FlushType'
  BY <1>1, <1>2, SnapshotFacts DEF IInv, FlushType, sessionVars
<1>4. SendInv' /\ BoardInv' /\ ReadingInv'
  BY <1>1, <1>2 DEF IInv, SendInv, BoardInv, ReadingInv, sessionVars, registryVars
<1> QED
  BY <1>2, <1>3, <1>4 DEF IInv

\* Flush turns to the next client of its list.
LEMMA FlushEachKeeps ==
  ASSUME IInv, NEW k \in Objects, FlushEach(k)
  PROVE  IInv'
<1>1. /\ pc["flush"] = "out" /\ k \in list /\ list' = list \ {k}
      /\ pc' = [pc EXCEPT !["flush"] = "lock"] /\ target' = [target EXCEPT !["flush"] = k]
      /\ UNCHANGED <<registryVars, sessionVars, serve, sendMu, unsent, todo, players>>
  BY DEF FlushEach
<1>2. /\ pc' \in [Threads -> Labels] /\ target' \in [Threads -> {Nobody} \cup Ids] /\ k \in Ids
      /\ pc'["serve"] = pc["serve"] /\ target'["serve"] = target["serve"]
      /\ pc'["flush"] = "lock" /\ target'["flush"] = k
  BY <1>1 DEF IInv, FlushType, Threads, Labels
<1>3. RegistryType' /\ RegistryInv' /\ ServeInv' /\ Snapshot' = Snapshot /\ Ids' = Ids
  BY <1>1, <1>2, RegistryFrame
<1>4. FlushType'
  <2>1. \A g \in Threads : pc'[g] # "out" => target'[g] \in Ids
    BY <1>2 DEF IInv, FlushType, Threads
  <2> QED
    BY <1>1, <1>2, <1>3, <2>1 DEF IInv, FlushType, sessionVars
<1>5. SendInv'
  <2>1. \A j \in Objects : sendMu[j] # "flush"
    BY <1>1 DEF IInv, SendInv, Holding, Threads
  <2> QED
    BY <1>1, <1>2, <2>1 DEF IInv, SendInv, Holding, Threads
<1>6. BoardInv'
  BY <1>1, <1>3 DEF IInv, BoardInv, registryVars, sessionVars
<1>7. ReadingInv'
  BY <1>1, <1>2, <1>3 DEF IInv, ReadingInv, registryVars, sessionVars, Threads
<1> QED
  BY <1>3, <1>4, <1>5, <1>6, <1>7 DEF IInv

\* flushClient waits for sendMu and takes it.
LEMMA LockSendKeeps ==
  ASSUME IInv, NEW g \in Threads, LockSend(g)
  PROVE  IInv'
<1> DEFINE k == target[g]
<1>1. /\ pc[g] = "lock" /\ sendMu[k] = "free" /\ sendMu' = [sendMu EXCEPT ![k] = g]
      /\ pc' = [pc EXCEPT ![g] = "snapshot"]
      /\ UNCHANGED <<registryVars, sessionVars, serve, unsent, target, todo, players, list>>
  BY DEF LockSend
<1>2. k \in Ids /\ k \in Objects /\ g # "free"
  BY <1>1, ThreadFacts
<1>3. /\ pc' \in [Threads -> Labels] /\ pc'[g] = "snapshot"
      /\ \A h \in Threads \ {g} : pc'[h] = pc[h]
      /\ sendMu' \in [Objects -> Threads \cup {"free"}] /\ sendMu'[k] = g
      /\ \A j \in Objects \ {k} : sendMu'[j] = sendMu[j]
  BY <1>1, <1>2 DEF IInv, FlushType, Labels
<1>4. RegistryType' /\ RegistryInv' /\ ServeInv' /\ Snapshot' = Snapshot /\ Ids' = Ids
  <2>1. pc["serve"] = "out" => pc'["serve"] = "out"
    BY <1>1, <1>3 DEF Threads
  <2> QED
    BY <1>1, <2>1, RegistryFrame
<1>5. FlushType'
  BY <1>1, <1>2, <1>3, <1>4 DEF IInv, FlushType, sessionVars
<1>6. SendInv'
  <2>1. \A j \in Objects : sendMu[j] # g
    BY <1>1 DEF IInv, SendInv, Holding
  <2>2. \A h \in Threads : pc[h] \in Holding => target[h] # k
    BY <1>1, <1>2, ThreadFacts DEF IInv, SendInv
  <2>3. unsent[k] = <<>>
    BY <1>1, <1>2, ThreadFacts DEF IInv, SendInv
  <2>4. \A h \in Threads : pc[h] \in Holding => target[h] \in Objects
    BY <1>1, ThreadFacts
  <2>5. \A h \in Threads : pc'[h] \in Holding => sendMu'[target[h]] = h
    BY <1>2, <1>3, <2>2, <2>4 DEF IInv, SendInv
  <2>6. \A j \in Objects, h \in Threads : sendMu'[j] = h => pc'[h] \in Holding /\ target[h] = j
    BY <1>2, <1>3, <2>1 DEF IInv, SendInv, Holding
  <2>7. \A j \in Objects, h \in Threads : sendMu'[j] = h /\ pc'[h] = "write" => unsent[j] = <<h>>
    BY <1>2, <1>3, <2>1 DEF IInv, SendInv
  <2>8. ASSUME NEW j \in Objects, \A h \in Threads : sendMu'[j] = h => pc'[h] # "write"
        PROVE  unsent[j] = <<>>
    <3>1. CASE j = k
      BY <2>3, <3>1
    <3>2. CASE j # k
      BY <1>3, <2>1, <2>8, <3>2 DEF IInv, SendInv
    <3> QED
      BY <3>1, <3>2
  <2> QED
    BY <1>1, <2>5, <2>6, <2>7, <2>8 DEF SendInv
<1>7. BoardInv'
  BY <1>1, <1>4 DEF IInv, BoardInv, registryVars, sessionVars
<1>8. ReadingInv'
  BY <1>1, <1>3, <1>4 DEF IInv, ReadingInv, registryVars, sessionVars
<1> QED
  BY <1>4, <1>5, <1>6, <1>7, <1>8 DEF IInv

\* lobbyPlayers starts with the clients of this moment, who are the newest of
\* their slots.
LEMMA TakeSnapshotKeeps ==
  ASSUME IInv, NEW g \in Threads, TakeSnapshot(g)
  PROVE  IInv'
<1>1. /\ pc[g] = "snapshot" /\ pc' = [pc EXCEPT ![g] = "players"]
      /\ todo' = [todo EXCEPT ![g] = Snapshot] /\ players' = [players EXCEPT ![g] = NoBoard]
      /\ UNCHANGED <<registryVars, sessionVars, serve, sendMu, unsent, target, list>>
  BY DEF TakeSnapshot
<1>2. /\ target[g] \in Objects /\ Snapshot \subseteq Ids /\ Ids \subseteq Objects
  BY <1>1, ThreadFacts, SnapshotFacts DEF IInv
<1>3. /\ pc' \in [Threads -> Labels] /\ pc'[g] = "players"
      /\ \A h \in Threads \ {g} : pc'[h] = pc[h] /\ todo'[h] = todo[h] /\ players'[h] = players[h]
      /\ todo' \in [Threads -> SUBSET Ids] /\ todo'[g] = Snapshot
      /\ players' \in [Threads -> Boards] /\ players'[g] = NoBoard
  BY <1>1, <1>2, NoBoardFacts DEF IInv, FlushType, Labels
<1>4. RegistryType' /\ RegistryInv' /\ ServeInv' /\ Snapshot' = Snapshot /\ Ids' = Ids
  <2>1. pc["serve"] = "out" => pc'["serve"] = "out"
    BY <1>1, <1>3 DEF Threads
  <2> QED
    BY <1>1, <2>1, RegistryFrame
<1>5. FlushType'
  <2>1. \A h \in Threads : pc'[h] # "out" => target[h] \in Ids
    BY <1>1, <1>3 DEF IInv, FlushType
  <2> QED
    BY <1>1, <1>3, <1>4, <2>1 DEF IInv, FlushType, sessionVars
<1>6. SendInv'
  <2>1. \A h \in Threads : /\ pc'[h] \in Holding <=> pc[h] \in Holding
                           /\ pc'[h] = "write" <=> pc[h] = "write"
    BY <1>1, <1>3 DEF Holding
  <2> QED
    BY <1>1, <2>1 DEF IInv, SendInv
<1>7. \A m \in Snapshot : m \in Nat /\ slot[m] \in Slots
  BY <1>2 DEF Objects, IInv, RegistryType
<1>8. BoardInv'
  <2>1. \A h \in Threads, s \in Slots : players'[h][s].userID <= nextUserID
    BY <1>3, NoBoardFacts DEF IInv, BoardInv, RegistryType, Nobody
  <2> QED
    BY <1>1, <1>4, <2>1 DEF IInv, BoardInv, registryVars, sessionVars
<1>9. ReadingInv'
  <2> SUFFICES ASSUME NEW h \in Threads, pc'[h] = "players"
               PROVE  /\ \A m \in Snapshot : players'[h][slot[m]].userID <= m
                      /\ \A j \in todo'[h], m \in Snapshot : slot[j] = slot[m] => j <= m
                      /\ \A j \in todo'[h] : scoreboard[target[h]][slot[j]].userID <= j
                      /\ \A s \in Slots :
                            \/ players'[h][s].userID = Nobody
                            \/ scoreboard[target[h]][s].userID <= players'[h][s].userID
    BY <1>1, <1>4 DEF ReadingInv, registryVars, sessionVars
  <2>1. CASE h = g
    <3>1. \A m \in Snapshot : players'[g][slot[m]].userID <= m
      BY <1>3, <1>7, NoBoardFacts DEF Nobody
    <3>2. \A j, m \in Snapshot : slot[j] = slot[m] => j <= m
      BY <1>7 DEF IInv, RegistryInv, SlotsAndNamesUnique
    <3>3. \A j \in Snapshot : scoreboard[target[g]][slot[j]].userID <= j
      BY <1>2 DEF IInv, BoardInv
    <3> QED
      BY <1>3, <2>1, <3>1, <3>2, <3>3, NoBoardFacts
  <2>2. CASE h # g
    BY <1>3, <2>2 DEF IInv, ReadingInv
  <2> QED
    BY <2>1, <2>2
<1> QED
  BY <1>4, <1>5, <1>6, <1>8, <1>9 DEF IInv

\* Reading one player.
LEMMA ReadPlayerKeeps ==
  ASSUME IInv, NEW g \in Threads, NEW k \in Objects, ReadPlayer(g, k)
  PROVE  IInv'
<1>1. /\ pc[g] = "players" /\ k \in todo[g] /\ todo' = [todo EXCEPT ![g] = @ \ {k}]
      /\ players' = [players EXCEPT ![g][slot[k]] = Entry(k)]
      /\ UNCHANGED <<registryVars, sessionVars, serve, sendMu, unsent, pc, target, list>>
  BY DEF ReadPlayer
<1>2. /\ k \in Nat /\ k <= nextUserID /\ slot[k] \in Slots
      /\ Snapshot \subseteq Ids /\ Ids \subseteq Objects
      /\ Entry(k) \in Entries /\ Entry(k).userID = k
  <2>1. k \in Nat /\ k <= nextUserID /\ slot[k] \in Slots
    BY <1>1 DEF IInv, FlushType, RegistryType, Ids
  <2>2. Entry(k) \in Entries /\ Entry(k).userID = k
    BY <2>1 DEF IInv, RegistryType, Entry, Entries
  <2> QED
    BY <2>1, <2>2, SnapshotFacts DEF IInv
<1>3. /\ players' \in [Threads -> Boards] /\ players'[g] \in Boards /\ players[g] \in Boards
      /\ players'[g][slot[k]] = Entry(k)
      /\ \A s \in Slots \ {slot[k]} : players'[g][s] = players[g][s]
      /\ \A h \in Threads \ {g} : players'[h] = players[h] /\ todo'[h] = todo[h]
      /\ todo' \in [Threads -> SUBSET Ids] /\ todo'[g] = todo[g] \ {k}
  BY <1>1, <1>2 DEF IInv, FlushType, Boards
<1>4. RegistryType' /\ RegistryInv' /\ ServeInv' /\ Snapshot' = Snapshot /\ Ids' = Ids
  BY <1>1, RegistryFrame
<1>5. FlushType'
  BY <1>1, <1>3, <1>4 DEF IInv, FlushType, sessionVars
<1>6. SendInv'
  BY <1>1 DEF IInv, SendInv
<1>7. BoardInv'
  <2>1. \A h \in Threads, s \in Slots : players'[h][s].userID <= nextUserID
    BY <1>2, <1>3 DEF IInv, BoardInv
  <2> QED
    BY <1>1, <1>4, <2>1 DEF IInv, BoardInv, registryVars, sessionVars
<1>8. ReadingInv'
  <2> SUFFICES ASSUME NEW h \in Threads, pc[h] = "players"
               PROVE  /\ \A m \in Snapshot : players'[h][slot[m]].userID <= m
                      /\ \A j \in todo'[h], m \in Snapshot : slot[j] = slot[m] => j <= m
                      /\ \A j \in todo'[h] : scoreboard[target[h]][slot[j]].userID <= j
                      /\ \A s \in Slots :
                            \/ players'[h][s].userID = Nobody
                            \/ scoreboard[target[h]][s].userID <= players'[h][s].userID
    BY <1>1, <1>4 DEF ReadingInv, registryVars, sessionVars
  <2>1. CASE h = g
    <3>1. \A m \in Snapshot : slot[m] \in Slots
      BY <1>2 DEF IInv, RegistryType
    <3>2. \A m \in Snapshot : players'[g][slot[m]].userID <= m
      BY <1>1, <1>2, <1>3, <3>1 DEF IInv, ReadingInv
    <3>3. \A s \in Slots : \/ players'[g][s].userID = Nobody
                           \/ scoreboard[target[g]][s].userID <= players'[g][s].userID
      BY <1>1, <1>2, <1>3 DEF IInv, ReadingInv
    <3> QED
      BY <1>1, <1>3, <2>1, <3>2, <3>3 DEF IInv, ReadingInv
  <2>2. CASE h # g
    BY <1>3, <2>2 DEF IInv, ReadingInv
  <2> QED
    BY <2>1, <2>2
<1> QED
  BY <1>4, <1>5, <1>6, <1>7, <1>8 DEF IInv

\* What one emission does to the scoreboard of its client: an entry stays, or it
\* becomes what was read, which is nobody or somebody at least as new.
LEMMA EmitBoard ==
  ASSUME IInv, NEW g \in Threads, Emit(g)
  PROVE  /\ scoreboard' \in [Objects -> Boards]
         /\ \A k \in Objects \ {target[g]} : scoreboard'[k] = scoreboard[k]
         /\ \A s \in Slots : scoreboard'[target[g]][s] \in {scoreboard[target[g]][s], players[g][s]}
<1> DEFINE k == target[g]
<1>1. /\ pc[g] = "players"
      /\ \/ scoreboard' = [scoreboard EXCEPT ![k] = UpdateScoreboard(@, players[g])]
         \/ scoreboard' = scoreboard
  BY DEF Emit
<1>2. k \in Objects /\ scoreboard \in [Objects -> Boards] /\ players[g] \in Boards
  BY <1>1, ThreadFacts DEF IInv, FlushType
<1>3. /\ UpdateScoreboard(scoreboard[k], players[g]) \in Boards
      /\ \A s \in Slots : UpdateScoreboard(scoreboard[k], players[g])[s]
                             \in {scoreboard[k][s], players[g][s]}
  BY <1>2 DEF UpdateScoreboard, Boards
<1> QED
  BY <1>1, <1>2, <1>3

\* Emission numbers the packet and brings the scoreboard up to date.
LEMMA EmitKeeps ==
  ASSUME IInv, NEW g \in Threads, Emit(g)
  PROVE  IInv'
<1> DEFINE k == target[g]
<1>1. /\ pc[g] = "players" /\ pc' = [pc EXCEPT ![g] = "write"]
      /\ unsent' = [unsent EXCEPT ![k] = Append(@, g)]
      /\ players' = [players EXCEPT ![g] = NoBoard]
      /\ UNCHANGED <<registryVars, serve, sendMu, target, todo, list>>
  BY DEF Emit
<1>2. /\ k \in Ids /\ k \in Objects /\ Snapshot \subseteq Ids /\ Ids \subseteq Objects
      /\ \A h \in Threads : pc[h] \in Holding => target[h] \in Objects
  BY <1>1, ThreadFacts, SnapshotFacts DEF IInv
<1>3. /\ sendMu[k] = g /\ unsent[k] = <<>>
      /\ \A h \in Threads : pc[h] \in Holding /\ target[h] = k => h = g
  BY <1>1, <1>2 DEF IInv, SendInv, Holding
<1>4. /\ pc' \in [Threads -> Labels] /\ pc'[g] = "write"
      /\ \A h \in Threads \ {g} : pc'[h] = pc[h] /\ players'[h] = players[h]
      /\ players' \in [Threads -> Boards] /\ players'[g] = NoBoard
      /\ unsent' \in [Objects -> Seq(Threads)] /\ unsent'[k] = <<g>>
      /\ \A j \in Objects \ {k} : unsent'[j] = unsent[j]
  <2>1. Append(<<>>, g) = <<g>> /\ <<g>> \in Seq(Threads)
    OBVIOUS
  <2> QED
    BY <1>1, <1>2, <1>3, <2>1, NoBoardFacts DEF IInv, FlushType, Labels
<1>5. RegistryType' /\ RegistryInv' /\ ServeInv' /\ Snapshot' = Snapshot /\ Ids' = Ids
  <2>1. pc["serve"] = "out" => pc'["serve"] = "out"
    BY <1>1, <1>4 DEF Threads
  <2> QED
    BY <1>1, <2>1, RegistryFrame
<1>6. FlushType'
  <2>1. \A h \in Threads : pc'[h] # "out" => target[h] \in Ids
    BY <1>1, <1>4 DEF IInv, FlushType
  <2> QED
    BY <1>1, <1>4, <1>5, <2>1, EmitBoard DEF IInv, FlushType
<1>7. SendInv'
  <2>1. \A h \in Threads : pc'[h] \in Holding <=> pc[h] \in Holding
    BY <1>1, <1>4 DEF Holding
  <2>2. \A j \in Objects, h \in Threads : sendMu[j] = h /\ pc'[h] = "write" => unsent'[j] = <<h>>
    <3> SUFFICES ASSUME NEW j \in Objects, NEW h \in Threads, sendMu[j] = h, pc'[h] = "write"
                 PROVE  unsent'[j] = <<h>>
      OBVIOUS
    <3>1. CASE h = g
      <4>1. j = k
        BY <3>1 DEF IInv, SendInv
      <4> QED
        BY <1>4, <3>1, <4>1
    <3>2. CASE h # g
      <4>1. j # k /\ pc[h] = "write"
        BY <1>3, <1>4, <3>2
      <4> QED
        BY <1>4, <3>2, <4>1 DEF IInv, SendInv
    <3> QED
      BY <3>1, <3>2
  <2>3. ASSUME NEW j \in Objects, \A h \in Threads : sendMu[j] = h => pc'[h] # "write"
        PROVE  unsent'[j] = <<>>
    <3>1. j # k
      BY <1>3, <1>4, <2>3
    <3>2. \A h \in Threads : sendMu[j] = h => pc[h] # "write"
      BY <1>1, <1>4, <2>3
    <3> QED
      BY <1>4, <3>1, <3>2 DEF IInv, SendInv
  <2> QED
    BY <1>1, <2>1, <2>2, <2>3 DEF IInv, SendInv
<1>8. \A s \in Slots : scoreboard'[k][s].userID \in {scoreboard[k][s].userID, players[g][s].userID}
  BY EmitBoard
<1>9. BoardInv'
  <2>1. \A j \in Objects, s \in Slots : scoreboard'[j][s].userID <= nextUserID
    BY <1>2, <1>8, EmitBoard DEF IInv, BoardInv
  <2>2. \A j \in Objects, m \in Snapshot : scoreboard'[j][slot[m]].userID <= m
    <3> SUFFICES ASSUME NEW j \in Objects, NEW m \in Snapshot
                 PROVE  scoreboard'[j][slot[m]].userID <= m
      OBVIOUS
    <3>1. slot[m] \in Slots
      BY <1>2 DEF IInv, RegistryType
    <3>2. players[g][slot[m]].userID <= m /\ scoreboard[j][slot[m]].userID <= m
      BY <1>1 DEF IInv, ReadingInv, BoardInv
    <3> QED
      BY <1>8, <3>1, <3>2, EmitBoard
  <2>3. \A h \in Threads, s \in Slots : players'[h][s].userID <= nextUserID
    <3>1. \A s \in Slots : players'[g][s].userID <= nextUserID
      BY <1>4, NoBoardFacts DEF IInv, RegistryType, Nobody
    <3> QED
      BY <1>4, <3>1 DEF IInv, BoardInv
  <2> QED
    BY <1>1, <1>5, <2>1, <2>2, <2>3 DEF BoardInv, registryVars
<1>10. ReadingInv'
  <2> SUFFICES ASSUME NEW h \in Threads, pc'[h] = "players"
               PROVE  /\ \A m \in Snapshot : players'[h][slot[m]].userID <= m
                      /\ \A j \in todo[h], m \in Snapshot : slot[j] = slot[m] => j <= m
                      /\ \A j \in todo[h] : scoreboard'[target[h]][slot[j]].userID <= j
                      /\ \A s \in Slots :
                            \/ players'[h][s].userID = Nobody
                            \/ scoreboard'[target[h]][s].userID <= players'[h][s].userID
    BY <1>1, <1>5 DEF ReadingInv, registryVars
  <2>1. h # g /\ pc[h] = "players" /\ players'[h] = players[h]
    BY <1>4
  <2>2. target[h] # k /\ target[h] \in Objects
    BY <1>2, <1>3, <2>1 DEF Holding
  <2>3. scoreboard'[target[h]] = scoreboard[target[h]]
    BY <2>2, EmitBoard
  <2> QED
    BY <2>1, <2>3 DEF IInv, ReadingInv
<1> QED
  BY <1>5, <1>6, <1>7, <1>9, <1>10 DEF IInv

\* The one unwritten packet of a client is written and sendMu is given back.
LEMMA WriteToUDPKeeps ==
  ASSUME IInv, NEW g \in Threads, WriteToUDP(g)
  PROVE  IInv'
<1> DEFINE k == target[g]
<1>1. /\ pc[g] = "write" /\ pc' = [pc EXCEPT ![g] = "out"]
      /\ unsent' = [unsent EXCEPT ![k] = Without(@, g)]
      /\ sendMu' = [sendMu EXCEPT ![k] = "free"]
      /\ target' = [target EXCEPT ![g] = Nobody]
      /\ UNCHANGED <<registryVars, sessionVars, serve, todo, players, list>>
  BY DEF WriteToUDP
<1>2. /\ k \in Objects
      /\ \A h \in Threads : h # "free"
      /\ \A h \in Threads : pc[h] \in Holding => target[h] \in Objects
  BY <1>1, ThreadFacts
<1>3. /\ sendMu[k] = g /\ unsent[k] = <<g>>
      /\ \A h \in Threads : pc[h] \in Holding /\ target[h] = k => h = g
      /\ \A j \in Objects : sendMu[j] = g => j = k
  BY <1>1, <1>2 DEF IInv, SendInv, Holding
<1>4. Without(<<g>>, g) = <<>>
  <2>1. Len(<<g>>) = 1 /\ (CHOOSE i \in 1 .. Len(<<g>>) : <<g>>[i] = g) = 1
    OBVIOUS
  <2>2. SubSeq(<<g>>, 1, 0) \o SubSeq(<<g>>, 2, 1) = <<>>
    OBVIOUS
  <2> QED
    BY <2>1, <2>2 DEF Without, RemoveAt
<1>5. /\ pc' \in [Threads -> Labels] /\ pc'[g] = "out" /\ target'[g] = Nobody
      /\ \A h \in Threads \ {g} : pc'[h] = pc[h] /\ target'[h] = target[h]
      /\ target' \in [Threads -> {Nobody} \cup Ids]
      /\ sendMu' \in [Objects -> Threads \cup {"free"}] /\ sendMu'[k] = "free"
      /\ unsent' \in [Objects -> Seq(Threads)] /\ unsent'[k] = <<>>
      /\ \A j \in Objects \ {k} : unsent'[j] = unsent[j] /\ sendMu'[j] = sendMu[j]
  <2>1. <<>> \in Seq(Threads)
    OBVIOUS
  <2> QED
    BY <1>1, <1>2, <1>3, <1>4, <2>1 DEF IInv, FlushType, Labels
<1>6. RegistryType' /\ RegistryInv' /\ ServeInv' /\ Snapshot' = Snapshot /\ Ids' = Ids
  <2>1. pc["serve"] = "out" => pc'["serve"] = "out"
    BY <1>1, <1>5 DEF Threads
  <2> QED
    BY <1>1, <2>1, RegistryFrame
<1>7. FlushType'
  <2>1. \A h \in Threads : pc'[h] # "out" => target'[h] \in Ids
    BY <1>5 DEF IInv, FlushType
  <2> QED
    BY <1>1, <1>5, <1>6, <2>1 DEF IInv, FlushType, sessionVars
<1>8. SendInv'
  <2>1. \A h \in Threads : pc'[h] \in Holding => sendMu'[target'[h]] = h
    <3> SUFFICES ASSUME NEW h \in Threads, pc'[h] \in Holding
                 PROVE  sendMu'[target'[h]] = h
      OBVIOUS
    <3>1. h # g
      BY <1>5 DEF Holding
    <3>2. pc[h] \in Holding /\ target'[h] = target[h] /\ target[h] # k /\ target[h] \in Objects
      BY <1>2, <1>3, <1>5, <3>1
    <3> QED
      BY <1>5, <3>2 DEF IInv, SendInv
  <2>2. \A j \in Objects, h \in Threads : sendMu'[j] = h => j # k /\ h # g /\ sendMu[j] = h
    <3> SUFFICES ASSUME NEW j \in Objects, NEW h \in Threads, sendMu'[j] = h
                 PROVE  j # k /\ h # g /\ sendMu[j] = h
      OBVIOUS
    <3>1. j # k
      BY <1>2, <1>5
    <3>2. sendMu[j] = h
      BY <1>5, <3>1
    <3> QED
      BY <1>3, <3>1, <3>2
  <2>3. \A j \in Objects, h \in Threads : sendMu'[j] = h => pc'[h] \in Holding /\ target'[h] = j
    BY <1>5, <2>2 DEF IInv, SendInv
  <2>4. \A j \in Objects, h \in Threads : sendMu'[j] = h /\ pc'[h] = "write" => unsent'[j] = <<h>>
    <3> SUFFICES ASSUME NEW j \in Objects, NEW h \in Threads, sendMu'[j] = h, pc'[h] = "write"
                 PROVE  unsent'[j] = <<h>>
      OBVIOUS
    <3>1. j # k /\ h # g /\ sendMu[j] = h
      BY <2>2
    <3>2. pc[h] = "write" /\ unsent'[j] = unsent[j]
      BY <1>5, <3>1
    <3>3. unsent[j] = <<h>>
      BY <3>1, <3>2 DEF IInv, SendInv
    <3> QED
      BY <3>2, <3>3
  <2>5. ASSUME NEW j \in Objects, \A h \in Threads : sendMu'[j] = h => pc'[h] # "write"
        PROVE  unsent'[j] = <<>>
    <3>1. CASE j = k
      BY <1>5, <3>1
    <3>2. CASE j # k
      <4>1. \A h \in Threads : sendMu[j] = h => pc[h] # "write"
        <5> SUFFICES ASSUME NEW h \in Threads, sendMu[j] = h
                     PROVE  pc[h] # "write"
          OBVIOUS
        <5>1. h # g /\ sendMu'[j] = h
          BY <1>3, <1>5, <3>2
        <5> QED
          BY <1>5, <2>5, <5>1
      <4> QED
        BY <1>5, <3>2, <4>1 DEF IInv, SendInv
    <3> QED
      BY <3>1, <3>2
  <2> QED
    BY <2>1, <2>3, <2>4, <2>5 DEF SendInv
<1>9. BoardInv'
  BY <1>1, <1>6 DEF IInv, BoardInv, registryVars, sessionVars
<1>10. ReadingInv'
  BY <1>1, <1>5, <1>6 DEF IInv, ReadingInv, registryVars, sessionVars
<1> QED
  BY <1>6, <1>7, <1>8, <1>9, <1>10 DEF IInv

------------------------------------------------------------------------------
(* The theorems.                                                            *)

\* The invariant holds when the server starts.
LEMMA InitIInv == Init => IInv
<1> SUFFICES ASSUME Init PROVE IInv
  OBVIOUS
<1>1. Snapshot = {} /\ MaxUserID \in Nat /\ MaxClients \in Nat \ {0}
  BY LobbyAssumption DEF Init, Snapshot
<1>2. RegistryType
  <2>1. <<>> \in Seq(Nat)
    OBVIOUS
  <2>2. name \in [Objects -> Names]
    BY <2>1 DEF Init, NoName, Names
  <2>3. slot \in [Objects -> Slots] /\ doneClosed \in [Objects -> Nat]
    BY <1>1 DEF Init, Slots
  <2>4. clients \in [Addrs -> {Nobody} \cup Ids] /\ addr \in [Objects -> Addrs \cup {SomeAddr}]
    BY DEF Init
  <2>5. nextUserID \in 0 .. MaxUserID /\ Ids = {}
    BY <1>1 DEF Init, Ids
  <2> QED
    BY <2>2, <2>3, <2>4, <2>5 DEF RegistryType
<1>3. FlushType
  <2>1. \A k \in Objects : <<>> \in Seq(Threads)
    OBVIOUS
  <2>2. scoreboard \in [Objects -> Boards] /\ players \in [Threads -> Boards]
    BY NoBoardFacts DEF Init
  <2>3. sendMu \in [Objects -> Threads \cup {"free"}] /\ unsent \in [Objects -> Seq(Threads)]
    BY <2>1 DEF Init
  <2>4. /\ pc \in [Threads -> Labels] /\ target \in [Threads -> {Nobody} \cup Ids]
        /\ \A g \in Threads : pc[g] # "out" => target[g] \in Ids
    BY DEF Init, Labels
  <2>5. todo \in [Threads -> SUBSET Ids] /\ list \subseteq Ids
    BY DEF Init
  <2> QED
    BY <2>2, <2>3, <2>4, <2>5 DEF FlushType
<1>4. RegistryInv
  <2>1. DoneOnce
    BY <1>1 DEF Init, DoneOnce, Objects
  <2> QED
    BY <1>1, <2>1 DEF Init, RegistryInv, SlotsAndNamesUnique
<1>5. ServeInv
  BY DEF Init, ServeInv, Reading
<1>6. SendInv
  BY DEF Init, SendInv, Holding, Threads
<1>7. BoardInv /\ ReadingInv
  BY <1>1, NoBoardFacts DEF Init, BoardInv, ReadingInv, Nobody
<1> QED
  BY <1>2, <1>3, <1>4, <1>5, <1>6, <1>7 DEF IInv

\* Every step keeps the invariant.
LEMMA NextIInv == IInv /\ [Next]_vars => IInv'
<1> SUFFICES ASSUME IInv, [Next]_vars PROVE IInv'
  OBVIOUS
<1>1. CASE Next
  <2>1. CASE \E a \in Addrs, n \in Chosen : Connect(a, n) \/ Rename(a, n)
    BY <2>1, ConnectKeeps, RenameKeeps
  <2>2. CASE \E a \in Addrs, cmds \in Inputs : GameData(a, cmds)
    BY <2>2, GameDataKeeps
  <2>3. CASE Admit \/ Dispatch \/ Consume \/ Stop
    BY <2>3, AdmitKeeps, DispatchKeeps, ConsumeKeeps, StopKeeps
  <2>4. CASE \E k \in Objects : Expire(k) \/ ResetClient(k) \/ FlushEach(k)
    BY <2>4, ExpireKeeps, ResetClientKeeps, FlushEachKeeps
  <2>5. CASE Flush
    BY <2>5, FlushKeeps
  <2>6. CASE \E g \in Threads : FlushClient(g)
    BY <2>6, LockSendKeeps, TakeSnapshotKeeps, EmitKeeps, WriteToUDPKeeps, ReadPlayerKeeps
       DEF FlushClient
  <2> QED
    BY <1>1, <2>1, <2>2, <2>3, <2>4, <2>5, <2>6 DEF Next
<1>2. CASE UNCHANGED vars
  <2>1. UNCHANGED <<registryVars, serve>> /\ UNCHANGED <<sessionVars, flushVars>>
    BY <1>2 DEF vars
  <2>2. RegistryType' /\ RegistryInv' /\ ServeInv' /\ Snapshot' = Snapshot
    BY <2>1, RegistryFrame DEF flushVars
  <2>3. FlushType' /\ SendInv' /\ BoardInv' /\ ReadingInv'
    BY <2>1, <2>2, FlushFrame DEF registryVars, sessionVars
  <2> QED
    BY <2>2, <2>3 DEF IInv
<1> QED
  BY <1>1, <1>2

\* The invariant holds in every state of every behaviour.
THEOREM Invariance == Spec => []IInv
  BY InitIInv, NextIInv, PTL DEF Spec

\* However connects, renames, drops, timeouts and admissions follow each other,
\* two registered clients never share a slot or a name key.
THEOREM UniquenessTheorem == Spec => []SlotsAndNamesUnique
<1>1. IInv => SlotsAndNamesUnique
  BY DEF IInv, RegistryInv
<1> QED
  BY <1>1, Invariance, PTL

\* client.done is closed exactly once, when the client leaves the registry.
THEOREM DoneTheorem == Spec => []DoneOnce
<1>1. IInv => DoneOnce
  BY DEF IInv, RegistryInv
<1> QED
  BY <1>1, Invariance, PTL

\* sendMu makes the order of writes the order of emissions.
THEOREM WireOrderTheorem == Spec => WireInOrder
<1>1. ASSUME IInv
      PROVE  \A g \in Threads : WriteToUDP(g) => Head(unsent[target[g]]) = g
  <2> SUFFICES ASSUME NEW g \in Threads, pc[g] = "write"
               PROVE  Head(unsent[target[g]]) = g
    BY DEF WriteToUDP
  <2>1. target[g] \in Objects
    BY <1>1, ThreadFacts
  <2>2. unsent[target[g]] = <<g>>
    BY <1>1, <2>1 DEF IInv, SendInv, Holding
  <2> QED
    BY <2>2
<1> QED
  BY <1>1, Invariance, PTL DEF WireInOrder

\* Every step keeps each entry of each scoreboard, makes it newer or empties it.
LEMMA StepIsNotStale ==
  ASSUME IInv, Next, NEW k \in Objects, NEW s \in Slots
  PROVE  \/ scoreboard'[k][s].userID >= scoreboard[k][s].userID
         \/ scoreboard'[k][s].userID = Nobody
<1>1. scoreboard[k][s].userID \in Nat /\ scoreboard \in [Objects -> Boards]
  BY DEF IInv, FlushType, Boards, Entries
<1>2. CASE scoreboard'[k] = scoreboard[k]
  BY <1>1, <1>2
<1>3. CASE scoreboard'[k] = NoBoard
  BY <1>3, NoBoardFacts
<1>4. CASE Dispatch
  <2>1. scoreboard'[k] \in {NoBoard, scoreboard[k]}
    BY <1>1, <1>4 DEF Dispatch
  <2> QED
    BY <1>2, <1>3, <2>1
<1>5. ASSUME NEW j \in Objects, ResetClient(j)
      PROVE  scoreboard'[k] \in {NoBoard, scoreboard[k]}
  BY <1>1, <1>5 DEF ResetClient
<1>6. ASSUME NEW g \in Threads, Emit(g), k = target[g]
      PROVE  \/ scoreboard'[k][s].userID >= scoreboard[k][s].userID
             \/ scoreboard'[k][s].userID = Nobody
  <2>1. scoreboard'[k][s].userID \in {scoreboard[k][s].userID, players[g][s].userID}
    BY <1>6, EmitBoard
  <2>2. \/ players[g][s].userID = Nobody
        \/ scoreboard[k][s].userID <= players[g][s].userID
    BY <1>6 DEF Emit, IInv, ReadingInv
  <2>3. players[g][s].userID \in Nat
    BY DEF IInv, FlushType, Boards, Entries
  <2> QED
    BY <1>1, <2>1, <2>2, <2>3
<1>7. ASSUME NEW g \in Threads, Emit(g), k # target[g]
      PROVE  scoreboard'[k] = scoreboard[k]
  BY <1>7, EmitBoard
<1>8. CASE Admit \/ Consume \/ Stop \/ Flush
  BY <1>2, <1>8 DEF Admit, Consume, Stop, Flush, sessionVars
<1>9. CASE \E a \in Addrs, n \in Chosen : Connect(a, n) \/ Rename(a, n)
  BY <1>2, <1>9 DEF Connect, Rename, sessionVars
<1>10. CASE \E a \in Addrs, cmds \in Inputs : GameData(a, cmds)
  BY <1>2, <1>10 DEF GameData, sessionVars
<1>11. CASE \E j \in Objects : Expire(j) \/ FlushEach(j)
  BY <1>2, <1>11 DEF Expire, FlushEach, sessionVars
<1>12. CASE \E g \in Threads : \/ LockSend(g) \/ TakeSnapshot(g) \/ WriteToUDP(g)
                               \/ \E j \in Objects : ReadPlayer(g, j)
  BY <1>2, <1>12 DEF LockSend, TakeSnapshot, WriteToUDP, ReadPlayer, sessionVars
<1> QED
  BY <1>2, <1>3, <1>4, <1>5, <1>6, <1>7, <1>8, <1>9, <1>10, <1>11, <1>12 DEF Next, FlushClient

\* A flush that read the players before a newcomer took over a slot cannot show
\* the predecessor after another flush has shown the newcomer.
THEOREM IdentityTheorem == Spec => NoStaleIdentity
<1>1. ASSUME IInv, [Next]_vars
      PROVE  [\A k \in Objects, s \in Slots :
                 \/ scoreboard'[k][s].userID >= scoreboard[k][s].userID
                 \/ scoreboard'[k][s].userID = Nobody]_scoreboard
  <2>1. CASE Next
    BY <1>1, <2>1, StepIsNotStale
  <2>2. CASE UNCHANGED vars
    BY <2>2 DEF vars, sessionVars
  <2> QED
    BY <1>1, <2>1, <2>2
<1> QED
  BY <1>1, Invariance, PTL DEF Spec, NoStaleIdentity
==============================================================================
