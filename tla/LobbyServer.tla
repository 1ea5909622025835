----------------------------- MODULE LobbyServer -----------------------------
(***************************************************************************)
(* The client registry of server/quake with its lobby: who is connected,   *)
(* in which slot, under which name, and what the scoreboard of every       *)
(* client shows, while Serve handles packets on one goroutine and Flush    *)
(* runs on another.                                                        *)
(*                                                                         *)
(* A client object is identified by its userID.  Sequence numbers and lost *)
(* packets are SequencedLink's subject: here a packet is one that          *)
(* acceptPacket lets through, and an updateuserinfo handed to Emit counts  *)
(* as seen by its client.                                                  *)
(*                                                                         *)
(* Every section under client.mu or Server.mu is one step.  client.sendMu, *)
(* which flushClient holds from its reading of the players to its write to *)
(* the socket, is explicit.                                                *)
(***************************************************************************)
EXTENDS Naturals, Sequences, FiniteSets, SequencesExt

CONSTANTS Addrs,       \* client addresses
          MaxClients,  \* protocol.QWMaxClients
          MaxUpdates,  \* scoreboard entries sent per flush, 8 in the code
          Bases,       \* names that players ask for
          KeyOf,       \* KeyOf[b]: what lobbyNameKey makes of name b
          MaxUserID,   \* bound: clients admitted
          MaxInputs,   \* bound: packets handled by Serve, calls of ResetClient
          Inputs       \* the command lists a client's packet may carry

ASSUME LobbyAssumption ==
    /\ MaxClients \in Nat \ {0} /\ MaxUpdates \in Nat \ {0}
    /\ MaxUserID \in Nat /\ MaxInputs \in Nat
    /\ Bases # {} /\ DOMAIN KeyOf = Bases

Slots   == 0 .. (MaxClients - 1)
Objects == 1 .. MaxUserID
Nobody  == 0                            \* a nil *client, and a free userID

Threads == {"serve", "flush"}

VARIABLES clients,     \* Server.clients, by address
          nextUserID,  \* Server.nextUserID
          addr, slot, name, stage, scoreboard,   \* fields of each client
          doneClosed,  \* how often client.done was closed
          sendMu,      \* sendMu[k]: the thread that holds it, or "free"
          unsent,      \* threads that emitted for k and have not yet written
          inputs,      \* packets and resets handled so far
          serve,       \* what Serve is doing with a packet
          pc, target, todo, players,   \* each thread's run of flushClient
          list         \* clients that Flush still has to visit

registryVars == <<clients, nextUserID, addr, slot, name, doneClosed>>
sessionVars  == <<stage, scoreboard>>
flushVars    == <<sendMu, unsent, pc, target, todo, players, list>>
vars         == <<registryVars, sessionVars, flushVars, inputs, serve>>

NoName  == [prefix |-> <<>>, base |-> "none"]
Empty   == [userID |-> Nobody, name |-> NoName]
NoBoard == [s \in Slots |-> Empty]

SomeAddr == CHOOSE a \in Addrs : TRUE
Reading  == [at |-> "read", from |-> SomeAddr, client |-> Nobody, cmds |-> <<>>]

Stages == <<"idle", "serverdata", "prespawn", "spawn", "active">>
Reached(k, st) ==
    LET rank(x) == CHOOSE i \in 1 .. Len(Stages) : Stages[i] = x
    IN  rank(stage[k]) >= rank(st)

Init ==
    /\ clients = [a \in Addrs |-> Nobody] /\ nextUserID = 0
    /\ addr = [k \in Objects |-> SomeAddr]
    /\ slot = [k \in Objects |-> 0]
    /\ name = [k \in Objects |-> NoName]
    /\ stage = [k \in Objects |-> "idle"]
    /\ scoreboard = [k \in Objects |-> NoBoard]
    /\ doneClosed = [k \in Objects |-> 0]
    /\ sendMu = [k \in Objects |-> "free"]
    /\ unsent = [k \in Objects |-> <<>>]
    /\ inputs = 0
    /\ serve = Reading
    /\ pc = [g \in Threads |-> "out"]
    /\ target = [g \in Threads |-> Nobody]
    /\ todo = [g \in Threads |-> {}]
    /\ players = [g \in Threads |-> NoBoard]
    /\ list = {}

------------------------------------------------------------------------------
(* The registry.                                                            *)

\* snapshot(): the connected clients.
Snapshot == {clients[a] : a \in Addrs} \ {Nobody}

Entry(k) == [userID |-> k, name |-> name[k]]

\* lobbyPlayers(), on the goroutine that alone changes the registry.
LobbyPlayers(present) ==
    [s \in Slots |-> IF \E k \in present : slot[k] = s
                     THEN Entry(CHOOSE k \in present : slot[k] = s) ELSE Empty]

NameKey(n) == [prefix |-> n.prefix, base |-> KeyOf[n.base]]

\* Mutant: names are compared as they are, not by their key.
UniqueLobbyNameExact(base, board) ==
    LET used == {board[s].name : s \in {t \in Slots : board[t].userID # Nobody}}
        candidate(n) == IF n = 1 THEN base ELSE [base EXCEPT !.prefix = <<n>> \o @]
    IN  candidate(CHOOSE m \in 1 .. (MaxClients + 1) :
            candidate(m) \notin used /\ \A j \in 1 .. (m - 1) : candidate(j) \in used)

\* uniqueLobbyName: the name itself, or the first "(n)name" nobody uses, n >= 2.
UniqueLobbyName(base, board) ==
    LET used == {NameKey(board[s].name) : s \in {t \in Slots : board[t].userID # Nobody}}
        candidate(n) == IF n = 1 THEN base ELSE [base EXCEPT !.prefix = <<n>> \o @]
        n == CHOOSE m \in 1 .. (MaxClients + 1) :
                /\ NameKey(candidate(m)) \notin used
                /\ \A j \in 1 .. (m - 1) : NameKey(candidate(j)) \in used
    IN  candidate(n)

\* removeClient: only if the address still belongs to this very object.
RemoveClient(k) ==
    IF k # Nobody /\ clients[addr[k]] = k
    THEN /\ clients' = [clients EXCEPT ![addr[k]] = Nobody]
         /\ doneClosed' = [doneClosed EXCEPT ![k] = @ + 1]
    ELSE UNCHANGED <<clients, doneClosed>>

FreeSlots(board) == {s \in Slots : board[s].userID = Nobody}

------------------------------------------------------------------------------
(* Serve: one packet at a time.                                             *)

Idle == serve.at = "read" /\ pc["serve"] = "out"

Dispatching(k, cmds) == [Reading EXCEPT !.at = "dispatch", !.client = k, !.cmds = cmds]

\* Mutant: a client that connects again is replaced without being removed.
ConnectOver(a, base) ==
    /\ Idle /\ inputs < MaxInputs /\ inputs' = inputs + 1
    /\ nextUserID < MaxUserID
    /\ serve' = [at |-> "admit", from |-> a, client |-> Nobody, cmds |-> <<base>>]
    /\ UNCHANGED <<registryVars, sessionVars, flushVars>>

\* packetClient for a connect: the address's old client goes first.
Connect(a, base) ==
    /\ Idle /\ inputs < MaxInputs /\ inputs' = inputs + 1
    /\ nextUserID < MaxUserID
    /\ RemoveClient(clients[a])
    /\ serve' = [at |-> "admit", from |-> a, client |-> Nobody, cmds |-> <<base>>]
    /\ UNCHANGED <<nextUserID, addr, slot, name, sessionVars, flushVars>>

\* Then admitLobbyClient takes the lowest free slot for a new client object, which
\* is published, or the address is told that the server is full.
Admit ==
    LET board == LobbyPlayers(Snapshot)
        k     == nextUserID + 1
        free  == FreeSlots(board)
    IN  /\ serve.at = "admit"
        /\ \/ /\ free # {}
              /\ nextUserID' = k
              /\ clients' = [clients EXCEPT ![serve.from] = k]
              /\ addr' = [addr EXCEPT ![k] = serve.from]
              /\ slot' = [slot EXCEPT ![k] = CHOOSE s \in free : \A t \in free : s <= t]
              /\ name' = [name EXCEPT ![k] = UniqueLobbyName(serve.cmds[1], board)]
              /\ serve' = Dispatching(k, <<"connect">>)
           \/ /\ free = {}
              /\ serve' = Reading
              /\ UNCHANGED <<clients, nextUserID, addr, slot, name>>
        /\ UNCHANGED <<doneClosed, sessionVars, flushVars, inputs>>

\* A game packet is accepted; a setinfo name in it is applied at once.
GameData(a, cmds) ==
    /\ Idle /\ inputs < MaxInputs /\ inputs' = inputs + 1
    /\ clients[a] # Nobody
    /\ serve' = Dispatching(clients[a], cmds)
    /\ UNCHANGED <<registryVars, sessionVars, flushVars>>

\* renameLobbyClient
Rename(a, base) ==
    LET k == clients[a]
    IN  /\ Idle /\ inputs < MaxInputs /\ inputs' = inputs + 1
        /\ k # Nobody
        /\ name' = [name EXCEPT ![k] = UniqueLobbyName(base, LobbyPlayers(Snapshot \ {k}))]
        /\ serve' = Dispatching(k, <<>>)
        /\ UNCHANGED <<clients, nextUserID, addr, slot, doneClosed, sessionVars, flushVars>>

\* One command of dispatchCommands: the stage that lobbyCommand or connect sets.
Command(st, cmd) ==
    CASE cmd = "connect"                       -> "idle"
      [] cmd = "new"                           -> "serverdata"
      [] cmd = "prespawn" /\ st = "serverdata" -> "prespawn"
      [] cmd = "spawn" /\ st = "prespawn"      -> "spawn"
      [] cmd = "begin" /\ st = "spawn"         -> "active"
      [] OTHER                                 -> st

\* The commands that start a session over, with an empty scoreboard.
Restarts == {"connect", "new"}

Dispatch ==
    LET k == serve.client
        restarting == \E i \in 1 .. Len(serve.cmds) : serve.cmds[i] \in Restarts
        dropping == \E i \in 1 .. Len(serve.cmds) : serve.cmds[i] = "drop"
        connecting == serve.cmds = <<"connect">>
    IN  /\ serve.at = "dispatch"
        /\ stage' = [stage EXCEPT ![k] = FoldLeft(Command, @, serve.cmds)]
        /\ scoreboard' = [scoreboard EXCEPT ![k] = IF restarting THEN NoBoard ELSE @]
        /\ serve' = Reading
        /\ IF dropping THEN RemoveClient(k) ELSE UNCHANGED <<clients, doneClosed>>
        /\ IF dropping \/ connecting
           THEN UNCHANGED <<pc, target>>
           ELSE /\ pc' = [pc EXCEPT !["serve"] = "lock"]
                /\ target' = [target EXCEPT !["serve"] = k]
        /\ UNCHANGED <<nextUserID, addr, slot, name, inputs,
                       sendMu, unsent, todo, players, list>>

\* A handler of the application consumed the packet: no dispatch, no answer.
Consume ==
    /\ serve.at = "dispatch"
    /\ serve' = Reading
    /\ UNCHANGED <<registryVars, sessionVars, flushVars, inputs>>

\* The socket was closed: Serve removes every client and returns.
Stop ==
    /\ Idle
    /\ serve' = [Reading EXCEPT !.at = "stopped"]
    /\ clients' = [a \in Addrs |-> Nobody]
    /\ doneClosed' = [k \in Objects |-> doneClosed[k] + (IF k \in Snapshot THEN 1 ELSE 0)]
    /\ UNCHANGED <<nextUserID, addr, slot, name, sessionVars, flushVars, inputs>>

\* expireClients finds k silent for a minute.
Expire(k) ==
    /\ Idle /\ k \in Snapshot
    /\ inputs < MaxInputs /\ inputs' = inputs + 1
    /\ RemoveClient(k)
    /\ UNCHANGED <<nextUserID, addr, slot, name, sessionVars, flushVars, serve>>

\* ResetClient, from a goroutine of the application; its lookup may be stale.
ResetClient(k) ==
    /\ k <= nextUserID
    /\ inputs < MaxInputs /\ inputs' = inputs + 1
    /\ stage' = [stage EXCEPT ![k] = "idle"]
    /\ scoreboard' = [scoreboard EXCEPT ![k] = NoBoard]
    /\ UNCHANGED <<registryVars, flushVars, serve>>

------------------------------------------------------------------------------
(* flushClient(target[g]) on thread g.                                      *)

\* Flush: another goroutine takes a snapshot and flushes its members in turn.
Flush ==
    /\ pc["flush"] = "out" /\ list = {}
    /\ list' = Snapshot
    /\ UNCHANGED <<registryVars, sessionVars, inputs, serve,
                   sendMu, unsent, pc, target, todo, players>>

FlushEach(k) ==
    /\ pc["flush"] = "out" /\ k \in list
    /\ list' = list \ {k}
    /\ pc' = [pc EXCEPT !["flush"] = "lock"]
    /\ target' = [target EXCEPT !["flush"] = k]
    /\ UNCHANGED <<registryVars, sessionVars, inputs, serve, sendMu, unsent, todo, players>>

\* Mutant: flushClient does not take sendMu.
LockSendNot(g) ==
    /\ pc[g] = "lock"
    /\ pc' = [pc EXCEPT ![g] = "snapshot"]
    /\ UNCHANGED <<registryVars, sessionVars, inputs, serve, sendMu, unsent, target, todo, players, list>>

LockSend(g) ==
    /\ pc[g] = "lock" /\ sendMu[target[g]] = "free"
    /\ sendMu' = [sendMu EXCEPT ![target[g]] = g]
    /\ pc' = [pc EXCEPT ![g] = "snapshot"]
    /\ UNCHANGED <<registryVars, sessionVars, inputs, serve, unsent, target, todo, players, list>>

\* lobbyPlayers: the snapshot, then one locked reading of each client.
TakeSnapshot(g) ==
    /\ pc[g] = "snapshot"
    /\ todo' = [todo EXCEPT ![g] = Snapshot]
    /\ players' = [players EXCEPT ![g] = NoBoard]
    /\ pc' = [pc EXCEPT ![g] = "players"]
    /\ UNCHANGED <<registryVars, sessionVars, inputs, serve, sendMu, unsent, target, list>>

ReadPlayer(g, k) ==
    /\ pc[g] = "players" /\ k \in todo[g]
    /\ todo' = [todo EXCEPT ![g] = @ \ {k}]
    /\ players' = [players EXCEPT ![g][slot[k]] = Entry(k)]
    /\ UNCHANGED <<registryVars, sessionVars, inputs, serve, sendMu, unsent, pc, target, list>>

\* Mutant: only the first MaxUpdates slots are ever compared.
ToUpdateFirst(board, new) == {s \in Slots : s < MaxUpdates /\ board[s] # new[s]}

\* The first MaxUpdates slots in which the scoreboard is out of date.
ToUpdate(board, new) ==
    LET stale == {s \in Slots : board[s] # new[s]}
    IN  {s \in stale : Cardinality({t \in stale : t < s}) < MaxUpdates}

UpdateScoreboard(board, new) ==
    [s \in Slots |-> IF s \in ToUpdate(board, new) THEN new[s] ELSE board[s]]

Emit(g) ==
    LET k == target[g]
    IN  /\ pc[g] = "players" /\ todo[g] = {}
        /\ scoreboard' = IF Reached(k, "spawn")
                         THEN [scoreboard EXCEPT ![k] = UpdateScoreboard(@, players[g])]
                         ELSE scoreboard
        /\ unsent' = [unsent EXCEPT ![k] = Append(@, g)]
        /\ players' = [players EXCEPT ![g] = NoBoard]
        /\ pc' = [pc EXCEPT ![g] = "write"]
        /\ UNCHANGED <<registryVars, stage, inputs, serve, sendMu, target, todo, list>>

\* s without its first g.
Without(s, g) == RemoveAt(s, CHOOSE i \in 1 .. Len(s) : s[i] = g)

WriteToUDP(g) ==
    LET k == target[g]
    IN  /\ pc[g] = "write"
        /\ unsent' = [unsent EXCEPT ![k] = Without(@, g)]
        /\ sendMu' = [sendMu EXCEPT ![k] = "free"]
        /\ pc' = [pc EXCEPT ![g] = "out"]
        /\ target' = [target EXCEPT ![g] = Nobody]
        /\ UNCHANGED <<registryVars, sessionVars, inputs, serve, todo, players, list>>

FlushClient(g) ==
    \/ LockSend(g) \/ TakeSnapshot(g) \/ Emit(g) \/ WriteToUDP(g)
    \/ \E k \in Objects : ReadPlayer(g, k)

------------------------------------------------------------------------------
Chosen == {[prefix |-> <<>>, base |-> b] : b \in Bases}

Next ==
    \/ \E a \in Addrs, n \in Chosen : Connect(a, n) \/ Rename(a, n)
    \/ \E a \in Addrs, cmds \in Inputs : GameData(a, cmds)
    \/ Admit \/ Dispatch \/ Consume \/ Stop
    \/ \E k \in Objects : Expire(k) \/ ResetClient(k) \/ FlushEach(k)
    \/ Flush
    \/ \E g \in Threads : FlushClient(g)

\* The application flushes again and again, and both goroutines keep running.
Fairness ==
    /\ WF_vars(Flush) /\ \A k \in Objects : WF_vars(FlushEach(k))
    /\ WF_vars(Admit) /\ WF_vars(Dispatch)
    /\ \A g \in Threads : SF_vars(LockSend(g)) /\ WF_vars(FlushClient(g))

Spec     == Init /\ [][Next]_vars
FairSpec == Spec /\ Fairness

------------------------------------------------------------------------------
\* Connected clients never share a slot or a name, as players tell names apart.
SlotsAndNamesUnique ==
    \A j, k \in Snapshot : j # k =>
        /\ slot[j] # slot[k]
        /\ NameKey(name[j]) # NameKey(name[k])

\* A client's done channel is closed when it leaves the registry and never twice:
\* a second close would panic.
DoneOnce ==
    \A k \in Objects : doneClosed[k] = IF k <= nextUserID /\ k \notin Snapshot THEN 1 ELSE 0

\* Packets for a client reach the socket in the order in which its sequencer
\* numbered them, although the number is drawn and the packet written in
\* separate steps on two goroutines.
WireInOrder ==
    [][\A g \in Threads : WriteToUDP(g) => Head(unsent[target[g]]) = g]_vars

\* A client never loses sight of a newer identity: once its scoreboard shows a
\* player in a slot, within one session it goes back to no earlier player.
NoStaleIdentity ==
    [][\A k \in Objects, s \in Slots :
          \/ scoreboard'[k][s].userID >= scoreboard[k][s].userID
          \/ scoreboard'[k][s].userID = Nobody]_scoreboard

\* Every client that has spawned ends up with the scoreboard of the players who
\* are connected, however connects, renames, drops and flushes interleave.
ScoreboardConverges ==
    \A k \in Objects :
        <>[](k \in Snapshot /\ Reached(k, "spawn") =>
                scoreboard[k] = LobbyPlayers(Snapshot))
==============================================================================
