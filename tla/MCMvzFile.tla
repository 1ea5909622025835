----------------------------- MODULE MCMvzFile -----------------------------
(* Small demos for MvzFile, and what may happen to the files made of them. *)
EXTENDS MvzFile

CONSTANTS w1, w2

Raw(kind, timestamp, payload) ==
    [timestamp |-> timestamp, kind |-> kind, target |-> 0, payload |-> payload,
     reading |-> "none", cmds |-> <<>>]

Body(cmds) == FoldLeft(LAMBDA units, cmd : units \o cmd.raw, <<>>, cmds)

(* a record with a game packet; the size of the body is a unit of its own *)
Game(kind, timestamp, target, cmds) ==
    [timestamp |-> timestamp, kind |-> kind, target |-> target,
     payload |-> (IF kind = DemoMultiple THEN <<5>> ELSE <<>>)
                 \o <<Len(Body(cmds))>> \o Body(cmds),
     reading |-> "game", cmds |-> cmds]

Refused(record) == [record EXCEPT !.reading = "fails"]

Cmd(raw) == [raw |-> raw, bytes |-> raw, coordSize |-> 2, entities |-> <<>>]
Long(raw) == [Cmd(raw) EXCEPT !.coordSize = 4]

(* the parsed command does not write back what it was read from *)
Changed(cmd) == [cmd EXCEPT !.bytes = Append(Front(@), Last(@) + 1)]

(* a player who moves on two axes, and one with every field *)
Moves(player, frame, x, yaw) == Cmd(<<SVCPlayerInfo, player, 1 + 16, frame, x, yaw>>)
Looks(player, x, effects) ==
    Cmd(<<SVCPlayerInfo, player, 2^12 - 1, 7, x, 300, 4, 65530, x, 9, 6, 2, effects, 3>>)
Jumps(player, x) == Long(<<SVCPlayerInfo, player, 1, 1, x>>)
Stat(index, value) == Cmd(<<SVCUpdateStat, index, value>>)
StatLong(index, value) == Cmd(<<SVCUpdateStatLong, index, value>>)
Frags(player, value) == Cmd(<<SVCUpdateFrags, player, value>>)
Ping(player, value) == Cmd(<<SVCUpdatePing, player, value>>)
Loss(player, value) == Cmd(<<SVCUpdatePL, player, value>>)
Flash(entity) == Cmd(<<SVCMuzzleFlash, entity>>)
Kick == Cmd(<<SVCSmallKick>>)
Hurt(x, y, z) == Cmd(<<SVCDamage, 3, 4, x, y, z>>)
HurtLong(x, y, z) == Long(<<SVCDamage, 3, 4, x, y, z>>)
Say(level, c) == Cmd(<<SVCPrint, level, c, 0>>)
Stuff(c) == Cmd(<<SVCStuffText, c, 0>>)
Center(c) == Cmd(<<SVCCenterPrint, c, 0>>)
Other(x) == Cmd(<<5, x>>)

(* sounds on a channel of an entity, with a volume and an attenuation or without *)
Beep(entity, x) == Cmd(<<SVCSound, 8 * entity + 1, 5, x, 1, 2>>)
Loud(entity, x) == Cmd(<<SVCSound, 2^15 + 2^14 + 8 * entity, 200, 64, 250, x, 1, 65530>>)
LoudLong(entity, x) == Long(<<SVCSound, 2^15 + 8 * entity, 9, 7, x, 1, 2>>)
Boom(x) == Cmd(<<SVCTempEntity, 3, x, 1, 2>>)
Blood(count, x) == Cmd(<<SVCTempEntity, 12, count, x, 1, 2>>)
Beam(entity, x, y) == Cmd(<<SVCTempEntity, 5, entity, x, 1, 2, y, 300, 2>>)

(* entities of a packet: one field, every field, one the parser read with wider  *)
(* fields, one with flags of an extension and a tail, and one that has gone      *)
Entity(bytes) == [bytes |-> bytes, coordSize |-> 2, angleSize |-> 1, fte |-> FALSE]
AllFields(n, x, yaw) ==
    <<n + 2^15 + 2^13 + 2^12 + 2^11 + 2^10 + 2^9, 63, 4, yaw % 256, 1, 2, x % 8, x, yaw, 300, 9, 65530, 1>>
Stands(n, x) == Entity(<<n + 2^9, x>>)
Turns(n, x, yaw) == Entity(AllFields(n, x, yaw))
Wide(n, x, yaw) == [Entity(AllFields(n, x, yaw)) EXCEPT !.coordSize = 4, !.angleSize = 2]
Extended(n, flags, tail) == [Entity(<<n + 2^15>> \o flags \o <<7>> \o tail) EXCEPT !.fte = TRUE]
Flagged(n) == Entity(<<n + 2^15, 128 + 4, 8>>)
Gone(n) == Entity(<<n + 2^14>>)
GoneFlagged(n) == [Entity(<<n + 2^15 + 2^14, 3>>) EXCEPT !.fte = TRUE]

Packet(prefix, entities) ==
    [Cmd(prefix \o EntityBytes(entities) \o <<0>>) EXCEPT !.entities = entities]
Full(entities) == Packet(<<SVCPacketEntities>>, entities)
Since(base, entities) == Packet(<<SVCDeltaPacketEntities, base>>, entities)

(* a packet with an entity that would not be written as it was read *)
Misread == [Since(3, <<Stands(4, 9)>>) EXCEPT !.entities = <<Stands(4, 8)>>]

Demo(records, trailing, fails) == [records |-> records, trailing |-> trailing, fails |-> fails]

(* chunks in which every kind of operation follows the others *)
Everything ==
    Demo(<<Game(DemoRead, 0, 0, <<Stat(1, 100), Kick, Other(1), Other(2), Frags(1, 5), Other(3)>>),
           Game(DemoMultiple, 13, 3, <<Moves(0, 1, 70, 9), Moves(1, 1, 65000, 1), Looks(1, 500, 3),
                                       Hurt(70, 300, 65530), Say(0, 65), Stuff(66), Say(2, 67)>>),
           Raw(DemoSet, 0, <<4, 4>>),
           Game(DemoAll, 5, 1, <<Looks(1, 900, 1), Hurt(901, 299, 3), Hurt(0, 0, 0), Center(70),
                                 Flash(300), Stat(1, 99), StatLong(200, 70000), Stat(200, 1)>>),
           Raw(DemoCmd, 0, <<7>>),
           Game(DemoSingle, 0, 1, <<Looks(1, 300, 2), Flash(2), StatLong(200, 3), Frags(0, 65535),
                                    Ping(1, 40), Loss(1, 250), Moves(0, 2, 90, 65000)>>),
           Game(DemoStats, 4, 1, <<Stat(1, 98), Ping(1, 300), Loss(1, 3), Frags(0, 2)>>),
           Game(DemoAll, 20, 1, <<Jumps(1, 65900), Jumps(1, 131500), Moves(1, 3, 200, 7),
                                  HurtLong(66000, 3, 2), Looks(1, 260, 1)>>)>>,
         <<2, 2>>, FALSE)

(* entities that move at changing intervals, and effects at and away from them *)
Things ==
    Demo(<<Game(DemoAll, 10, 0, <<Full(<<Stands(3, 70), Turns(9, 65530, 200)>>), Loud(3, 72),
                                  Moves(0, 1, 500, 9), Beep(1, 501)>>),
           Game(DemoAll, 20, 1, <<Since(200, <<Stands(3, 90), Turns(9, 4, 10), Gone(11)>>),
                                  Beam(3, 91, 95), Beep(3, 400), Blood(4, 91)>>),
           Game(DemoSingle, 0, 0, <<Beam(600, 91, 90), Changed(Beep(3, 90)), Beep(0, 90)>>),
           Game(DemoAll, 40, 0, <<Since(100, <<>>), Misread, Since(90, <<Turns(9, 20, 120)>>)>>),
           Game(DemoAll, 13, 1, <<Full(<<Wide(9, 70000, 300), Stands(3, 60), Gone(3)>>),
                                  LoudLong(9, 70001), Boom(64), Since(5, <<GoneFlagged(9)>>)>>),
           Game(DemoStats, 7, 0, <<Full(<<Turns(9, 300, 4)>>), Since(1, <<Wide(9, 80000, 4000)>>),
                                   Since(1, <<Turns(9, 300, 250)>>)>>),
           Game(DemoAll, 1, 0, <<Since(1, <<Extended(3, <<4>>, <<>>), Flagged(4),
                                           Extended(4, <<128 + 4, 1>>, <<5>>)>>),
                                 Full(<<Extended(3, <<128 + 4, 129, 6>>, <<5, 6>>)>>)>>)>>,
         <<>>, FALSE)

(* more than half of what a chunk aims at, so that each is a chunk of its own *)
Padding == Cmd([i \in 1..45 |-> 5])
Small(timestamp, x) ==
    Game(DemoAll, timestamp, 1, <<Stat(x, x), Moves(1, x, 10 * x, 5), Padding>>)

(* as many chunks as fill the queue *)
Chunks(n) == Demo([i \in 1..n |-> Small(i % 3, i)], <<>>, FALSE)

(* two chunks that fail, a parser that fails behind them *)
TwoFailures ==
    Demo(<<Small(1, 1), Small(2, 2), Game(DemoAll, 0, 0, <<Frags(40, 1), Say(1, 65), Padding>>),
           Game(DemoAll, 1, 0, <<Full(<<Gone(3), Gone(4), Gone(5), Gone(6)>>), Padding>>),
           Small(1, 5), Small(1, 6)>>, <<>>, TRUE)

(* the first chunk of a pipeline fails while the parser is still submitting *)
EarlyFailure ==
    Demo(<<Small(1, 1), Refused(Small(2, 2)), Small(1, 3), Small(1, 4), Small(1, 5),
           Small(1, 6), Small(1, 7)>>, <<>>, TRUE)

(* the record that prepare refuses is in the chunk the parser did not finish *)
Unfinished == Demo(<<Small(1, 1), Small(2, 2), Refused(Small(1, 3))>>, <<>>, TRUE)
ParserOnly == Demo(<<Small(1, 1), Small(2, 2), Small(1, 3)>>, <<>>, TRUE)

TooLarge == Demo(<<Small(1, 1), Raw(DemoCmd, 1, [i \in 1..maxChunkSize |-> 1])>>, <<>>, FALSE)
LongTail == Demo(<<Small(1, 1)>>, [i \in 1..maxChunkSize |-> 1], FALSE)
Empty == Demo(<<>>, <<>>, FALSE)

MCDemos == {Everything, Things, Chunks(2), Chunks(6), TwoFailures, EarlyFailure, Unfinished, ParserOnly,
            TooLarge, LongTail, Empty}

(* damage to an entry, and to the sequence of entries *)
EntryDamages ==
    [kind : {"symbol", "range", "literal", "profile", "checksum"}, at : {1, 3}]
      \cup [kind : {"descriptor"}, at : {2, 4}]
Framings ==
    [kind : {"header", "type"}, at : {2, 4}] \cup [kind : {"cut"}, at : {0, 2}]
      \cup [kind : {"appended"}, at : {0}]

Hit(kind, at) == [kind |-> kind, at |-> at]

(* a file may be hit twice, and the second hit be found first *)
MCDamages ==
    {<<>>} \cup {<<d>> : d \in EntryDamages \cup Framings}
      \cup {<<Hit("checksum", 3), Hit("type", 4)>>, <<Hit("symbol", 3), Hit("descriptor", 4)>>,
            <<Hit("range", 1), Hit("cut", 2)>>, <<Hit("checksum", 3), Hit("appended", 0)>>}

(* the first profile suits zeros, the second the rest *)
MCSymbolCost(profile, symbol) ==
    IF profile = 1 /\ symbol[2] = 0 THEN 0 ELSE IF profile = 1 THEN 2 ELSE 1

MCProfiles == <<1, 2>>
MCNoError == <<>>
MCBadSize == <<"size">>

(* What the parser makes of each demo, once for all states. *)
MCParsed == [d \in Demos |-> parseIntoChunks(d)] @@ <<>>
MCParse(d) == MCParsed[d]

(* Every job of every demo and of every file made of one, and what it returns: *)
(* a table, so that a job is carried out once for all states it occurs in.     *)
JobsOf(chunks) ==
    {EncodeJob(chunks[x[1]], x[1], x[2]) : x \in (DOMAIN chunks) \X (0..2)}

EncodeJobs == UNION {JobsOf(MCParse(d).chunks) : d \in Demos}

(* an entry, and the place it has in its file *)
Stored(encoded) ==
    {<<encoded[job].data[1], job.index>> : job \in {j \in DOMAIN encoded : encoded[j].err = NoError}}

(* a file of copies of one entry shows what damage makes of it at its place *)
Copies(x) == [n \in 1..(x[2] + 1) |-> x[1]]

DamagedEntries(stored) ==
    {<<Damaged(Copies(x[1]), x[2])[x[2].at], x[2].at>> :
        x \in {y \in stored \X EntryDamages : y[2].at = y[1][2] /\ Fits(Copies(y[1]), y[2])}}

DecodeJobs(entries) == {DecodeJob(x[1], x[2]) : x \in entries}

WithDamaged(stored) == stored \cup DamagedEntries(stored)

(* the jobs whose input is known once those of results are done: first the *)
(* encoder's, then the decoder's                                           *)
JobsAfter(results) == EncodeJobs \cup DecodeJobs(WithDamaged(Stored(results)))

Carried(results, round) ==
    results @@ [job \in JobsAfter(results) \ DOMAIN results |-> MvzWork(job)]

MCResults == FoldLeft(Carried, <<>>, <<1, 2>>)

MCJobs == DOMAIN MCResults

MCWork(job) == MCResults[job]
=============================================================================
