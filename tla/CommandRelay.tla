---------------------------- MODULE CommandRelay ----------------------------
(***************************************************************************)
(* A stream of commands from the side that writes it, through a relay that *)
(* parses every packet and writes it again (handlePeer and Serve of        *)
(* proxy/proxy.go; a demo that is parsed and written by Bytes), to the     *)
(* side that reads it.                                                     *)
(*                                                                         *)
(* Both readers know the format of what they read only from what they have *)
(* read before: serverdata sets the version, the extensions and the sizes  *)
(* of coordinates and angles in their contexts.  A reader whose context    *)
(* does not fit what is on the wire reads other fields than were written   *)
(* and is out of step from there on, without any error.                    *)
(*                                                                         *)
(* Packets arrive and in order; what a lossy network does to a stream is   *)
(* in SequencedLink.                                                       *)
(***************************************************************************)
EXTENDS EntityCommands

CONSTANTS
  Streams,    \* a sequence of [kind, cmds, max]: where a stream is from ("svc", "clc",
              \* "mvd", "qwd" or "dem"), what may be in it, bound: commands in a packet
  MayShrink   \* may a later serverdata announce fewer extensions than an earlier one?

\* Only extensions whose layouts are modelled are announced; a version is a number.
ASSUME StreamsAssumption ==
  \A i \in DOMAIN Streams : \A c \in Streams[i].cmds :
    /\ c.ext.fte \subseteq FTEExtensions /\ c.ext.mvd \subseteq MVDExtensions
    /\ c.n \in Nat

\* NetQuake is read from demos only: none of the connections speaks its packets, which are
\* not numbered as those of QuakeWorld.
ASSUME NetQuakeAssumption ==
  \A i \in DOMAIN Streams : \A c \in Streams[i].cmds :
    c.op = "serverdata" /\ c.n = VersionNQ => Streams[i].kind = "dem"

\* A server's clientdata always has the items: their flag is set in every one of NetQuake.
ASSUME ClientdataAssumption ==
  \A i \in DOMAIN Streams : \A c \in Streams[i].cmds :
    c.op = "clientdata" => "SUItems" \in c.bits

VARIABLES
  stream,     \* the stream that is sent, an index of Streams
  format,     \* the format the origin writes in, as a context
  announced,  \* has the other end been sent the serverdata of this format?
  relay,      \* the context of the relay
  end,        \* the context of the reader at the other end
  pkt,        \* the packet under way: commands with the format each is written in
  at          \* where the packet is: "origin", "relay" or "end"

vars == <<stream, format, announced, relay, end, pkt, at>>

kind == Streams[stream].kind

moveBytes(f, c) == U8("Checksum") \o U8("Lossage") \o deltausercommandBytes(f, c)
                   \o deltausercommandBytes(f, c) \o deltausercommandBytes(f, c)
moveParse(ctx, c) == U8("Checksum") \o U8("Lossage") \o deltausercommandParse(ctx, c)
                     \o deltausercommandParse(ctx, c) \o deltausercommandParse(ctx, c)

stringcmdBytes(f, c) == Str("String")
stringcmdParse(ctx, c) == Str("String")

deltaBytes(f, c) == U8("Seq")
deltaParse(ctx, c) == U8("Seq")

tmoveBytes(f, c) == Vec3("u16", "Coord")
tmoveParse(ctx, c) == Vec3("u16", "Coord")

uploadBytes(f, c) == U16("Size") \o U8("Percent") \o Raw("Data", c.n)
uploadParse(ctx, c) == U16("Size") \o U8("Percent") \o Raw("Data", c.n)

ftevoicechatcBytes(f, c) == U8("Gen") \o U8("Seq") \o U16("Size") \o Raw("Data", c.n)
ftevoicechatcParse(ctx, c) == U8("Gen") \o U8("Seq") \o U16("Size") \o Raw("Data", c.n)

\* Connectionless commands: alone in their packet, after a header of -1.
ConnectionlessOps == {"s2cconnection", "a2aping", "a2cclientcommand", "a2cprint",
                      "disconnectoob", "passthrough"}

a2cclientcommandBytes(f, c) == Str("Command") \o Str("LocalID")
a2cclientcommandParse(ctx, c) == Str("Command") \o Str("LocalID")

\* A print; the chunk of a download that FTE sends in one is not passed on.
a2cprintBytes(f, c) == Str("String")
a2cprintParse(ctx, c) == Str("String")

passthroughBytes(f, c) == Raw("Data", c.n)
passthroughParse(ctx, c) == Raw("Data", c.n)

-----------------------------------------------------------------------------

Bytes(f, c) ==
  CASE c.op \in SignalOps \cup {"s2cconnection", "a2aping"} -> <<>>
    [] c.op \in {"disconnect", "disconnectoob"} -> disconnectBytes(f, c)
    [] c.op = "updatestat" -> updatestatBytes(f, c)
    [] c.op = "version" -> versionBytes(f, c)
    [] c.op = "setview" -> setviewBytes(f, c)
    [] c.op = "sound" -> soundBytes(f, c)
    [] c.op = "time" -> timeBytes(f, c)
    [] c.op = "print" -> printBytes(f, c)
    [] c.op = "stufftext" -> stufftextBytes(f, c)
    [] c.op = "setangle" -> setangleBytes(f, c)
    [] c.op = "serverdata" -> serverdataBytes(f, c)
    [] c.op = "lightstyle" -> lightstyleBytes(f, c)
    [] c.op = "updatename" -> updatenameBytes(f, c)
    [] c.op = "updatefrags" -> updatefragsBytes(f, c)
    [] c.op = "clientdata" -> clientdataBytes(f, c)
    [] c.op = "stopsound" -> stopsoundBytes(f, c)
    [] c.op = "updatecolors" -> updatecolorsBytes(f, c)
    [] c.op = "particle" -> particleBytes(f, c)
    [] c.op = "damage" -> damageBytes(f, c)
    [] c.op = "spawnstatic" -> spawnstaticBytes(f, c)
    [] c.op = "spawnbaseline" -> spawnbaselineBytes(f, c)
    [] c.op = "tempentity" -> tempentityBytes(f, c)
    [] c.op = "setpause" -> setpauseBytes(f, c)
    [] c.op = "signonnum" -> signonnumBytes(f, c)
    [] c.op = "centerprint" -> centerprintBytes(f, c)
    [] c.op = "spawnstaticsound" -> spawnstaticsoundBytes(f, c)
    [] c.op = "intermission" -> intermissionBytes(f, c)
    [] c.op = "finale" -> finaleBytes(f, c)
    [] c.op = "cdtrack" -> cdtrackBytes(f, c)
    [] c.op = "updateping" -> updatepingBytes(f, c)
    [] c.op = "updateentertime" -> updateentertimeBytes(f, c)
    [] c.op = "updatestatlong" -> updatestatlongBytes(f, c)
    [] c.op = "muzzleflash" -> muzzleflashBytes(f, c)
    [] c.op = "updateuserinfo" -> updateuserinfoBytes(f, c)
    [] c.op = "download" -> downloadBytes(f, c)
    [] c.op = "playerinfo" -> playerinfoBytes(f, c)
    [] c.op = "nails" -> nailsBytes(f, c)
    [] c.op = "chokecount" -> chokecountBytes(f, c)
    [] c.op = "modellist" -> modellistBytes(f, c)
    [] c.op = "soundlist" -> soundlistBytes(f, c)
    [] c.op = "packetentities" -> packetentitiesBytes(f, c)
    [] c.op = "deltapacketentities" -> deltapacketentitiesBytes(f, c)
    [] c.op = "maxspeed" -> maxspeedBytes(f, c)
    [] c.op = "entgravity" -> entgravityBytes(f, c)
    [] c.op = "setinfo" -> setinfoBytes(f, c)
    [] c.op = "serverinfo" -> serverinfoBytes(f, c)
    [] c.op = "updatepl" -> updateplBytes(f, c)
    [] c.op = "nails2" -> nails2Bytes(f, c)
    [] c.op = "qizmostring" -> qizmostringBytes(f, c)
    [] c.op = "qizmoblock" -> qizmoblockBytes(f, c)
    [] c.op = "qizmovoice" -> qizmovoiceBytes(f, c)
    [] c.op = "ftespawnstatic" -> ftespawnstaticBytes(f, c)
    [] c.op = "ftemodellist" -> ftemodellistBytes(f, c)
    [] c.op = "ftespawnbaseline" -> ftespawnbaselineBytes(f, c)
    [] c.op = "ftevoicechats" -> ftevoicechatsBytes(f, c)
    [] c.op = "fastupdate" -> fastupdateBytes(f, c)
    [] c.op = "move" -> moveBytes(f, c)
    [] c.op = "stringcmd" -> stringcmdBytes(f, c)
    [] c.op = "delta" -> deltaBytes(f, c)
    [] c.op = "tmove" -> tmoveBytes(f, c)
    [] c.op = "upload" -> uploadBytes(f, c)
    [] c.op = "ftevoicechatc" -> ftevoicechatcBytes(f, c)
    [] c.op = "a2cclientcommand" -> a2cclientcommandBytes(f, c)
    [] c.op = "a2cprint" -> a2cprintBytes(f, c)
    [] c.op = "passthrough" -> passthroughBytes(f, c)
    [] OTHER -> Raw("Data", c.n)

\* What a parser that does not know a type makes of it: an error.
Unknown == << <<"ErrUnknownCommandType">> >>

parseGameDataSVC(ctx, c) ==
  CASE c.op \in SignalOps -> <<>>
    [] c.op = "disconnect" -> disconnectParse(ctx, c)
    [] c.op = "updatestat" -> updatestatParse(ctx, c)
    [] c.op = "version" -> versionParse(ctx, c)
    [] c.op = "setview" -> setviewParse(ctx, c)
    [] c.op = "sound" -> soundParse(ctx, c)
    [] c.op = "time" -> timeParse(ctx, c)
    [] c.op = "print" -> printParse(ctx, c)
    [] c.op = "stufftext" -> stufftextParse(ctx, c)
    [] c.op = "setangle" -> setangleParse(ctx, c)
    [] c.op = "serverdata" -> serverdataParse(ctx, c)
    [] c.op = "lightstyle" -> lightstyleParse(ctx, c)
    [] c.op = "updatename" -> updatenameParse(ctx, c)
    [] c.op = "updatefrags" -> updatefragsParse(ctx, c)
    [] c.op = "clientdata" -> clientdataParse(ctx, c)
    [] c.op = "stopsound" -> stopsoundParse(ctx, c)
    [] c.op = "updatecolors" -> updatecolorsParse(ctx, c)
    [] c.op = "particle" -> particleParse(ctx, c)
    [] c.op = "damage" -> damageParse(ctx, c)
    [] c.op = "spawnstatic" -> spawnstaticParse(ctx, c)
    [] c.op = "spawnbaseline" -> spawnbaselineParse(ctx, c)
    [] c.op = "tempentity" -> tempentityParse(ctx, c)
    [] c.op = "setpause" -> setpauseParse(ctx, c)
    [] c.op = "signonnum" -> signonnumParse(ctx, c)
    [] c.op = "centerprint" -> centerprintParse(ctx, c)
    [] c.op = "spawnstaticsound" -> spawnstaticsoundParse(ctx, c)
    [] c.op = "intermission" -> intermissionParse(ctx, c)
    [] c.op = "finale" -> finaleParse(ctx, c)
    [] c.op = "cdtrack" -> cdtrackParse(ctx, c)
    [] c.op = "updateping" -> updatepingParse(ctx, c)
    [] c.op = "updateentertime" -> updateentertimeParse(ctx, c)
    [] c.op = "updatestatlong" -> updatestatlongParse(ctx, c)
    [] c.op = "muzzleflash" -> muzzleflashParse(ctx, c)
    [] c.op = "updateuserinfo" -> updateuserinfoParse(ctx, c)
    [] c.op = "download" -> downloadParse(ctx, c)
    [] c.op = "playerinfo" -> playerinfoParse(ctx, c)
    [] c.op = "nails" -> nailsParse(ctx, c)
    [] c.op = "chokecount" -> chokecountParse(ctx, c)
    [] c.op = "modellist" -> modellistParse(ctx, c)
    [] c.op = "soundlist" -> soundlistParse(ctx, c)
    [] c.op = "packetentities" -> packetentitiesParse(ctx, c)
    [] c.op = "deltapacketentities" -> deltapacketentitiesParse(ctx, c)
    [] c.op = "maxspeed" -> maxspeedParse(ctx, c)
    [] c.op = "entgravity" -> entgravityParse(ctx, c)
    [] c.op = "setinfo" -> setinfoParse(ctx, c)
    [] c.op = "serverinfo" -> serverinfoParse(ctx, c)
    [] c.op = "updatepl" -> updateplParse(ctx, c)
    [] c.op = "nails2" -> nails2Parse(ctx, c)
    [] c.op = "qizmostring" -> qizmostringParse(ctx, c)
    [] c.op = "qizmoblock" -> qizmoblockParse(ctx, c)
    [] c.op = "qizmovoice" -> qizmovoiceParse(ctx, c)
    [] c.op = "ftespawnstatic" -> ftespawnstaticParse(ctx, c)
    [] c.op = "ftemodellist" -> ftemodellistParse(ctx, c)
    [] c.op = "ftespawnbaseline" -> ftespawnbaselineParse(ctx, c)
    [] c.op = "ftevoicechats" -> ftevoicechatsParse(ctx, c)
    [] c.op = "fastupdate" /\ IsNQ(ctx) -> fastupdateParse(ctx, c)
    [] OTHER -> Unknown

parseGameDataCLC(ctx, c) ==
  CASE c.op \in {"bad", "nop"} -> <<>>
    [] c.op = "move" -> moveParse(ctx, c)
    [] c.op = "stringcmd" -> stringcmdParse(ctx, c)
    [] c.op = "delta" -> deltaParse(ctx, c)
    [] c.op = "tmove" -> tmoveParse(ctx, c)
    [] c.op = "upload" -> uploadParse(ctx, c)
    [] c.op = "ftevoicechatc" -> ftevoicechatcParse(ctx, c)
    [] OTHER -> Unknown

parseConnectionless(ctx, c) ==
  CASE c.op \in {"s2cconnection", "a2aping"} -> <<>>
    [] c.op = "a2cclientcommand" -> a2cclientcommandParse(ctx, c)
    [] c.op = "a2cprint" -> a2cprintParse(ctx, c)
    [] c.op = "disconnectoob" -> disconnectParse(ctx, c)
    [] c.op = "passthrough" -> passthroughParse(ctx, c)
    [] OTHER -> Unknown

Parse(ctx, c) ==
  CASE c.op \in ConnectionlessOps -> parseConnectionless(ctx, c)
    [] c.op \notin ConnectionlessOps /\ kind = "clc" -> parseGameDataCLC(ctx, c)
    [] OTHER -> parseGameDataSVC(ctx, c)

\* Packets of a demo without acknowledgements, and of NetQuake, have no sequence numbers.
HasHeader(ctx) == ~(ctx.isMVD \/ IsNQ(ctx))

\* A packet [header, cmds]; its bytes are those of its commands, each in its own format.
Wire(p) == [header |-> p.header,
            cmds |-> [i \in DOMAIN p.cmds |-> <<p.cmds[i].c.op, Bytes(p.cmds[i].f, p.cmds[i].c)>>]]

\* One command: the reader stops at the first it does not know, or reads what Parse reads.
\* Its context after it is what the commands before an error have made of it.
ParseCommand(acc, w) ==
  LET layout == Parse(acc.ctx, w.c)
      known == layout # Unknown
      version == w.c.op # "serverdata" \/ w.c.n \in Versions
      inStep == layout = Bytes(w.f, w.c)
  IN IF acc.err # "none" THEN acc
     ELSE [ctx |-> IF inStep /\ w.c.op = "serverdata" THEN serverdataContext(acc.ctx, w.c)
                                                      ELSE acc.ctx,
           cmds |-> Append(acc.cmds, [c |-> w.c, f |-> acc.ctx]),
           err |-> IF ~known THEN "unknown" ELSE IF ~inStep THEN "desync"
                   ELSE IF ~version THEN "unknown" ELSE "none"]

\* The reader when it opens a packet: the header is what it expects, or nothing fits.
OpenPacket(ctx, p) ==
  [ctx |-> ctx, cmds |-> <<>>,
   err |-> IF p.header # "oob" /\ (p.header = "seq") # HasHeader(ctx) THEN "desync" ELSE "none"]

\* The reader after the first n commands of the packet, for every n.
Reader(ctx, p) ==
  LET read[n \in 0..Len(p.cmds)] ==
        IF n = 0 THEN OpenPacket(ctx, p) ELSE ParseCommand(read[n - 1], p.cmds[n])
  IN read

\* Parse of packet/svc and packet/clc: the whole packet or an error.
ParsePacket(ctx, p) == Reader(ctx, p)[Len(p.cmds)]

\* Mutant: the loop over the commands starts at the second.
RewrittenRest(p, r) == [header |-> p.header, cmds |-> Tail(r.cmds)]

\* The packet that the relay writes: the parsed commands, each with what Parse copied.
Rewritten(p, r) == [header |-> p.header, cmds |-> r.cmds]

-----------------------------------------------------------------------------

StartContext(k) ==
  [NewContext EXCEPT !.pv = IF k = "clc" THEN VersionQW ELSE 0,
                     !.isMVD = (k = "mvd"), !.isQWD = (k = "qwd"), !.isDem = (k = "dem")]

NoPacket == [header |-> "none", cmds |-> <<>>]

\* The proxy's context knows no version until a serverdata names it; a client starts from QW.
Init ==
  /\ stream \in DOMAIN Streams
  /\ format = StartContext(kind)
  /\ announced = (kind = "clc")
  /\ relay = StartContext(kind)
  /\ end = IF kind = "svc" THEN [StartContext(kind) EXCEPT !.pv = VersionQW]
                           ELSE StartContext(kind)
  /\ pkt = NoPacket
  /\ at = "origin"

\* The format that the origin writes in after a serverdata, whatever it announced before.
Announces(c) ==
  LET float == "FloatCoords" \in c.ext.fte
  IN [StartContext(kind) EXCEPT !.fte = c.ext.fte, !.mvd = c.ext.mvd,
                                !.coordSize = IF float THEN 4 ELSE 2,
                                !.angleSize = IF float THEN 2 ELSE 1,
                                !.pv = IF c.n \in Versions THEN c.n ELSE @]
Grows(c) == format.fte \subseteq c.ext.fte /\ format.mvd \subseteq c.ext.mvd

\* The origin adds a command to its packet (GameData.Bytes of the writing side).
AddCommand(c) ==
  /\ at = "origin"
  /\ c.op \notin ConnectionlessOps
  /\ Len(pkt.cmds) < Streams[stream].max
  /\ pkt.header # "oob"
  /\ announced \/ c.op = "serverdata"
  /\ c.op = "serverdata" => MayShrink \/ Grows(c)
  /\ pkt' = [header |-> IF pkt.cmds # <<>> THEN pkt.header
                        ELSE IF HasHeader(format) THEN "seq" ELSE "bare",
             cmds |-> Append(pkt.cmds, [c |-> c, f |-> format])]
  /\ IF c.op = "serverdata"
     THEN format' = Announces(c) /\ announced' = TRUE
     ELSE UNCHANGED <<format, announced>>
  /\ UNCHANGED <<stream, relay, end, at>>

\* A connectionless packet of one command.
AddConnectionless(c) ==
  /\ at = "origin" /\ pkt = NoPacket
  /\ c.op \in ConnectionlessOps
  /\ pkt' = [header |-> "oob", cmds |-> << [c |-> c, f |-> format] >>]
  /\ UNCHANGED <<stream, format, announced, relay, end, at>>

SendPacket ==
  /\ at = "origin" /\ pkt # NoPacket
  /\ at' = "relay"
  /\ UNCHANGED <<stream, format, announced, relay, end, pkt>>

\* The relay parses the packet and writes it again.
RelayPacket ==
  /\ at = "relay"
  /\ LET r == ParsePacket(relay, pkt)
     IN /\ r.err = "none"
        /\ relay' = r.ctx
        /\ pkt' = Rewritten(pkt, r)
  /\ at' = "end"
  /\ UNCHANGED <<stream, format, announced, end>>

\* The relay logs the error and drops the packet, and keeps what it has put in its context;
\* a serverdata that was in it is reliable data, which the origin sends again.
DropPacket ==
  /\ at = "relay"
  /\ LET r == ParsePacket(relay, pkt)
     IN /\ r.err = "unknown"
        /\ relay' = r.ctx
  /\ announced' = (announced /\ \A i \in DOMAIN pkt.cmds : pkt.cmds[i].c.op # "serverdata")
  /\ pkt' = NoPacket
  /\ at' = "origin"
  /\ UNCHANGED <<stream, format, end>>

ReadPacket ==
  /\ at = "end"
  /\ LET r == ParsePacket(end, pkt)
     IN /\ r.err = "none"
        /\ end' = r.ctx
  /\ pkt' = NoPacket
  /\ at' = "origin"
  /\ UNCHANGED <<stream, format, announced, relay>>

Next ==
  \/ \E c \in Streams[stream].cmds : AddCommand(c) \/ AddConnectionless(c)
  \/ SendPacket
  \/ RelayPacket
  \/ DropPacket
  \/ ReadPacket

Spec == Init /\ [][Next]_vars

-----------------------------------------------------------------------------

\* Neither reader ever takes other fields from a packet than were put in it: whatever
\* extensions and versions were announced, and however the packets before it ended, what Parse
\* reads under the context it has is what Bytes wrote in the format the writer had.  Nothing
\* in the code would notice: the next bytes are taken for another command.
InStep ==
  /\ at = "relay" => ParsePacket(relay, pkt).err # "desync"
  /\ at = "end" => ParsePacket(end, pkt).err = "none"

\* A packet leaves the relay as it came: Parse keeps in each command all of the context that
\* Bytes needs later, also when a serverdata further on in the packet has changed the context
\* before the packet is written.
Transparent ==
  [][at = "relay" /\ at' = "end" => Wire(pkt') = Wire(pkt)]_vars

\* Between packets both readers agree on the format, though they start from different
\* contexts and the relay may have read a serverdata in a packet it then dropped.
ContextsAgree ==
  at = "origin" /\ pkt = NoPacket /\ announced => relay = end
=============================================================================
