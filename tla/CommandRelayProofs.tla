------------------------- MODULE CommandRelayProofs -------------------------
(***************************************************************************)
(* Proofs about CommandRelay, for any streams and packets of any length:   *)
(* where a server does not take extensions back, both readers stay in      *)
(* step with what is on the wire, a packet leaves the relay as it came,    *)
(* and the readers agree on the format between packets.                    *)
(***************************************************************************)
EXTENDS CommandRelay, TLAPS, WellFoundedInduction

\* The commands of the stream, and the contexts its readers can have: the sizes of
\* coordinates and angles follow from the extensions, the rest from the kind.
Commands == Streams[stream].cmds

Context(pv, fte, mvd) ==
  [pv |-> pv, fte |-> fte, mvd |-> mvd,
   coordSize |-> IF "FloatCoords" \in fte THEN 4 ELSE 2,
   angleSize |-> IF "FloatCoords" \in fte THEN 2 ELSE 1,
   isMVD |-> kind = "mvd", isQWD |-> kind = "qwd", isDem |-> kind = "dem"]

PVs == {n \in Nat : n = VersionNQ => kind = "dem"}

Contexts == {Context(v, e, m) : v \in PVs, e \in SUBSET FTEExtensions, m \in SUBSET MVDExtensions}

Written == [c : Commands, f : Contexts]       \* a command with the format it is written in

\* The extensions of a context are among those of another, or of a serverdata.
Below(f, g) == f.fte \subseteq g.fte /\ f.mvd \subseteq g.mvd

\* The format after a command.
After(x) == IF x.c.op = "serverdata" THEN Announces(x.c) ELSE x.f

TypeOK ==
  /\ stream \in DOMAIN Streams
  /\ format \in Contexts /\ relay \in Contexts /\ end \in Contexts
  /\ announced \in BOOLEAN
  /\ pkt \in [header : {"none", "oob", "seq", "bare"}, cmds : Seq(Written)]
  /\ at \in {"origin", "relay", "end"}

\* The extensions only grow.
GrowthInv ==
  /\ Below(relay, format) /\ Below(end, format)
  /\ \A i \in DOMAIN pkt.cmds :
       LET x == pkt.cmds[i] IN
       /\ Below(x.f, format)
       /\ x.c.op = "serverdata" => Below(x.f, x.c.ext) /\ Below(x.c.ext, format)

\* Each command of a packet is written in the format that the one before it leaves.
PacketInv ==
  /\ pkt.header = "none" => pkt.cmds = <<>> /\ at = "origin"
  /\ pkt.header = "oob" => Len(pkt.cmds) = 1 /\ pkt.cmds[1].c.op \in ConnectionlessOps
  /\ pkt.header \in {"seq", "bare"} =>
       /\ pkt.cmds # <<>>
       /\ (pkt.header = "seq") = (kind \notin {"mvd", "dem"})
       /\ \A i \in DOMAIN pkt.cmds : pkt.cmds[i].c.op \notin ConnectionlessOps
       /\ \A i \in DOMAIN pkt.cmds : i > 1 => pkt.cmds[i].f = After(pkt.cmds[i - 1])
       /\ After(pkt.cmds[Len(pkt.cmds)]) = format
       /\ (\A i \in DOMAIN pkt.cmds : pkt.cmds[i].c.op # "serverdata") => pkt.cmds[1].f = format

\* A reader can start on the packet: it has the format of the first command, or that is a
\* serverdata which takes nothing back.
Fits(ctx) ==
  IF pkt.cmds[1].c.op = "serverdata" THEN Below(ctx, pkt.cmds[1].c.ext) ELSE ctx = pkt.cmds[1].f

\* Where the readers are: agreed unless a serverdata is on its way or was dropped.
ReaderInv ==
  /\ pkt.header \in {"none", "oob"} /\ announced => relay = format /\ end = format
  /\ pkt.header \in {"seq", "bare"} => Fits(end) /\ (at # "end" => Fits(relay))
  /\ pkt.header \in {"seq", "bare"} /\ at = "end" => relay = format

\* The parser of the relay knew every command of a packet that it has passed on.
Known(x) == Parse(x.f, x.c) # Unknown /\ (x.c.op = "serverdata" => x.c.n \in Versions)
KnownInv == at = "end" => \A i \in DOMAIN pkt.cmds : Known(pkt.cmds[i])

IInv == TypeOK /\ GrowthInv /\ PacketInv /\ ReaderInv /\ KnownInv
-----------------------------------------------------------------------------
(* Induction, and the function of the reader.                              *)

\* Every nonempty set of naturals has a least element.
LEMMA LeastNatural ==
  ASSUME NEW S \in SUBSET Nat, S # {}
  PROVE  \E s \in S : \A t \in S : s <= t
<1>1. \E s \in S : \A t \in S : ~ (<<t, s>> \in OpToRel(<, Nat))
  BY NatLessThanWellFounded, WFMin
<1>2. \A s, t \in Nat : t < s => <<t, s>> \in OpToRel(<, Nat)
  BY DEF OpToRel
<1>3. PICK s \in S : \A t \in S : ~ (<<t, s>> \in OpToRel(<, Nat))
  BY <1>1
<1>4. \A t \in S : ~ (t < s)
  BY <1>2, <1>3
<1> QED
  BY <1>4

\* Induction over the naturals, for a set.
LEMMA SetInduction ==
  ASSUME NEW S, 0 \in S, \A n \in Nat : n \in S => n + 1 \in S
  PROVE  Nat \subseteq S
<1>1. SUFFICES ASSUME Nat \ S # {}
               PROVE  FALSE
  OBVIOUS
<1>2. PICK m \in Nat \ S : \A t \in Nat \ S : m <= t
  BY <1>1, LeastNatural
<1>3. m # 0 /\ m - 1 \in Nat /\ m - 1 \notin Nat \ S
  BY <1>2
<1> QED
  BY <1>2, <1>3

\* The recursive function of Reader exists: for any packet, however long, the reader after n
\* commands has read the n-th in the state the ones before it have left.
LEMMA ReaderEquation ==
  ASSUME NEW ctx, NEW p, Len(p.cmds) \in Nat
  PROVE  Reader(ctx, p) =
           [n \in 0..Len(p.cmds) |->
              IF n = 0 THEN OpenPacket(ctx, p) ELSE ParseCommand(Reader(ctx, p)[n - 1], p.cmds[n])]
<1> DEFINE Read(g, n) == IF n = 0 THEN OpenPacket(ctx, p) ELSE ParseCommand(g[n - 1], p.cmds[n])
           Reads(g, m) == g = [n \in 0..m |-> Read(g, n)]
           S == {m \in Nat : \E g : Reads(g, m)}
<1>1. 0 \in S
  <2> DEFINE g == [n \in 0..0 |-> OpenPacket(ctx, p)]
  <2>1. Reads(g, 0)
    OBVIOUS
  <2> QED
    BY <2>1
<1>2. ASSUME NEW m \in Nat, m \in S
      PROVE  m + 1 \in S
  <2>1. PICK g : Reads(g, m)
    BY <1>2
  <2> DEFINE h == [n \in 0..(m + 1) |-> IF n = m + 1 THEN ParseCommand(g[m], p.cmds[n]) ELSE g[n]]
  <2>2. ASSUME NEW n \in 0..(m + 1)
        PROVE  h[n] = Read(h, n)
    <3>1. CASE n = m + 1
      <4>1. h[m] = g[m] /\ n # 0 /\ n - 1 = m
        BY <3>1
      <4> QED
        BY <3>1, <4>1
    <3>2. CASE n # m + 1
      <4>1. n \in 0..m /\ h[n] = g[n]
        BY <3>2
      <4>2. g[n] = Read(g, n)
        BY <2>1, <4>1
      <4>3. n # 0 => h[n - 1] = g[n - 1]
        BY <4>1
      <4> QED
        BY <4>1, <4>2, <4>3
    <3> QED
      BY <3>1, <3>2
  <2>3. h = [n \in 0..(m + 1) |-> h[n]]
    OBVIOUS
  <2>4. Reads(h, m + 1)
    <3> HIDE DEF h, Read
    <3> QED
      BY <2>2, <2>3
  <2>5. \E k : Reads(k, m + 1)
    <3> HIDE DEF h, Reads
    <3> QED
      BY <2>4
  <2> QED
    BY <2>5
<1>3. \E g : Reads(g, Len(p.cmds))
  <2>1. Nat \subseteq S
    <3> HIDE DEF S
    <3> QED
      BY <1>1, <1>2, SetInduction
  <2> QED
    BY <2>1
<1> QED
  BY <1>3 DEF Reader
-----------------------------------------------------------------------------
(* What is read and what is written.                                       *)

\* The commands without a mask: what Parse reads is what Bytes writes, in any context.
LEMMA SvcLayouts ==
  ASSUME NEW f, NEW c
  PROVE  /\ updatestatParse(f, c) = updatestatBytes(f, c)
         /\ versionParse(f, c) = versionBytes(f, c)
         /\ setviewParse(f, c) = setviewBytes(f, c)
         /\ soundParse(f, c) = soundBytes(f, c)
         /\ timeParse(f, c) = timeBytes(f, c)
         /\ printParse(f, c) = printBytes(f, c)
         /\ stufftextParse(f, c) = stufftextBytes(f, c)
         /\ setangleParse(f, c) = setangleBytes(f, c)
         /\ lightstyleParse(f, c) = lightstyleBytes(f, c)
         /\ updatenameParse(f, c) = updatenameBytes(f, c)
         /\ updatefragsParse(f, c) = updatefragsBytes(f, c)
         /\ stopsoundParse(f, c) = stopsoundBytes(f, c)
         /\ updatecolorsParse(f, c) = updatecolorsBytes(f, c)
         /\ particleParse(f, c) = particleBytes(f, c)
         /\ damageParse(f, c) = damageBytes(f, c)
         /\ setpauseParse(f, c) = setpauseBytes(f, c)
         /\ signonnumParse(f, c) = signonnumBytes(f, c)
         /\ centerprintParse(f, c) = centerprintBytes(f, c)
         /\ spawnstaticsoundParse(f, c) = spawnstaticsoundBytes(f, c)
         /\ intermissionParse(f, c) = intermissionBytes(f, c)
         /\ finaleParse(f, c) = finaleBytes(f, c)
         /\ cdtrackParse(f, c) = cdtrackBytes(f, c)
         /\ updatepingParse(f, c) = updatepingBytes(f, c)
         /\ updateentertimeParse(f, c) = updateentertimeBytes(f, c)
         /\ updatestatlongParse(f, c) = updatestatlongBytes(f, c)
         /\ muzzleflashParse(f, c) = muzzleflashBytes(f, c)
         /\ updateuserinfoParse(f, c) = updateuserinfoBytes(f, c)
         /\ chokecountParse(f, c) = chokecountBytes(f, c)
         /\ maxspeedParse(f, c) = maxspeedBytes(f, c)
         /\ entgravityParse(f, c) = entgravityBytes(f, c)
         /\ setinfoParse(f, c) = setinfoBytes(f, c)
         /\ serverinfoParse(f, c) = serverinfoBytes(f, c)
         /\ updateplParse(f, c) = updateplBytes(f, c)
BY DEF updatestatParse, updatestatBytes, versionParse, versionBytes, setviewParse,
       setviewBytes, soundParse, soundBytes, timeParse, timeBytes, printParse, printBytes,
       stufftextParse, stufftextBytes, setangleParse, setangleBytes, lightstyleParse,
       lightstyleBytes, updatenameParse, updatenameBytes, updatefragsParse, updatefragsBytes,
       stopsoundParse, stopsoundBytes, updatecolorsParse, updatecolorsBytes, particleParse,
       particleBytes, damageParse, damageBytes, setpauseParse, setpauseBytes, signonnumParse,
       signonnumBytes, centerprintParse, centerprintBytes, spawnstaticsoundParse,
       spawnstaticsoundBytes, intermissionParse, intermissionBytes, finaleParse, finaleBytes,
       cdtrackParse, cdtrackBytes, updatepingParse, updatepingBytes, updateentertimeParse,
       updateentertimeBytes, updatestatlongParse, updatestatlongBytes, muzzleflashParse,
       muzzleflashBytes, updateuserinfoParse, updateuserinfoBytes, chokecountParse,
       chokecountBytes, maxspeedParse, maxspeedBytes, entgravityParse, entgravityBytes,
       setinfoParse, setinfoBytes, serverinfoParse, serverinfoBytes, updateplParse,
       updateplBytes

\* So do the lists, blocks and downloads.
LEMMA ListLayouts ==
  ASSUME NEW f, NEW c
  PROVE  /\ nailsParse(f, c) = nailsBytes(f, c)
         /\ nails2Parse(f, c) = nails2Bytes(f, c)
         /\ modellistParse(f, c) = modellistBytes(f, c)
         /\ soundlistParse(f, c) = soundlistBytes(f, c)
         /\ downloadParse(f, c) = downloadBytes(f, c)
         /\ qizmostringParse(f, c) = qizmostringBytes(f, c)
         /\ qizmoblockParse(f, c) = qizmoblockBytes(f, c)
         /\ qizmovoiceParse(f, c) = qizmovoiceBytes(f, c)
         /\ ftemodellistParse(f, c) = ftemodellistBytes(f, c)
         /\ ftevoicechatsParse(f, c) = ftevoicechatsBytes(f, c)
BY DEF nailsParse, nailsBytes, nails2Parse, nails2Bytes, modellistParse, modellistBytes,
       soundlistParse, soundlistBytes, downloadParse, downloadBytes, qizmostringParse,
       qizmostringBytes, qizmoblockParse, qizmoblockBytes, qizmovoiceParse, qizmovoiceBytes,
       ftemodellistParse, ftemodellistBytes, ftevoicechatsParse, ftevoicechatsBytes

\* The commands of a client and the connectionless ones.
LEMMA ClcLayouts ==
  ASSUME NEW f, NEW c
  PROVE  /\ stringcmdParse(f, c) = stringcmdBytes(f, c)
         /\ deltaParse(f, c) = deltaBytes(f, c)
         /\ tmoveParse(f, c) = tmoveBytes(f, c)
         /\ uploadParse(f, c) = uploadBytes(f, c)
         /\ ftevoicechatcParse(f, c) = ftevoicechatcBytes(f, c)
         /\ a2cclientcommandParse(f, c) = a2cclientcommandBytes(f, c)
         /\ a2cprintParse(f, c) = a2cprintBytes(f, c)
         /\ passthroughParse(f, c) = passthroughBytes(f, c)
BY DEF stringcmdParse, stringcmdBytes, deltaParse, deltaBytes, tmoveParse, tmoveBytes,
       uploadParse, uploadBytes, ftevoicechatcParse, ftevoicechatcBytes, a2cclientcommandParse,
       a2cclientcommandBytes, a2cprintParse, a2cprintBytes, passthroughParse, passthroughBytes

\* The commands whose masks select their fields.
LEMMA MaskLayouts ==
  ASSUME NEW f, NEW c
  PROVE  /\ tempentityParse(f, c) = tempentityBytes(f, c)
         /\ deltausercommandParse(f, c) = deltausercommandBytes(f, c)
         /\ playerinfoMVDParse(f, c) = playerinfoMVDBytes(f, c)
         /\ packetentitydeltaParse(f, c) = packetentitydeltaBytes(f, c)
         /\ fastupdateParse(f, c) = fastupdateBytes(f, c)
         /\ baselineParse(f, c) = baselineBytes(f, c)
BY DEF tempentityParse, tempentityBytes, deltausercommandParse, deltausercommandBytes,
       playerinfoMVDParse, playerinfoMVDBytes, packetentitydeltaParse, packetentitydeltaBytes,
       fastupdateParse, fastupdateBytes, baselineParse, baselineBytes

\* The commands that contain others.
LEMMA NestedLayouts ==
  ASSUME NEW f, NEW c
  PROVE  /\ disconnectParse(f, c) = disconnectBytes(f, c)
         /\ spawnstaticParse(f, c) = spawnstaticBytes(f, c)
         /\ spawnbaselineParse(f, c) = spawnbaselineBytes(f, c)
         /\ playerinfoDefaultParse(f, c) = playerinfoDefaultBytes(f, c)
         /\ packetentityParse(f, c) = packetentityBytes(f, c)
         /\ ftespawnstaticParse(f, c) = ftespawnstaticBytes(f, c)
         /\ ftespawnbaselineParse(f, c) = ftespawnbaselineBytes(f, c)
         /\ serverdataParse(f, c) = serverdataBytes(f, c)
         /\ moveParse(f, c) = moveBytes(f, c)
<1>1. disconnectParse(f, c) = disconnectBytes(f, c)
  BY DEF disconnectParse, disconnectBytes
<1>2. spawnstaticParse(f, c) = spawnstaticBytes(f, c)
  BY MaskLayouts DEF spawnstaticParse, spawnstaticBytes
<1>3. spawnbaselineParse(f, c) = spawnbaselineBytes(f, c)
  BY MaskLayouts DEF spawnbaselineParse, spawnbaselineBytes
<1>4. playerinfoDefaultParse(f, c) = playerinfoDefaultBytes(f, c)
  BY MaskLayouts DEF playerinfoDefaultParse, playerinfoDefaultBytes, playerinfoReadCoord
<1>5. packetentityParse(f, c) = packetentityBytes(f, c)
  BY MaskLayouts DEF packetentityParse, packetentityBytes
<1>6. ftespawnstaticParse(f, c) = ftespawnstaticBytes(f, c)
  BY MaskLayouts DEF ftespawnstaticParse, ftespawnstaticBytes
<1>7. ftespawnbaselineParse(f, c) = ftespawnbaselineBytes(f, c)
  BY MaskLayouts DEF ftespawnbaselineParse, ftespawnbaselineBytes
<1>8. serverdataParse(f, c) = serverdataBytes(f, c)
  BY DEF serverdataParse, serverdataBytes, parseCommandNQ, parseCommandQW
<1>9. moveParse(f, c) = moveBytes(f, c)
  BY MaskLayouts DEF moveParse, moveBytes
<1> QED
  BY <1>1, <1>2, <1>3, <1>4, <1>5, <1>6, <1>7, <1>8, <1>9

\* Players and lists of entities.
LEMMA GroupLayouts ==
  ASSUME NEW f, NEW c
  PROVE  /\ playerinfoParse(f, c) = playerinfoBytes(f, c)
         /\ packetentitiesParse(f, c) = packetentitiesBytes(f, c)
         /\ deltapacketentitiesParse(f, c) = deltapacketentitiesBytes(f, c)
<1>1. playerinfoParse(f, c) = playerinfoBytes(f, c)
  BY NestedLayouts, MaskLayouts DEF playerinfoParse, playerinfoBytes
<1>2. packetentitiesParse(f, c) = packetentitiesBytes(f, c)
  BY NestedLayouts DEF packetentitiesParse, packetentitiesBytes
<1>3. deltapacketentitiesParse(f, c) = deltapacketentitiesBytes(f, c)
  BY NestedLayouts DEF deltapacketentitiesParse, deltapacketentitiesBytes
<1> QED
  BY <1>1, <1>2, <1>3

\* Parse reads the items of a clientdata whether their flag is set or not: it agrees with
\* Bytes on those that have it.
LEMMA ClientdataLayout ==
  ASSUME NEW f, NEW c, "SUItems" \in c.bits
  PROVE  clientdataParse(f, c) = clientdataBytes(f, c)
<1>1. Opt("SUItems" \in c.bits, U32("Items")) = U32("Items")
  BY DEF Opt
<1> QED
  BY <1>1 DEF clientdataParse, clientdataBytes

\* A parser reads in its own context what Bytes writes in it, or does not know the type:
\* game data of a server,
LEMMA SvcParse ==
  ASSUME NEW f, NEW c, c.op = "clientdata" => "SUItems" \in c.bits
  PROVE  parseGameDataSVC(f, c) \in {Bytes(f, c), Unknown}
BY SvcLayouts, ListLayouts, MaskLayouts, NestedLayouts, GroupLayouts, ClientdataLayout,
   ZenonT(60)
   DEF parseGameDataSVC, Bytes, SignalOps

\* game data of a client,
LEMMA ClcParse ==
  ASSUME NEW f, NEW c
  PROVE  parseGameDataCLC(f, c) \in {Bytes(f, c), Unknown}
BY ClcLayouts, NestedLayouts DEF parseGameDataCLC, Bytes, SignalOps

\* and connectionless packets.
LEMMA OobParse ==
  ASSUME NEW f, NEW c
  PROVE  parseConnectionless(f, c) \in {Bytes(f, c), Unknown}
BY ClcLayouts, NestedLayouts DEF parseConnectionless, Bytes, SignalOps
-----------------------------------------------------------------------------
(* Contexts.                                                               *)

ContextRecords ==
  [pv : Nat, fte : SUBSET FTEExtensions, mvd : SUBSET MVDExtensions, coordSize : Nat,
   angleSize : Nat, isMVD : BOOLEAN, isQWD : BOOLEAN, isDem : BOOLEAN]

\* Two contexts are the same if all they hold is.
LEMMA SameContext ==
  ASSUME NEW f \in ContextRecords, NEW g \in ContextRecords,
         f.pv = g.pv, f.fte = g.fte, f.mvd = g.mvd, f.coordSize = g.coordSize,
         f.angleSize = g.angleSize, f.isMVD = g.isMVD, f.isQWD = g.isQWD, f.isDem = g.isDem
  PROVE  f = g
BY DEF ContextRecords

\* What the record of a context holds.
LEMMA ContextFields ==
  ASSUME NEW v \in PVs, NEW e \in SUBSET FTEExtensions, NEW m \in SUBSET MVDExtensions
  PROVE  /\ Context(v, e, m) \in Contexts /\ Context(v, e, m) \in ContextRecords
         /\ Context(v, e, m).pv = v /\ Context(v, e, m).fte = e /\ Context(v, e, m).mvd = m
         /\ Context(v, e, m).coordSize = IF "FloatCoords" \in e THEN 4 ELSE 2
         /\ Context(v, e, m).angleSize = IF "FloatCoords" \in e THEN 2 ELSE 1
         /\ Context(v, e, m).isMVD = (kind = "mvd") /\ Context(v, e, m).isQWD = (kind = "qwd")
         /\ Context(v, e, m).isDem = (kind = "dem")
<1>1. v \in Nat
  BY DEF PVs
<1>2. Context(v, e, m) \in ContextRecords
  BY <1>1 DEF Context, ContextRecords
<1>3. Context(v, e, m) \in Contexts
  BY DEF Contexts
<1>4. /\ Context(v, e, m).pv = v /\ Context(v, e, m).fte = e /\ Context(v, e, m).mvd = m
      /\ Context(v, e, m).coordSize = IF "FloatCoords" \in e THEN 4 ELSE 2
      /\ Context(v, e, m).angleSize = IF "FloatCoords" \in e THEN 2 ELSE 1
  BY DEF Context
<1>5. /\ Context(v, e, m).isMVD = (kind = "mvd") /\ Context(v, e, m).isQWD = (kind = "qwd")
      /\ Context(v, e, m).isDem = (kind = "dem")
  BY DEF Context
<1> QED
  BY <1>2, <1>3, <1>4, <1>5

\* What the kind of the stream and the extensions fix of a context.
LEMMA ContextShape ==
  ASSUME NEW f \in Contexts
  PROVE  /\ f \in ContextRecords
         /\ f.pv \in PVs /\ f.fte \in SUBSET FTEExtensions /\ f.mvd \in SUBSET MVDExtensions
         /\ f.coordSize = IF "FloatCoords" \in f.fte THEN 4 ELSE 2
         /\ f.angleSize = IF "FloatCoords" \in f.fte THEN 2 ELSE 1
         /\ f.isMVD = (kind = "mvd") /\ f.isQWD = (kind = "qwd") /\ f.isDem = (kind = "dem")
<1>1. PICK v \in PVs, e \in SUBSET FTEExtensions, m \in SUBSET MVDExtensions :
        f = Context(v, e, m)
  BY DEF Contexts
<1> QED
  BY <1>1, ContextFields

\* Whether packets have a header is the same in all contexts of a stream.
LEMMA HeaderOfKind ==
  ASSUME NEW f \in Contexts
  PROVE  HasHeader(f) = (kind \notin {"mvd", "dem"})
<1>1. f.isMVD = (kind = "mvd") /\ f.isDem = (kind = "dem") /\ (f.pv = VersionNQ => kind = "dem")
  BY ContextShape DEF PVs
<1> QED
  BY <1>1 DEF HasHeader, IsNQ

\* The fields that a context starts with.
LEMMA StartFields ==
  /\ StartContext(kind) \in ContextRecords
  /\ StartContext(kind).pv = IF kind = "clc" THEN VersionQW ELSE 0
  /\ StartContext(kind).fte = {} /\ StartContext(kind).mvd = {}
  /\ StartContext(kind).coordSize = 2 /\ StartContext(kind).angleSize = 1
  /\ StartContext(kind).isMVD = (kind = "mvd") /\ StartContext(kind).isQWD = (kind = "qwd")
  /\ StartContext(kind).isDem = (kind = "dem")
<1>1. NewContext \in ContextRecords
  BY DEF NewContext, ContextRecords
<1>2. /\ NewContext.fte = {} /\ NewContext.mvd = {}
      /\ NewContext.coordSize = 2 /\ NewContext.angleSize = 1
  BY DEF NewContext
<1> QED
  BY <1>1, <1>2 DEF StartContext, ContextRecords, VersionQW

\* The contexts that Init gives to the readers and the origin are of this form.
LEMMA StartIsContext ==
  /\ StartContext(kind) \in Contexts
  /\ StartContext(kind).fte = {} /\ StartContext(kind).mvd = {}
  /\ [StartContext(kind) EXCEPT !.pv = VersionQW] \in Contexts
  /\ [StartContext(kind) EXCEPT !.pv = VersionQW].fte = {}
  /\ [StartContext(kind) EXCEPT !.pv = VersionQW].mvd = {}
<1> DEFINE pv == IF kind = "clc" THEN VersionQW ELSE 0
           f == StartContext(kind)
           g == [f EXCEPT !.pv = VersionQW]
<1>1. pv \in PVs /\ VersionQW \in PVs
  BY DEF PVs, VersionQW, VersionNQ
<1>2. \A v \in PVs :
        /\ Context(v, {}, {}) \in Contexts /\ Context(v, {}, {}) \in ContextRecords
        /\ Context(v, {}, {}).pv = v /\ Context(v, {}, {}).fte = {} /\ Context(v, {}, {}).mvd = {}
        /\ Context(v, {}, {}).coordSize = 2 /\ Context(v, {}, {}).angleSize = 1
        /\ Context(v, {}, {}).isMVD = (kind = "mvd") /\ Context(v, {}, {}).isQWD = (kind = "qwd")
        /\ Context(v, {}, {}).isDem = (kind = "dem")
  BY ContextFields
<1>3. f \in ContextRecords
  BY StartFields
<1>4. /\ g \in ContextRecords
      /\ g.pv = VersionQW /\ g.fte = f.fte /\ g.mvd = f.mvd /\ g.coordSize = f.coordSize
      /\ g.angleSize = f.angleSize /\ g.isMVD = f.isMVD /\ g.isQWD = f.isQWD
      /\ g.isDem = f.isDem
  BY <1>3 DEF ContextRecords, VersionQW
<1>5. /\ f.pv = pv /\ f.fte = {} /\ f.mvd = {} /\ f.coordSize = 2 /\ f.angleSize = 1
      /\ f.isMVD = (kind = "mvd") /\ f.isQWD = (kind = "qwd") /\ f.isDem = (kind = "dem")
  BY StartFields
<1>6. f = Context(pv, {}, {})
  <2> DEFINE h == Context(pv, {}, {})
  <2>1. /\ h \in ContextRecords
        /\ h.pv = pv /\ h.fte = {} /\ h.mvd = {} /\ h.coordSize = 2 /\ h.angleSize = 1
        /\ h.isMVD = (kind = "mvd") /\ h.isQWD = (kind = "qwd") /\ h.isDem = (kind = "dem")
    BY <1>1, <1>2
  <2> HIDE DEF f, pv, h
  <2>2. /\ f.pv = h.pv /\ f.fte = h.fte /\ f.mvd = h.mvd /\ f.coordSize = h.coordSize
        /\ f.angleSize = h.angleSize /\ f.isMVD = h.isMVD /\ f.isQWD = h.isQWD
        /\ f.isDem = h.isDem
    BY <2>1, <1>5
  <2>3. f = h
    BY ONLY <2>1, <2>2, <1>3, SameContext
  <2> QED
    BY <2>3 DEF h
<1>7. g = Context(VersionQW, {}, {})
  <2> DEFINE h == Context(VersionQW, {}, {})
  <2>1. /\ h \in ContextRecords
        /\ h.pv = VersionQW /\ h.fte = {} /\ h.mvd = {} /\ h.coordSize = 2 /\ h.angleSize = 1
        /\ h.isMVD = (kind = "mvd") /\ h.isQWD = (kind = "qwd") /\ h.isDem = (kind = "dem")
    BY <1>1, <1>2
  <2> HIDE DEF f, g, h
  <2>2. /\ g.pv = h.pv /\ g.fte = h.fte /\ g.mvd = h.mvd /\ g.coordSize = h.coordSize
        /\ g.angleSize = h.angleSize /\ g.isMVD = h.isMVD /\ g.isQWD = h.isQWD
        /\ g.isDem = h.isDem
    BY <2>1, <1>4, <1>5
  <2>3. g \in ContextRecords
    BY <1>4
  <2>4. g = h
    BY ONLY <2>1, <2>2, <2>3, SameContext
  <2> QED
    BY <2>4 DEF h
<1> QED
  BY <1>1, <1>2, <1>6, <1>7

\* The format that a serverdata announces.
LEMMA AnnouncedContext ==
  ASSUME stream \in DOMAIN Streams, NEW c \in Commands, c.op = "serverdata"
  PROVE  /\ Announces(c) \in Contexts
         /\ Announces(c).fte = c.ext.fte /\ Announces(c).mvd = c.ext.mvd
         /\ Announces(c).pv = IF c.n \in Versions THEN c.n ELSE StartContext(kind).pv
<1> DEFINE f == StartContext(kind)
           pv == IF c.n \in Versions THEN c.n ELSE f.pv
           g == Announces(c)
<1>1. f.pv \in PVs /\ f \in ContextRecords
  BY StartIsContext, ContextShape
<1>2. pv \in PVs
  BY <1>1, NetQuakeAssumption DEF PVs, VersionQW, VersionNQ, VersionQW210, VersionQW221,
     Versions, Commands, kind
<1>3. c.ext.fte \in SUBSET FTEExtensions /\ c.ext.mvd \in SUBSET MVDExtensions
  BY StreamsAssumption DEF Commands
<1>4. pv \in Nat
  BY <1>2 DEF PVs
<1>5. /\ g \in ContextRecords
      /\ g.pv = pv /\ g.fte = c.ext.fte /\ g.mvd = c.ext.mvd
      /\ g.coordSize = IF "FloatCoords" \in c.ext.fte THEN 4 ELSE 2
      /\ g.angleSize = IF "FloatCoords" \in c.ext.fte THEN 2 ELSE 1
      /\ g.isMVD = f.isMVD /\ g.isQWD = f.isQWD /\ g.isDem = f.isDem
  <2> HIDE DEF f
  <2> QED
    BY <1>1, <1>3, <1>4 DEF Announces, ContextRecords, f
<1>6. g = Context(pv, c.ext.fte, c.ext.mvd)
  <2> HIDE DEF f, g, pv
  <2>1. f.isMVD = (kind = "mvd") /\ f.isQWD = (kind = "qwd") /\ f.isDem = (kind = "dem")
    BY StartFields DEF f
  <2> DEFINE h == Context(pv, c.ext.fte, c.ext.mvd)
  <2>2. /\ h \in ContextRecords
        /\ h.pv = pv /\ h.fte = c.ext.fte /\ h.mvd = c.ext.mvd
        /\ h.coordSize = IF "FloatCoords" \in c.ext.fte THEN 4 ELSE 2
        /\ h.angleSize = IF "FloatCoords" \in c.ext.fte THEN 2 ELSE 1
        /\ h.isMVD = (kind = "mvd") /\ h.isQWD = (kind = "qwd") /\ h.isDem = (kind = "dem")
    BY <1>2, <1>3, ContextFields
  <2> HIDE DEF h
  <2>3. /\ g.pv = h.pv /\ g.fte = h.fte /\ g.mvd = h.mvd /\ g.coordSize = h.coordSize
        /\ g.angleSize = h.angleSize /\ g.isMVD = h.isMVD /\ g.isQWD = h.isQWD
        /\ g.isDem = h.isDem
    BY <2>1, <2>2, <1>5
  <2>4. g \in ContextRecords
    BY <1>5
  <2>5. g = h
    BY ONLY <2>2, <2>3, <2>4, SameContext
  <2> QED
    BY <2>5 DEF h
<1>7. Context(pv, c.ext.fte, c.ext.mvd) \in Contexts
  <2> HIDE DEF f, g, pv
  <2> QED
    BY ONLY <1>2, <1>3, ContextFields
<1> QED
  BY <1>5, <1>6, <1>7

\* A reader that a serverdata takes nothing back from has the announced format after it, and
\* still a context of the stream if it does not know the version.
LEMMA ServerdataRead ==
  ASSUME stream \in DOMAIN Streams, NEW c \in Commands, c.op = "serverdata",
         NEW f \in Contexts, Below(f, c.ext)
  PROVE  /\ serverdataContext(f, c) \in Contexts
         /\ serverdataContext(f, c).fte = c.ext.fte /\ serverdataContext(f, c).mvd = c.ext.mvd
         /\ c.n \in Versions => serverdataContext(f, c) = Announces(c)
<1> DEFINE pv == IF c.n \in Versions THEN c.n ELSE f.pv
           g == serverdataContext(f, c)
<1>1. f.pv \in PVs /\ f \in ContextRecords
  BY ContextShape
<1>2. pv \in PVs
  BY <1>1, NetQuakeAssumption DEF PVs, VersionQW, VersionNQ, VersionQW210, VersionQW221,
     Versions, Commands, kind
<1>3. c.ext.fte \in SUBSET FTEExtensions /\ c.ext.mvd \in SUBSET MVDExtensions
  BY StreamsAssumption DEF Commands
<1>4. pv \in Nat
  BY <1>2 DEF PVs
<1>5. /\ (IF c.ext.fte # {} THEN c.ext.fte ELSE f.fte) = c.ext.fte
      /\ (IF c.ext.mvd # {} THEN c.ext.mvd ELSE f.mvd) = c.ext.mvd
      /\ "FloatCoords" \in f.fte => "FloatCoords" \in c.ext.fte
  BY DEF Below
<1>6. /\ g \in ContextRecords
      /\ g.pv = pv /\ g.fte = c.ext.fte /\ g.mvd = c.ext.mvd
      /\ g.coordSize = IF "FloatCoords" \in c.ext.fte THEN 4 ELSE f.coordSize
      /\ g.angleSize = IF "FloatCoords" \in c.ext.fte THEN 2 ELSE f.angleSize
      /\ g.isMVD = f.isMVD /\ g.isQWD = f.isQWD /\ g.isDem = f.isDem
  BY <1>1, <1>3, <1>4, <1>5 DEF serverdataContext, ContextRecords
<1>7. /\ g.coordSize = IF "FloatCoords" \in c.ext.fte THEN 4 ELSE 2
      /\ g.angleSize = IF "FloatCoords" \in c.ext.fte THEN 2 ELSE 1
      /\ g.isMVD = (kind = "mvd") /\ g.isQWD = (kind = "qwd") /\ g.isDem = (kind = "dem")
  <2> HIDE DEF g
  <2> QED
    BY <1>5, <1>6, ContextShape
<1>8. g = Context(pv, c.ext.fte, c.ext.mvd)
  <2> HIDE DEF g, pv
  <2> QED
    BY <1>2, <1>3, <1>6, <1>7, ContextFields, SameContext
<1>9. g \in Contexts
  BY <1>2, <1>3, <1>8, ContextFields
<1>10. ASSUME c.n \in Versions
       PROVE  g = Announces(c)
  <2> DEFINE h == Announces(c)
  <2>1. h \in Contexts /\ h.fte = c.ext.fte /\ h.mvd = c.ext.mvd /\ h.pv = pv
    BY <1>10, AnnouncedContext
  <2> HIDE DEF g, h, pv
  <2>2. /\ h \in ContextRecords
        /\ h.coordSize = IF "FloatCoords" \in c.ext.fte THEN 4 ELSE 2
        /\ h.angleSize = IF "FloatCoords" \in c.ext.fte THEN 2 ELSE 1
        /\ h.isMVD = (kind = "mvd") /\ h.isQWD = (kind = "qwd") /\ h.isDem = (kind = "dem")
    BY <2>1, ContextShape
  <2>3. g = h
    BY <2>1, <2>2, <1>6, <1>7, SameContext
  <2> QED
    BY <2>3 DEF h
<1> QED
  BY <1>6, <1>9, <1>10

\* A serverdata and the connectionless commands are read and written alike in all contexts
\* of a stream; every other command is, in one context.
LEMMA SameReading ==
  ASSUME stream \in DOMAIN Streams, NEW f \in Contexts, NEW g \in Contexts,
         NEW c \in Commands,
         f = g \/ c.op = "serverdata" \/ c.op \in ConnectionlessOps
  PROVE  /\ Parse(f, c) = Parse(g, c)
         /\ Bytes(f, c) = Bytes(g, c)
         /\ Parse(f, c) \in {Bytes(g, c), Unknown}
<1>1. Parse(f, c) \in {Bytes(f, c), Unknown}
  <2>1. c.op = "clientdata" => "SUItems" \in c.bits
    BY ClientdataAssumption DEF Commands
  <2> QED
    BY <2>1, SvcParse, ClcParse, OobParse DEF Parse
<1>2. f.isMVD = g.isMVD /\ f.isQWD = g.isQWD
  BY ContextShape
<1>3. CASE f = g
  BY <1>1, <1>3
<1>4. CASE c.op = "serverdata"
  <2>1. serverdataParse(f, c) = serverdataParse(g, c)
    BY <1>2 DEF serverdataParse, parseCommandNQ, parseCommandQW
  <2>2. serverdataBytes(f, c) = serverdataBytes(g, c)
    BY <1>2 DEF serverdataBytes
  <2>3. \A h : Bytes(h, c) = serverdataBytes(h, c)
    BY <1>4 DEF Bytes, SignalOps
  <2>4. \A h : parseGameDataSVC(h, c) = serverdataParse(h, c)
    BY <1>4 DEF parseGameDataSVC, SignalOps
  <2>5. \A h : parseGameDataCLC(h, c) = Unknown
    BY <1>4 DEF parseGameDataCLC
  <2>6. \A h : Parse(h, c) = IF kind = "clc" THEN Unknown ELSE serverdataParse(h, c)
    BY <1>4, <2>4, <2>5 DEF Parse, ConnectionlessOps
  <2> QED
    BY <1>1, <2>1, <2>2, <2>3, <2>6
<1>5. CASE c.op \in ConnectionlessOps
  <2>1. disconnectBytes(f, c) = disconnectBytes(g, c)
    BY <1>2 DEF disconnectBytes
  <2>2. disconnectParse(f, c) = disconnectParse(g, c)
    BY <1>2 DEF disconnectParse
  <2>3. Bytes(f, c) = Bytes(g, c)
    BY <1>5, <2>1 DEF Bytes, SignalOps, ConnectionlessOps, a2cclientcommandBytes, a2cprintBytes,
       passthroughBytes
  <2>4. parseConnectionless(f, c) = parseConnectionless(g, c)
    BY <2>2 DEF parseConnectionless, a2cclientcommandParse, a2cprintParse, passthroughParse
  <2>5. Parse(f, c) = Parse(g, c)
    BY <1>5, <2>4 DEF Parse
  <2> QED
    BY <1>1, <2>3, <2>5
<1> QED
  BY <1>3, <1>4, <1>5

-----------------------------------------------------------------------------
(* The packet under way, read by one of the two readers.                   *)

\* A command that the reader has, in the context it had for it or a steady one: it knows the
\* command exactly if it is known, and then its context is the format after the command.
LEMMA CommandRead ==
  ASSUME stream \in DOMAIN Streams, NEW x \in Written, NEW acc,
         acc.ctx \in Contexts, acc.cmds \in Seq(Written), acc.err = "none",
         acc.ctx = x.f \/ x.c.op = "serverdata" \/ x.c.op \in ConnectionlessOps,
         x.c.op = "serverdata" => Below(acc.ctx, x.c.ext)
  PROVE  LET r == ParseCommand(acc, x) IN
         /\ r.err = IF Known(x) THEN "none" ELSE "unknown"
         /\ r.cmds = Append(acc.cmds, [c |-> x.c, f |-> acc.ctx])
         /\ r.ctx \in Contexts
         /\ x.c.op # "serverdata" => r.ctx = acc.ctx
         /\ r.ctx = acc.ctx \/ (r.ctx.fte = x.c.ext.fte /\ r.ctx.mvd = x.c.ext.mvd)
         /\ Known(x) /\ x.c.op = "serverdata" => r.ctx = Announces(x.c)
<1> DEFINE layout == Parse(acc.ctx, x.c)
           inStep == layout = Bytes(x.f, x.c)
           version == x.c.op # "serverdata" \/ x.c.n \in Versions
           ctx == IF inStep /\ x.c.op = "serverdata" THEN serverdataContext(acc.ctx, x.c)
                                                      ELSE acc.ctx
           err == IF layout = Unknown THEN "unknown" ELSE IF ~inStep THEN "desync"
                  ELSE IF ~version THEN "unknown" ELSE "none"
<1>1. x.c \in Commands /\ x.f \in Contexts
  BY DEF Written
<1>2. layout = Parse(x.f, x.c) /\ (inStep \/ layout = Unknown)
  BY <1>1, SameReading
<1>3. ParseCommand(acc, x) =
        [ctx |-> ctx, cmds |-> Append(acc.cmds, [c |-> x.c, f |-> acc.ctx]), err |-> err]
  BY DEF ParseCommand
<1>4. err = IF Known(x) THEN "none" ELSE "unknown"
  <2> HIDE DEF inStep, layout
  <2>1. Known(x) <=> layout # Unknown /\ version
    BY <1>2 DEF Known
  <2> QED
    BY <1>2, <2>1
<1>5. x.c.op = "serverdata" =>
        /\ serverdataContext(acc.ctx, x.c) \in Contexts
        /\ serverdataContext(acc.ctx, x.c).fte = x.c.ext.fte
        /\ serverdataContext(acc.ctx, x.c).mvd = x.c.ext.mvd
        /\ x.c.n \in Versions => serverdataContext(acc.ctx, x.c) = Announces(x.c)
  BY <1>1, ServerdataRead
<1>6. /\ ctx \in Contexts
      /\ x.c.op # "serverdata" => ctx = acc.ctx
      /\ ctx = acc.ctx \/ (ctx.fte = x.c.ext.fte /\ ctx.mvd = x.c.ext.mvd)
  <2>1. CASE inStep /\ x.c.op = "serverdata"
    <3>1. ctx = serverdataContext(acc.ctx, x.c)
      BY <2>1
    <3> HIDE DEF ctx
    <3> QED
      BY <1>5, <2>1, <3>1
  <2>2. CASE ~(inStep /\ x.c.op = "serverdata")
    <3>1. ctx = acc.ctx
      BY <2>2
    <3> HIDE DEF ctx
    <3> QED
      BY <3>1
  <2> QED
    BY <2>1, <2>2
<1>7. Known(x) /\ x.c.op = "serverdata" => ctx = Announces(x.c)
  <2>1. Known(x) /\ x.c.op = "serverdata" => inStep /\ x.c.n \in Versions
    BY <1>2 DEF Known
  <2> HIDE DEF inStep
  <2> QED
    BY <1>5, <2>1
<1> HIDE DEF ctx, err
<1> QED
  BY <1>3, <1>4, <1>6, <1>7

\* The i-th command as a reader that started from ctx has it.
Taken(ctx, i) == [c |-> pkt.cmds[i].c, f |-> IF i = 1 THEN ctx ELSE pkt.cmds[i].f]

\* The reader after n commands, none of which was out of step.
ReadSoFar(ctx, r, n) ==
  /\ r.err = IF \A i \in 1..n : Known(pkt.cmds[i]) THEN "none" ELSE "unknown"
  /\ r.ctx \in Contexts /\ Below(r.ctx, format)
  /\ (\A i \in 1..n : pkt.cmds[i].c.op # "serverdata") => r.ctx = ctx
  /\ r.cmds \in Seq(Written)
  /\ r.err = "none" =>
       /\ Len(r.cmds) = n /\ \A i \in 1..n : r.cmds[i] = Taken(ctx, i)
       /\ r.ctx = IF n = 0 \/ pkt.header = "oob" THEN ctx ELSE After(pkt.cmds[n])

\* A reader that can start on a packet reads all of it in step, or up to the first command
\* that it does not know.
LEMMA PacketRead ==
  ASSUME TypeOK, GrowthInv, PacketInv, pkt.header # "none",
         NEW ctx \in Contexts, Below(ctx, format),
         pkt.header \in {"seq", "bare"} => Fits(ctx)
  PROVE  ReadSoFar(ctx, ParsePacket(ctx, pkt), Len(pkt.cmds))
<1> DEFINE N == Len(pkt.cmds)
           R == Reader(ctx, pkt)
           S == {n \in Nat : n <= N => ReadSoFar(ctx, R[n], n)}
<1>1. /\ stream \in DOMAIN Streams
      /\ pkt.cmds \in Seq(Written) /\ N \in Nat /\ DOMAIN pkt.cmds = 1..N
      /\ \A i \in 1..N : pkt.cmds[i] \in Written
      /\ pkt.header \in {"oob", "seq", "bare"}
  BY DEF TypeOK
<1>2. /\ R[0] = OpenPacket(ctx, pkt)
      /\ \A n \in Nat : n + 1 <= N => R[n + 1] = ParseCommand(R[n], pkt.cmds[n + 1])
  <2>1. R = [n \in 0..N |-> IF n = 0 THEN OpenPacket(ctx, pkt)
                                      ELSE ParseCommand(R[n - 1], pkt.cmds[n])]
    BY <1>1, ReaderEquation
  <2> HIDE DEF R
  <2>2. \A n \in 0..N : R[n] = IF n = 0 THEN OpenPacket(ctx, pkt)
                                        ELSE ParseCommand(R[n - 1], pkt.cmds[n])
    BY <2>1
  <2>3. 0 \in 0..N
    BY <1>1
  <2>4. ASSUME NEW n \in Nat, n + 1 <= N
        PROVE  n + 1 \in 0..N /\ n + 1 # 0 /\ (n + 1) - 1 = n
    BY <1>1, <2>4
  <2> QED
    BY <2>2, <2>3, <2>4
<1>3. 0 \in S
  <2>1. pkt.header # "oob" => (pkt.header = "seq") = HasHeader(ctx)
    BY <1>1, HeaderOfKind DEF PacketInv
  <2>2. OpenPacket(ctx, pkt) = [ctx |-> ctx, cmds |-> <<>>, err |-> "none"]
    BY <2>1 DEF OpenPacket
  <2>3. <<>> \in Seq(Written) /\ Len(<<>>) = 0
    OBVIOUS
  <2>4. ReadSoFar(ctx, OpenPacket(ctx, pkt), 0)
    BY <2>2, <2>3 DEF ReadSoFar
  <2> HIDE DEF R
  <2> QED
    BY <1>2, <2>4
<1>4. ASSUME NEW n \in Nat, n \in S
      PROVE  n + 1 \in S
  <2> SUFFICES ASSUME n + 1 <= N
               PROVE  ReadSoFar(ctx, R[n + 1], n + 1)
    OBVIOUS
  <2> DEFINE r == R[n]
             x == pkt.cmds[n + 1]
             q == ParseCommand(r, x)
  <2>1. ReadSoFar(ctx, r, n) /\ R[n + 1] = q
    BY <1>1, <1>2, <1>4
  <2>2. /\ n + 1 \in 1..N /\ x \in Written
        /\ \A i \in 1..(n + 1) : i \in 1..n \/ i = n + 1
        /\ 1..n \subseteq 1..(n + 1) /\ n + 1 \in 1..(n + 1)
    BY <1>1
  <2>3. ReadSoFar(ctx, q, n + 1)
    <3> HIDE DEF R, S, N, r
    <3>1. CASE r.err # "none"
      <4>1. q = r
        BY <3>1 DEF ParseCommand
      <4>2. ~ \A i \in 1..n : Known(pkt.cmds[i])
        BY <2>1, <3>1 DEF ReadSoFar
      <4>3. ~ \A i \in 1..(n + 1) : Known(pkt.cmds[i])
        BY <4>2, <2>2
      <4> QED
        BY <2>1, <2>2, <3>1, <4>1, <4>2, <4>3 DEF ReadSoFar
    <3>2. CASE r.err = "none"
      <4>1. /\ \A i \in 1..n : Known(pkt.cmds[i])
            /\ r.ctx \in Contexts /\ r.cmds \in Seq(Written) /\ Below(r.ctx, format)
            /\ Len(r.cmds) = n /\ \A i \in 1..n : r.cmds[i] = Taken(ctx, i)
            /\ r.ctx = IF n = 0 \/ pkt.header = "oob" THEN ctx ELSE After(pkt.cmds[n])
        BY <2>1, <3>2 DEF ReadSoFar
      <4>2. /\ n = 0 => r.ctx = ctx
            /\ n > 0 => r.ctx = x.f /\ x.c.op \notin ConnectionlessOps
            /\ pkt.header = "oob" => n = 0 /\ x.c.op \in ConnectionlessOps
            /\ pkt.header # "oob" => x.c.op \notin ConnectionlessOps
            /\ n = 0 /\ pkt.header # "oob" =>
                 IF x.c.op = "serverdata" THEN Below(ctx, x.c.ext) ELSE ctx = x.f
        <5>1. n = 0 => r.ctx = ctx
          BY <4>1
        <5>2. pkt.header = "oob" => n = 0 /\ x.c.op \in ConnectionlessOps
          BY <1>1, <2>2 DEF PacketInv, N
        <5>3. pkt.header # "oob" => x.c.op \notin ConnectionlessOps
          BY <1>1, <2>2 DEF PacketInv, N
        <5>4. n = 0 /\ pkt.header # "oob" =>
                IF x.c.op = "serverdata" THEN Below(ctx, x.c.ext) ELSE ctx = x.f
          BY <1>1 DEF Fits
        <5>5. ASSUME n > 0
              PROVE  r.ctx = x.f
          <6>1. pkt.header # "oob" /\ r.ctx = After(pkt.cmds[n])
            BY <4>1, <5>2, <5>5
          <6>2. n + 1 > 1 /\ (n + 1) - 1 = n
            BY <5>5
          <6>3. x.f = After(pkt.cmds[n])
            BY <1>1, <2>2, <6>1, <6>2 DEF PacketInv, N
          <6> QED
            BY <6>1, <6>3
        <5> QED
          BY <5>1, <5>2, <5>3, <5>4, <5>5
      <4>3. x.c.op = "serverdata" => Below(x.f, x.c.ext) /\ Below(x.c.ext, format)
        BY <1>1, <2>2 DEF GrowthInv
      <4>4. "serverdata" \notin ConnectionlessOps
        BY DEF ConnectionlessOps
      <4>5. /\ r.ctx = x.f \/ x.c.op = "serverdata" \/ x.c.op \in ConnectionlessOps
            /\ x.c.op = "serverdata" => Below(r.ctx, x.c.ext)
        BY <4>2, <4>3, <4>4
      <4>6. /\ q.err = IF Known(x) THEN "none" ELSE "unknown"
            /\ q.cmds = Append(r.cmds, [c |-> x.c, f |-> r.ctx])
            /\ q.ctx \in Contexts
            /\ x.c.op # "serverdata" => q.ctx = r.ctx
            /\ q.ctx = r.ctx \/ (q.ctx.fte = x.c.ext.fte /\ q.ctx.mvd = x.c.ext.mvd)
            /\ Known(x) /\ x.c.op = "serverdata" => q.ctx = Announces(x.c)
        BY <1>1, <2>2, <3>2, <4>1, <4>5, CommandRead
      <4>7. Taken(ctx, n + 1) = [c |-> x.c, f |-> r.ctx]
        BY <4>2 DEF Taken
      <4>8. Taken(ctx, n + 1) \in Written
        BY <2>2, <4>1, <4>7 DEF Written
      <4> HIDE DEF q
      <4>9. q.err = IF \A i \in 1..(n + 1) : Known(pkt.cmds[i]) THEN "none" ELSE "unknown"
        BY <2>2, <4>1, <4>6
      <4>10. Below(q.ctx, format)
        BY <4>1, <4>3, <4>6 DEF Below
      <4>11. (\A i \in 1..(n + 1) : pkt.cmds[i].c.op # "serverdata") => q.ctx = ctx
        BY <2>1, <2>2, <4>6 DEF ReadSoFar
      <4>12. /\ q.cmds \in Seq(Written) /\ Len(q.cmds) = n + 1
             /\ \A i \in 1..(n + 1) : q.cmds[i] = Taken(ctx, i)
        <5>1. q.cmds = Append(r.cmds, Taken(ctx, n + 1))
          BY <4>6, <4>7
        <5> QED
          BY <4>1, <4>8, <5>1
      <4>13. q.err = "none" =>
               q.ctx = IF pkt.header = "oob" THEN ctx ELSE After(x)
        <5>1. q.err = "none" => Known(x)
          BY <4>6
        <5>2. pkt.header = "oob" => q.ctx = ctx
          BY <4>2, <4>4, <4>6
        <5>3. Known(x) /\ pkt.header # "oob" => q.ctx = After(x)
          BY <4>2, <4>3, <4>6 DEF After
        <5> QED
          BY <5>1, <5>2, <5>3
      <4>14. n + 1 # 0
        OBVIOUS
      <4> QED
        BY <4>6, <4>9, <4>10, <4>11, <4>12, <4>13, <4>14 DEF ReadSoFar
    <3> QED
      BY <3>1, <3>2
  <2> QED
    BY <2>1, <2>3
<1>5. N \in S
  <2> HIDE DEF S
  <2> QED
    BY <1>1, <1>3, <1>4, SetInduction
<1> QED
  BY <1>1, <1>5 DEF ParsePacket

-----------------------------------------------------------------------------
(* The steps.                                                              *)

\* All that a context, a command and a format are depends on the stream alone, which stays.
LEMMA SameStream ==
  ASSUME stream' = stream
  PROVE  /\ kind' = kind
         /\ Commands' = Commands /\ Contexts' = Contexts /\ Written' = Written
         /\ \A c : Announces(c)' = Announces(c)
         /\ \A x : After(x)' = After(x)
         /\ \A x : Known(x)' <=> Known(x)
<1>1. kind' = kind
  BY DEF kind
<1>2. Commands' = Commands
  BY DEF Commands
<1>3. Contexts' = Contexts
  BY <1>1 DEF Contexts, Context, PVs
<1>4. Written' = Written
  BY <1>2, <1>3 DEF Written
<1>5. \A c : Announces(c)' = Announces(c)
  BY <1>1 DEF Announces
<1>6. \A x : After(x)' = After(x)
  BY <1>5 DEF After
<1>7. \A f, c : Parse(f, c)' = Parse(f, c)
  BY <1>1 DEF Parse
<1>8. \A x : Known(x)' <=> Known(x)
  BY <1>7 DEF Known
<1> QED
  BY <1>1, <1>2, <1>3, <1>4, <1>5, <1>6, <1>8

\* What the server announces contains what it has announced before.
LEMMA Transitive ==
  ASSUME NEW f, NEW g, NEW h, Below(f, g), Below(g, h)
  PROVE  Below(f, h)
BY DEF Below

\* Before the first packet nothing is announced, or the format is that of client packets.
LEMMA InitInv == Init => IInv
<1> SUFFICES ASSUME Init PROVE IInv
  OBVIOUS
<1>1. /\ stream \in DOMAIN Streams
      /\ format = StartContext(kind) /\ relay = StartContext(kind)
      /\ end = StartContext(kind) \/ (kind = "svc"
                                      /\ end = [StartContext(kind) EXCEPT !.pv = VersionQW])
      /\ announced = (kind = "clc") /\ pkt = NoPacket /\ at = "origin"
  BY DEF Init
<1>2. /\ format \in Contexts /\ relay \in Contexts /\ end \in Contexts
      /\ format.fte = {} /\ relay.fte = {} /\ end.fte = {}
      /\ format.mvd = {} /\ relay.mvd = {} /\ end.mvd = {}
  BY <1>1, StartIsContext
<1>3. pkt.header = "none" /\ pkt.cmds = <<>> /\ at = "origin"
  BY <1>1 DEF NoPacket
<1>4. pkt \in [header : {"none", "oob", "seq", "bare"}, cmds : Seq(Written)]
  BY <1>1 DEF NoPacket
<1>5. TypeOK
  BY <1>1, <1>2, <1>4 DEF TypeOK
<1>6. GrowthInv
  BY <1>2, <1>3 DEF GrowthInv, Below
<1>7. PacketInv
  BY <1>3 DEF PacketInv
<1>8. ReaderInv
  BY <1>1, <1>3 DEF ReaderInv, Init
<1>9. KnownInv
  BY <1>3 DEF KnownInv
<1> QED
  BY <1>5, <1>6, <1>7, <1>8, <1>9 DEF IInv

\* A packet at the origin is empty, connectionless or numbered in the way of its stream.
LEMMA Headers ==
  ASSUME TypeOK, PacketInv
  PROVE  /\ pkt.header \in {"none", "oob", "seq", "bare"}
         /\ pkt.cmds \in Seq(Written)
         /\ pkt.cmds = <<>> <=> pkt.header = "none"
         /\ pkt.header = "none" <=> pkt = NoPacket
<1>1. /\ pkt \in [header : {"none", "oob", "seq", "bare"}, cmds : Seq(Written)]
  BY DEF TypeOK
<1>2. pkt.header = "none" => pkt.cmds = <<>>
  BY DEF PacketInv
<1>3. pkt.header = "oob" => pkt.cmds # <<>>
  BY DEF PacketInv
<1>4. pkt.header \in {"seq", "bare"} => pkt.cmds # <<>>
  BY DEF PacketInv
<1>5. pkt = [header |-> pkt.header, cmds |-> pkt.cmds]
  BY <1>1
<1> QED
  BY <1>1, <1>2, <1>3, <1>4, <1>5 DEF NoPacket

\* The origin adds a command: it is written in the format that the ones before it leave.
LEMMA AddCommandInv ==
  ASSUME ~MayShrink, IInv, NEW c \in Commands, AddCommand(c)
  PROVE  IInv'
<1> DEFINE n == Len(pkt.cmds)
           y == [c |-> c, f |-> format]
<1>1. /\ TypeOK /\ GrowthInv /\ PacketInv /\ ReaderInv
      /\ pkt.cmds \in Seq(Written) /\ n \in Nat /\ DOMAIN pkt.cmds = 1..n
      /\ format \in Contexts /\ stream \in DOMAIN Streams
  BY DEF IInv, TypeOK
<1>2. /\ at = "origin" /\ c.op \notin ConnectionlessOps /\ pkt.header # "oob"
      /\ announced \/ c.op = "serverdata"
      /\ c.op = "serverdata" => Grows(c)
      /\ pkt' = [header |-> IF pkt.cmds # <<>> THEN pkt.header
                            ELSE IF HasHeader(format) THEN "seq" ELSE "bare",
                 cmds |-> Append(pkt.cmds, y)]
      /\ IF c.op = "serverdata" THEN format' = Announces(c) /\ announced' = TRUE
                                ELSE UNCHANGED <<format, announced>>
      /\ stream' = stream /\ relay' = relay /\ end' = end /\ at' = at
  BY DEF AddCommand
<1>3. y \in Written /\ y.c = c /\ y.f = format
  BY <1>1 DEF Written
<1>4. /\ pkt'.cmds = Append(pkt.cmds, y) /\ pkt'.cmds \in Seq(Written)
      /\ Len(pkt'.cmds) = n + 1 /\ DOMAIN pkt'.cmds = 1..(n + 1)
      /\ \A i \in 1..n : pkt'.cmds[i] = pkt.cmds[i]
      /\ pkt'.cmds[n + 1] = y
      /\ \A i \in 1..(n + 1) : i \in 1..n \/ i = n + 1
      /\ n + 1 \in 1..(n + 1) /\ 1..n \subseteq 1..(n + 1)
  <2> HIDE DEF y
  <2>1. pkt'.cmds = Append(pkt.cmds, y)
    BY <1>2
  <2> QED
    BY <1>1, <1>3, <2>1
<1>5. /\ pkt.header \in {"none", "seq", "bare"}
      /\ pkt.header = "none" <=> pkt.cmds = <<>>
      /\ pkt.cmds = <<>> <=> n = 0
  BY <1>1, <1>2, Headers
<1>6. /\ pkt'.header \in {"seq", "bare"}
      /\ (pkt'.header = "seq") = (kind \notin {"mvd", "dem"})
  <2>1. CASE pkt.cmds = <<>>
    BY <1>1, <1>2, <2>1, HeaderOfKind
  <2>2. CASE pkt.cmds # <<>>
    BY <1>1, <1>2, <1>5, <2>2 DEF PacketInv
  <2> QED
    BY <2>1, <2>2
<1>7. /\ format' = After(y)
      /\ format' \in Contexts
      /\ c.op = "serverdata" => Below(format, c.ext) /\ Below(c.ext, format')
      /\ Below(format, format')
  <2>1. CASE c.op = "serverdata"
    <3>1. /\ format' = Announces(c) /\ Announces(c) \in Contexts
          /\ Announces(c).fte = c.ext.fte /\ Announces(c).mvd = c.ext.mvd
      BY <1>1, <1>2, <2>1, AnnouncedContext
    <3> QED
      BY <1>2, <1>3, <2>1, <3>1 DEF After, Below, Grows
  <2>2. CASE c.op # "serverdata"
    BY <1>1, <1>2, <1>3, <2>2 DEF After, Below
  <2> QED
    BY <2>1, <2>2
<1> HIDE DEF y, n
<1>8. TypeOK'
  <2>1. pkt' \in [header : {"none", "oob", "seq", "bare"}, cmds : Seq(Written)]
    BY <1>2, <1>4, <1>6
  <2>2. announced' \in BOOLEAN
    BY <1>1, <1>2 DEF TypeOK
  <2> QED
    BY <1>1, <1>2, <1>7, <2>1, <2>2, SameStream DEF TypeOK
<1>9. GrowthInv'
  <2>1. Below(relay, format') /\ Below(end, format')
    BY <1>1, <1>7, Transitive DEF GrowthInv
  <2>2. ASSUME NEW i \in 1..(n + 1)
        PROVE  /\ Below(pkt'.cmds[i].f, format')
               /\ pkt'.cmds[i].c.op = "serverdata" =>
                    Below(pkt'.cmds[i].f, pkt'.cmds[i].c.ext) /\ Below(pkt'.cmds[i].c.ext, format')
    <3>1. CASE i \in 1..n
      BY <1>1, <1>4, <1>7, <3>1, Transitive DEF GrowthInv
    <3>2. CASE i = n + 1
      BY <1>3, <1>4, <1>7, <3>2
    <3> QED
      BY <1>4, <3>1, <3>2
  <2>3. \A i \in DOMAIN pkt'.cmds : i \in 1..(n + 1)
    BY <1>4
  <2>4. relay' = relay /\ end' = end
    BY <1>2
  <2>5. \A i \in DOMAIN pkt'.cmds :
           /\ Below(pkt'.cmds[i].f, format')
           /\ pkt'.cmds[i].c.op = "serverdata" =>
                Below(pkt'.cmds[i].f, pkt'.cmds[i].c.ext) /\ Below(pkt'.cmds[i].c.ext, format')
    BY <2>2, <2>3
  <2>6. Below(relay', format') /\ Below(end', format')
    BY <2>1, <2>4
  <2> QED
    BY <2>5, <2>6 DEF GrowthInv
<1>10. PacketInv'
  <2>0. \A i \in 1..n : /\ pkt.cmds[i].c.op \notin ConnectionlessOps
                        /\ i > 1 => pkt.cmds[i].f = After(pkt.cmds[i - 1])
    <3>1. CASE pkt.header = "none"
      BY <1>1, <1>5, <3>1 DEF PacketInv
    <3>2. CASE pkt.header \in {"seq", "bare"}
      BY <1>1, <3>2 DEF PacketInv
    <3> QED
      BY <1>5, <3>1, <3>2
  <2>1. \A i \in 1..(n + 1) : pkt'.cmds[i].c.op \notin ConnectionlessOps
    <3>1. pkt'.cmds[n + 1].c.op \notin ConnectionlessOps
      BY <1>2, <1>3, <1>4
    <3>2. \A i \in 1..n : pkt'.cmds[i].c.op \notin ConnectionlessOps
      BY <1>4, <2>0
    <3> QED
      BY <1>4, <3>1, <3>2
  <2>2. ASSUME NEW i \in 1..(n + 1), i > 1
        PROVE  pkt'.cmds[i].f = After(pkt'.cmds[i - 1])
    <3>1. i - 1 \in 1..n
      BY <1>1, <2>2
    <3>2. CASE i \in 1..n
      <4>1. pkt.cmds[i].f = After(pkt.cmds[i - 1])
        BY <2>0, <2>2, <3>2
      <4>2. pkt'.cmds[i] = pkt.cmds[i] /\ pkt'.cmds[i - 1] = pkt.cmds[i - 1]
        BY <1>4, <3>1, <3>2
      <4> QED
        BY <4>1, <4>2
    <3>3. CASE i = n + 1
      <4>1. n \in 1..n /\ i - 1 = n /\ n # 0
        BY <1>1, <2>2, <3>3
      <4>2. After(pkt.cmds[n]) = format
        BY <1>1, <1>5, <4>1 DEF PacketInv, n
      <4> QED
        BY <1>3, <1>4, <3>3, <4>1, <4>2
    <3> QED
      BY <1>4, <3>2, <3>3
  <2>3. After(pkt'.cmds[Len(pkt'.cmds)]) = format'
    BY <1>4, <1>7
  <2>4. ASSUME \A i \in 1..(n + 1) : pkt'.cmds[i].c.op # "serverdata"
        PROVE  pkt'.cmds[1].f = format'
    <3>1. c.op # "serverdata" /\ format' = format
      BY <1>2, <1>3, <1>4, <2>4
    <3>2. CASE n = 0
      BY <1>3, <1>4, <3>1, <3>2
    <3>3. CASE n # 0
      <4>1. 1 \in 1..n /\ \A i \in 1..n : pkt.cmds[i].c.op # "serverdata"
        BY <1>1, <1>4, <2>4, <3>3
      <4> QED
        BY <1>1, <1>4, <1>5, <3>1, <3>3, <4>1 DEF PacketInv
    <3> QED
      BY <3>2, <3>3
  <2>5. pkt'.cmds # <<>>
    BY <1>1, <1>4
  <2> QED
    <3>1. \A i \in DOMAIN pkt'.cmds : i > 1 => pkt'.cmds[i].f = After(pkt.cmds[i - 1])'
      BY <1>2, <1>4, <2>2, SameStream
    <3>2. After(pkt.cmds[Len(pkt.cmds)])' = format'
      BY <1>2, <2>3, SameStream
    <3>3. (pkt'.header = "seq") = (kind' \notin {"mvd", "dem"})
      BY <1>2, <1>6, SameStream
    <3>4. pkt'.header # "none" /\ pkt'.header # "oob"
      BY <1>6
    <3> QED
      BY <1>4, <2>1, <2>4, <2>5, <3>1, <3>2, <3>3, <3>4 DEF PacketInv
<1>11. ReaderInv'
  <2>1. /\ (IF pkt'.cmds[1].c.op = "serverdata" THEN Below(end, pkt'.cmds[1].c.ext)
                                                ELSE end = pkt'.cmds[1].f)
        /\ (IF pkt'.cmds[1].c.op = "serverdata" THEN Below(relay, pkt'.cmds[1].c.ext)
                                                ELSE relay = pkt'.cmds[1].f)
    <3>1. CASE n = 0
      <4>1. announced => relay = format /\ end = format
        BY <1>1, <1>5, <3>1 DEF ReaderInv
      <4>2. Below(relay, format) /\ Below(end, format)
        BY <1>1 DEF GrowthInv
      <4>3. pkt'.cmds[1] = y
        BY <1>4, <3>1
      <4>4. c.op = "serverdata" => Below(relay, c.ext) /\ Below(end, c.ext)
        BY <1>7, <4>2, Transitive
      <4> QED
        BY <1>2, <1>3, <4>1, <4>3, <4>4
    <3>2. CASE n # 0
      <4>1. pkt'.cmds[1] = pkt.cmds[1]
        BY <1>1, <1>4, <3>2
      <4>2. Fits(end) /\ Fits(relay)
        BY <1>1, <1>2, <1>5, <3>2 DEF ReaderInv
      <4> QED
        BY <4>1, <4>2 DEF Fits
    <3> QED
      BY <3>1, <3>2
  <2> QED
    BY <1>2, <1>6, <2>1 DEF ReaderInv, Fits, Below
<1>12. KnownInv'
  BY <1>2 DEF KnownInv
<1> QED
  BY <1>8, <1>9, <1>10, <1>11, <1>12 DEF IInv

\* A connectionless packet has nothing to do with the format.
LEMMA AddConnectionlessInv ==
  ASSUME IInv, NEW c \in Commands, AddConnectionless(c)
  PROVE  IInv'
<1> DEFINE y == [c |-> c, f |-> format]
<1>1. /\ TypeOK /\ GrowthInv /\ PacketInv /\ ReaderInv /\ format \in Contexts
  BY DEF IInv, TypeOK
<1>2. /\ at = "origin" /\ pkt = NoPacket /\ c.op \in ConnectionlessOps
      /\ pkt' = [header |-> "oob", cmds |-> <<y>>]
      /\ stream' = stream /\ format' = format /\ announced' = announced
      /\ relay' = relay /\ end' = end /\ at' = at
  BY DEF AddConnectionless
<1>3. y \in Written /\ y.c = c /\ y.f = format
  BY <1>1 DEF Written
<1> HIDE DEF y
<1>4. /\ pkt'.header = "oob" /\ pkt'.cmds = <<y>> /\ <<y>> \in Seq(Written)
      /\ Len(<<y>>) = 1 /\ DOMAIN <<y>> = {1} /\ <<y>>[1] = y
      /\ pkt.header = "none"
  BY <1>2, <1>3 DEF NoPacket
<1>5. c.op # "serverdata"
  BY <1>2 DEF ConnectionlessOps
<1>6. TypeOK'
  <2>1. pkt' \in [header : {"none", "oob", "seq", "bare"}, cmds : Seq(Written)]
    BY <1>2, <1>4
  <2> QED
    BY <1>1, <1>2, <2>1, SameStream DEF TypeOK
<1>7. GrowthInv'
  BY <1>1, <1>2, <1>3, <1>4, <1>5 DEF GrowthInv, Below
<1>8. PacketInv'
  BY <1>2, <1>3, <1>4 DEF PacketInv
<1>9. ReaderInv'
  BY <1>1, <1>2, <1>4 DEF ReaderInv
<1>10. KnownInv'
  BY <1>2 DEF KnownInv
<1> QED
  BY <1>6, <1>7, <1>8, <1>9, <1>10 DEF IInv

\* Sending a packet changes only where it is; until then it was what both readers can start on.
LEMMA SendPacketInv ==
  ASSUME IInv, SendPacket
  PROVE  IInv'
<1>1. TypeOK /\ GrowthInv /\ PacketInv /\ ReaderInv
  BY DEF IInv
<1>2. /\ at = "origin" /\ pkt # NoPacket /\ at' = "relay"
      /\ stream' = stream /\ format' = format /\ announced' = announced
      /\ relay' = relay /\ end' = end /\ pkt' = pkt
  BY DEF SendPacket
<1>3. pkt.header # "none"
  BY <1>1, <1>2, Headers
<1>4. TypeOK'
  BY <1>1, <1>2, SameStream DEF TypeOK
<1>5. GrowthInv'
  BY <1>1, <1>2 DEF GrowthInv, Below
<1>6. PacketInv'
  <2>1. \A i \in DOMAIN pkt.cmds : After(pkt.cmds[i - 1])' = After(pkt.cmds[i - 1])
    BY <1>2, SameStream
  <2>2. After(pkt.cmds[Len(pkt.cmds)])' = After(pkt.cmds[Len(pkt.cmds)])
    BY <1>2, SameStream
  <2>3. kind' = kind
    BY <1>2, SameStream
  <2> QED
    BY <1>1, <1>2, <1>3, <2>1, <2>2, <2>3 DEF PacketInv
<1>7. ReaderInv'
  BY <1>1, <1>2 DEF ReaderInv, Fits, Below
<1>8. KnownInv'
  BY <1>2 DEF KnownInv
<1> QED
  BY <1>4, <1>5, <1>6, <1>7, <1>8 DEF IInv

\* A packet under way can be read, by the relay while it is there and by the other end.
LEMMA UnderWay ==
  ASSUME IInv, at # "origin"
  PROVE  /\ at = "relay" => ReadSoFar(relay, ParsePacket(relay, pkt), Len(pkt.cmds))
         /\ ReadSoFar(end, ParsePacket(end, pkt), Len(pkt.cmds))
         /\ pkt.cmds \in Seq(Written) /\ Len(pkt.cmds) \in Nat \ {0}
         /\ DOMAIN pkt.cmds = 1..Len(pkt.cmds)
         /\ pkt.header \in {"oob", "seq", "bare"}
         /\ at = "relay" /\ pkt.header # "oob" => Fits(relay)
         /\ pkt.header # "oob" => Fits(end)
<1>1. TypeOK /\ GrowthInv /\ PacketInv /\ ReaderInv
  BY DEF IInv
<1>2. /\ pkt.cmds \in Seq(Written) /\ DOMAIN pkt.cmds = 1..Len(pkt.cmds)
      /\ pkt.header \in {"oob", "seq", "bare"} /\ pkt.cmds # <<>>
      /\ at = "relay" \/ at = "end"
  BY <1>1, Headers DEF TypeOK, PacketInv
<1>3. Len(pkt.cmds) \in Nat \ {0}
  BY <1>2
<1>4. /\ at = "relay" /\ pkt.header # "oob" => Fits(relay)
      /\ pkt.header # "oob" => Fits(end)
  BY <1>1, <1>2 DEF ReaderInv
<1>5. relay \in Contexts /\ end \in Contexts /\ Below(relay, format) /\ Below(end, format)
  BY <1>1 DEF TypeOK, GrowthInv
<1>6. at = "relay" => ReadSoFar(relay, ParsePacket(relay, pkt), Len(pkt.cmds))
  BY <1>1, <1>2, <1>4, <1>5, PacketRead
<1>7. ReadSoFar(end, ParsePacket(end, pkt), Len(pkt.cmds))
  BY <1>1, <1>2, <1>4, <1>5, PacketRead
<1> QED
  BY <1>2, <1>3, <1>4, <1>6, <1>7

\* What the relay writes: the commands of the packet, each as it came.  Only the first can
\* have another context than it was written in, and it is then one that all contexts fit.
LEMMA RelayWrites ==
  ASSUME IInv, RelayPacket
  PROVE  /\ pkt'.header = pkt.header /\ pkt'.cmds \in Seq(Written)
         /\ Len(pkt'.cmds) = Len(pkt.cmds) /\ DOMAIN pkt'.cmds = DOMAIN pkt.cmds
         /\ \A i \in DOMAIN pkt.cmds :
              /\ pkt'.cmds[i].c = pkt.cmds[i].c
              /\ pkt'.cmds[i].f = IF i = 1 THEN relay ELSE pkt.cmds[i].f
              /\ Bytes(pkt'.cmds[i].f, pkt'.cmds[i].c) = Bytes(pkt.cmds[i].f, pkt.cmds[i].c)
              /\ Known(pkt'.cmds[i])
              /\ pkt.header # "oob" => After(pkt'.cmds[i]) = After(pkt.cmds[i])
         /\ relay' = IF pkt.header = "oob" THEN relay ELSE format
<1> DEFINE r == ParsePacket(relay, pkt)
           n == Len(pkt.cmds)
<1>1. /\ at = "relay" /\ r.err = "none" /\ relay' = r.ctx
      /\ pkt' = [header |-> pkt.header, cmds |-> r.cmds]
  BY DEF RelayPacket, Rewritten
<1>2. /\ ReadSoFar(relay, r, n) /\ pkt.cmds \in Seq(Written) /\ n \in Nat \ {0}
      /\ DOMAIN pkt.cmds = 1..n /\ pkt.header \in {"oob", "seq", "bare"}
      /\ pkt.header # "oob" => Fits(relay)
  BY <1>1, UnderWay
<1>3. PacketInv /\ stream \in DOMAIN Streams /\ relay \in Contexts
  BY DEF IInv, TypeOK
<1> HIDE DEF r, n
<1>4. /\ r.cmds \in Seq(Written) /\ Len(r.cmds) = n
      /\ \A i \in 1..n : r.cmds[i] = Taken(relay, i) /\ Known(pkt.cmds[i])
      /\ relay' = IF pkt.header = "oob" THEN relay ELSE After(pkt.cmds[n])
  <2>1. r.err = IF \A i \in 1..n : Known(pkt.cmds[i]) THEN "none" ELSE "unknown"
    BY <1>2 DEF ReadSoFar
  <2>2. \A i \in 1..n : Known(pkt.cmds[i])
    BY <1>1, <2>1
  <2> QED
    BY <1>1, <1>2, <2>2 DEF ReadSoFar
<1>5. /\ pkt'.header = pkt.header /\ pkt'.cmds = r.cmds /\ DOMAIN pkt'.cmds = 1..n
  BY <1>1, <1>2, <1>4
<1>6. ASSUME NEW i \in 1..n
      PROVE  /\ pkt'.cmds[i].c = pkt.cmds[i].c
             /\ pkt'.cmds[i].f = IF i = 1 THEN relay ELSE pkt.cmds[i].f
             /\ Bytes(pkt'.cmds[i].f, pkt'.cmds[i].c) = Bytes(pkt.cmds[i].f, pkt.cmds[i].c)
             /\ Known(pkt'.cmds[i])
             /\ pkt.header # "oob" => After(pkt'.cmds[i]) = After(pkt.cmds[i])
  <2> DEFINE x == pkt.cmds[i]
             f == IF i = 1 THEN relay ELSE x.f
  <2>1. x \in Written /\ x.c \in Commands /\ x.f \in Contexts /\ f \in Contexts
    <3>1. x \in Written
      BY <1>2 DEF n
    <3>2. x.c \in Commands /\ x.f \in Contexts
      BY <3>1 DEF Written
    <3> QED
      BY <1>3, <3>1, <3>2
  <2>2. pkt'.cmds[i] = [c |-> x.c, f |-> f]
    BY <1>4, <1>5 DEF Taken
  <2>3. /\ f = x.f \/ x.c.op = "serverdata" \/ x.c.op \in ConnectionlessOps
        /\ pkt.header # "oob" => f = x.f \/ x.c.op = "serverdata"
    <3>1. CASE i # 1
      BY <3>1
    <3>2. CASE i = 1 /\ pkt.header = "oob"
      BY <1>3, <3>2 DEF PacketInv
    <3>3. CASE i = 1 /\ pkt.header # "oob"
      BY <1>2, <3>3 DEF Fits
    <3> QED
      BY <3>1, <3>2, <3>3
  <2> HIDE DEF f
  <2>4. Parse(f, x.c) = Parse(x.f, x.c) /\ Bytes(f, x.c) = Bytes(x.f, x.c)
    BY <1>3, <2>1, <2>3, SameReading
  <2>5. Known(x)
    BY <1>4
  <2>6. Known(pkt'.cmds[i])
    BY <2>2, <2>4, <2>5 DEF Known
  <2>7. pkt.header # "oob" => After(pkt'.cmds[i]) = After(x)
    BY <2>2, <2>3 DEF After
  <2>8. pkt'.cmds[i].c = x.c /\ pkt'.cmds[i].f = f
    BY <2>2
  <2> QED
    BY <2>4, <2>6, <2>7, <2>8 DEF f
<1>7. pkt.header # "oob" => After(pkt.cmds[n]) = format
  BY <1>2, <1>3 DEF PacketInv, n
<1> QED
  BY <1>2, <1>4, <1>5, <1>6, <1>7 DEF n

\* The relay reads the packet in step, writes it as it came, and has the origin's format after it.
LEMMA RelayPacketInv ==
  ASSUME IInv, RelayPacket
  PROVE  IInv'
<1> DEFINE n == Len(pkt.cmds)
<1>1. TypeOK /\ GrowthInv /\ PacketInv /\ ReaderInv
  BY DEF IInv
<1>2. /\ at = "relay" /\ at' = "end" /\ stream' = stream /\ format' = format
      /\ announced' = announced /\ end' = end
      /\ pkt' = [header |-> pkt.header, cmds |-> ParsePacket(relay, pkt).cmds]
  BY DEF RelayPacket, Rewritten
<1>3. /\ pkt.cmds \in Seq(Written) /\ n \in Nat \ {0} /\ DOMAIN pkt.cmds = 1..n
      /\ pkt.header \in {"oob", "seq", "bare"}
      /\ pkt.header # "oob" => Fits(relay) /\ Fits(end)
  BY <1>2, UnderWay
<1>4. /\ pkt'.header = pkt.header /\ pkt'.cmds \in Seq(Written)
      /\ Len(pkt'.cmds) = n /\ DOMAIN pkt'.cmds = 1..n
      /\ \A i \in 1..n :
           /\ pkt'.cmds[i].c = pkt.cmds[i].c
           /\ pkt'.cmds[i].f = IF i = 1 THEN relay ELSE pkt.cmds[i].f
           /\ Known(pkt'.cmds[i])
           /\ pkt.header # "oob" => After(pkt'.cmds[i]) = After(pkt.cmds[i])
      /\ relay' = IF pkt.header = "oob" THEN relay ELSE format
  BY <1>3, RelayWrites
<1> HIDE DEF n
<1>5. TypeOK'
  <2>1. relay' \in Contexts
    BY <1>1, <1>4 DEF TypeOK
  <2>2. pkt' \in [header : {"none", "oob", "seq", "bare"}, cmds : Seq(Written)]
    BY <1>2, <1>3, <1>4
  <2> QED
    BY <1>1, <1>2, <2>1, <2>2, SameStream DEF TypeOK
<1>6. GrowthInv'
  <2>1. Below(relay', format) /\ Below(end, format) /\ Below(relay, format)
    BY <1>1, <1>4 DEF GrowthInv, Below
  <2>2. ASSUME NEW i \in 1..n
        PROVE  /\ Below(pkt'.cmds[i].f, format)
               /\ pkt'.cmds[i].c.op = "serverdata" =>
                    Below(pkt'.cmds[i].f, pkt'.cmds[i].c.ext) /\ Below(pkt'.cmds[i].c.ext, format)
    <3>1. /\ Below(pkt.cmds[i].f, format)
          /\ pkt.cmds[i].c.op = "serverdata" =>
               Below(pkt.cmds[i].f, pkt.cmds[i].c.ext) /\ Below(pkt.cmds[i].c.ext, format)
      BY <1>1, <1>3 DEF GrowthInv
    <3>2. CASE i # 1
      BY <1>4, <3>1, <3>2
    <3>3. CASE i = 1
      <4>1. pkt.header = "oob" => pkt.cmds[i].c.op # "serverdata"
        BY <1>1, <3>3 DEF PacketInv, ConnectionlessOps
      <4>2. pkt.header # "oob" /\ pkt.cmds[i].c.op = "serverdata" => Below(relay, pkt.cmds[i].c.ext)
        BY <1>3, <3>3 DEF Fits
      <4> QED
        BY <1>4, <2>1, <3>1, <3>3, <4>1, <4>2
    <3> QED
      BY <3>2, <3>3
  <2>3. \A j \in DOMAIN pkt'.cmds : j \in 1..n
    BY <1>4
  <2>4. format' = format /\ end' = end
    BY <1>2
  <2>5. \A j \in DOMAIN pkt'.cmds :
           /\ Below(pkt'.cmds[j].f, format')
           /\ pkt'.cmds[j].c.op = "serverdata" =>
                Below(pkt'.cmds[j].f, pkt'.cmds[j].c.ext) /\ Below(pkt'.cmds[j].c.ext, format')
    BY <2>2, <2>3, <2>4
  <2> QED
    BY <2>1, <2>4, <2>5 DEF GrowthInv
<1>7. PacketInv'
  <2>1. CASE pkt.header = "oob"
    <3>1. n = 1 /\ pkt.cmds[1].c.op \in ConnectionlessOps
      BY <1>1, <2>1 DEF PacketInv, n
    <3>2. Len(pkt'.cmds) = 1 /\ pkt'.cmds[1].c.op \in ConnectionlessOps
      BY <1>4, <3>1
    <3> QED
      BY <1>4, <2>1, <3>2 DEF PacketInv
  <2>2. CASE pkt.header # "oob"
    <3>1. /\ pkt.header \in {"seq", "bare"}
          /\ (pkt.header = "seq") = (kind \notin {"mvd", "dem"})
          /\ \A i \in 1..n : pkt.cmds[i].c.op \notin ConnectionlessOps
          /\ \A i \in 1..n : i > 1 => pkt.cmds[i].f = After(pkt.cmds[i - 1])
          /\ After(pkt.cmds[n]) = format
          /\ (\A i \in 1..n : pkt.cmds[i].c.op # "serverdata") => pkt.cmds[1].f = format
      BY <1>1, <1>3, <2>2 DEF PacketInv, n
    <3>2. 1 \in 1..n /\ n \in 1..n
      BY <1>3
    <3>3. \A i \in 1..n : i > 1 => pkt'.cmds[i].f = After(pkt'.cmds[i - 1])
      <4> SUFFICES ASSUME NEW i \in 1..n, i > 1
                   PROVE  pkt'.cmds[i].f = After(pkt'.cmds[i - 1])
        OBVIOUS
      <4>1. i - 1 \in 1..n /\ i # 1
        BY <1>3
      <4> QED
        BY <1>4, <2>2, <3>1, <4>1
    <3>4. \A i \in DOMAIN pkt'.cmds : i > 1 => pkt'.cmds[i].f = After(pkt.cmds[i - 1])'
      BY <1>2, <1>4, <3>3, SameStream
    <3>5. After(pkt'.cmds[n]) = format'
      BY <1>2, <1>4, <2>2, <3>1, <3>2
    <3>6. After(pkt.cmds[Len(pkt.cmds)])' = format'
      BY <1>2, <1>4, <3>5, SameStream
    <3>7. \A i \in 1..n : pkt'.cmds[i].c.op \notin ConnectionlessOps
      BY <1>4, <3>1
    <3>8. ASSUME \A i \in 1..n : pkt'.cmds[i].c.op # "serverdata"
          PROVE  pkt'.cmds[1].f = format'
      <4>1. \A i \in 1..n : pkt.cmds[i].c.op # "serverdata"
        BY <1>4, <3>8
      <4>2. relay = pkt.cmds[1].f
        BY <1>3, <2>2, <3>2, <4>1 DEF Fits
      <4> QED
        BY <1>2, <1>4, <3>1, <3>2, <4>1, <4>2
    <3>9. (pkt'.header = "seq") = (kind' \notin {"mvd", "dem"})
      BY <1>2, <1>4, <3>1, SameStream
    <3>10. pkt'.cmds # <<>> /\ pkt'.header # "none" /\ pkt'.header # "oob"
      BY <1>3, <1>4, <2>2
    <3> QED
      BY <1>4, <3>4, <3>6, <3>7, <3>8, <3>9, <3>10 DEF PacketInv
  <2> QED
    BY <2>1, <2>2
<1>8. ReaderInv'
  <2>1. 1 \in 1..n
    BY <1>3
  <2>2. CASE pkt.header = "oob"
    BY <1>1, <1>2, <1>4, <2>2 DEF ReaderInv
  <2>3. CASE pkt.header # "oob"
    <3>1. /\ pkt'.cmds[1].c = pkt.cmds[1].c /\ pkt'.cmds[1].f = relay
          /\ relay' = format /\ pkt'.header \in {"seq", "bare"}
      BY <1>3, <1>4, <2>1, <2>3
    <3>2. IF pkt'.cmds[1].c.op = "serverdata" THEN Below(end, pkt'.cmds[1].c.ext)
                                              ELSE end = pkt'.cmds[1].f
      BY <1>3, <2>3, <3>1 DEF Fits
    <3> QED
      BY <1>2, <3>1, <3>2 DEF ReaderInv, Fits, Below
  <2> QED
    BY <2>2, <2>3
<1>9. KnownInv'
  <2>1. \A i \in DOMAIN pkt'.cmds : Known(pkt.cmds[i])'
    BY <1>2, <1>4, SameStream
  <2> QED
    BY <2>1 DEF KnownInv
<1> QED
  BY <1>5, <1>6, <1>7, <1>8, <1>9 DEF IInv

\* After a packet the format is what the readers have, unless they have missed a serverdata.
LEMMA DropPacketInv ==
  ASSUME IInv, DropPacket
  PROVE  IInv'
<1> DEFINE r == ParsePacket(relay, pkt)
           n == Len(pkt.cmds)
<1>1. TypeOK /\ GrowthInv /\ PacketInv /\ ReaderInv
  BY DEF IInv
<1>2. /\ at = "relay" /\ relay' = r.ctx
      /\ announced' = (announced /\ \A i \in DOMAIN pkt.cmds : pkt.cmds[i].c.op # "serverdata")
      /\ pkt' = NoPacket /\ at' = "origin"
      /\ stream' = stream /\ format' = format /\ end' = end
  BY DEF DropPacket
<1>3. /\ ReadSoFar(relay, r, n) /\ pkt.cmds \in Seq(Written) /\ n \in Nat \ {0}
      /\ DOMAIN pkt.cmds = 1..n /\ pkt.header \in {"oob", "seq", "bare"}
      /\ pkt.header # "oob" => Fits(relay) /\ Fits(end)
  BY <1>2, UnderWay
<1> HIDE DEF r, n
<1>4. r.ctx \in Contexts /\ Below(r.ctx, format)
  BY <1>3 DEF ReadSoFar
<1>5. pkt'.header = "none" /\ pkt'.cmds = <<>>
  BY <1>2 DEF NoPacket
<1>6. TypeOK'
  <2>1. pkt' \in [header : {"none", "oob", "seq", "bare"}, cmds : Seq(Written)]'
    BY <1>2 DEF NoPacket
  <2>2. announced' \in BOOLEAN
    BY <1>2
  <2> QED
    BY <1>1, <1>2, <1>4, <2>1, <2>2, SameStream DEF TypeOK
<1>7. GrowthInv'
  BY <1>1, <1>2, <1>4, <1>5 DEF GrowthInv, Below
<1>8. PacketInv'
  BY <1>2, <1>5 DEF PacketInv
<1>9. ReaderInv'
  <2>1. ASSUME announced, \A i \in 1..n : pkt.cmds[i].c.op # "serverdata"
        PROVE  r.ctx = format /\ end = format
    <3>1. r.ctx = relay
      BY <1>3, <2>1 DEF ReadSoFar
    <3>2. CASE pkt.header = "oob"
      BY <1>1, <2>1, <3>1, <3>2 DEF ReaderInv
    <3>3. CASE pkt.header # "oob"
      <4>1. 1 \in 1..n
        BY <1>3
      <4>2. relay = pkt.cmds[1].f /\ end = pkt.cmds[1].f
        BY <1>3, <2>1, <3>3, <4>1 DEF Fits
      <4>3. pkt.cmds[1].f = format
        BY <1>1, <1>3, <2>1, <3>3 DEF PacketInv
      <4> QED
        BY <3>1, <4>2, <4>3
    <3> QED
      BY <3>2, <3>3
  <2> QED
    BY <1>2, <1>3, <1>5, <2>1 DEF ReaderInv
<1>10. KnownInv'
  BY <1>2 DEF KnownInv
<1> QED
  BY <1>6, <1>7, <1>8, <1>9, <1>10 DEF IInv

\* The reader at the other end comes to the context of the relay, by the same commands.
LEMMA ReadPacketInv ==
  ASSUME IInv, ReadPacket
  PROVE  IInv'
<1> DEFINE r == ParsePacket(end, pkt)
           n == Len(pkt.cmds)
<1>1. TypeOK /\ GrowthInv /\ PacketInv /\ ReaderInv
  BY DEF IInv
<1>2. /\ at = "end" /\ r.err = "none" /\ end' = r.ctx /\ pkt' = NoPacket /\ at' = "origin"
      /\ stream' = stream /\ format' = format /\ announced' = announced /\ relay' = relay
  BY DEF ReadPacket
<1>3. /\ ReadSoFar(end, r, n) /\ pkt.cmds \in Seq(Written) /\ n \in Nat \ {0}
      /\ DOMAIN pkt.cmds = 1..n /\ pkt.header \in {"oob", "seq", "bare"}
  BY <1>2, UnderWay
<1> HIDE DEF r, n
<1>4. /\ r.ctx \in Contexts /\ Below(r.ctx, format)
      /\ r.ctx = IF pkt.header = "oob" THEN end ELSE After(pkt.cmds[n])
  BY <1>2, <1>3 DEF ReadSoFar
<1>5. pkt'.header = "none" /\ pkt'.cmds = <<>>
  BY <1>2 DEF NoPacket
<1>6. TypeOK'
  <2>1. pkt' \in [header : {"none", "oob", "seq", "bare"}, cmds : Seq(Written)]'
    BY <1>2 DEF NoPacket
  <2> QED
    BY <1>1, <1>2, <1>4, <2>1, SameStream DEF TypeOK
<1>7. GrowthInv'
  BY <1>1, <1>2, <1>4, <1>5 DEF GrowthInv, Below
<1>8. PacketInv'
  BY <1>2, <1>5 DEF PacketInv
<1>9. ReaderInv'
  <2>1. CASE pkt.header = "oob"
    BY <1>1, <1>2, <1>4, <1>5, <2>1 DEF ReaderInv
  <2>2. CASE pkt.header # "oob"
    <3>1. relay = format
      BY <1>1, <1>2, <1>3, <2>2 DEF ReaderInv
    <3>2. After(pkt.cmds[n]) = format
      BY <1>1, <1>3, <2>2 DEF PacketInv, n
    <3> QED
      BY <1>2, <1>4, <1>5, <2>2, <3>1, <3>2 DEF ReaderInv
  <2> QED
    BY <2>1, <2>2
<1>10. KnownInv'
  BY <1>2 DEF KnownInv
<1> QED
  BY <1>6, <1>7, <1>8, <1>9, <1>10 DEF IInv

\* A step that changes nothing keeps the invariant.
LEMMA StutterInv ==
  ASSUME IInv, UNCHANGED vars
  PROVE  IInv'
<1>1. TypeOK /\ GrowthInv /\ PacketInv /\ ReaderInv /\ KnownInv
  BY DEF IInv
<1>2. /\ stream' = stream /\ format' = format /\ announced' = announced
      /\ relay' = relay /\ end' = end /\ pkt' = pkt /\ at' = at
  BY DEF vars
<1>3. TypeOK'
  BY <1>1, <1>2, SameStream DEF TypeOK
<1>4. GrowthInv'
  BY <1>1, <1>2 DEF GrowthInv, Below
<1>5. PacketInv'
  <2>1. \A i \in DOMAIN pkt.cmds : After(pkt.cmds[i - 1])' = After(pkt.cmds[i - 1])
    BY <1>2, SameStream
  <2>2. After(pkt.cmds[Len(pkt.cmds)])' = After(pkt.cmds[Len(pkt.cmds)])
    BY <1>2, SameStream
  <2>3. kind' = kind
    BY <1>2, SameStream
  <2> QED
    BY <1>1, <1>2, <2>1, <2>2, <2>3 DEF PacketInv
<1>6. ReaderInv'
  BY <1>1, <1>2 DEF ReaderInv, Fits, Below
<1>7. KnownInv'
  <2>1. \A i \in DOMAIN pkt.cmds : Known(pkt.cmds[i])' <=> Known(pkt.cmds[i])
    BY <1>2, SameStream
  <2>2. at' = at /\ (DOMAIN pkt.cmds)' = DOMAIN pkt.cmds
    BY <1>2
  <2> QED
    BY <1>1, <2>1, <2>2 DEF KnownInv
<1> QED
  BY <1>3, <1>4, <1>5, <1>6, <1>7 DEF IInv

\* Every step keeps the invariant, as long as no serverdata takes extensions back.
LEMMA NextInv ==
  ASSUME ~MayShrink, IInv, [Next]_vars
  PROVE  IInv'
<1>1. CASE \E c \in Streams[stream].cmds : AddCommand(c) \/ AddConnectionless(c)
  BY <1>1, AddCommandInv, AddConnectionlessInv DEF Commands
<1>2. CASE SendPacket
  BY <1>2, SendPacketInv
<1>3. CASE RelayPacket
  BY <1>3, RelayPacketInv
<1>4. CASE DropPacket
  BY <1>4, DropPacketInv
<1>5. CASE ReadPacket
  BY <1>5, ReadPacketInv
<1>6. CASE UNCHANGED vars
  BY <1>6, StutterInv
<1> QED
  BY <1>1, <1>2, <1>3, <1>4, <1>5, <1>6 DEF Next

-----------------------------------------------------------------------------
(* The theorems: no later serverdata takes extensions back.                *)

\* Neither reader ever takes other fields from a packet than were written in it.
THEOREM InStepTheorem == ~MayShrink /\ Spec => []InStep
<1> SUFFICES ASSUME ~MayShrink PROVE Spec => []InStep
  OBVIOUS
<1>1. IInv => InStep
  <2> SUFFICES ASSUME IInv PROVE InStep
    OBVIOUS
  <2>1. ASSUME at = "relay"
        PROVE  ParsePacket(relay, pkt).err # "desync"
    <3>1. ReadSoFar(relay, ParsePacket(relay, pkt), Len(pkt.cmds))
      BY <2>1, UnderWay
    <3>2. ParsePacket(relay, pkt).err \in {"none", "unknown"}
      BY <3>1 DEF ReadSoFar
    <3> QED
      BY <3>2
  <2>2. ASSUME at = "end"
        PROVE  ParsePacket(end, pkt).err = "none"
    <3>1. /\ ReadSoFar(end, ParsePacket(end, pkt), Len(pkt.cmds))
          /\ DOMAIN pkt.cmds = 1..Len(pkt.cmds)
      BY <2>2, UnderWay
    <3>2. \A i \in 1..Len(pkt.cmds) : Known(pkt.cmds[i])
      BY <2>2, <3>1 DEF IInv, KnownInv
    <3> QED
      BY <3>1, <3>2 DEF ReadSoFar
  <2> QED
    BY <2>1, <2>2 DEF InStep
<1>2. IInv /\ [Next]_vars => IInv'
  BY NextInv
<1> QED
  BY <1>1, <1>2, InitInv, PTL DEF Spec

\* Between packets both readers have the same context, once a serverdata has arrived.
THEOREM ContextsTheorem == ~MayShrink /\ Spec => []ContextsAgree
<1> SUFFICES ASSUME ~MayShrink PROVE Spec => []ContextsAgree
  OBVIOUS
<1>1. IInv => ContextsAgree
  BY DEF IInv, ReaderInv, ContextsAgree, NoPacket
<1>2. IInv /\ [Next]_vars => IInv'
  BY NextInv
<1> QED
  BY <1>1, <1>2, InitInv, PTL DEF Spec

\* A packet leaves the relay byte for byte as it came.
THEOREM TransparentTheorem == ~MayShrink /\ Spec => Transparent
<1> SUFFICES ASSUME ~MayShrink PROVE Spec => Transparent
  OBVIOUS
<1>1. IInv /\ [Next]_vars => [at = "relay" /\ at' = "end" => Wire(pkt') = Wire(pkt)]_vars
  <2> SUFFICES ASSUME IInv, [Next]_vars, at = "relay", at' = "end"
               PROVE  Wire(pkt') = Wire(pkt)
    OBVIOUS
  <2>1. RelayPacket
    BY DEF Next, AddCommand, AddConnectionless, SendPacket, DropPacket, ReadPacket, vars
  <2>2. /\ pkt'.header = pkt.header /\ DOMAIN pkt'.cmds = DOMAIN pkt.cmds
        /\ \A i \in DOMAIN pkt.cmds :
             /\ pkt'.cmds[i].c = pkt.cmds[i].c
             /\ Bytes(pkt'.cmds[i].f, pkt'.cmds[i].c) = Bytes(pkt.cmds[i].f, pkt.cmds[i].c)
    BY <2>1, RelayWrites
  <2>3. [i \in DOMAIN pkt'.cmds |-> <<pkt'.cmds[i].c.op, Bytes(pkt'.cmds[i].f, pkt'.cmds[i].c)>>]
        = [i \in DOMAIN pkt.cmds |-> <<pkt.cmds[i].c.op, Bytes(pkt.cmds[i].f, pkt.cmds[i].c)>>]
    BY <2>2
  <2> QED
    BY <2>2, <2>3 DEF Wire
<1>2. IInv /\ [Next]_vars => IInv'
  BY NextInv
<1> QED
  BY <1>1, <1>2, InitInv, PTL DEF Spec, Transparent
=============================================================================
