----------------------------- MODULE SvcCommands ----------------------------
(***************************************************************************)
(* The commands a server sends (packet/svc, packet/command): for each one  *)
(* what Bytes writes after the type, given f, the part of a context that   *)
(* Parse copied into the command, and what Parse reads, given the context  *)
(* of the reader.  Both sides are taken from their own function.           *)
(*                                                                         *)
(* A command c is [op, bits, n, ext]: its type, the flags set in its       *)
(* bitmasks, the count, size or version it carries, and the extensions     *)
(* that a serverdata announces.                                            *)
(***************************************************************************)
EXTENDS WireLayout

\* Types without a payload.
SignalOps == {"bad", "nop", "killedmonster", "foundsecret", "sellscreen", "smallkick", "bigkick"}

disconnectBytes(f, c) == Opt(f.isMVD \/ f.isQWD, Str("String"))
disconnectParse(ctx, c) == Opt(ctx.isQWD \/ ctx.isMVD, Str("String"))

updatestatBytes(f, c) == U8("Stat") \o IF IsNQ(f) THEN U32("Value32") ELSE U8("Value8")
updatestatParse(ctx, c) == U8("Stat") \o IF IsNQ(ctx) THEN U32("Value32") ELSE U8("Value8")

versionBytes(f, c) == U32("Version")
versionParse(ctx, c) == U32("Version")

setviewBytes(f, c) == U16("ViewEntity")
setviewParse(ctx, c) == U16("ViewEntity")

soundBytes(f, c) ==
  IF IsNQ(f)
  THEN U8("Bits") \o Opt("NQSoundVolume" \in c.bits, U8("Volume"))
       \o Opt("NQSoundAttenuation" \in c.bits, U8("Attenuation"))
       \o U16("Channel") \o U8("SoundIndex") \o Vec3("coord16", "Coord")
  ELSE U16("Channel") \o Opt("SoundVolume" \in c.bits, U8("Volume"))
       \o Opt("SoundAttenuation" \in c.bits, U8("Attenuation"))
       \o U8("SoundNum") \o Vec3(CoordKind(f), "Coord")
soundParse(ctx, c) ==
  IF IsNQ(ctx)
  THEN U8("Bits") \o Opt("NQSoundVolume" \in c.bits, U8("Volume"))
       \o Opt("NQSoundAttenuation" \in c.bits, U8("Attenuation"))
       \o U16("Channel") \o U8("SoundIndex") \o Vec3("coord16", "Coord")
  ELSE U16("Channel") \o Opt("SoundVolume" \in c.bits, U8("Volume"))
       \o Opt("SoundAttenuation" \in c.bits, U8("Attenuation"))
       \o U8("SoundNum") \o Vec3(CoordKind(ctx), "Coord")

timeBytes(f, c) == F32("Time")
timeParse(ctx, c) == F32("Time")

printBytes(f, c) == Opt(~IsNQ(f), U8("ID")) \o Str("String")
printParse(ctx, c) == Opt(~IsNQ(ctx), U8("ID")) \o Str("String")

stufftextBytes(f, c) == Str("String")
stufftextParse(ctx, c) == Str("String")

setangleBytes(f, c) ==
  Opt(f.isMVD \/ "HighLagTeleport" \in f.mvd, U8("MVDAngleIndex")) \o Vec3(AngleKind(f), "Angle")
setangleParse(ctx, c) ==
  Opt(ctx.isMVD \/ "HighLagTeleport" \in ctx.mvd, U8("MVDAngleIndex"))
  \o Vec3(AngleKind(ctx), "Angle")

lightstyleBytes(f, c) == U8("Index") \o Str("Command")
lightstyleParse(ctx, c) == U8("Index") \o Str("Command")

updatenameBytes(f, c) == U8("PlayerIndex") \o Str("Name")
updatenameParse(ctx, c) == U8("PlayerIndex") \o Str("Name")

updatefragsBytes(f, c) == U8("PlayerIndex") \o U16("Frags")
updatefragsParse(ctx, c) == U8("PlayerIndex") \o U16("Frags")

stopsoundBytes(f, c) == U16("SoundIndex")
stopsoundParse(ctx, c) == U16("SoundIndex")

updatecolorsBytes(f, c) == U8("PlayerIndex") \o U8("Color")
updatecolorsParse(ctx, c) == U8("PlayerIndex") \o U8("Color")

particleBytes(f, c) ==
  Vec3(CoordKind(f), "Coord") \o Vec3(AngleKind(f), "Angle") \o U8("Count") \o U8("Color")
particleParse(ctx, c) ==
  Vec3(CoordKind(ctx), "Coord") \o Vec3(AngleKind(ctx), "Angle") \o U8("Count") \o U8("Color")

damageBytes(f, c) == U8("Armor") \o U8("Blood") \o Vec3(CoordKind(f), "Coord")
damageParse(ctx, c) == U8("Armor") \o U8("Blood") \o Vec3(CoordKind(ctx), "Coord")

baselineBytes(f, c) ==
  U8("ModelIndex") \o U8("Frame") \o U8("ColorMap") \o U8("SkinNum")
  \o At(CoordKind(f), "Coord", 1) \o At(AngleKind(f), "Angle", 1)
  \o At(CoordKind(f), "Coord", 2) \o At(AngleKind(f), "Angle", 2)
  \o At(CoordKind(f), "Coord", 3) \o At(AngleKind(f), "Angle", 3)
baselineParse(ctx, c) ==
  U8("ModelIndex") \o U8("Frame") \o U8("ColorMap") \o U8("SkinNum")
  \o At(CoordKind(ctx), "Coord", 1) \o At(AngleKind(ctx), "Angle", 1)
  \o At(CoordKind(ctx), "Coord", 2) \o At(AngleKind(ctx), "Angle", 2)
  \o At(CoordKind(ctx), "Coord", 3) \o At(AngleKind(ctx), "Angle", 3)

spawnstaticBytes(f, c) == baselineBytes(f, c)
spawnstaticParse(ctx, c) == baselineParse(ctx, c)

spawnbaselineBytes(f, c) == U16("Index") \o baselineBytes(f, c)
spawnbaselineParse(ctx, c) == U16("Index") \o baselineParse(ctx, c)

setpauseBytes(f, c) == U8("Paused")
setpauseParse(ctx, c) == U8("Paused")

signonnumBytes(f, c) == U8("PlayerIndex")
signonnumParse(ctx, c) == U8("PlayerIndex")

centerprintBytes(f, c) == Str("String")
centerprintParse(ctx, c) == Str("String")

spawnstaticsoundBytes(f, c) ==
  Vec3(CoordKind(f), "Coord") \o U8("SoundIndex") \o U8("Volume") \o U8("Attenuation")
spawnstaticsoundParse(ctx, c) ==
  Vec3(CoordKind(ctx), "Coord") \o U8("SoundIndex") \o U8("Volume") \o U8("Attenuation")

intermissionBytes(f, c) == Vec3(CoordKind(f), "Coord") \o Vec3(AngleKind(f), "Angle")
intermissionParse(ctx, c) == Vec3(CoordKind(ctx), "Coord") \o Vec3(AngleKind(ctx), "Angle")

finaleBytes(f, c) == Str("String")
finaleParse(ctx, c) == Str("String")

cdtrackBytes(f, c) == U8("Track") \o Opt(IsNQ(f), U8("Loop"))
cdtrackParse(ctx, c) == U8("Track") \o Opt(IsNQ(ctx), U8("Loop"))

updatepingBytes(f, c) == U8("PlayerIndex") \o U16("Ping")
updatepingParse(ctx, c) == U8("PlayerIndex") \o U16("Ping")

updateentertimeBytes(f, c) == U8("PlayerIndex") \o F32("EnterTime")
updateentertimeParse(ctx, c) == U8("PlayerIndex") \o F32("EnterTime")

updatestatlongBytes(f, c) == U8("Stat") \o U32("Value")
updatestatlongParse(ctx, c) == U8("Stat") \o U32("Value")

muzzleflashBytes(f, c) == U16("PlayerIndex")
muzzleflashParse(ctx, c) == U16("PlayerIndex")

updateuserinfoBytes(f, c) == U8("PlayerIndex") \o U32("UserID") \o Str("UserInfo")
updateuserinfoParse(ctx, c) == U8("PlayerIndex") \o U32("UserID") \o Str("UserInfo")

chokecountBytes(f, c) == U8("Count")
chokecountParse(ctx, c) == U8("Count")

maxspeedBytes(f, c) == F32("Command")
maxspeedParse(ctx, c) == F32("Command")

entgravityBytes(f, c) == F32("EntGravity")
entgravityParse(ctx, c) == F32("EntGravity")

setinfoBytes(f, c) == U8("PlayerIndex") \o Str("Key") \o Str("Value")
setinfoParse(ctx, c) == U8("PlayerIndex") \o Str("Key") \o Str("Value")

serverinfoBytes(f, c) == Str("Key") \o Str("Value")
serverinfoParse(ctx, c) == Str("Key") \o Str("Value")

updateplBytes(f, c) == U8("PlayerIndex") \o U8("PL")
updateplParse(ctx, c) == U8("PlayerIndex") \o U8("PL")

-----------------------------------------------------------------------------
(* Lists, blocks and downloads: c.n is the number of their elements.       *)

nailsBytes(f, c) == U8("Count") \o Repeat(c.n, Raw("Bits", 6))
nailsParse(ctx, c) == U8("Count") \o Repeat(c.n, Raw("Bits", 6))

nails2Bytes(f, c) == U8("Count") \o Repeat(c.n, U8("Index") \o Raw("Bits", 6))
nails2Parse(ctx, c) == U8("Count") \o Repeat(c.n, U8("Index") \o Raw("Bits", 6))

modellistBytes(f, c) ==
  IF f.pv >= 26 THEN U8("NumModels") \o Strings("Models", c.n) \o U8("Index")
                ELSE Strings("Models", c.n)
modellistParse(ctx, c) ==
  IF ctx.pv >= 26 THEN U8("NumModels") \o Strings("Models", c.n) \o U8("Index")
                  ELSE Strings("Models", c.n)

soundlistBytes(f, c) ==
  IF f.pv >= 26 THEN U8("NumSounds") \o Strings("Sounds", c.n) \o U8("Index")
                ELSE Strings("Sounds", c.n)
soundlistParse(ctx, c) ==
  IF ctx.pv >= 26 THEN U8("NumSounds") \o Strings("Sounds", c.n) \o U8("Index")
                  ELSE Strings("Sounds", c.n)

\* "Last" marks the chunk number -1 (a chunked download) or the size -1 (a plain one).
downloadBytes(f, c) ==
  IF "ChunkedDownloads" \in f.fte
  THEN U32("Number") \o IF "Last" \in c.bits THEN U32("Size32") \o Str("Name")
                                             ELSE Raw("Data", 1024)
  ELSE U16("Size16") \o U8("Percent")
       \o Opt("Last" \notin c.bits /\ c.n > 0, Raw("Data", c.n))
downloadParse(ctx, c) ==
  IF "ChunkedDownloads" \in ctx.fte
  THEN U32("Number") \o IF "Last" \in c.bits THEN U32("Size32") \o Str("Name")
                                             ELSE Raw("Data", 1024)
  ELSE U16("Size16") \o U8("Percent")
       \o Opt("Last" \notin c.bits /\ c.n > 0, Raw("Data", c.n))

qizmostringBytes(f, c) == Str("String")
qizmostringParse(ctx, c) == Str("String")

qizmoblockBytes(f, c) == Raw("Data", 162)
qizmoblockParse(ctx, c) == Raw("Data", 162)

qizmovoiceBytes(f, c) == Raw("Data", 34)
qizmovoiceParse(ctx, c) == Raw("Data", 34)

ftemodellistBytes(f, c) == U16("NumModels") \o Strings("Models", c.n) \o U8("More")
ftemodellistParse(ctx, c) == U16("NumModels") \o Strings("Models", c.n) \o U8("More")

ftevoicechatsBytes(f, c) ==
  U8("Sender") \o U8("Gen") \o U8("Seq") \o U16("Size") \o Raw("Data", c.n)
ftevoicechatsParse(ctx, c) ==
  U8("Sender") \o U8("Gen") \o U8("Seq") \o U16("Size") \o Raw("Data", c.n)
=============================================================================
