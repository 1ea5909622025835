--------------------------- MODULE EntityCommands ---------------------------
(***************************************************************************)
(* The commands whose fields depend on bitmasks: entities, players, moves, *)
(* the NetQuake updates, and serverdata, which changes the context of its  *)
(* reader.  Same conventions as SvcCommands.                               *)
(***************************************************************************)
EXTENDS SvcCommands

clientdataBytes(f, c) ==
  U16("Bits")
  \o Opt("SUViewHeight" \in c.bits, U8("ViewHeight"))
  \o Opt("SUIdealPitch" \in c.bits, U8("IdealPitch"))
  \o Opt("SUPunch1" \in c.bits, U8("PunchAngle1"))
  \o Opt("SUVelocity1" \in c.bits, U8("Velocity1"))
  \o Opt("SUPunch2" \in c.bits, U8("PunchAngle2"))
  \o Opt("SUVelocity2" \in c.bits, U8("Velocity2"))
  \o Opt("SUPunch3" \in c.bits, U8("PunchAngle3"))
  \o Opt("SUVelocity3" \in c.bits, U8("Velocity3"))
  \o Opt("SUItems" \in c.bits, U32("Items"))
  \o Opt("SUWeaponFrame" \in c.bits, U8("WeaponFrame"))
  \o Opt("SUArmor" \in c.bits, U8("Armor"))
  \o Opt("SUWeapon" \in c.bits, U8("Weapon"))
  \o U16("Health") \o U8("ActiveAmmo") \o U8("AmmoShells") \o U8("AmmoNails")
  \o U8("AmmoRockets") \o U8("AmmoCells") \o U8("ActiveWeapon")
\* Parse reads Items whether or not SUItems is set.
clientdataParse(ctx, c) ==
  U16("Bits")
  \o Opt("SUViewHeight" \in c.bits, U8("ViewHeight"))
  \o Opt("SUIdealPitch" \in c.bits, U8("IdealPitch"))
  \o Opt("SUPunch1" \in c.bits, U8("PunchAngle1"))
  \o Opt("SUVelocity1" \in c.bits, U8("Velocity1"))
  \o Opt("SUPunch2" \in c.bits, U8("PunchAngle2"))
  \o Opt("SUVelocity2" \in c.bits, U8("Velocity2"))
  \o Opt("SUPunch3" \in c.bits, U8("PunchAngle3"))
  \o Opt("SUVelocity3" \in c.bits, U8("Velocity3"))
  \o U32("Items")
  \o Opt("SUWeaponFrame" \in c.bits, U8("WeaponFrame"))
  \o Opt("SUArmor" \in c.bits, U8("Armor"))
  \o Opt("SUWeapon" \in c.bits, U8("Weapon"))
  \o U16("Health") \o U8("ActiveAmmo") \o U8("AmmoShells") \o U8("AmmoNails")
  \o U8("AmmoRockets") \o U8("AmmoCells") \o U8("ActiveWeapon")

Lightnings == {"TELightning1", "TELightning2", "TELightning3"}

tempentityBytes(f, c) ==
  LET type == CHOOSE t \in c.bits : TRUE
      coord(x) == Vec3(CoordKind(f), x)
  IN U8("Type") \o
     CASE type \in Lightnings -> U16("Entity") \o coord("Coord") \o coord("EndCoord")
       [] type \in {"TEGunshot", "TEBlood"} ->
            Opt(~IsNQ(f), U8("Count")) \o coord("Coord")
            \o Opt(IsNQ(f) /\ type # "TEGunshot", U8("ColorStart") \o U8("ColorLength"))
       [] type = "TELightningBlood" ->
            Opt(IsNQ(f), U16("Entity")) \o coord("Coord") \o Opt(IsNQ(f), coord("EndCoord"))
       [] OTHER -> coord("Coord")
tempentityParse(ctx, c) ==
  LET type == CHOOSE t \in c.bits : TRUE
      coord(x) == Vec3(CoordKind(ctx), x)
  IN U8("Type") \o
     CASE type \in Lightnings -> U16("Entity") \o coord("Coord") \o coord("EndCoord")
       [] type \in {"TEGunshot", "TEBlood"} ->
            Opt(~IsNQ(ctx), U8("Count")) \o coord("Coord")
            \o Opt(IsNQ(ctx) /\ type # "TEGunshot", U8("ColorStart") \o U8("ColorLength"))
       [] type = "TELightningBlood" ->
            Opt(IsNQ(ctx), U16("Entity")) \o coord("Coord") \o Opt(IsNQ(ctx), coord("EndCoord"))
       [] OTHER -> coord("Coord")

\* CMMsec is the same bit as CMAngle2: the old protocol uses it for both.
deltausercommandBytes(f, c) ==
  LET move(flag, x) == Opt(flag \in c.bits, IF f.pv <= 26 THEN U8(x) ELSE U16(x))
  IN U8("CMBits")
     \o Opt("CMAngle1" \in c.bits, At("angle16", "CMAngle", 1))
     \o Opt("CMAngle2" \in c.bits, At("angle16", "CMAngle", 2))
     \o Opt("CMAngle3" \in c.bits, At("angle16", "CMAngle", 3))
     \o move("CMForward", "CMForward") \o move("CMSide", "CMSide") \o move("CMUp", "CMUp")
     \o Opt("CMButtons" \in c.bits, U8("CMButtons"))
     \o Opt("CMImpulse" \in c.bits, U8("CMImpulse"))
     \o Opt((f.pv <= 26 /\ "CMAngle2" \in c.bits) \/ f.pv >= 27, U8("CMMsec"))
deltausercommandParse(ctx, c) ==
  LET move(flag, x) == Opt(flag \in c.bits, IF ctx.pv <= 26 THEN U8(x) ELSE U16(x))
  IN U8("CMBits")
     \o Opt("CMAngle1" \in c.bits, At("angle16", "CMAngle", 1))
     \o Opt("CMAngle2" \in c.bits, At("angle16", "CMAngle", 2))
     \o Opt("CMAngle3" \in c.bits, At("angle16", "CMAngle", 3))
     \o move("CMForward", "CMForward") \o move("CMSide", "CMSide") \o move("CMUp", "CMUp")
     \o Opt("CMButtons" \in c.bits, U8("CMButtons"))
     \o Opt("CMImpulse" \in c.bits, U8("CMImpulse"))
     \o Opt((ctx.pv <= 26 /\ "CMAngle2" \in c.bits) \/ ctx.pv >= 27, U8("CMMsec"))

PlayerFTEExtensions == {"HullSize", "Trans", "Scale", "Fatness"}

\* UFarMore is the bit of PFSolid.
playerinfoDefaultBytes(f, c) ==
  LET extra == f.fte \cap PlayerFTEExtensions # {}
      coord == IF f.coordSize = 4 \/ "FloatCoords" \in f.mvd \/ extra THEN "u32" ELSE "coord16"
  IN U16("Bits")
     \o Opt(extra /\ "PFSolid" \in c.bits, U8("ExtraBits"))
     \o Vec3(coord, "Coord") \o U8("Frame")
     \o Opt("PFMsec" \in c.bits, U8("Msec"))
     \o Opt("PFCommand" \in c.bits, deltausercommandBytes(f, c))
     \o Opt("PFVelocity1" \in c.bits, U16("Velocity1"))
     \o Opt("PFVelocity2" \in c.bits, U16("Velocity2"))
     \o Opt("PFVelocity3" \in c.bits, U16("Velocity3"))
     \o Opt("PFModel" \in c.bits, U8("ModelIndex"))
     \o Opt("PFSkinNum" \in c.bits, U8("SkinNum"))
     \o Opt("PFEffects" \in c.bits, U8("Effects"))
     \o Opt("PFWeaponFrame" \in c.bits, U8("WeaponFrame"))
playerinfoReadCoord(ctx) ==
  IF ctx.coordSize = 4 \/ "FloatCoords" \in ctx.mvd \/ ctx.fte \cap PlayerFTEExtensions # {}
  THEN "u32" ELSE "coord16"
playerinfoDefaultParse(ctx, c) ==
  LET extra == ctx.fte \cap PlayerFTEExtensions # {}
  IN U16("Bits")
     \o Opt(extra /\ "PFSolid" \in c.bits, U8("ExtraBits"))
     \o Vec3(playerinfoReadCoord(ctx), "Coord") \o U8("Frame")
     \o Opt("PFMsec" \in c.bits, U8("Msec"))
     \o Opt("PFCommand" \in c.bits, deltausercommandParse(ctx, c))
     \o Opt("PFVelocity1" \in c.bits, U16("Velocity1"))
     \o Opt("PFVelocity2" \in c.bits, U16("Velocity2"))
     \o Opt("PFVelocity3" \in c.bits, U16("Velocity3"))
     \o Opt("PFModel" \in c.bits, U8("ModelIndex"))
     \o Opt("PFSkinNum" \in c.bits, U8("SkinNum"))
     \o Opt("PFEffects" \in c.bits, U8("Effects"))
     \o Opt("PFWeaponFrame" \in c.bits, U8("WeaponFrame"))

playerinfoMVDBytes(f, c) ==
  U16("Bits") \o U8("Frame")
  \o Opt("DFOrigin1" \in c.bits, At(CoordKind(f), "Coord", 1))
  \o Opt("DFOrigin2" \in c.bits, At(CoordKind(f), "Coord", 2))
  \o Opt("DFOrigin3" \in c.bits, At(CoordKind(f), "Coord", 3))
  \o Opt("DFAngles1" \in c.bits, At("angle16", "Angle", 1))
  \o Opt("DFAngles2" \in c.bits, At("angle16", "Angle", 2))
  \o Opt("DFAngles3" \in c.bits, At("angle16", "Angle", 3))
  \o Opt("DFModel" \in c.bits, U8("ModelIndex"))
  \o Opt("DFSkinNum" \in c.bits, U8("SkinNum"))
  \o Opt("DFEffects" \in c.bits, U8("Effects"))
  \o Opt("DFWeaponFrame" \in c.bits, U8("WeaponFrame"))
playerinfoMVDParse(ctx, c) ==
  U16("Bits") \o U8("Frame")
  \o Opt("DFOrigin1" \in c.bits, At(CoordKind(ctx), "Coord", 1))
  \o Opt("DFOrigin2" \in c.bits, At(CoordKind(ctx), "Coord", 2))
  \o Opt("DFOrigin3" \in c.bits, At(CoordKind(ctx), "Coord", 3))
  \o Opt("DFAngles1" \in c.bits, At("angle16", "Angle", 1))
  \o Opt("DFAngles2" \in c.bits, At("angle16", "Angle", 2))
  \o Opt("DFAngles3" \in c.bits, At("angle16", "Angle", 3))
  \o Opt("DFModel" \in c.bits, U8("ModelIndex"))
  \o Opt("DFSkinNum" \in c.bits, U8("SkinNum"))
  \o Opt("DFEffects" \in c.bits, U8("Effects"))
  \o Opt("DFWeaponFrame" \in c.bits, U8("WeaponFrame"))

playerinfoBytes(f, c) ==
  U8("Index") \o IF f.isMVD THEN playerinfoMVDBytes(f, c) ELSE playerinfoDefaultBytes(f, c)
playerinfoParse(ctx, c) ==
  U8("Index") \o IF ctx.isMVD THEN playerinfoMVDParse(ctx, c) ELSE playerinfoDefaultParse(ctx, c)

-----------------------------------------------------------------------------
(* Entity deltas.  The flags of MoreBits count only under UMoreBits, those *)
(* of EvenMoreBits only under UEvenMore and with an FTE extension, those   *)
(* of YetMoreBits only under UYetMore.                                     *)

MoreBits == {"UAngle1", "UAngle3", "UModel", "UColorMap", "USkin", "UEffects", "UEvenMore"}
YetMoreBits == {"UColorMod"}

packetentitydeltaBytes(f, c) ==
  LET bits == IF "UMoreBits" \in c.bits THEN c.bits ELSE c.bits \ MoreBits
      even == "UEvenMore" \in bits /\ f.fte # {}
      moreBits == CASE ~even -> {}
                    [] even /\ "UYetMore" \in c.bits -> c.bits
                    [] OTHER -> c.bits \ YetMoreBits
      coord == IF f.coordSize = 4 \/ "FloatCoords" \in f.mvd THEN "u32" ELSE "coord16"
      angle == AngleKind(f)
  IN Opt("UMoreBits" \in bits, U8("MoreBits"))
     \o Opt(even, U8("EvenMoreBits") \o Opt("UYetMore" \in c.bits, U8("YetMoreBits")))
     \o Opt("UModel" \in bits, U8("ModelIndex")) \o Opt("UFrame" \in bits, U8("Frame"))
     \o Opt("UColorMap" \in bits, U8("ColorMap")) \o Opt("USkin" \in bits, U8("Skin"))
     \o Opt("UEffects" \in bits, U8("Effects"))
     \o Opt("UOrigin1" \in bits, At(coord, "Coord", 1))
     \o Opt("UAngle1" \in bits, At(angle, "Angle", 1))
     \o Opt("UOrigin2" \in bits, At(coord, "Coord", 2))
     \o Opt("UAngle2" \in bits, At(angle, "Angle", 2))
     \o Opt("UOrigin3" \in bits, At(coord, "Coord", 3))
     \o Opt("UAngle3" \in bits, At(angle, "Angle", 3))
     \o Opt("UTrans" \in moreBits /\ "Trans" \in f.fte, U8("Trans"))
     \o Opt("UColorMod" \in moreBits /\ "ColorMod" \in f.fte, Vec3("u8", "ColorMod"))
packetentitydeltaParse(ctx, c) ==
  LET bits == IF "UMoreBits" \in c.bits THEN c.bits ELSE c.bits \ MoreBits
      even == "UEvenMore" \in bits /\ ctx.fte # {}
      moreBits == CASE ~even -> {}
                    [] even /\ "UYetMore" \in c.bits -> c.bits
                    [] OTHER -> c.bits \ YetMoreBits
      coord == IF ctx.coordSize = 4 \/ "FloatCoords" \in ctx.mvd THEN "u32" ELSE "coord16"
      angle == AngleKind(ctx)
  IN Opt("UMoreBits" \in bits, U8("MoreBits"))
     \o Opt(even, U8("EvenMoreBits") \o Opt("UYetMore" \in c.bits, U8("YetMoreBits")))
     \o Opt("UModel" \in bits, U8("ModelIndex")) \o Opt("UFrame" \in bits, U8("Frame"))
     \o Opt("UColorMap" \in bits, U8("ColorMap")) \o Opt("USkin" \in bits, U8("Skin"))
     \o Opt("UEffects" \in bits, U8("Effects"))
     \o Opt("UOrigin1" \in bits, At(coord, "Coord", 1))
     \o Opt("UAngle1" \in bits, At(angle, "Angle", 1))
     \o Opt("UOrigin2" \in bits, At(coord, "Coord", 2))
     \o Opt("UAngle2" \in bits, At(angle, "Angle", 2))
     \o Opt("UOrigin3" \in bits, At(coord, "Coord", 3))
     \o Opt("UAngle3" \in bits, At(angle, "Angle", 3))
     \o Opt("UTrans" \in moreBits /\ "Trans" \in ctx.fte, U8("Trans"))
     \o Opt("UColorMod" \in moreBits /\ "ColorMod" \in ctx.fte, Vec3("u8", "ColorMod"))

packetentityBytes(f, c) ==
  U16("Bits")
  \o IF "URemove" \in c.bits
     THEN Opt("UMoreBits" \in c.bits /\ "EntityDbl" \in f.fte,
              U8("MoreBits") \o Opt("UEvenMore" \in c.bits, U8("EvenMoreBits")))
     ELSE packetentitydeltaBytes(f, c)
packetentityParse(ctx, c) ==
  U16("Bits")
  \o IF "URemove" \in c.bits
     THEN Opt("UMoreBits" \in c.bits /\ "EntityDbl" \in ctx.fte,
              U8("MoreBits") \o Opt("UEvenMore" \in c.bits, U8("EvenMoreBits")))
     ELSE packetentitydeltaParse(ctx, c)

\* n entities with the same flags; a word of zero ends the list.
packetentitiesBytes(f, c) == Repeat(c.n, packetentityBytes(f, c)) \o U16("End")
packetentitiesParse(ctx, c) == Repeat(c.n, packetentityParse(ctx, c)) \o U16("End")

deltapacketentitiesBytes(f, c) ==
  U8("Index") \o Repeat(c.n, packetentityBytes(f, c)) \o U16("End")
deltapacketentitiesParse(ctx, c) ==
  U8("Index") \o Repeat(c.n, packetentityParse(ctx, c)) \o U16("End")

ftespawnstaticBytes(f, c) == U16("Bits") \o packetentitydeltaBytes(f, c)
ftespawnstaticParse(ctx, c) == U16("Bits") \o packetentitydeltaParse(ctx, c)

ftespawnbaselineBytes(f, c) == U16("Index") \o packetentitydeltaBytes(f, c)
ftespawnbaselineParse(ctx, c) == U16("Index") \o packetentitydeltaParse(ctx, c)

\* The type of a NetQuake update is its mask; the flags of MoreBits count only under NQUMoreBits.
NQMoreBits == {"NQUAngle1", "NQUAngle3", "NQUModel", "NQUColorMap", "NQUSkin", "NQUEffects",
               "NQULongEntity"}

fastupdateBytes(f, c) ==
  LET bits == IF "NQUMoreBits" \in c.bits THEN c.bits ELSE c.bits \ NQMoreBits
  IN Opt("NQUMoreBits" \in bits, U8("MoreBits"))
     \o (IF "NQULongEntity" \in bits THEN U16("Entity16") ELSE U8("Entity8"))
     \o Opt("NQUModel" \in bits, U8("Model")) \o Opt("NQUFrame" \in bits, U8("Frame"))
     \o Opt("NQUColorMap" \in bits, U8("ColorMap")) \o Opt("NQUSkin" \in bits, U8("Skin"))
     \o Opt("NQUEffects" \in bits, U8("Effects"))
     \o Opt("NQUOrigin1" \in bits, At("coord16", "Origin", 1))
     \o Opt("NQUAngle1" \in bits, At("angle8", "Angle", 1))
     \o Opt("NQUOrigin2" \in bits, At("coord16", "Origin", 2))
     \o Opt("NQUAngle2" \in bits, At("angle8", "Angle", 2))
     \o Opt("NQUOrigin3" \in bits, At("coord16", "Origin", 3))
     \o Opt("NQUAngle3" \in bits, At("angle8", "Angle", 3))
fastupdateParse(ctx, c) ==
  LET bits == IF "NQUMoreBits" \in c.bits THEN c.bits ELSE c.bits \ NQMoreBits
  IN Opt("NQUMoreBits" \in bits, U8("MoreBits"))
     \o (IF "NQULongEntity" \in bits THEN U16("Entity16") ELSE U8("Entity8"))
     \o Opt("NQUModel" \in bits, U8("Model")) \o Opt("NQUFrame" \in bits, U8("Frame"))
     \o Opt("NQUColorMap" \in bits, U8("ColorMap")) \o Opt("NQUSkin" \in bits, U8("Skin"))
     \o Opt("NQUEffects" \in bits, U8("Effects"))
     \o Opt("NQUOrigin1" \in bits, At("coord16", "Origin", 1))
     \o Opt("NQUAngle1" \in bits, At("angle8", "Angle", 1))
     \o Opt("NQUOrigin2" \in bits, At("coord16", "Origin", 2))
     \o Opt("NQUAngle2" \in bits, At("angle8", "Angle", 2))
     \o Opt("NQUOrigin3" \in bits, At("coord16", "Origin", 3))
     \o Opt("NQUAngle3" \in bits, At("angle8", "Angle", 3))

-----------------------------------------------------------------------------
(* serverdata: c.n is the protocol version, c.ext the announced            *)
(* extensions; no field depends on those of FTE2.                          *)

MoveVars == F32("Gravity") \o F32("StopSpeed") \o F32("MaxSpeed") \o F32("SpectatorMaxSpeed")
            \o F32("Accelerate") \o F32("AirAccelerate") \o F32("WaterAccelerate")
            \o F32("Friction") \o F32("WaterFriction") \o F32("EntityGravity")

serverdataBytes(f, c) ==
  Opt(c.ext.fte # {}, U32("FTE") \o U32("FTEProtocolExtension"))
  \o Opt("FTE2" \in c.bits, U32("FTE2") \o U32("FTE2ProtocolExtension"))
  \o Opt(c.ext.mvd # {}, U32("MVD") \o U32("MVDProtocolExtension"))
  \o U32("ProtocolVersion")
  \o IF c.n = VersionNQ
     THEN U8("MaxClients") \o U8("GameType") \o Str("SignOnMessage")
          \o Strings("Models", 2) \o Strings("Sounds", 2)
     ELSE U32("ServerCount") \o Str("GameDirectory")
          \o (IF f.isMVD THEN F32("LastReceived") ELSE U8("PlayerNumber"))
          \o Str("LevelName") \o Opt(c.n >= 25, MoveVars)

\* The versions are read in the order they come, until one is of the protocol itself.
parseCommandNQ(ctx, c) ==
  U8("MaxClients") \o U8("GameType") \o Str("SignOnMessage")
  \o Strings("Models", 2) \o Strings("Sounds", 2)
parseCommandQW(ctx, c) ==
  U32("ServerCount") \o Str("GameDirectory")
  \o (IF ctx.isMVD THEN F32("LastReceived") ELSE U8("PlayerNumber"))
  \o Str("LevelName") \o Opt(c.n >= 25, MoveVars)
serverdataParse(ctx, c) ==
  Opt(c.ext.fte # {}, U32("FTE") \o U32("FTEProtocolExtension"))
  \o Opt("FTE2" \in c.bits, U32("FTE2") \o U32("FTE2ProtocolExtension"))
  \o Opt(c.ext.mvd # {}, U32("MVD") \o U32("MVDProtocolExtension"))
  \o U32("ProtocolVersion")
  \o IF c.n = VersionNQ THEN parseCommandNQ(ctx, c) ELSE parseCommandQW(ctx, c)

\* Mutants: the size of angles is forgotten, or a version is kept once it is known.
serverdataContextCoords(ctx, c) ==
  [ctx EXCEPT !.fte = IF c.ext.fte # {} THEN c.ext.fte ELSE @,
              !.mvd = IF c.ext.mvd # {} THEN c.ext.mvd ELSE @,
              !.coordSize = IF "FloatCoords" \in c.ext.fte THEN 4 ELSE @,
              !.pv = IF c.n \in Versions THEN c.n ELSE @]
serverdataContextFirst(ctx, c) ==
  [serverdataContextCoords(ctx, c) EXCEPT
     !.angleSize = IF "FloatCoords" \in c.ext.fte THEN 2 ELSE @,
     !.pv = IF ctx.pv = 0 THEN c.n ELSE ctx.pv]
\* What a serverdata leaves in its reader's context: it adds, and never takes back.  The
\* extensions are stored as they are read, the version only if it is one Parse knows.
serverdataContext(ctx, c) ==
  LET float == "FloatCoords" \in c.ext.fte
  IN [ctx EXCEPT !.fte = IF c.ext.fte # {} THEN c.ext.fte ELSE @,
                 !.mvd = IF c.ext.mvd # {} THEN c.ext.mvd ELSE @,
                 !.angleSize = IF float THEN 2 ELSE @,
                 !.coordSize = IF float THEN 4 ELSE @,
                 !.pv = IF c.n \in Versions THEN c.n ELSE @]
=============================================================================
