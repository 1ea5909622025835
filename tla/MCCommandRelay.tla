--------------------------- MODULE MCCommandRelay ---------------------------
(* Sets of commands for TLC: every type, with the flags and counts that    *)
(* select their fields.                                                    *)
EXTENDS CommandRelay

\* The flags of a mask that are set together: none, one, two or all.
Few(flags) == {{}, flags} \cup {{a, b} : a, b \in flags}

NoExt == [fte |-> {}, mvd |-> {}]
Cmd(op, bits, n) == [op |-> op, bits |-> bits, n |-> n, ext |-> NoExt]
Plain(ops) == {Cmd(op, {}, 0) : op \in ops}
Counted(ops) == {Cmd(op, {}, n) : op \in ops, n \in 0..2}
Masked(op, flags) == {Cmd(op, bits, 1) : bits \in Few(flags)}

ServerData(versions, exts) ==
  {[op |-> "serverdata", bits |-> {}, n |-> v, ext |-> e] : v \in versions, e \in exts}

CMFlags == {"CMAngle1", "CMAngle2", "CMAngle3", "CMForward", "CMSide", "CMUp", "CMButtons",
            "CMImpulse"}
PFFlags == {"PFMsec", "PFCommand", "PFVelocity1", "PFVelocity2", "PFVelocity3", "PFModel",
            "PFSkinNum", "PFEffects", "PFWeaponFrame", "PFSolid"}
DFFlags == {"DFOrigin1", "DFOrigin2", "DFOrigin3", "DFAngles1", "DFAngles2", "DFAngles3",
            "DFModel", "DFSkinNum", "DFEffects", "DFWeaponFrame"}
UFlags == {"UOrigin1", "UOrigin2", "UOrigin3", "UAngle2", "UFrame", "URemove"} \cup MoreBits
          \cup {"UYetMore", "UTrans", "UColorMod"}
SUFlags == {"SUViewHeight", "SUIdealPitch", "SUPunch1", "SUPunch2", "SUPunch3", "SUVelocity1",
            "SUVelocity2", "SUVelocity3", "SUWeaponFrame", "SUArmor", "SUWeapon"}
NQUFlags == {"NQUOrigin1", "NQUOrigin2", "NQUOrigin3", "NQUAngle2", "NQUFrame"} \cup NQMoreBits
TETypes == Lightnings \cup {"TEGunshot", "TEBlood", "TELightningBlood", "TESpike"}

\* Entities with at least one flag: a mask of zero ends the list.  The flags of MoreBits are
\* tried under UMoreBits, those of the further masks also under UEvenMore and UYetMore.
EntityBits == {{"UMoreBits"} \cup b : b \in Few(UFlags)}
              \cup {{"UMoreBits", "UEvenMore", "UYetMore"} \cup b : b \in Few(UFlags)}
              \cup {b \in Few(UFlags \ MoreBits) : b # {}}
Entities(ops) == {Cmd(op, bits, 1) : op \in ops, bits \in EntityBits}
                 \cup {Cmd(op, {"UMoreBits", "UModel", "UOrigin1"}, n) : op \in ops, n \in {0, 2}}

AnyServer ==
  Plain(SignalOps \cup {"disconnect", "updatestat", "version", "setview", "time", "print",
        "stufftext", "setangle", "lightstyle", "updatename", "updatefrags", "stopsound",
        "updatecolors", "particle", "damage", "spawnstatic", "spawnbaseline", "setpause",
        "signonnum", "centerprint", "spawnstaticsound", "intermission", "finale", "cdtrack",
        "updateping", "updateentertime", "updatestatlong", "muzzleflash", "updateuserinfo",
        "chokecount", "maxspeed", "entgravity", "setinfo", "serverinfo", "updatepl",
        "qizmostring", "qizmoblock", "qizmovoice", "unknown"})
  \cup Counted({"nails", "nails2", "modellist", "soundlist", "ftemodellist", "ftevoicechats",
                "download"})
  \cup {Cmd("download", {"Last"}, 0)}
  \cup {Cmd("tempentity", {t}, 0) : t \in TETypes}
  \cup Masked("sound", {"SoundVolume", "SoundAttenuation"})

QuakeWorld ==
  AnyServer \cup Masked("playerinfo", PFFlags)
  \cup {Cmd("playerinfo", {"PFCommand"} \cup b, 1) : b \in Few(CMFlags)}
  \cup Entities({"packetentities", "deltapacketentities"})
  \cup {Cmd(op, {"UMoreBits"} \cup b, 0) : op \in {"ftespawnstatic", "ftespawnbaseline"},
                                          b \in Few(UFlags \ {"URemove"})}
  \cup {Cmd(op, {}, 2) : op \in ConnectionlessOps}

FTESets == {{}, {"FloatCoords"}, {"Trans"}, {"EntityDbl", "ColorMod"},
            {"ChunkedDownloads", "Trans", "ColorMod", "EntityDbl"}}
MVDSets == {{}, {"FloatCoords"}, {"HighLagTeleport", "HiddenMessages"}}
Exts == [fte : FTESets, mvd : MVDSets]

\* 99 is a version that Parse does not know.
SvcCmds == QuakeWorld \cup ServerData({VersionQW210, VersionQW221, VersionQW, 99}, Exts)
           \cup {[op |-> "serverdata", bits |-> {"FTE2"}, n |-> VersionQW, ext |-> e] : e \in Exts}
MvdCmds == AnyServer \cup Masked("playerinfo", DFFlags)
           \cup Entities({"packetentities"}) \cup ServerData({VersionQW}, Exts)
QwdCmds == AnyServer \cup ServerData({VersionQW}, Exts)
DemCmds == AnyServer \cup {Cmd("clientdata", {"SUItems"} \cup b, 0) : b \in Few(SUFlags)}
           \cup {Cmd("fastupdate", b, 0) : b \in Few(NQUFlags)}
           \cup {Cmd("fastupdate", {"NQUMoreBits"} \cup b, 0) : b \in Few(NQUFlags)}
           \cup Masked("sound", {"NQSoundVolume", "NQSoundAttenuation"})
           \cup ServerData({VersionNQ}, {NoExt})
ClcCmds == Plain({"bad", "nop", "stringcmd", "delta", "tmove", "unknown"})
           \cup {Cmd("move", b, 1) : b \in Few(CMFlags)}
           \cup Counted({"upload", "ftevoicechatc"})

\* A few commands that depend on the format, for packets of several.
MixedCmds ==
  Plain({"sound", "setangle", "intermission", "unknown", "a2aping"}) \cup {Cmd("modellist", {}, 1)}
  \cup {Cmd("playerinfo", {"PFCommand", "CMForward", "PFSolid"}, 1),
        Cmd("packetentities", {"UMoreBits", "UEvenMore", "UOrigin1", "UTrans"}, 1)}
  \cup ServerData({VersionQW221, VersionQW},
                  {NoExt, [fte |-> {"FloatCoords"}, mvd |-> {}],
                   [fte |-> {"FloatCoords", "Trans"}, mvd |-> {"FloatCoords", "HighLagTeleport"}]})

Stream(k, cmds, max) == [kind |-> k, cmds |-> cmds, max |-> max]

\* Every kind of stream with every type of command, one to a packet, and the mixed packets.
MCStreams == << Stream("svc", MixedCmds, 3), Stream("svc", SvcCmds, 1), Stream("clc", ClcCmds, 1),
                Stream("mvd", MvdCmds, 1), Stream("qwd", QwdCmds, 1), Stream("dem", DemCmds, 1) >>
=============================================================================
