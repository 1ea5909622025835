---------------------------- MODULE MCQizmoCodec ----------------------------
(***************************************************************************)
(* The maps and frames for the model checker.  Each script is a set of     *)
(* frames that may follow each other in any order.                         *)
(***************************************************************************)
EXTENDS QizmoCodec

MCPrecache == [player |-> 3, nail |-> 1, door |-> 5, shot |-> 2]

MCDictionaries ==
  [print |-> << <<3, 4>>, <<4, 3, 4>> >>, chat |-> << <<3>>, <<3, 4>>, <<4, 4>> >>,
   stufftext |-> << <<2, 3>>, <<3, 3>> >>, centerprint |-> << <<3, 4>> >>, setinfo |-> << <<1>> >>]

PlayerIndexOf(map) == map - 1

Door == [ZeroEntity(40) EXCEPT !["model"] = 2, !["originX"] = 65500, !["originY"] = 300, !["angle2"] = 7]
Torch == [ZeroEntity(120) EXCEPT !["model"] = 4, !["originZ"] = 40]

Text(op, number, texts) == [op |-> op, number |-> number, texts |-> texts]

MCSignOns ==
  << << Text("serverdata", PlayerIndexOf(1), <<>>),
        [op |-> "soundlist", list |-> <<"shot", "gong">>],
        [op |-> "modellist", list |-> <<"map", "door", "player", "nail">>],
        [op |-> "spawnbaseline", rec |-> Door], [op |-> "spawnbaseline", rec |-> Torch],
        Text("updateuserinfo", 0, << <<3, 4>> >>), Text("stufftext", 0, <<SpawnText>>) >>,
     << Text("serverdata", PlayerIndexOf(2), <<>>),
        [op |-> "soundlist", list |-> <<"gong", "shot">>],
        [op |-> "modellist", list |-> <<"map", "player", "door">>],
        [op |-> "spawnbaseline", rec |-> [Door EXCEPT !["model"] = 3]],
        Text("stufftext", 0, <<SpawnText>>) >> >>

Player(seen, dead) == [op |-> "playerinfo", seen |-> seen, dead |-> dead]
Standing(index) == [Visible(DefaultPlayer(index, 3)) EXCEPT !["originX"] = 100, !["originY"] = 65530]
Running(index) ==
  [Standing(index) EXCEPT !["velocityX"] = 320, !["velocityZ"] = 65400, !["frame"] = 6,
                          !["originX"] = 104, !["originZ"] = 20, !["weaponFrame"] = 1, !["effects"] = 4]
Other(seen, msec) ==
  [seen EXCEPT !["msec"] = msec, !["commandMsec"] = 13, !["yaw"] = 500, !["forward"] = 400]

\* Nothing moves in some frames, everything in others.
Still ==
  [before |-> <<Player(Standing(0), FALSE), Player(Other(Standing(1), 5), FALSE)>>,
   ents |-> <<Door>>, hasEntities |-> TRUE, after |-> <<>>, shorter |-> {TRUE}, full |-> FALSE]
Moving ==
  [before |-> <<Player(Running(0), FALSE), Player(Other(Running(1), 9), FALSE),
                Player(Other(Standing(4), 20), TRUE)>>,
   ents |-> << [Door EXCEPT !["originX"] = 20, !["angle2"] = 9, !["effects"] = 3, !["model"] = 3],
               [Torch EXCEPT !["frame"] = 2, !["angle1"] = 200, !["originY"] = 5],
               [ZeroEntity(300) EXCEPT !["model"] = 4, !["skinNum"] = 1] >>,
   hasEntities |-> TRUE, after |-> <<>>, shorter |-> {TRUE}, full |-> FALSE]

Sound(entity, flags, at) ==
  [op |-> "sound", flags |-> flags, entity |-> entity, channel |-> 1,
   volume |-> IF flags >= 8 THEN 90 ELSE 0, attenuation |-> IF flags % 8 >= 4 THEN 64 ELSE 0,
   sound |-> 2, at |-> at]
Beam(entity, start, at) ==
  [op |-> "tempentity", shape |-> "beam", count |-> 0, entity |-> entity, start |-> start, at |-> at]
Effect(shape, count, at) ==
  [op |-> "tempentity", shape |-> shape, count |-> count, entity |-> 0, start |-> Nowhere, at |-> at]

\* Sounds and beams of players and entities, near and far from where they were.
Effects ==
  << Sound(40, 0, <<65500, 300, 0>>), Sound(2, 12, <<104, 65530, 20>>), Sound(2, 0, <<100, 65530, 0>>),
     [op |-> "muzzleflash", entity |-> 2], Beam(2, <<104, 65530, 25>>, <<0, 0, 0>>),
     Beam(40, <<65500, 300, 1>>, <<500, 1, 2>>), Effect("counted", 3, <<500, 1, 2>>),
     Effect("point", 0, <<9, 9, 9>>), Sound(80, 0, <<9, 9, 9>>), Sound(120, 4, <<1, 2, 43>>),
     [op |-> "damage", armor |-> 1, blood |-> 2, from |-> <<104, 0, 65535>>],
     [op |-> "damage", armor |-> 0, blood |-> 5, from |-> Nowhere],
     [op |-> "nails", nails |-> << <<6, 240, 255, 1, 0, 0>>, <<7, 1, 2, 3, 4, 5>> >>] >>
Noisy == [Moving EXCEPT !.after = Effects, !.ents = <<Door, @[3]>>]
NoisyStill == [Still EXCEPT !.before = Append(@, Sound(40, 0, <<65500, 300, 0>>)), !.after = Effects]

\* Texts and operations of a fixed size; a chat line, and a name that changes.
Texts ==
  << Text("print", 2, << <<3, 4, 3, 4>> >>), Text("print", 3, << <<4, 3, 4, 4>> >>),
     Text("stufftext", 0, << <<2, 2, 3, 3>> >>), Text("centerprint", 0, << <<3, 4, 3, 4>> >>),
     Text("setinfo", 1, << NameKey, <<4>> >>), Text("updateuserinfo", 0, << <<4, 3>> >>),
     Text("lightstyle", 2, << <<3>> >>), Text("serverinfo", 0, << <<3>>, <<>> >>),
     Text("qizmostring", 0, << <<4>> >>),
     [op |-> "updateping", index |-> 0, value |-> 30], [op |-> "updateping", index |-> 4, value |-> 31],
     [op |-> "updatepl", index |-> 4, value |-> 2], [op |-> "updatestat", bytes |-> <<1, 100>>],
     [op |-> "bigkick", bytes |-> <<>>], [op |-> "stopsound", bytes |-> <<7, 8>>] >>
Talking == [Still EXCEPT !.after = Texts]

\* Frames that cannot be compressed: reliable data first, a player who presses a button.
Reliable == [Moving EXCEPT !.before = <<Text("updateuserinfo", 1, << <<3>> >>)>> \o @]
Firing ==
  [Moving EXCEPT !.before = <<@[1], Player([Other(Running(1), 9) EXCEPT !["buttons"] = 1], FALSE)>>]
\* Frames without entities, and of the player alone.
Bare == [Moving EXCEPT !.hasEntities = FALSE, !.ents = <<>>, !.after = <<Sound(2, 0, <<104, 65530, 20>>)>>]
Alone == [Still EXCEPT !.shorter = BOOLEAN, !.before = <<@[1]>>, !.hasEntities = FALSE, !.ents = <<>>]

Full == [Still EXCEPT !.full = TRUE]

MCFirst == Still
MCWorlds ==
  [walk |-> {Full, Moving}, fight |-> {Noisy, NoisyStill}, talk |-> {Talking, Moving},
   reliable |-> {Reliable, Bare}, bare |-> {Bare, Moving}, fire |-> {Firing, Moving},
   alone |-> {Alone, Full}]
\* Four turns are enough for a slot of the histories to be written again and then referred to.
MCTurns == [s \in DOMAIN MCWorlds |-> IF s \in {"walk", "bare"} THEN 4 ELSE 3]
MCFaults == [s \in DOMAIN MCWorlds |-> IF s = "walk" THEN 1 ELSE 2]
=============================================================================
