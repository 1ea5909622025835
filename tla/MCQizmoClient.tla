--------------------------- MODULE MCQizmoClient ----------------------------
(***************************************************************************)
(* Packets, commands, texts and names for the model checker.               *)
(***************************************************************************)
EXTENDS QizmoClient

MCFrequencies ==
  << <<"bad", 40>>, <<"nop", 1>>, <<"move", 40>>, <<"stringcmd", 7>>, <<"delta", 3>>, <<"tmove", 1>>,
     <<"upload", 2>>, <<"peerassociation", 1>>, <<"voicestart", 2>>, <<"voicestop", 2>>,
     <<"voicegsm", 5>>, <<"resync", 3>> >>

MCProxyTexts == << <<7, 8>>, <<7, 8, 9>> >>
MCCommonTexts == << <<1, 2>>, <<5>> >>
\* A name is given up, and a name that starts like another comes.
MCNameTables ==
  [play |-> << <<>> >>, talk |-> << << <<5, 6>>, <<1, 2, 3>> >>, << <<>>, <<1, 2>> >> >>,
   quiet |-> << << <<7, 8>> >> >>, raw |-> << << <<5, 6>> >> >>, voice |-> << <<>> >>]
\* A packet repeated, the next one, and gaps up to more than MaxDelta.
MCGaps ==
  [play |-> {0, 1, 2, 5}, talk |-> {1, 3}, quiet |-> {1, 4}, raw |-> {0, 1, 2, 3}, voice |-> {1, 2}]
MCResponse == <<7, 8, 1, 0>>

MCCommands ==
  LET c(yaw, pitch, forward, buttons, impulse, msec) ==
        [NoCommand EXCEPT !["yaw"] = yaw, !["pitch"] = pitch, !["forward"] = forward,
                          !["buttons"] = buttons, !["impulse"] = impulse, !["msec"] = msec]
  IN << c(65500, 0, 400, 0, 0, 13), c(30, 0, 400, 1, 0, 13), c(100, 200, 65136, 1, 7, 14),
        c(65000, 200, 0, 3, 0, 250), c(65400, 70, 0, 0, 0, 13) >>

Move == [op |-> "move"]
Delta(behind) == [op |-> "delta", behind |-> behind]
Say(text) == [op |-> "stringcmd", text |-> text]

MCPackets ==
  [play |-> {<<Move, Delta(0)>>, <<Delta(1), Move>>},
   talk |-> {<<Say(<<1, 2, 3, 5, 6, 0>>), Move>>, <<Say(<<1, 7, 8, 9, Escape, 0>>), Move>>},
   quiet |-> {<<Say(<<7, 8, 9, 3, 0>>)>>, <<Move>>},
   raw |-> {<< [op |-> "nop"], Move>>, <<Delta(0), Move, Say(<<5, 6, 0>>)>>},
   voice |-> {<< [op |-> "voicestart", text |-> <<1, Escape, 0>>], [op |-> "voicegsm", bytes |-> 3], Move,
                 [op |-> "upload", data |-> <<250, 4, 4>>], [op |-> "resync"]>>,
              << [op |-> "voiceraw", bytes |-> 1], [op |-> "voicestop", text |-> <<2, 0>>],
                 [op |-> "peerassociation", bytes |-> 2], [op |-> "tmove", bytes |-> 4], Delta(0), Move>>}]
=============================================================================
