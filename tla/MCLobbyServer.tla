---------------------------- MODULE MCLobbyServer ----------------------------
(***************************************************************************)
(* Instances of LobbyServer for TLC.  "alice" and "ALICE" have one key, and *)
(* a packet may carry a whole sign-on, so that a client spawns in two.      *)
(***************************************************************************)
EXTENDS LobbyServer

MCBases == {"alice", "ALICE"}
MCKeyOf == [b \in MCBases |-> "alice"]

MCInputs == {<<"new", "prespawn", "spawn", "begin">>, <<"spawn">>, <<"drop">>}
==============================================================================
