---------------------------- MODULE QizmoPlayers ----------------------------
(***************************************************************************)
(* svc_playerinfo in a compressed packet: the primary player, whose packet *)
(* it is, and the additional players (encoder_primary.go,                  *)
(* encoder_players.go, decoder_primary.go, decoder_players.go, player.go). *)
(*                                                                         *)
(* A record is what the histories keep of a player: its fields, the masks  *)
(* that were sent with it and the differences it was sent with.            *)
(***************************************************************************)
EXTENDS QizmoFields, FiniteSets

Axes == <<1, 2, 3>>

MaxPlayers == 32
\* noPlayerIndex is 0xff: the delta to the first player's index is index + 1.
NoPlayerIndex == ByteSize - 1

Origin == <<"originX", "originY", "originZ">>
Velocity == <<"velocityX", "velocityY", "velocityZ">>
VelocityAcc == <<"velocityXAcc", "velocityYAcc", "velocityZAcc">>

OriginFields == [i \in DOMAIN Axes |-> Field(Origin[Axes[i]], "originMask", "word")]
VelocityFields ==
  [i \in DOMAIN Axes |-> AccField(Velocity[Axes[i]], VelocityAcc[Axes[i]], "motionMask", "acc")]

\* What is sent of the primary player, in this order.
PrimaryMasks == <<"originMask", "stateMask", "motionMask">>
PrimaryFields ==
  OriginFields
  \o << Field("frame", "originMask", "byte"), Field("model", "stateMask", "model"),
        Field("skinNum", "stateMask", "set"), Field("effects", "stateMask", "xor") >>
  \o VelocityFields \o << Field("weaponFrame", "motionMask", "byte") >>

\* What is sent of the others.
PlayerMasks == <<"originMask", "angleMoveMask", "stateMask", "motionMask">>
PlayerFields ==
  OriginFields
  \o << Field("frame", "originMask", "byte"),
        AccField("pitch", "pitchAcc", "angleMoveMask", "acc"),
        AccField("yaw", "yawAcc", "angleMoveMask", "acc"),
        Field("forward", "angleMoveMask", "word"), Field("side", "angleMoveMask", "word"),
        Field("roll", "stateMask", "word"), Field("buttons", "stateMask", "xor"),
        Field("impulse", "stateMask", "set"), Field("commandMsec", "stateMask", "byte"),
        Field("model", "stateMask", "model"), Field("skinNum", "stateMask", "set"),
        Field("effects", "stateMask", "xor") >>
  \o VelocityFields \o << Field("weaponFrame", "motionMask", "byte") >>

PlayerFieldNames == {f.name : f \in ToSet(PlayerFields)} \cup {f.acc : f \in ToSet(PlayerFields)}

\* PlayerOriginHistoryMask and its like: bits that say nothing about the next packet.
Forgotten == {Row("frame"), Row("impulse"), Row("model"), Row("skinNum"), Row("weaponFrame")}
Dead == Row("dead")

DefaultPlayer(index, model) ==
  [x \in PlayerFieldNames \cup {"index", "msec"} \cup ToSet(PlayerMasks) |->
     CASE x = "index" -> index
       [] x = "model" -> model
       [] x \in ToSet(PlayerMasks) -> {}
       [] OTHER -> 0]

SamePlayer(players, index) == {i \in DOMAIN players : players[i]["index"] = index}

\* basePlayerInfoRecord: the player's record in the base, or one at the primary's origin.
BasePlayer(players, index, primary, model) ==
  LET at == SamePlayer(players, index)
      fresh == DefaultPlayer(index, model)
  IN IF at # {} THEN players[CHOOSE i \in at : \A j \in at : i <= j]
     ELSE [x \in DOMAIN fresh |-> IF x \in ToSet(Origin) THEN primary[x] ELSE fresh[x]]

\* predictedPlayerOrigin: the record, moved on.
Predicted(rec, scale) ==
  FoldLeft(LAMBDA r, i : [r EXCEPT ![Origin[i]] = Add16(@, Scaled16(rec[Velocity[i]], scale))],
           rec, Axes)

\* playerPredictionScale: whole commands of the player, past the time of the packet.
PredictionScale(step, target, base, packetScale) ==
  LET over == target + packetScale - base - step
  IN IF step = 0 \/ over <= step THEN step
     ELSE step * (IF over % step = 0 THEN over \div step ELSE over \div step + 1)

-----------------------------------------------------------------------------

\* planPrimaryPlayer and planAdditionalPlayer: the masks of a player and what is remembered.
Masks(fields, base, target, dead) ==
  [m \in ToSet(PlayerMasks) |->
     UNION {FieldBits(f, base, target) : f \in {g \in ToSet(fields) : g.mask = m}}
     \cup IF m = "motionMask" /\ dead THEN {Dead} ELSE {}]

PlanPlayer(fields, masks, base, predicted, target, remap) ==
  LET dead == Dead \in target["motionMask"]
      sent == Masks(fields, predicted, target, dead)
      moved == FoldLeft(LAMBDA r, f : FieldResult(f, base, target, r), base, fields)
  IN [syms |-> Concat([i \in DOMAIN masks |->
                         Sym(Row(masks[i]), MaskXor(sent[masks[i]], base[masks[i]]))])
               \o Concat([i \in DOMAIN fields |->
                            FieldSymbols(fields[i], predicted, target, remap)]),
      result |-> [x \in DOMAIN base |-> IF x \in ToSet(masks) THEN sent[x] \ Forgotten
                                        ELSE IF x \in {"index", "msec"} THEN target[x]
                                        ELSE moved[x]]]

\* The primary player keeps the msec of its base, which it does not send.
PlanPrimary(base, target, scale, distance, remap) ==
  LET plan == PlanPlayer(PrimaryFields, PrimaryMasks, base, Predicted(base, scale),
                         [target EXCEPT !["msec"] = base["msec"]], remap)
  IN [plan EXCEPT !.syms = Sym(Row("backReference"), distance) \o @]

\* What a svc_playerinfo of this record says: everything but the masks and differences.
Visible(rec) ==
  [x \in {f.name : f \in ToSet(PlayerFields)} \cup {"index", "msec"} |-> rec[x]]
IsDead(rec) == Dead \in rec["motionMask"]

PlanAdditional(base, target, packetScale, remap) ==
  LET scale == PredictionScale(base["commandMsec"], target["msec"], base["msec"], packetScale)
      shortcut == /\ target["msec"] > base["msec"]
                  /\ Visible([base EXCEPT !["msec"] = target["msec"]]) = Visible(target)
                  /\ IsDead(base) = IsDead(target)
      plan == PlanPlayer(PlayerFields, PlayerMasks, base, Predicted(base, scale), target, remap)
  IN IF shortcut
     THEN [shortcut |-> TRUE, syms |-> Sym(Row("msec"), <<"shortcut", target["msec"]>>),
           result |-> [base EXCEPT !["msec"] = target["msec"]]]
     ELSE [shortcut |-> FALSE, syms |-> Sym(Row("msec"), <<"full", target["msec"]>>) \o plan.syms,
           result |-> plan.result]

\* encodeSVCPlayerInfoDeltas: the list is closed and opened again after a shortcut.
EncodePlayers(plans) ==
  LET index(i) == IF i = 0 THEN NoPlayerIndex ELSE plans[i].result["index"]
      close == Sym(Row("numDelta"), 0)
  IN Concat([i \in DOMAIN plans |->
               Sym(Row("numDelta"), Sub8(index(i), index(i - 1))) \o plans[i].syms
               \o IF plans[i].shortcut /\ i < Len(plans)
                  THEN close \o Sym(Row("SVCType"), "playerinfo") ELSE <<>>])
     \o close

-----------------------------------------------------------------------------

ReadMasks(r, masks) ==
  FoldLeft(LAMBDA acc, m : Read(acc, Row(m), LAMBDA v : [acc.rec EXCEPT ![m] = MaskXor(@, v)]),
           r, masks)

\* Mutant: the decoder remembers every bit.
ForgetMasksNot(r, masks) == r

ForgetMasks(r, masks) ==
  [r EXCEPT !.rec = [x \in DOMAIN @ |-> IF x \in ToSet(masks) THEN @[x] \ Forgotten ELSE @[x]]]

\* decodeSVCPlayerInfo after the back reference, and decodePlayerInfoMaskDeltas ff.
DecodePlayer(in, base, scale, fields, masks, remap) ==
  LET r == ReadMasks(Reader(in, Predicted(base, scale)), masks)
  IN ForgetMasks(ReadFields(r, fields, remap), masks)
=============================================================================
