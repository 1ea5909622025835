----------------------------- MODULE QizmoMoves -----------------------------
(***************************************************************************)
(* A client's packet on a compressed link (net/qizmo): its operations as   *)
(* the client writes them and as ClientEncoder and ClientDecoder code them *)
(* against the commands they remember (client_*.go), and the Huffman code  *)
(* of a row (huffman.go).                                                  *)
(*                                                                         *)
(* A packet's symbols are those of QizmoFields, but the types of the       *)
(* operations are sent as the bits of their Huffman code.                  *)
(***************************************************************************)
EXTENDS QizmoFields

CONSTANTS
  Frequencies,    \* the row CLCType of the frequency table: a sequence of <<type, count>>
  ProxyTexts,     \* assets.ClientProxyStrings
  CommonTexts,    \* assets.ClientCommonStrings
  MoveHistory     \* clientMoveHistorySize: 32 in the code

-----------------------------------------------------------------------------

(* buildHuffmanCodes: the two least frequent subtrees are joined until one *)
(* is left.  A subtree is the function from its symbols to their bits; it  *)
(* stays in the place of the less frequent of the two.                     *)

\* The first of the least frequent.
Least(counts, places) ==
  CHOOSE i \in places : \A j \in places \ {i} : counts[i] < counts[j] \/ (counts[i] = counts[j] /\ i < j)

\* Mutant: the symbols of the left subtree get no further bit.
JoinLeftAsIs(left, right) ==
  [s \in DOMAIN left \cup DOMAIN right |-> IF s \in DOMAIN left THEN left[s] ELSE <<1>> \o right[s]]

Join(left, right) ==
  [s \in DOMAIN left \cup DOMAIN right |-> IF s \in DOMAIN left THEN <<0>> \o left[s] ELSE <<1>> \o right[s]]

Merge(t) ==
  LET places == {i \in DOMAIN t.counts : t.counts[i] # 0}
      least == Least(t.counts, places)
      second == Least(t.counts, places \ {least})
  IN [counts |-> [t.counts EXCEPT ![least] = @ + t.counts[second], ![second] = 0],
      trees |-> [t.trees EXCEPT ![least] = Join(t.trees[least], t.trees[second])]]

Codes ==
  LET leaves == [counts |-> [i \in DOMAIN Frequencies |-> Frequencies[i][2]],
                 trees |-> [i \in DOMAIN Frequencies |-> [s \in {Frequencies[i][1]} |-> <<>>]]]
      all == FoldLeft(LAMBDA t, i : Merge(t), leaves, [i \in 1..(Len(Frequencies) - 1) |-> i])
  IN all.trees[CHOOSE i \in DOMAIN all.counts : all.counts[i] # 0]

\* writeCode, and readSymbol: down the tree until a symbol is reached.
CodeSymbols(code) == [i \in DOMAIN code |-> <<Row("bit"), code[i]>>]
ReadSymbol(r, codes) ==
  LET ends == {s \in DOMAIN codes : IsPrefix(CodeSymbols(codes[s]), r.in)}
      symbol == CHOOSE s \in ends : \A t \in ends : Len(codes[s]) <= Len(codes[t])
  IN IF r.bad \/ ends = {} THEN [r EXCEPT !.bad = TRUE]
     ELSE [r EXCEPT !.in = SubSeq(@, Len(codes[symbol]) + 1, Len(@)), !.rec = symbol]

TypeSymbols(type) == CodeSymbols(Codes[type])
ReadType(r) == ReadSymbol(r, Codes)

-----------------------------------------------------------------------------

(* A command: three angles, three moves, buttons, an impulse and its       *)
(* duration.  A move has the commands of three packets, oldest first.      *)
Words == <<"yaw", "pitch", "roll", "forward", "side", "up">>   \* clientMoveWordModels
Angles == {"yaw", "pitch", "roll"}
CommandFields == ToSet(Words) \cup {"buttons", "impulse", "msec"}
NoCommand == [x \in CommandFields |-> 0]
CommandCount == 3

\* appendDeltaClientCommand: the fields that changed, and the duration.
WireCommand(base, command) ==
  [x \in {y \in CommandFields : command[y] # base[y] \/ y = "msec"} |-> command[x]]
\* appendClientMovePayload
WireMove(commands) ==
  [i \in DOMAIN commands |-> WireCommand(IF i = 1 THEN NoCommand ELSE commands[i - 1], commands[i])]

\* parseDeltaClientCommand, parseClientMove
ParseCommand(base, wire) == [x \in CommandFields |-> IF x \in DOMAIN wire THEN wire[x] ELSE base[x]]
ParseMove(wire) ==
  LET command[i \in 0..Len(wire)] == IF i = 0 THEN NoCommand ELSE ParseCommand(command[i - 1], wire[i])
  IN [i \in DOMAIN wire |-> command[i]]

\* clientMoveRecordAt
HasMove(moves, seq) == seq % MoveHistory \in DOMAIN moves /\ moves[seq % MoveHistory].seq = seq
MoveAt(moves, seq) == moves[seq % MoveHistory]

\* Mutant: the first of the three commands is taken for the one before it.
CommandSequenceOff(seq, i) == seq - CommandCount + i - 1

\* clientCommandSequence: the number of the i-th command of a packet.
CommandSequence(seq, i) == seq - CommandCount + i

Record(seq, i, op) ==
  [seq |-> CommandSequence(seq, i), command |-> ParseMove(op.wire)[i], lossage |-> op.lossage]

\* commitClientMoveRange: the commands of a packet from the first on, under their own numbers.
CommitMoves(moves, ops, seq, first) ==
  LET slot(i) == CommandSequence(seq, i) % MoveHistory
      commit(m, op) ==
        [s \in DOMAIN m \cup {slot(i) : i \in first..CommandCount} |->
           IF \E i \in first..CommandCount : slot(i) = s
           THEN Record(seq, CHOOSE i \in first..CommandCount : slot(i) = s, op) ELSE m[s]]
  IN FoldLeft(LAMBDA m, op : IF op.op = "move" THEN commit(m, op) ELSE m, moves, ops)

\* transmittedClientMoveRange: the first of the commands that are sent.
FirstSent(delta) == IF delta < CommandCount THEN CommandCount - delta + 1 ELSE 1

-----------------------------------------------------------------------------

\* newClientMovePredictor: angles go on turning through the commands that are not sent.
Predictor(previous, base, skipped) ==
  [command |-> [x \in CommandFields |->
                  IF x \in Angles THEN (base[x] + Sub16(base[x], previous[x]) * skipped) % WordSize ELSE base[x]],
   turn |-> [x \in Angles |-> Sub16(base[x], previous[x])]]

\* What a word of the next command is expected to be.
Expected(p, x) == IF x \in Angles THEN Add16(p.command[x], p.turn[x]) ELSE p.command[x]
\* The predictor after a command.
Advance(p, command) ==
  [command |-> command,
   turn |-> [x \in Angles |-> Add16(p.turn[x], Sub16(command[x], Expected(p, x)))]]

\* CMPredictionMask: the bits that the next mask is compared with.
PredictionBits == {<<x, part>> : x \in Angles, part \in {"lo", "hi"}} \cup {Row("msec")}

\* clientMovePredictor.plan and encodeClientCommandDelta
CommandMask(p, command) ==
  UNION {WordBits(Words[i], Sub16(command[Words[i]], Expected(p, Words[i]))) : i \in DOMAIN Words}
  \cup (IF command["buttons"] # p.command["buttons"] THEN {Row("buttons")} ELSE {})
  \cup (IF command["msec"] # p.command["msec"] THEN {Row("msec")} ELSE {})
  \cup (IF command["impulse"] # 0 THEN {Row("impulse")} ELSE {})

CommandSymbols(p, command, previousMask) ==
  LET mask == CommandMask(p, command)
  IN Sym(Row("mask"), MaskXor(mask, previousMask))
     \o Concat([i \in DOMAIN Words |-> WordSymbols(Words[i], Sub16(command[Words[i]], Expected(p, Words[i])))])
     \o SymIf(Row("buttons") \in mask, Row("buttons"), Xor(command["buttons"], p.command["buttons"]))
     \o SymIf(Row("msec") \in mask, Row("msec"), Sub8(command["msec"], p.command["msec"]))
     \o SymIf(Row("impulse") \in mask, Row("impulse"), command["impulse"])

\* decodeClientCommand: the reader's record is the command, which starts as what is expected.
ReadCommand(r, p, mask) ==
  LET start == [x \in CommandFields |-> IF x = "impulse" THEN 0 ELSE Expected(p, x)]
      words == FoldLeft(LAMBDA acc, x : ReadMaskedWord(acc, <<x, "lo">> \in mask, <<x, "hi">> \in mask, x, x),
                        [r EXCEPT !.rec = start], Words)
      buttons == ReadIf(words, Row("buttons") \in mask, Row("buttons"),
                        LAMBDA v : [words.rec EXCEPT !["buttons"] = Xor(@, v)])
      msec == ReadIf(buttons, Row("msec") \in mask, Row("msec"),
                     LAMBDA v : [buttons.rec EXCEPT !["msec"] = Add8(@, v)])
  IN ReadIf(msec, Row("impulse") \in mask, Row("impulse"), LAMBDA v : [msec.rec EXCEPT !["impulse"] = v])

\* The history that a move of this packet needs, and what it is predicted from.
BaseKnown(moves, seq, delta) == HasMove(moves, seq - delta - 1) /\ HasMove(moves, seq - delta)
StartOf(moves, seq, delta) ==
  Predictor(MoveAt(moves, seq - delta - 1).command, MoveAt(moves, seq - delta).command,
            IF delta > CommandCount THEN delta - CommandCount ELSE 0)

\* encodeClientMove
MoveSymbols(moves, op, seq, delta) ==
  LET commands == ParseMove(op.wire)
      one(cur, i) ==
        [syms |-> cur.syms \o CommandSymbols(cur.p, commands[i], cur.mask),
         mask |-> CommandMask(cur.p, commands[i]) \cap PredictionBits, p |-> Advance(cur.p, commands[i])]
  IN Sym(Row("checksum"), op.checksum)
     \o Sym(Row("lossage"), Sub8(op.lossage, MoveAt(moves, seq - delta).lossage))
     \o FoldLeft(LAMBDA cur, i : IF i < FirstSent(delta) THEN cur ELSE one(cur, i),
                 [syms |-> <<>>, mask |-> {}, p |-> StartOf(moves, seq, delta)], <<1, 2, 3>>).syms

\* decodeClientMove: the commands that were not sent are in the history.
MoveKnown(moves, seq, delta) ==
  BaseKnown(moves, seq, delta)
  /\ \A i \in 1..(FirstSent(delta) - 1) : HasMove(moves, CommandSequence(seq, i))

ReadMove(r, moves, seq, delta) ==
  LET checksum == ReadValue([r EXCEPT !.rec = 0], Row("checksum"))
      lossage == Read([checksum EXCEPT !.rec = 0], Row("lossage"),
                      LAMBDA v : Add8(v, MoveAt(moves, seq - delta).lossage))
      known == [i \in 1..(FirstSent(delta) - 1) |-> MoveAt(moves, CommandSequence(seq, i)).command]
      one(acc) ==
        LET xor == ReadValue([acc EXCEPT !.rec = {}], Row("mask"))
            mask == MaskXor(xor.rec, acc.rec.mask)
            command == ReadCommand(xor, acc.rec.p, mask)
        IN [command EXCEPT !.rec = [commands |-> Append(acc.rec.commands, command.rec),
                                    mask |-> mask \cap PredictionBits, p |-> Advance(acc.rec.p, command.rec)]]
      all == FoldLeft(LAMBDA acc, i : IF i < FirstSent(delta) THEN acc ELSE one(acc),
                      [lossage EXCEPT !.rec = [commands |-> known, mask |-> {}, p |-> StartOf(moves, seq, delta)]],
                      <<1, 2, 3>>)
  IN [all EXCEPT !.rec = [op |-> "move", checksum |-> checksum.rec, lossage |-> lossage.rec,
                          wire |-> WireMove(all.rec.commands)]]

-----------------------------------------------------------------------------

(* Texts of letters, ended by a zero.  A text of a dictionary is sent as   *)
(* the escape and its token, and a letter like the escape not at all.      *)
Escape == ByteSize - 1

LongestMatch(text, dictionary) ==
  LET at == {i \in DOMAIN dictionary : dictionary[i] # <<>> /\ IsPrefix(dictionary[i], text)}
  IN CHOOSE i \in at : \A j \in at : Len(dictionary[j]) < Len(dictionary[i])
                                     \/ (Len(dictionary[j]) = Len(dictionary[i]) /\ i <= j)
Matches(text, dictionary) == \E i \in DOMAIN dictionary : dictionary[i] # <<>> /\ IsPrefix(dictionary[i], text)

\* clientString: the text of a token.
TokenText(token, names) ==
  CASE token[1] = "proxy" -> ProxyTexts[token[2]]
    [] token[1] = "common" -> CommonTexts[token[2]]
    [] OTHER -> names[token[2]]

\* matchClientString: the first dictionary that has a match, and its longest one.
Token(text, names) ==
  IF Matches(text, ProxyTexts) THEN <<"proxy", LongestMatch(text, ProxyTexts)>>
  ELSE IF Matches(text, names) THEN <<"name", LongestMatch(text, names)>>
  ELSE <<"common", LongestMatch(text, CommonTexts)>>

\* encodeClientString: the symbols from each letter on, and whether there are any
TextSymbols(text, names) ==
  LET rest(i) == SubSeq(text, i, Len(text))
      known(i) == Matches(rest(i), ProxyTexts) \/ Matches(rest(i), names) \/ Matches(rest(i), CommonTexts)
      plan[i \in 1..(Len(text) + 1)] ==
        LET token == Token(rest(i), names)
        IN IF i > Len(text) THEN [ok |-> TRUE, syms |-> <<>>]
           ELSE IF known(i)
           THEN LET after == plan[i + Len(TokenText(token, names))]
                IN [after EXCEPT !.syms = Sym(Row("text"), Escape) \o Sym(Row("token"), token) \o @]
           ELSE IF text[i] = Escape THEN [ok |-> FALSE, syms |-> <<>>]
           ELSE [plan[i + 1] EXCEPT !.syms = Sym(Row("text"), text[i]) \o @]
  IN plan[1]

\* decodeClientString, where a token without a text is an error, and decodeClientLiteralString.
ReadClientText(r, names, literal) ==
  LET Step(acc) ==
        LET text == acc.rec
            v == ReadValue([acc EXCEPT !.rec = 0], Row("text"))
            token == ReadValue([v EXCEPT !.rec = <<"common", 1>>], Row("token"))
            unknown == token.rec[1] = "name" /\ (token.rec[2] \notin DOMAIN names \/ names[token.rec[2]] = <<>>)
        IN IF acc.bad \/ (text # <<>> /\ Last(text) = 0) THEN acc
           ELSE IF literal \/ v.rec # Escape THEN [v EXCEPT !.rec = Append(text, v.rec)]
           ELSE IF token.bad \/ unknown THEN [acc EXCEPT !.bad = TRUE]
           ELSE [token EXCEPT !.rec = text \o TokenText(token.rec, names)]
  IN FoldLeft(LAMBDA acc, i : Step(acc), [r EXCEPT !.rec = <<>>], [i \in DOMAIN r.in |-> i])

-----------------------------------------------------------------------------

PayloadOps == {"tmove", "peerassociation", "voicegsm"}
LiteralOps == {"voicestart", "voicestop"}
\* IsClientExtensionOpcode
ExtensionOps == {"peerassociation", "voicestart", "voicestop", "voiceraw", "voicegsm", "resync"}
\* parseClientOperations: operations that only a raw packet can have.
RawOnly == {"nop", "voiceraw"}

\* encodeClientOperation of all but a move.
OtherSymbols(op, names) ==
  CASE op.op = "stringcmd" -> TextSymbols(op.text, names).syms
    [] op.op \in LiteralOps -> [i \in DOMAIN op.text |-> <<Row("text"), op.text[i]>>]
    [] op.op \in PayloadOps -> Sym(Row("bytes"), op.bytes)
    [] op.op = "delta" -> Sym(Row("bytes"), op.ack)
    [] op.op = "upload" ->
         Sym(Row("size"), Len(op.data))
         \o [i \in DOMAIN op.data |-> <<Row("upload"), Sub8(op.data[i], IF i = 1 THEN 0 ELSE op.data[i - 1])>>]
    [] OTHER -> <<>>

\* decodeClientOperations: one operation of this type.
ReadOperation(r, type, names) ==
  LET text == ReadClientText(r, names, FALSE)
      literal == ReadClientText(r, names, TRUE)
      bytes == ReadValue([r EXCEPT !.rec = 0], Row("bytes"))
      size == ReadValue([r EXCEPT !.rec = 0], Row("size"))
      data == FoldLeft(LAMBDA acc, i :
                         Read(acc, Row("upload"),
                              LAMBDA v : Append(acc.rec, Add8(v, IF i = 1 THEN 0 ELSE acc.rec[i - 1]))),
                       [size EXCEPT !.rec = <<>>], [i \in 1..size.rec |-> i])
  IN CASE type = "stringcmd" -> [text EXCEPT !.rec = [op |-> type, text |-> @]]
       [] type \in LiteralOps -> [literal EXCEPT !.rec = [op |-> type, text |-> @]]
       [] type \in PayloadOps -> [bytes EXCEPT !.rec = [op |-> type, bytes |-> @]]
       [] type = "delta" -> [bytes EXCEPT !.rec = [op |-> type, ack |-> @]]
       [] type = "upload" -> [data EXCEPT !.rec = [op |-> type, data |-> @]]
       [] OTHER -> [r EXCEPT !.rec = [op |-> type]]
=============================================================================
