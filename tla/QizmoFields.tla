---------------------------- MODULE QizmoFields -----------------------------
(***************************************************************************)
(* The symbols of a compressed Qizmo packet and the ways a field of a      *)
(* record is coded against the same field of a base record (qizmo/packed,  *)
(* fields.go of qizmo/internal/message).                                   *)
(*                                                                         *)
(* A symbol is <<row, value>>: the row is the frequency table it is coded  *)
(* with.  The range coder is left out; a decoder that asks for another row *)
(* than the encoder used decodes noise from there on, which the model      *)
(* records by setting bad.  A mask is the set of its bits, and the XOR of  *)
(* two masks the bits that are in one of them.                             *)
(***************************************************************************)
EXTENDS Integers, Sequences, SequencesExt

ByteSize == 256
\* velocityToCoordDivisor
Divisor == 125

WordSize == ByteSize * ByteSize
Sub8(a, b) == (a - b) % ByteSize
Add8(a, b) == (a + b) % ByteSize
Sub16(a, b) == (a - b) % WordSize
Add16(a, b) == (a + b) % WordSize
Signed8(b) == IF b < ByteSize \div 2 THEN b ELSE b - ByteSize
Signed16(w) == IF w < WordSize \div 2 THEN w ELSE w - WordSize

Bit(x, i) == (x \div 2^i) % 2
Xor(a, b) ==
  FoldLeft(LAMBDA acc, i : acc + ((Bit(a, i) + Bit(b, i)) % 2) * 2^i, 0, [i \in 1..8 |-> i - 1])
Xor16(a, b) ==
  Xor(a % ByteSize, b % ByteSize) + ByteSize * Xor(a \div ByteSize, b \div ByteSize)
MaskXor(m, n) == (m \ n) \cup (n \ m)

\* A word as a signed low byte and the byte that makes up the rest.
SplitDelta16(d) ==
  LET low == d % ByteSize
  IN [low |-> low, high |-> Sub16(d, Signed8(low)) \div ByteSize]

\* The way at a velocity in scale milliseconds, rounded alike on both sides of zero.
Scaled16(w, scale) ==
  LET v == Signed16(w)
      abs == IF v < 0 THEN -v ELSE v
      out == (abs * scale + Divisor \div 2) \div Divisor
  IN IF v < 0 THEN -out ELSE out

-----------------------------------------------------------------------------

Row(name) == <<name, "byte">>
Sym(row, v) == << <<row, v>> >>
SymIf(cond, row, v) == IF cond THEN Sym(row, v) ELSE <<>>
Concat(seqs) == FoldLeft(LAMBDA a, s : a \o s, <<>>, seqs)

\* A decoder: the symbols it has not read, whether it is out of step, the record it builds.
Reader(in, rec) == [in |-> in, bad |-> FALSE, rec |-> rec]

ReadValue(r, row) ==
  IF r.bad \/ r.in = <<>> \/ Head(r.in)[1] # row THEN [r EXCEPT !.bad = TRUE]
  ELSE [r EXCEPT !.in = Tail(@), !.rec = Head(r.in)[2]]
Read(r, row, Apply(_)) ==
  IF r.bad THEN r
  ELSE IF r.in = <<>> \/ Head(r.in)[1] # row THEN [r EXCEPT !.bad = TRUE]
  ELSE [r EXCEPT !.in = Tail(@), !.rec = Apply(Head(r.in)[2])]
ReadIf(r, cond, row, Apply(_)) == IF cond THEN Read(r, row, Apply) ELSE r

\* What is done with the reader once r has been read.
Then(r, Go(_)) == IF r.bad THEN r ELSE Go(r)

\* decodeMaskedWordDelta, added to a field of the record.
ReadMaskedWord(r, lo, hi, row, at) ==
  LET low == ReadIf(r, lo, <<row, "lo">>,
                    LAMBDA v : [r.rec EXCEPT ![at] = Add16(@, Signed8(v))])
  IN ReadIf(low, hi, <<row, "hi">>,
            LAMBDA v : [low.rec EXCEPT ![at] = Add16(@, v * ByteSize)])

\* encodeWordDelta: the parts of a word that are not zero.
WordSymbols(row, d) ==
  LET s == SplitDelta16(d)
  IN SymIf(s.low # 0, <<row, "lo">>, s.low) \o SymIf(s.high # 0, <<row, "hi">>, s.high)
\* setWordDeltaMask
WordBits(row, d) ==
  LET s == SplitDelta16(d)
  IN (IF s.low # 0 THEN {<<row, "lo">>} ELSE {}) \cup (IF s.high # 0 THEN {<<row, "hi">>} ELSE {})

-----------------------------------------------------------------------------

(***************************************************************************)
(* A field of a player or an entity: its name, which is also its row, the  *)
(* mask that says whether it is present, and how it is coded:              *)
(*   word, byte  the difference to the base                                *)
(*   acc, carry  the change of that difference since the base, for a word  *)
(*               and for a byte: the record keeps its difference as acc    *)
(*   xor, set    a byte's changed bits, a byte's new value                 *)
(*   model       the new value's index in the remapped model list          *)
(***************************************************************************)
Field(name, mask, kind) == [name |-> name, mask |-> mask, kind |-> kind, acc |-> name]
AccField(name, acc, mask, kind) == [name |-> name, mask |-> mask, kind |-> kind, acc |-> acc]

\* The index that a value has in a remap, its lowest; 0 if it has none.
RemapIndex(remap, v) ==
  IF \E i \in DOMAIN remap : remap[i] = v
  THEN CHOOSE i \in DOMAIN remap : remap[i] = v /\ \A j \in DOMAIN remap : remap[j] = v => i <= j
  ELSE 0

\* The difference that is sent for a field.
FieldDelta(f, base, target) ==
  LET n == f.name
  IN CASE f.kind = "word" -> Sub16(target[n], base[n])
       [] f.kind = "acc" -> Sub16(Sub16(target[n], base[n]), base[f.acc])
       [] f.kind = "byte" -> Sub8(target[n], base[n])
       [] f.kind = "carry" -> Sub8(Sub8(target[n], base[n]), base[f.acc])
       [] f.kind = "xor" -> Xor(target[n], base[n])
       [] OTHER -> IF target[n] = base[n] THEN 0 ELSE 1

FieldBits(f, base, target) ==
  LET d == FieldDelta(f, base, target)
  IN IF f.kind \in {"word", "acc"} THEN WordBits(f.name, d)
     ELSE IF d # 0 THEN {Row(f.name)} ELSE {}

FieldSymbols(f, base, target, remap) ==
  LET d == FieldDelta(f, base, target)
      row == Row(f.name)
  IN CASE f.kind \in {"word", "acc"} -> WordSymbols(f.name, d)
       [] f.kind = "set" -> SymIf(d # 0, row, target[f.name])
       [] f.kind = "model" -> SymIf(d # 0, row, RemapIndex(remap, target[f.name]))
       [] OTHER -> SymIf(d # 0, row, d)

\* Mutant: the encoder does not remember the difference.
FieldResultValue(f, base, target, result) == [result EXCEPT ![f.name] = target[f.name]]

\* What the encoder remembers of a field: the target's value and its difference to the base.
FieldResult(f, base, target, result) ==
  LET n == f.name
      moved == [result EXCEPT ![n] = target[n]]
  IN CASE f.kind = "acc" -> [moved EXCEPT ![f.acc] = Sub16(target[n], base[n])]
       [] f.kind = "carry" -> [moved EXCEPT ![f.acc] = Sub8(target[n], base[n])]
       [] OTHER -> moved

\* The decoder's side, for a record that starts as the base; mask has the bits of the field.
ReadField(r, f, mask, remap) ==
  LET n == f.name
      has == Row(n) \in mask
      lo == <<n, "lo">> \in mask
      hi == <<n, "hi">> \in mask
      value(Apply(_)) == ReadIf(r, has, Row(n), Apply)
      acc == ReadMaskedWord(r, lo, hi, n, f.acc)
      carry == value(LAMBDA v : [r.rec EXCEPT ![f.acc] = Add8(@, v)])
  IN CASE f.kind = "word" -> ReadMaskedWord(r, lo, hi, n, n)
       [] f.kind = "acc" -> [acc EXCEPT !.rec[n] = Add16(@, acc.rec[f.acc])]
       [] f.kind = "carry" -> [carry EXCEPT !.rec[n] = Add8(@, carry.rec[f.acc])]
       [] f.kind = "byte" -> value(LAMBDA v : [r.rec EXCEPT ![n] = Add8(@, v)])
       [] f.kind = "xor" -> value(LAMBDA v : [r.rec EXCEPT ![n] = Xor(@, v)])
       [] f.kind = "set" -> value(LAMBDA v : [r.rec EXCEPT ![n] = v])
       [] OTHER -> value(LAMBDA v : [r.rec EXCEPT ![n] = remap[v]])

ReadFields(r, fields, remap) ==
  FoldLeft(LAMBDA acc, f : ReadField(acc, f, acc.rec[f.mask], remap), r, fields)
=============================================================================
