----------------------------- MODULE WireLayout -----------------------------
(***************************************************************************)
(* What the commands of packet/command put on the wire and take from it.   *)
(*                                                                         *)
(* A layout is the sequence of fields that a command's Bytes writes, or    *)
(* that its Parse reads, each with the accessor of common/buffer that is   *)
(* used for it.  The values themselves are left out; the flags, counts and *)
(* versions that decide which fields follow are kept.  Accessors that only *)
(* reinterpret the same bytes (PutInt16 and GetUint16, PutFloat32 and      *)
(* PutCoord32) are one kind.                                               *)
(*                                                                         *)
(* A context (common/context) holds what a reader has learnt of the format *)
(* of the stream.  Parse copies into the command what Bytes will need of   *)
(* it.                                                                     *)
(***************************************************************************)
EXTENDS Naturals, Sequences

U8(x) == << <<x, "u8">> >>
U16(x) == << <<x, "u16">> >>
U32(x) == << <<x, "u32">> >>
F32(x) == U32(x)
Str(x) == << <<x, "string">> >>
Raw(x, n) == << <<x, "bytes", n>> >>

\* Three components, written one after the other.
Vec3(kind, x) == [i \in 1..3 |-> <<x, kind, i>>]
At(kind, x, i) == << <<x, kind, i>> >>

Opt(cond, layout) == IF cond THEN layout ELSE <<>>

\* n strings and the empty string that ends them.
Strings(x, n) == [i \in 1..n |-> <<x, "string", i>>] \o << <<x, "end">> >>

\* n groups of fields, one after the other.
Repeat(n, layout) == [i \in 1..(n * Len(layout)) |-> layout[((i - 1) % Len(layout)) + 1]]

-----------------------------------------------------------------------------

VersionNQ == 15
VersionQW210 == 25
VersionQW221 == 26
VersionQW == 28
Versions == {VersionNQ, VersionQW210, VersionQW221, VersionQW}

\* The protocol extensions that change a layout, by their names in protocol/fte and protocol/mvd.
FTEExtensions == {"HullSize", "Trans", "Scale", "Fatness", "EntityDbl", "ColorMod",
                  "FloatCoords", "ChunkedDownloads"}
MVDExtensions == {"FloatCoords", "HighLagTeleport", "HiddenMessages"}

\* A context that nothing has been announced to; coordinates have 2 or 4 bytes, angles 1 or 2.
NewContext == [pv |-> 0, fte |-> {}, mvd |-> {}, coordSize |-> 2, angleSize |-> 1,
               isMVD |-> FALSE, isQWD |-> FALSE, isDem |-> FALSE]

IsNQ(ctx) == ctx.isDem \/ ctx.pv = VersionNQ

CoordKind(ctx) == IF ctx.coordSize = 4 THEN "u32" ELSE "coord16"
AngleKind(ctx) == IF ctx.angleSize = 2 THEN "angle16" ELSE "angle8"
=============================================================================
