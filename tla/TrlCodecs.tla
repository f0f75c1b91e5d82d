------------------------------ MODULE TrlCodecs ------------------------------
(***************************************************************************)
(* The byte codecs of _codec.py as far as they are not the identity.  A     *)
(* number that was encoded is known by the format it was written in and a   *)
(* value; to read it in another format, or where there is none, leads the   *)
(* reader astray: it raises, or takes bytes for what they are not.          *)
(***************************************************************************)
EXTENDS Integers, Sequences

CONSTANT Half      \* 2^63: signed numbers of a word run from -Half to Half - 1

ASSUME CodecsAssumption == Half \in Nat \ {0}

\* n fits a signed word.
Signed(n) == -Half <= n /\ n < Half

\* encode_svarint: (n << 1) ^ (n >> 63), cut to a word.  The shift to the right
\* is the sign only for an n that fits a signed word.
Zigzag(n) ==
  LET sign == n \div Half
  IN  (IF n >= 0 THEN 2 * n + sign ELSE sign - 2 * n) % (2 * Half)

\* decode_svarint: (u >> 1) ^ -(u & 1)
Unzigzag(u) == IF u % 2 = 0 THEN u \div 2 ELSE -(u \div 2) - 1

\* Whether encode_field takes the value: what struct.pack and to_bytes refuse
\* raises.  A byte stands for the narrow types, with room for less than Half.
FieldFits(type, value) ==
  CASE type = "U8"  -> 0 <= value /\ value < Half
    [] type = "U64" -> 0 <= value /\ value < 2 * Half
    [] type = "VAR" -> 0 <= value

\* A number in one of the formats: unsigned or signed of variable length, a
\* word, a field of a type.
U(n) == [fmt |-> "u", val |-> n]
S(n) == [fmt |-> "s", val |-> Zigzag(n)]
Q(n) == [fmt |-> "q", val |-> n]
F(type, value) == [fmt |-> type, val |-> value]

\* From cursor c on, cells hold numbers of the formats fmts.
Holds(cells, c, fmts) ==
  /\ c + Len(fmts) <= Len(cells)
  /\ \A k \in 1..Len(fmts) : cells[c + k].fmt = fmts[k]
=============================================================================
