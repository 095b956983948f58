------------------------------- MODULE MCUtf8 -------------------------------
(***************************************************************************)
(* Utf8 over its whole domain: every code point and every surrogate pair,  *)
(* a row of them per state, and byte sequences of up to four bytes, the    *)
(* first two of them any, the others from Probes.                          *)
(***************************************************************************)
EXTENDS Utf8

CONSTANTS
  Probes,   \* the third and fourth bytes tried
  Rows      \* bound: rows of 256 code points, past the last code point

VARIABLES bytes, row

utf8Vars == <<bytes, row>>

Utf8Init == bytes = <<>> /\ row = -1

(* The loop of readUtf8 that fills its four bytes. *)
ReadByte ==
  /\ row = 0
  /\ Len(bytes) < (IF bytes = <<>> THEN 1 ELSE Utf8SeqLength(bytes[1]))
  /\ \E b \in IF Len(bytes) < 2 THEN Octet ELSE Probes : bytes' = Append(bytes, b)
  /\ UNCHANGED row

(* The sequence is complete, or its first byte leads none. *)
NextSequence ==
  /\ bytes # <<>> /\ Len(bytes) >= Utf8SeqLength(bytes[1])
  /\ bytes' = <<>>
  /\ UNCHANGED row

NextRow ==
  /\ bytes = <<>> /\ row < Rows
  /\ row' = row + 1
  /\ UNCHANGED bytes

Utf8Next == ReadByte \/ NextSequence \/ NextRow

Utf8Spec == Utf8Init /\ [][Utf8Next]_utf8Vars

(* encodeUtf8 writes every Unicode scalar value as the sequence RFC 3629
   defines for it, and refuses everything else. *)
EncodesScalarValues ==
  bytes = <<>> /\ row >= 0 => \A low \in 0 .. 255 :
    LET point == row * 256 + low
        s     == EncodeUtf8(point)
    IN  IF IsScalarValue(point) THEN Is(s, Utf8Char) /\ Decoded(s) = point
                                ELSE s = <<>>

(* readUnicode maps the surrogate pairs one to one onto the code points above
   the basic plane: the pair is the UTF-16 form of what it yields. *)
PairIsUtf16(h, l) ==
  LET point == FromPair(55296 + h, 56320 + l) IN
  /\ 65536 <= point /\ point < 1114112
  /\ (point - 65536) \div 1024 = h /\ (point - 65536) % 1024 = l

PairsAreUtf16 ==
  bytes = <<>> /\ row \in 0 .. 1023 =>
    \A low \in 0 .. 1023 : PairIsUtf16(row, low)

(***************************************************************************)
(* An escape names any Unicode scalar value, and only those: encodeUtf8    *)
(* writes each as its UTF-8 and refuses the rest, and the code points      *)
(* readUnicode makes of surrogate pairs are those encodeUtf8 accepts above *)
(* the basic plane, each of one pair.                                      *)
(***************************************************************************)
EscapesNameUnicode == EncodesScalarValues /\ PairsAreUtf16

(***************************************************************************)
(* utf8SeqLength and isLegalUtf8 together accept the well-formed multibyte *)
(* sequences of RFC 3629: no overlong form, no surrogate, nothing above    *)
(* U+10FFFF, and no legal sequence refused or cut short.                   *)
(***************************************************************************)
LegalIsWellFormed ==
  bytes # <<>> =>
    LET count == Utf8SeqLength(bytes[1]) IN
    /\ count = 0 => ~Starts(bytes, Utf8Char)
    /\ Len(bytes) = count => (IsLegalUtf8(bytes) <=> Is(bytes, Utf8Char))
    /\ Len(bytes) < count => ~Is(bytes, Utf8Char)
=============================================================================
