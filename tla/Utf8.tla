-------------------------------- MODULE Utf8 --------------------------------
(***************************************************************************)
(* The parser's UTF-8 arithmetic: encodeUtf8 for code points from escapes, *)
(* utf8SeqLength and isLegalUtf8 for bytes from the input, hexchar, and    *)
(* the surrogate arithmetic of readUnicode; and, beside it, what RFC 3629  *)
(* and RFC 8259 define, to compare them with.                              *)
(***************************************************************************)
EXTENDS Integers, Sequences

Octet == 0 .. 255

(* encodeUtf8: the bytes it pushes, none for a code point it refuses. *)
EncodeUtf8(cp) ==
  CASE cp < 128   -> <<cp>>
    [] 128 <= cp /\ cp < 2048 ->
         <<((cp \div 64) % 32) + 192, (cp % 64) + 128>>
    [] 2048 <= cp /\ cp < 65536 /\ ~(55296 <= cp /\ cp < 57344) ->
         <<((cp \div 4096) % 16) + 224, ((cp \div 64) % 64) + 128, (cp % 64) + 128>>
    [] 65536 <= cp /\ cp < 1114112 ->
         <<((cp \div 262144) % 8) + 240, ((cp \div 4096) % 64) + 128,
           ((cp \div 64) % 64) + 128, (cp % 64) + 128>>
    [] OTHER -> <<>>

(* hexchar, -1 for a byte that is no hexadecimal digit. *)
HexChar(c) ==
  CASE c \in 48 .. 57  -> c - 48
    [] c \in 97 .. 102 -> c - 97 + 10
    [] c \in 65 .. 70  -> c - 65 + 10
    [] OTHER           -> -1

IsHigh(cp) == cp \in 55296 .. 56319
IsLow(cp)  == cp \in 56320 .. 57343

(* A slip: the pair is not moved above the basic plane. *)
FromPairUnmoved(h, l) == (h - 55296) * 1024 + (l - 56320)

FromPair(h, l) == (h - 55296) * 1024 + ((l - 56320) + 65536)

(* How many bytes the sequence a byte leads has; 0 if it leads none. *)
Utf8SeqLength(byte) ==
  CASE byte \in 0 .. 127   -> 1
    [] byte \in 194 .. 223 -> 2
    [] byte \in 224 .. 239 -> 3
    [] byte \in 240 .. 244 -> 4
    [] OTHER               -> 0

(* A slip: the surrogates' row of the table is missing, and E0's is off by one. *)
SecondByteMistaken(byte) ==
  CASE byte = 224 -> 161 .. 191
    [] byte = 240 -> 144 .. 191
    [] byte = 244 -> 128 .. 143
    [] OTHER      -> 128 .. 191

(* The second byte's range depends on the first. *)
SecondByte(byte) ==
  CASE byte = 224 -> 160 .. 191
    [] byte = 237 -> 128 .. 159
    [] byte = 240 -> 144 .. 191
    [] byte = 244 -> 128 .. 143
    [] OTHER      -> 128 .. 191

IsLegalUtf8(bytes) ==
  /\ Len(bytes) \in 1 .. 4
  /\ \A i \in 3 .. Len(bytes) : bytes[i] \in 128 .. 191
  /\ Len(bytes) >= 2 => bytes[2] \in SecondByte(bytes[1])
  /\ bytes[1] \notin 128 .. 193 /\ bytes[1] <= 244

-----------------------------------------------------------------------------
(***************************************************************************)
(* The reference.  A character is described by a pattern, one set of bytes *)
(* for each of its positions.                                              *)
(***************************************************************************)
Tail10 == 128 .. 191

(* RFC 3629, section 4: UTF8-2, UTF8-3 and UTF8-4. *)
Multibyte ==
  {<<194 .. 223, Tail10>>,
   <<{224}, 160 .. 191, Tail10>>, <<225 .. 236, Tail10, Tail10>>,
   <<{237}, 128 .. 159, Tail10>>, <<238 .. 239, Tail10, Tail10>>,
   <<{240}, 144 .. 191, Tail10, Tail10>>,
   <<241 .. 243, Tail10, Tail10, Tail10>>,
   <<{244}, 128 .. 143, Tail10, Tail10>>}

Utf8Char == {<<0 .. 127>>} \union Multibyte

StartsLike(s, pattern) ==
  Len(s) <= Len(pattern) /\ \A i \in 1 .. Len(s) : s[i] \in pattern[i]
Is(s, patterns) ==
  \E p \in patterns : Len(s) = Len(p) /\ StartsLike(s, p)
Starts(s, patterns) ==
  \E p \in patterns : StartsLike(s, p)

(* The code point a well-formed sequence stands for. *)
Decoded(s) ==
  LET low(i) == s[i] - 128 IN
  CASE Len(s) = 1 -> s[1]
    [] Len(s) = 2 -> (s[1] - 192) * 64 + low(2)
    [] Len(s) = 3 -> (s[1] - 224) * 4096 + low(2) * 64 + low(3)
    [] Len(s) = 4 -> (s[1] - 240) * 262144 + low(2) * 4096 + low(3) * 64 + low(4)

IsScalarValue(cp) == cp \in Nat /\ cp < 1114112 /\ ~(55296 <= cp /\ cp < 57344)

-----------------------------------------------------------------------------
(* RFC 8259, section 7: the characters of a string, by the bytes they are
   written with. *)
Digit  == 48 .. 57
HexDig == Digit \union 65 .. 70 \union 97 .. 102
DChar  == {68, 100}

Plain  == {<<(32 .. 127) \ {34, 92}>>}
Escape == {<<{92}, {34, 92, 47, 98, 102, 110, 114, 116}>>}
CodeUnit ==
  {<<{92}, {117}, HexDig \ DChar, HexDig, HexDig, HexDig>>,
   <<{92}, {117}, DChar, 48 .. 55, HexDig, HexDig>>}
Pair ==
  {<<{92}, {117}, DChar, {56, 57, 65, 66, 97, 98}, HexDig, HexDig,
     {92}, {117}, DChar, 67 .. 70 \union 99 .. 102, HexDig, HexDig>>}

Character == Plain \union Escape \union CodeUnit \union Pair \union Multibyte

Hex4(s, i) == ((HexChar(s[i]) * 16 + HexChar(s[i + 1])) * 16
                 + HexChar(s[i + 2])) * 16 + HexChar(s[i + 3])

(* The code point a character of a string stands for. *)
Denoted(s) ==
  CASE Is(s, CodeUnit) -> Hex4(s, 3)
    [] Is(s, Pair)     -> 65536 + (Hex4(s, 3) % 1024) * 1024 + (Hex4(s, 9) % 1024)
    [] Is(s, Escape)   -> CASE s[2] = 98  -> 8
                            [] s[2] = 102 -> 12
                            [] s[2] = 110 -> 10
                            [] s[2] = 114 -> 13
                            [] s[2] = 116 -> 9
                            [] OTHER      -> s[2]
    [] OTHER           -> Decoded(s)
=============================================================================
