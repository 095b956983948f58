------------------------- MODULE StringLexer_proofs -------------------------
(***************************************************************************)
(* Reading a string, for every string.  First the tables of UTF-8 and the  *)
(* arithmetic of escapes, compared with RFC 3629 and RFC 8259 whatever the *)
(* bytes; then the lexer inside the token buffer's specification, so that  *)
(* what is proved of the buffer holds while a string is read; and then the *)
(* text: at every place of the call, what the bytes consumed have come to  *)
(* and what the bytes written owe them.                                    *)
(***************************************************************************)
EXTENDS StringLexer, MCUtf8, TokenBuffer_proofs

-----------------------------------------------------------------------------
(* What it is to be like a pattern, position by position. *)
LEMMA Like1 ==
  ASSUME NEW s, Len(s) \in Nat, NEW A
  PROVE  StartsLike(s, <<A>>) <=> Len(s) <= 1 /\ (Len(s) >= 1 => s[1] \in A)
BY DEF StartsLike

LEMMA Like2 ==
  ASSUME NEW s, Len(s) \in Nat, NEW A, NEW B
  PROVE  StartsLike(s, <<A, B>>) <=>
           Len(s) <= 2 /\ (Len(s) >= 1 => s[1] \in A) /\ (Len(s) >= 2 => s[2] \in B)
BY DEF StartsLike

LEMMA Like3 ==
  ASSUME NEW s, Len(s) \in Nat, NEW A, NEW B, NEW C
  PROVE  StartsLike(s, <<A, B, C>>) <=>
           /\ Len(s) <= 3 /\ (Len(s) >= 1 => s[1] \in A) /\ (Len(s) >= 2 => s[2] \in B)
           /\ (Len(s) >= 3 => s[3] \in C)
BY DEF StartsLike

LEMMA Like4 ==
  ASSUME NEW s, Len(s) \in Nat, NEW A, NEW B, NEW C, NEW D
  PROVE  StartsLike(s, <<A, B, C, D>>) <=>
           /\ Len(s) <= 4 /\ (Len(s) >= 1 => s[1] \in A) /\ (Len(s) >= 2 => s[2] \in B)
           /\ (Len(s) >= 3 => s[3] \in C) /\ (Len(s) >= 4 => s[4] \in D)
BY DEF StartsLike

(* A sequence with the lead x that starts a multibyte character. *)
Tails(s) == (Len(s) >= 3 => s[3] \in Tail10) /\ (Len(s) >= 4 => s[4] \in Tail10)
LikeMultibyte(s, x, count) ==
  /\ Utf8SeqLength(x) = count /\ Len(s) <= count
  /\ Len(s) >= 2 => s[2] \in SecondByte(x)
  /\ Tails(s)

(* What a row of RFC 3629 says of its leads. *)
Row(x, A, B, count) ==
  x \in A => Utf8SeqLength(x) = count /\ \A b : b \in SecondByte(x) <=> b \in B

LEMMA Row2 ==
  ASSUME NEW s, Len(s) \in Nat, Len(s) >= 1, NEW x, s[1] = x, NEW A,
         Row(x, A, Tail10, 2)
  PROVE  StartsLike(s, <<A, Tail10>>) <=> x \in A /\ LikeMultibyte(s, x, 2)
BY Like2 DEF Row, LikeMultibyte, Tails

LEMMA Row3 ==
  ASSUME NEW s, Len(s) \in Nat, Len(s) >= 1, NEW x, s[1] = x, NEW A, NEW B,
         Row(x, A, B, 3)
  PROVE  StartsLike(s, <<A, B, Tail10>>) <=> x \in A /\ LikeMultibyte(s, x, 3)
BY Like3 DEF Row, LikeMultibyte, Tails

LEMMA Row4 ==
  ASSUME NEW s, Len(s) \in Nat, Len(s) >= 1, NEW x, s[1] = x, NEW A, NEW B,
         Row(x, A, B, 4)
  PROVE  StartsLike(s, <<A, B, Tail10, Tail10>>) <=> x \in A /\ LikeMultibyte(s, x, 4)
BY Like4 DEF Row, LikeMultibyte, Tails

(* The rows of the code's two tables are those of RFC 3629. *)
LEMMA Rows2 == ASSUME NEW x \in Int PROVE Row(x, 194 .. 223, Tail10, 2)
BY DEF Row, Utf8SeqLength, SecondByte, Tail10

LEMMA Rows3 ==
  ASSUME NEW x \in Int
  PROVE  /\ Row(x, {224}, 160 .. 191, 3) /\ Row(x, 225 .. 236, Tail10, 3)
         /\ Row(x, {237}, 128 .. 159, 3) /\ Row(x, 238 .. 239, Tail10, 3)
<1>1. Row(x, {224}, 160 .. 191, 3)
  BY DEF Row, Utf8SeqLength, SecondByte
<1>2. Row(x, 225 .. 236, Tail10, 3)
  BY DEF Row, Utf8SeqLength, SecondByte, Tail10
<1>3. Row(x, {237}, 128 .. 159, 3)
  BY DEF Row, Utf8SeqLength, SecondByte
<1>4. Row(x, 238 .. 239, Tail10, 3)
  BY DEF Row, Utf8SeqLength, SecondByte, Tail10
<1>5. QED
  BY <1>1, <1>2, <1>3, <1>4

LEMMA Rows4 ==
  ASSUME NEW x \in Int
  PROVE  /\ Row(x, {240}, 144 .. 191, 4) /\ Row(x, 241 .. 243, Tail10, 4)
         /\ Row(x, {244}, 128 .. 143, 4)
<1>1. Row(x, {240}, 144 .. 191, 4)
  BY DEF Row, Utf8SeqLength, SecondByte
<1>2. Row(x, 241 .. 243, Tail10, 4)
  BY DEF Row, Utf8SeqLength, SecondByte, Tail10
<1>3. Row(x, {244}, 128 .. 143, 4)
  BY DEF Row, Utf8SeqLength, SecondByte
<1>4. QED
  BY <1>1, <1>2, <1>3

LEMMA LeadOf ==
  ASSUME NEW x \in Int
  PROVE  /\ Utf8SeqLength(x) = 2 => x \in 194 .. 223
         /\ Utf8SeqLength(x) = 3 =>
              x \in {224} \/ x \in 225 .. 236 \/ x \in {237} \/ x \in 238 .. 239
         /\ Utf8SeqLength(x) = 4 => x \in {240} \/ x \in 241 .. 243 \/ x \in {244}
BY DEF Utf8SeqLength

(* A sequence that starts like a multibyte character is led by the byte that
   counts its bytes, and each of the others is one the lead allows. *)
LEMMA MultibyteLike ==
  ASSUME NEW s, Len(s) \in Nat, Len(s) >= 1, NEW x \in Int, s[1] = x,
         NEW count \in {2, 3, 4}
  PROVE  (\E p \in Multibyte : StartsLike(s, p) /\ Len(p) = count)
           <=> LikeMultibyte(s, x, count)
<1> DEFINE p1 == <<194 .. 223, Tail10>>
<1> DEFINE p2 == <<{224}, 160 .. 191, Tail10>>
<1> DEFINE p3 == <<225 .. 236, Tail10, Tail10>>
<1> DEFINE p4 == <<{237}, 128 .. 159, Tail10>>
<1> DEFINE p5 == <<238 .. 239, Tail10, Tail10>>
<1> DEFINE p6 == <<{240}, 144 .. 191, Tail10, Tail10>>
<1> DEFINE p7 == <<241 .. 243, Tail10, Tail10, Tail10>>
<1> DEFINE p8 == <<{244}, 128 .. 143, Tail10, Tail10>>
<1>1. Multibyte = {p1, p2, p3, p4, p5, p6, p7, p8}
  BY Zenon DEF Multibyte
<1>2. /\ Len(p1) = 2 /\ Len(p2) = 3 /\ Len(p3) = 3 /\ Len(p4) = 3 /\ Len(p5) = 3
      /\ Len(p6) = 4 /\ Len(p7) = 4 /\ Len(p8) = 4
  OBVIOUS
<1>3. StartsLike(s, p1) <=> x \in 194 .. 223 /\ LikeMultibyte(s, x, 2)
  BY Rows2, Row2, Zenon
<1>20. \A A, B : Row(x, A, B, 3) =>
         (StartsLike(s, <<A, B, Tail10>>) <=> x \in A /\ LikeMultibyte(s, x, 3))
  BY Row3
<1>21. \A A, B : Row(x, A, B, 4) =>
         (StartsLike(s, <<A, B, Tail10, Tail10>>) <=> x \in A /\ LikeMultibyte(s, x, 4))
  BY Row4
<1>4. StartsLike(s, p2) <=> x \in {224} /\ LikeMultibyte(s, x, 3)
  <2>1. Row(x, {224}, 160 .. 191, 3)
    BY Rows3
  <2>2. QED
    BY <2>1, <1>20, Zenon
<1>5. StartsLike(s, p3) <=> x \in 225 .. 236 /\ LikeMultibyte(s, x, 3)
  <2>1. Row(x, 225 .. 236, Tail10, 3)
    BY Rows3
  <2>2. QED
    BY <2>1, <1>20, Zenon
<1>6. StartsLike(s, p4) <=> x \in {237} /\ LikeMultibyte(s, x, 3)
  <2>1. Row(x, {237}, 128 .. 159, 3)
    BY Rows3
  <2>2. QED
    BY <2>1, <1>20, Zenon
<1>7. StartsLike(s, p5) <=> x \in 238 .. 239 /\ LikeMultibyte(s, x, 3)
  <2>1. Row(x, 238 .. 239, Tail10, 3)
    BY Rows3
  <2>2. QED
    BY <2>1, <1>20, Zenon
<1>8. StartsLike(s, p6) <=> x \in {240} /\ LikeMultibyte(s, x, 4)
  <2>1. Row(x, {240}, 144 .. 191, 4)
    BY Rows4
  <2>2. QED
    BY <2>1, <1>21, Zenon
<1>9. StartsLike(s, p7) <=> x \in 241 .. 243 /\ LikeMultibyte(s, x, 4)
  <2>1. Row(x, 241 .. 243, Tail10, 4)
    BY Rows4
  <2>2. QED
    BY <2>1, <1>21, Zenon
<1>10. StartsLike(s, p8) <=> x \in {244} /\ LikeMultibyte(s, x, 4)
  <2>1. Row(x, {244}, 128 .. 143, 4)
    BY Rows4
  <2>2. QED
    BY <2>1, <1>21, Zenon
<1> HIDE DEF p1, p2, p3, p4, p5, p6, p7, p8
<1>11. LikeMultibyte(s, x, count) => Utf8SeqLength(x) = count
  BY DEF LikeMultibyte
<1> DEFINE Like(p) == StartsLike(s, p) /\ Len(p) = count
<1>12. (\E p \in Multibyte : Like(p)) <=> 
         Like(p1) \/ Like(p2) \/ Like(p3) \/ Like(p4) \/ Like(p5) \/ Like(p6) \/ Like(p7) \/ Like(p8)
  <2> HIDE DEF Like
  <2>1. QED
    BY <1>1
<1>13. CASE count = 2
  BY <1>2, <1>3, <1>11, <1>12, <1>13, LeadOf
<1>14. CASE count = 3
  BY <1>2, <1>4, <1>5, <1>6, <1>7, <1>11, <1>12, <1>14, LeadOf
<1>16. CASE count = 4
  BY <1>2, <1>8, <1>9, <1>10, <1>11, <1>12, <1>16, LeadOf
<1>15. QED
  BY <1>13, <1>14, <1>16

LEMMA MultibyteLengths == ASSUME NEW p \in Multibyte PROVE Len(p) \in {2, 3, 4}
BY DEF Multibyte

LEMMA MultibyteStarts ==
  ASSUME NEW s, Len(s) \in Nat, Len(s) >= 1, NEW x \in Int, s[1] = x
  PROVE  Starts(s, Multibyte) <=> \E count \in {2, 3, 4} : LikeMultibyte(s, x, count)
BY MultibyteLike, MultibyteLengths DEF Starts

LEMMA MultibyteIs ==
  ASSUME NEW s, Len(s) \in Nat, Len(s) >= 1, NEW x \in Int, s[1] = x
  PROVE  Is(s, Multibyte) <=> Len(s) \in {2, 3, 4} /\ LikeMultibyte(s, x, Len(s))
BY MultibyteLike, MultibyteLengths DEF Is

LEMMA LeadCounts ==
  ASSUME NEW x \in Int, Utf8SeqLength(x) \in {2, 3, 4}
  PROVE  x \notin 128 .. 193 /\ x <= 244
BY LeadOf

LEMMA TailsAre ==
  ASSUME NEW s, Len(s) \in {2, 3, 4}
  PROVE  (\A i \in 3 .. Len(s) : s[i] \in 128 .. 191) <=> Tails(s)
<1>1. CASE Len(s) = 2
  BY <1>1 DEF Tails
<1>2. CASE Len(s) = 3
  BY <1>2 DEF Tails, Tail10
<1>3. CASE Len(s) = 4
  BY <1>3 DEF Tails, Tail10
<1>4. QED
  BY <1>1, <1>2, <1>3

LEMMA LikeFull ==
  ASSUME NEW s, Len(s) \in Nat, Len(s) >= 2, NEW x
  PROVE  Len(s) = Utf8SeqLength(x) =>
           (LikeMultibyte(s, x, Len(s)) <=> s[2] \in SecondByte(x) /\ Tails(s))
BY DEF LikeMultibyte

(* isLegalUtf8 on a sequence of the length its lead counts. *)
TwoToFour == {2, 3, 4}

LEMMA LegalIsMultibyte ==
  ASSUME NEW s, Len(s) \in TwoToFour, NEW x \in Int, s[1] = x
  PROVE  Len(s) = Utf8SeqLength(x) => (IsLegalUtf8(s) <=> Is(s, Multibyte))
<1> USE DEF TwoToFour
<1>1. Len(s) \in Nat /\ Len(s) >= 1 /\ Len(s) >= 2 /\ Len(s) \in 1 .. 4
  OBVIOUS
<1>2. Utf8SeqLength(x) \in {2, 3, 4} => x \notin 128 .. 193 /\ x <= 244
  BY LeadCounts
<1>3. (\A i \in 3 .. Len(s) : s[i] \in 128 .. 191) <=> Tails(s)
  BY TailsAre
<1>4. Len(s) = Utf8SeqLength(x) =>
        (LikeMultibyte(s, x, Len(s)) <=> s[2] \in SecondByte(x) /\ Tails(s))
  BY <1>1, LikeFull, Zenon
<1>5. Is(s, Multibyte) <=> LikeMultibyte(s, x, Len(s))
  BY <1>1, MultibyteIs
<1>6. Len(s) = Utf8SeqLength(x) => Utf8SeqLength(x) \in {2, 3, 4}
  BY Zenon
<1>7. IsLegalUtf8(s) <=> /\ s[1] \notin 128 .. 193 /\ s[1] <= 244
                         /\ s[2] \in SecondByte(s[1]) /\ Tails(s)
  BY <1>1, <1>3, Zenon DEF IsLegalUtf8
<1>8. IsLegalUtf8(s) <=> /\ x \notin 128 .. 193 /\ x <= 244
                         /\ s[2] \in SecondByte(x) /\ Tails(s)
  BY <1>7, Zenon
<1>9. QED
  BY <1>2, <1>4, <1>5, <1>6, <1>8, Zenon

-----------------------------------------------------------------------------
(* The bytes encodeUtf8 computes, by how many they are. *)
Lead2(c) == ((c \div 64) % 32) + 192
Lead3(c) == ((c \div 4096) % 16) + 224
Lead4(c) == ((c \div 262144) % 8) + 240
Six(c)      == (c % 64) + 128

LEMMA EncodeCases ==
  ASSUME NEW c \in Nat
  PROVE  /\ c < 128 => EncodeUtf8(c) = <<c>>
         /\ 128 <= c /\ c < 2048 => EncodeUtf8(c) = <<Lead2(c), Six(c)>>
         /\ 2048 <= c /\ c < 65536 /\ ~(55296 <= c /\ c < 57344) =>
              EncodeUtf8(c) = <<Lead3(c), Six(c \div 64), Six(c)>>
         /\ 65536 <= c /\ c < 1114112 =>
              EncodeUtf8(c) = <<Lead4(c), Six(c \div 4096), Six(c \div 64), Six(c)>>
         /\ ~IsScalarValue(c) => EncodeUtf8(c) = <<>>
<1> DEFINE e1 == <<c>>
<1> DEFINE e2 == <<Lead2(c), Six(c)>>
<1> DEFINE e3 == <<Lead3(c), Six(c \div 64), Six(c)>>
<1> DEFINE e4 == <<Lead4(c), Six(c \div 4096), Six(c \div 64), Six(c)>>
<1>1. EncodeUtf8(c) = CASE c < 128 -> e1
                        [] 128 <= c /\ c < 2048 -> e2
                        [] 2048 <= c /\ c < 65536 /\ ~(55296 <= c /\ c < 57344) -> e3
                        [] 65536 <= c /\ c < 1114112 -> e4
                        [] OTHER -> <<>>
  BY SMT DEF EncodeUtf8, Lead2, Lead3, Lead4, Six
<1> HIDE DEF e1, e2, e3, e4
<1>3. /\ c < 128 => EncodeUtf8(c) = e1
      /\ 128 <= c /\ c < 2048 => EncodeUtf8(c) = e2
      /\ 2048 <= c /\ c < 65536 /\ ~(55296 <= c /\ c < 57344) => EncodeUtf8(c) = e3
      /\ 65536 <= c /\ c < 1114112 => EncodeUtf8(c) = e4
      /\ ~IsScalarValue(c) => EncodeUtf8(c) = <<>>
  BY <1>1, SMT DEF IsScalarValue
<1>4. QED
  BY <1>3, SMT DEF e1, e2, e3, e4

(* The bytes are in the rows of RFC 3629. *)
LEMMA LeadCount ==
  ASSUME NEW a \in Int
  PROVE  /\ 194 <= a /\ a <= 223 => Utf8SeqLength(a) = 2
         /\ 224 <= a /\ a <= 239 => Utf8SeqLength(a) = 3
         /\ 240 <= a /\ a <= 244 => Utf8SeqLength(a) = 4
BY DEF Utf8SeqLength

LEMMA SecondBytes ==
  ASSUME NEW a \in Int, NEW b \in Int, 128 <= b, b <= 191,
         a = 224 => b >= 160, a = 237 => b <= 159,
         a = 240 => b >= 144, a = 244 => b <= 143
  PROVE  b \in SecondByte(a)
BY DEF SecondByte

LEMMA SixIsTail == ASSUME NEW c \in Nat PROVE Six(c) \in Tail10 /\ Six(c) \in Int
BY DEF Six, Tail10

LEMMA Bounds2 ==
  ASSUME NEW c \in Nat, 128 <= c, c < 2048
  PROVE  /\ Lead2(c) \in Int /\ 194 <= Lead2(c) /\ Lead2(c) <= 223
         /\ Six(c) \in Int /\ 128 <= Six(c) /\ Six(c) <= 191
         /\ (Lead2(c) - 192) * 64 + (Six(c) - 128) = c
BY DEF Lead2, Six

LEMMA Bounds3 ==
  ASSUME NEW c \in Nat, 2048 <= c, c < 65536, ~(55296 <= c /\ c < 57344)
  PROVE  /\ Lead3(c) \in Int /\ 224 <= Lead3(c) /\ Lead3(c) <= 239
         /\ Six(c \div 64) \in Int /\ 128 <= Six(c \div 64) /\ Six(c \div 64) <= 191
         /\ Lead3(c) = 224 => Six(c \div 64) >= 160
         /\ Lead3(c) = 237 => Six(c \div 64) <= 159
         /\ (Lead3(c) - 224) * 4096 + (Six(c \div 64) - 128) * 64 + (Six(c) - 128) = c
BY DEF Lead3, Six

LEMMA Bounds4 ==
  ASSUME NEW c \in Nat, 65536 <= c, c < 1114112
  PROVE  /\ Lead4(c) \in Int /\ 240 <= Lead4(c) /\ Lead4(c) <= 244
         /\ Six(c \div 4096) \in Int /\ 128 <= Six(c \div 4096) /\ Six(c \div 4096) <= 191
         /\ Lead4(c) = 240 => Six(c \div 4096) >= 144
         /\ Lead4(c) = 244 => Six(c \div 4096) <= 143
         /\ (Lead4(c) - 240) * 262144 + (Six(c \div 4096) - 128) * 4096
              + (Six(c \div 64) - 128) * 64 + (Six(c) - 128) = c
BY SMT DEF Lead4, Six

(* What encodeUtf8 owes a code point it does not refuse. *)
Utf8Of(s, c) ==
  /\ Is(s, Utf8Char) /\ Decoded(s) = c
  /\ Len(s) = IF c < 128 THEN 1 ELSE IF c < 2048 THEN 2 ELSE IF c < 65536 THEN 3 ELSE 4

LEMMA OneByteIsUtf8 == 
  ASSUME NEW c \in Nat, c < 128
  PROVE  Is(<<c>>, Utf8Char) /\ Decoded(<<c>>) = c
<1>1. StartsLike(<<c>>, <<0 .. 127>>)
  BY DEF StartsLike
<1>2. <<0 .. 127>> \in Utf8Char
  BY DEF Utf8Char
<1>3. Len(<<c>>) = Len(<<0 .. 127>>)
  OBVIOUS
<1>4. Is(<<c>>, Utf8Char)
  BY <1>1, <1>2, <1>3 DEF Is
<1>5. Decoded(<<c>>) = c
  BY DEF Decoded
<1>6. QED
  BY <1>4, <1>5

LEMMA MultibyteIsUtf8 == ASSUME NEW s, Is(s, Multibyte) PROVE Is(s, Utf8Char)
BY DEF Is, Utf8Char

LEMMA TwoBytesAreUtf8 ==
  ASSUME NEW a \in Int, NEW b, Utf8SeqLength(a) = 2, b \in SecondByte(a)
  PROVE  /\ Is(<<a, b>>, Utf8Char) /\ Len(<<a, b>>) = 2
         /\ Decoded(<<a, b>>) = (a - 192) * 64 + (b - 128)
<1>1. LikeMultibyte(<<a, b>>, a, 2)
  BY DEF LikeMultibyte, Tails
<1>2. Is(<<a, b>>, Multibyte)
  <2>1. /\ Len(<<a, b>>) \in Nat /\ Len(<<a, b>>) >= 1 /\ Len(<<a, b>>) = 2
        /\ <<a, b>>[1] = a
    OBVIOUS
  <2>2. \A s : Len(s) \in Nat /\ Len(s) >= 1 /\ Len(s) = 2 /\ s[1] = a
                 /\ LikeMultibyte(s, a, 2) => Is(s, Multibyte)
    BY MultibyteIs
  <2>3. QED
    BY <1>1, <2>1, <2>2, Zenon
<1>3. Decoded(<<a, b>>) = (a - 192) * 64 + (b - 128)
  BY DEF Decoded
<1>4. QED
  BY <1>2, <1>3, MultibyteIsUtf8

LEMMA ThreeBytesAreUtf8 ==
  ASSUME NEW a \in Int, NEW b, NEW d, Utf8SeqLength(a) = 3, b \in SecondByte(a), d \in Tail10
  PROVE  /\ Is(<<a, b, d>>, Utf8Char) /\ Len(<<a, b, d>>) = 3
         /\ Decoded(<<a, b, d>>) = (a - 224) * 4096 + (b - 128) * 64 + (d - 128)
<1>1. LikeMultibyte(<<a, b, d>>, a, 3)
  BY DEF LikeMultibyte, Tails
<1>2. Is(<<a, b, d>>, Multibyte)
  <2>1. /\ Len(<<a, b, d>>) \in Nat /\ Len(<<a, b, d>>) >= 1 /\ Len(<<a, b, d>>) = 3
        /\ <<a, b, d>>[1] = a
    OBVIOUS
  <2>2. \A s : Len(s) \in Nat /\ Len(s) >= 1 /\ Len(s) = 3 /\ s[1] = a
                 /\ LikeMultibyte(s, a, 3) => Is(s, Multibyte)
    BY MultibyteIs
  <2>3. QED
    BY <1>1, <2>1, <2>2, Zenon
<1>3. Decoded(<<a, b, d>>) = (a - 224) * 4096 + (b - 128) * 64 + (d - 128)
  BY DEF Decoded
<1>4. QED
  BY <1>2, <1>3, MultibyteIsUtf8

LEMMA FourBytesAreUtf8 ==
  ASSUME NEW a \in Int, NEW b, NEW d, NEW e,
         Utf8SeqLength(a) = 4, b \in SecondByte(a), d \in Tail10, e \in Tail10
  PROVE  /\ Is(<<a, b, d, e>>, Utf8Char) /\ Len(<<a, b, d, e>>) = 4
         /\ Decoded(<<a, b, d, e>>) =
              (a - 240) * 262144 + (b - 128) * 4096 + (d - 128) * 64 + (e - 128)
<1>1. LikeMultibyte(<<a, b, d, e>>, a, 4)
  BY DEF LikeMultibyte, Tails
<1>2. Is(<<a, b, d, e>>, Multibyte)
  <2>1. /\ Len(<<a, b, d, e>>) \in Nat /\ Len(<<a, b, d, e>>) >= 1 /\ Len(<<a, b, d, e>>) = 4
        /\ <<a, b, d, e>>[1] = a
    OBVIOUS
  <2>2. \A s : Len(s) \in Nat /\ Len(s) >= 1 /\ Len(s) = 4 /\ s[1] = a
                 /\ LikeMultibyte(s, a, 4) => Is(s, Multibyte)
    BY MultibyteIs
  <2>3. QED
    BY <1>1, <2>1, <2>2, Zenon
<1>3. Decoded(<<a, b, d, e>>) =
              (a - 240) * 262144 + (b - 128) * 4096 + (d - 128) * 64 + (e - 128)
  BY SMT DEF Decoded
<1>4. QED
  BY <1>2, <1>3, MultibyteIsUtf8, SMT

LEMMA EncodedIsUtf8 ==
  ASSUME NEW c \in Nat, IsScalarValue(c)
  PROVE  Utf8Of(EncodeUtf8(c), c)
<1>1. c < 1114112 /\ ~(55296 <= c /\ c < 57344)
  BY SMT DEF IsScalarValue
<1>0. c \div 64 \in Nat /\ c \div 4096 \in Nat
  BY SMT
<1>2. CASE c < 128
  <2>1. EncodeUtf8(c) = <<c>> /\ c \in 0 .. 127 /\ Len(<<c>>) = 1
    BY <1>2, EncodeCases, SMT
  <2>2. Is(<<c>>, Utf8Char) /\ Decoded(<<c>>) = c
    BY <1>2, OneByteIsUtf8
  <2>3. Is(EncodeUtf8(c), Utf8Char) /\ Decoded(EncodeUtf8(c)) = c /\ Len(EncodeUtf8(c)) = 1
    <3> DEFINE t == <<c>>
    <3>1. Is(t, Utf8Char) /\ Decoded(t) = c /\ Len(t) = 1 /\ EncodeUtf8(c) = t
      BY <2>1, <2>2, SMT
    <3> HIDE DEF t
    <3>2. QED
      BY <3>1, SMT
  <2>4. QED
    BY <1>2, <2>3, SMT DEF Utf8Of
<1>3. CASE 128 <= c /\ c < 2048
  <2> DEFINE a == Lead2(c)
  <2> DEFINE b == Six(c)
  <2>1. EncodeUtf8(c) = <<a, b>>
    BY <1>3, EncodeCases, SMT
  <2>2. /\ a \in Int /\ 194 <= a /\ a <= 223 /\ b \in Int /\ 128 <= b /\ b <= 191
        /\ (a - 192) * 64 + (b - 128) = c
    BY <1>3, Bounds2, SMT
  <2> HIDE DEF a, b
  <2>3. Utf8SeqLength(a) = 2 /\ b \in SecondByte(a)
    BY <2>2, LeadCount, SecondBytes, SMT
  <2>4. Is(<<a, b>>, Utf8Char) /\ Len(<<a, b>>) = 2 /\ Decoded(<<a, b>>) = c
    BY <2>2, <2>3, TwoBytesAreUtf8, SMT
  <2>5. QED
    BY <1>3, <2>1, <2>4, SMT DEF Utf8Of
<1>4. CASE 2048 <= c /\ c < 65536
  <2> DEFINE a == Lead3(c)
  <2> DEFINE b == Six(c \div 64)
  <2> DEFINE d == Six(c)
  <2>1. EncodeUtf8(c) = <<a, b, d>>
    BY <1>1, <1>4, EncodeCases, SMT
  <2>2. /\ a \in Int /\ 224 <= a /\ a <= 239 /\ b \in Int /\ 128 <= b /\ b <= 191
        /\ (a = 224 => b >= 160) /\ (a = 237 => b <= 159)
        /\ (a - 224) * 4096 + (b - 128) * 64 + (d - 128) = c
    BY <1>1, <1>4, Bounds3, SMT
  <2>6. d \in Tail10
    BY SixIsTail, SMT
  <2> HIDE DEF a, b, d
  <2>3. Utf8SeqLength(a) = 3 /\ b \in SecondByte(a)
    BY <2>2, LeadCount, SecondBytes, SMT
  <2>4. Is(<<a, b, d>>, Utf8Char) /\ Len(<<a, b, d>>) = 3 /\ Decoded(<<a, b, d>>) = c
    BY <2>2, <2>3, <2>6, ThreeBytesAreUtf8, SMT
  <2>5. QED
    BY <1>4, <2>1, <2>4, SMT DEF Utf8Of
<1>5. CASE 65536 <= c
  <2> DEFINE a == Lead4(c)
  <2> DEFINE b == Six(c \div 4096)
  <2> DEFINE d == Six(c \div 64)
  <2> DEFINE e == Six(c)
  <2>1. EncodeUtf8(c) = <<a, b, d, e>>
    BY <1>1, <1>5, EncodeCases, SMT
  <2>2. /\ a \in Int /\ 240 <= a /\ a <= 244 /\ b \in Int /\ 128 <= b /\ b <= 191
        /\ (a = 240 => b >= 144) /\ (a = 244 => b <= 143)
        /\ (a - 240) * 262144 + (b - 128) * 4096 + (d - 128) * 64 + (e - 128) = c
    BY <1>1, <1>5, Bounds4, SMT
  <2>6. d \in Tail10 /\ e \in Tail10
    BY <1>0, SixIsTail, SMT
  <2> HIDE DEF a, b, d, e
  <2>3. Utf8SeqLength(a) = 4 /\ b \in SecondByte(a)
    BY <2>2, LeadCount, SecondBytes, SMT
  <2>4. /\ Is(<<a, b, d, e>>, Utf8Char) /\ Len(<<a, b, d, e>>) = 4
        /\ Decoded(<<a, b, d, e>>) = c
    BY <2>2, <2>3, <2>6, FourBytesAreUtf8, SMT
  <2>5. QED
    BY <1>5, <2>1, <2>4, SMT DEF Utf8Of
<1>6. QED
  BY <1>2, <1>3, <1>4, <1>5, SMT

-----------------------------------------------------------------------------
(* Lead byte, rest and whole. *)
LEMMA JustOne == \A n \in Nat : n >= 1 => (n <= 1 <=> n = 1)
OBVIOUS

LEMMA LegalIsMultibyteAll ==
  \A t, x : /\ Len(t) \in TwoToFour /\ x \in Int /\ t[1] = x
            /\ Len(t) = Utf8SeqLength(x)
            => (IsLegalUtf8(t) <=> Is(t, Multibyte))
BY LegalIsMultibyte, Zenon

LEMMA AsciiIsBelow == \A x \in Octet : x \in 0 .. 127 <=> x < 128
BY DEF Octet

LEMMA CountIsAscii ==
  \A x \in Octet : /\ x \in Int
                   /\ Utf8SeqLength(x) \in {0, 1, 2, 3, 4}
                   /\ Utf8SeqLength(x) = 1 <=> x < 128
BY DEF Utf8SeqLength, Octet

(* A character is one byte below 128, or a multibyte one. *)
LEMMA Utf8Cases ==
  ASSUME NEW s, Len(s) \in Nat, Len(s) >= 1, NEW x \in Octet, s[1] = x
  PROVE  /\ Starts(s, Utf8Char) <=> (Len(s) = 1 /\ x < 128) \/ Starts(s, Multibyte)
         /\ Is(s, Utf8Char) <=> (Len(s) = 1 /\ x < 128) \/ Is(s, Multibyte)
<1> DEFINE ascii == <<0 .. 127>>
<1>1. StartsLike(s, ascii) <=> Len(s) = 1 /\ x < 128
  <2>1. StartsLike(s, ascii) <=> Len(s) <= 1 /\ x \in 0 .. 127
    BY Like1
  <2>2. x \in 0 .. 127 <=> x < 128
    BY AsciiIsBelow
  <2>3. Len(s) <= 1 <=> Len(s) = 1
    BY JustOne, Zenon
  <2>4. QED
    BY <2>1, <2>2, <2>3, Zenon
<1>2. Len(ascii) = 1
  OBVIOUS
<1>3. Utf8Char = {ascii} \union Multibyte
  BY Zenon DEF Utf8Char
<1> HIDE DEF ascii
<1>4. QED
  BY <1>1, <1>2, <1>3 DEF Starts, Is

LEMMA LegalOfOne ==
  ASSUME NEW s, Len(s) = 1, NEW x \in Octet, s[1] = x, x < 128
  PROVE  IsLegalUtf8(s)
<1>1. /\ 1 \in 1 .. 4 /\ 3 .. 1 = {} /\ ~(1 >= 2)
      /\ x \notin 128 .. 193 /\ x <= 244
  BY DEF Octet
<1>2. QED
  BY <1>1 DEF IsLegalUtf8

LEMMA LegalLemma ==
  ASSUME NEW s, Len(s) \in Nat, Len(s) >= 1, NEW x \in Octet, s[1] = x
  PROVE  /\ Utf8SeqLength(x) = 0 => ~Starts(s, Utf8Char)
         /\ Len(s) = Utf8SeqLength(x) => (IsLegalUtf8(s) <=> Is(s, Utf8Char))
         /\ Len(s) < Utf8SeqLength(x) => ~Is(s, Utf8Char)
<1>1. x \in Int /\ Utf8SeqLength(x) \in {0, 1, 2, 3, 4} /\ (Utf8SeqLength(x) = 1 <=> x < 128)
  BY CountIsAscii, Zenon
<1>2. Utf8SeqLength(x) = 0 => ~Starts(s, Utf8Char)
  BY <1>1, Utf8Cases, MultibyteStarts DEF LikeMultibyte
<1>3. Len(s) < Utf8SeqLength(x) => ~Is(s, Utf8Char)
  BY <1>1, Utf8Cases, MultibyteIs DEF LikeMultibyte
<1>4. Len(s) \in {2, 3, 4} =>
        (Len(s) = Utf8SeqLength(x) => (IsLegalUtf8(s) <=> Is(s, Multibyte)))
  BY <1>1, LegalIsMultibyteAll, Zenon DEF TwoToFour
<1>5. Is(s, Utf8Char) <=> (Len(s) = 1 /\ x < 128) \/ Is(s, Multibyte)
  BY Utf8Cases
<1>6. Len(s) = 1 /\ x < 128 => IsLegalUtf8(s)
  BY LegalOfOne
<1>7. Len(s) = 1 /\ ~(x < 128) => ~(Len(s) = Utf8SeqLength(x))
  BY <1>1, Zenon
<1>8. Is(s, Multibyte) => Len(s) \in {2, 3, 4}
  BY <1>1, MultibyteIs, Zenon
<1>9. ASSUME Len(s) = Utf8SeqLength(x) PROVE IsLegalUtf8(s) <=> Is(s, Utf8Char)
  <2>1. CASE Len(s) = 1
    BY <1>5, <1>6, <1>7, <1>9, <2>1, Zenon
  <2>2. CASE Len(s) \in {2, 3, 4}
    <3>1. Len(s) # 1
      BY <2>2, SMT
    <3>2. QED
      BY <1>4, <1>5, <1>9, <2>2, <3>1, Zenon
  <2>3. Len(s) \in {0, 1, 2, 3, 4}
    BY <1>1, <1>9, Zenon
  <2>4. QED
    BY <2>1, <2>2, <2>3, SMT
<1>10. QED
  BY <1>2, <1>3, <1>9, Zenon

SequenceInv ==
  /\ row \in Int
  /\ bytes \in Seq(Octet \union Probes)
  /\ bytes # <<>> => bytes[1] \in Octet

LEMMA AppendFirst ==
  ASSUME NEW S, NEW s \in Seq(S), NEW b \in S
  PROVE  /\ Append(s, b) \in Seq(S) /\ Append(s, b) # <<>>
         /\ s # <<>> => Append(s, b)[1] = s[1]
         /\ s = <<>> => Append(s, b)[1] = b
OBVIOUS

LEMMA SequenceInvKept == SequenceInv /\ [Utf8Next]_utf8Vars => SequenceInv'
<1> SUFFICES ASSUME SequenceInv, [Utf8Next]_utf8Vars PROVE SequenceInv'
  OBVIOUS
<1>1. CASE ReadByte
  <2>1. PICK b \in IF Len(bytes) < 2 THEN Octet ELSE Probes : bytes' = Append(bytes, b)
    BY <1>1 DEF ReadByte
  <2>2. bytes = <<>> => b \in Octet
    BY <2>1
  <2>3. QED
    BY <1>1, <2>1, <2>2, AppendFirst DEF ReadByte, SequenceInv
<1>2. CASE NextSequence
  BY <1>2 DEF NextSequence, SequenceInv
<1>3. CASE NextRow
  BY <1>3 DEF NextRow, SequenceInv
<1>4. CASE UNCHANGED utf8Vars
  BY <1>4 DEF utf8Vars, SequenceInv
<1>5. QED
  BY <1>1, <1>2, <1>3, <1>4 DEF Utf8Next

LEMMA SequenceInvariant == Utf8Spec => []SequenceInv
<1>1. Utf8Init => SequenceInv
  BY DEF Utf8Init, SequenceInv
<1>2. QED
  BY <1>1, SequenceInvKept, PTL DEF Utf8Spec

(***************************************************************************)
(* utf8SeqLength and isLegalUtf8 accept the well-formed multibyte          *)
(* sequences of RFC 3629 and no others, whatever bytes follow the lead.    *)
(***************************************************************************)
THEOREM LegalSequencesAreWellFormed == Utf8Spec => []LegalIsWellFormed
<1>1. SequenceInv => LegalIsWellFormed
  <2> SUFFICES ASSUME SequenceInv, bytes # <<>>
               PROVE  /\ Utf8SeqLength(bytes[1]) = 0 => ~Starts(bytes, Utf8Char)
                      /\ Len(bytes) = Utf8SeqLength(bytes[1]) =>
                           (IsLegalUtf8(bytes) <=> Is(bytes, Utf8Char))
                      /\ Len(bytes) < Utf8SeqLength(bytes[1]) => ~Is(bytes, Utf8Char)
    BY DEF LegalIsWellFormed
  <2>1. PICK x \in Octet : bytes[1] = x
    BY DEF SequenceInv
  <2>2. Len(bytes) \in Nat /\ Len(bytes) >= 1
    BY DEF SequenceInv
  <2>3. QED
    BY <2>1, <2>2, LegalLemma
<1>2. QED
  BY <1>1, SequenceInvariant, PTL

LEMMA PairArithmetic ==
  ASSUME NEW r \in Nat, r <= 1023, NEW low \in Nat, low <= 1023
  PROVE  /\ FromPair(55296 + r, 56320 + low) = 65536 + 1024 * r + low
         /\ (1024 * r + low) \div 1024 = r /\ (1024 * r + low) % 1024 = low
         /\ 65536 <= 65536 + 1024 * r + low /\ 65536 + 1024 * r + low <= 1114111
BY SMT DEF FromPair

LEMMA OnePairIsUtf16 ==
  ASSUME NEW r \in Nat, r <= 1023, NEW low \in Nat, low <= 1023
  PROVE  PairIsUtf16(r, low)
<1>1. PICK k \in Nat : k = 1024 * r + low
  BY SMT
<1>2. /\ FromPair(55296 + r, 56320 + low) = 65536 + k
      /\ k \div 1024 = r /\ k % 1024 = low /\ 65536 + k <= 1114111
  BY <1>1, PairArithmetic, SMT
<1>3. QED
  BY <1>2, SMT DEF PairIsUtf16

LEMMA PairsLemma ==
  \A r \in 0 .. 1023 : \A low \in 0 .. 1023 : PairIsUtf16(r, low)
<1> SUFFICES ASSUME NEW r \in 0 .. 1023, NEW low \in 0 .. 1023
             PROVE  PairIsUtf16(r, low)
  BY Zenon
<1>1. r \in Nat /\ r <= 1023 /\ low \in Nat /\ low <= 1023
  BY SMT
<1>2. QED
  BY <1>1, OnePairIsUtf16, ZenonT(60)

(***************************************************************************)
(* An escape names any Unicode scalar value, and only those: whatever the  *)
(* code point, encodeUtf8 writes its UTF-8 or refuses it, and each pair of *)
(* surrogates is the one of what readUnicode makes of it.                  *)
(***************************************************************************)
THEOREM EscapesNameAllUnicode == Utf8Spec => []EscapesNameUnicode
<1>1. SequenceInv => EncodesScalarValues
  <2> SUFFICES ASSUME SequenceInv, row >= 0, NEW low \in 0 .. 255
               PROVE  IF IsScalarValue(row * 256 + low)
                        THEN /\ Is(EncodeUtf8(row * 256 + low), Utf8Char)
                             /\ Decoded(EncodeUtf8(row * 256 + low)) = row * 256 + low
                        ELSE EncodeUtf8(row * 256 + low) = <<>>
    BY Zenon DEF EncodesScalarValues
  <2>1. PICK c \in Nat : c = row * 256 + low
    BY SMT DEF SequenceInv
  <2>2. IF IsScalarValue(c) THEN Is(EncodeUtf8(c), Utf8Char) /\ Decoded(EncodeUtf8(c)) = c
                            ELSE EncodeUtf8(c) = <<>>
    BY EncodeCases, EncodedIsUtf8, SMT DEF Utf8Of
  <2>3. QED
    BY <2>1, <2>2, SMT
<1>2. PairsAreUtf16
  BY PairsLemma, ZenonT(60) DEF PairsAreUtf16
<1>3. QED
  BY <1>1, <1>2, SequenceInvariant, PTL DEF EscapesNameUnicode

-----------------------------------------------------------------------------
(* Where the call is decides whether the buffer may be written, and what is
   waiting to be written is bytes. *)
CallInv ==
  /\ pc = "init" => errmsg = "none" /\ lexing = "none"
  /\ pc \notin {"init", "returned"} => errmsg = "none" /\ lexing = "cut"
  /\ buffer \in Seq(Octet)
  /\ pc = "push" => buffer # <<>>
  /\ pc = "hex" => digits \in 1 .. 4
  /\ cp \in Nat
  /\ high = 0 \/ IsHigh(high)

LEMMA CallInvInit == StringInit => CallInv
BY DEF StringInit, CallInv

Writing == pc \notin {"init", "returned"} /\ errmsg = "none" /\ lexing = "cut"
Goes(label) == errmsg' = "none" /\ lexing' = "cut" /\ pc' = label

(* A byte pushed is a WriteByte; the call goes on, or returns its error. *)
LEMMA PushThenWrites ==
  ASSUME Writing, NEW c \in Octet, NEW label, PushThen(c, label)
  PROVE  WriteByte /\ (Goes(label) \/ pc' = "returned")
<1>1. PICK m \in Message : /\ PushChar(c, m) /\ errmsg' = m /\ lexing' = lexing
                           /\ m = "none" => pc' = label
                           /\ m # "none" => pc' = "returned"
  BY DEF PushThen
<1>2. c \in Cell
  BY StringCells DEF StringCells
<1>3. QED
  BY <1>1, <1>2 DEF Writing, Goes, WriteByte

(* What a step of the call owes: a step of the buffer, or none, and a place
   from which the call may go on. *)
Sound == [TokenNext]_tokenVars /\ CallInv'

LEMMA PushIsSound ==
  ASSUME CallInv, Writing, NEW c \in Octet, NEW label \in {"text", "push"},
         PushThen(c, label),
         cp' = cp /\ high' = high,
         buffer' \in Seq(Octet), label = "push" => buffer' # <<>>
  PROVE  Sound
<1>1. WriteByte /\ (Goes(label) \/ pc' = "returned")
  BY PushThenWrites
<1>2. CallInv'
  BY <1>1 DEF CallInv, Goes
<1>3. QED
  BY <1>1, <1>2 DEF Sound, TokenNext

LEMMA RejectIsSound == ASSUME CallInv, Writing, Reject PROVE Sound
<1>1. CutToken /\ pc' = "returned" /\ UNCHANGED locals
  BY DEF Writing, Reject, CutToken
<1>2. CallInv'
  BY <1>1 DEF CallInv, locals
<1>3. QED
  BY <1>1, <1>2 DEF Sound, TokenNext

LEMMA GoToIsSound ==
  ASSUME Writing, NEW label, label \notin {"init", "returned"}, GoTo(label),
         cp' \in Nat, high' = 0 \/ IsHigh(high'),
         buffer' \in Seq(Octet), label = "push" => buffer' # <<>>,
         label = "hex" => digits' \in 1 .. 4
  PROVE  Sound
<1>1. UNCHANGED tokenVars /\ Goes(label)
  BY DEF Writing, GoTo, Goes, tokenVars
<1>2. CallInv'
  BY <1>1 DEF CallInv, Goes
<1>3. QED
  BY <1>1, <1>2 DEF Sound

LEMMA PushAllIsSound ==
  ASSUME CallInv, Writing, NEW s \in Seq(Octet), s # <<>>, PushAll(s)
  PROVE  Sound
BY GoToIsSound DEF PushAll, CallInv

(* What encodeUtf8 writes is bytes, for every code point it does not refuse. *)
LEMMA Quotient ==
  ASSUME NEW c \in Nat, NEW k \in Nat, k > 0 PROVE c \div k \in Nat
OBVIOUS

LEMMA PackedIsOctet ==
  ASSUME NEW x \in Nat
  PROVE  /\ (x % 32) + 192 \in Octet /\ (x % 64) + 128 \in Octet
         /\ (x % 16) + 224 \in Octet /\ (x % 8) + 240 \in Octet
BY DEF Octet

LEMMA EncodedIsOctets ==
  ASSUME NEW c \in Nat
  PROVE  EncodeUtf8(c) \in Seq(Octet)
<1> DEFINE S == Seq(Octet)
<1>1. c \div 64 \in Nat /\ c \div 4096 \in Nat /\ c \div 262144 \in Nat
  BY Quotient
<1>2. c < 128 => <<c>> \in S
  BY DEF Octet
<1>3. <<((c \div 64) % 32) + 192, (c % 64) + 128>> \in S
  BY <1>1, PackedIsOctet
<1>4. <<((c \div 4096) % 16) + 224, ((c \div 64) % 64) + 128, (c % 64) + 128>> \in S
  BY <1>1, PackedIsOctet
<1>5. <<((c \div 262144) % 8) + 240, ((c \div 4096) % 64) + 128,
        ((c \div 64) % 64) + 128, (c % 64) + 128>> \in S
  BY <1>1, PackedIsOctet
<1>6. <<>> \in S
  OBVIOUS
<1> HIDE DEF S
<1>7. EncodeUtf8(c) \in S
  BY <1>2, <1>3, <1>4, <1>5, <1>6, SMT DEF EncodeUtf8
<1>8. QED
  BY <1>7 DEF S

LEMMA EncodeIsSound ==
  ASSUME CallInv, Writing, NEW n \in Nat, Encode(n)
  PROVE  Sound
BY EncodedIsOctets, RejectIsSound, PushAllIsSound DEF Encode

LEMMA HexCharIsNat == ASSUME NEW c, HexChar(c) # -1 PROVE HexChar(c) \in Nat
BY DEF HexChar

LEMMA PairIsNat ==
  ASSUME NEW h, IsHigh(h), NEW l, IsLow(l)
  PROVE  FromPair(h, l) \in Nat
BY DEF IsHigh, IsLow, FromPair

(* The escapes name bytes. *)
LEMMA UnescapedIsOctet ==
  ASSUME NEW c, Unescaped(c) # -1 PROVE Unescaped(c) \in Octet
BY DEF Unescaped, Octet

LEMMA InsideIsByte == ASSUME NEW c \in Inside PROVE c \in Octet \union {EOF}
BY StringCells DEF StringCells, Inside, Given

(* One action at a time: a step of the lexer is a step of the buffer, and
   leaves the call where the next one may go on. *)
LEMMA ReadIsSound == ASSUME CallInv, Writing, Read PROVE Sound
<1>1. PICK c \in Octet \union {EOF} :
        CASE c = EOF -> Reject
          [] c = 34  -> GoTo("end") /\ UNCHANGED locals
          [] c = 92  -> GoTo("escape") /\ UNCHANGED locals
          [] c >= 128 ->
               IF Utf8SeqLength(c) = 0 THEN Reject
               ELSE buffer' = <<c>> /\ UNCHANGED <<cp, digits, high>> /\ GoTo("tail")
          [] c \in 0 .. 127 \ {34, 92} ->
               IF NeedsEscaping(c) THEN Reject
               ELSE PushThen(c, "text") /\ UNCHANGED locals
  <2>1. 34 \in Octet
    BY DEF Octet
  <2>2. Given(chars) \subseteq Octet \union {EOF}
    BY StringCells DEF StringCells, Given
  <2>3. (IF chars = 0 THEN {EOF, 34} ELSE Given(chars) \union {34})
          \subseteq Octet \union {EOF}
    BY <2>1, <2>2
  <2>4. QED
    BY <2>3 DEF Read
<1>2. CASE Reject
  BY <1>2, RejectIsSound
<1>3. CASE \E label \in {"end", "escape"} : GoTo(label) /\ UNCHANGED locals
  BY <1>3, GoToIsSound DEF CallInv, locals
<1>4. CASE c # EOF /\ buffer' = <<c>> /\ UNCHANGED <<cp, digits, high>> /\ GoTo("tail")
  <2>1. <<c>> \in Seq(Octet)
    BY <1>4
  <2>2. QED
    BY <1>4, <2>1, GoToIsSound DEF CallInv
<1>5. CASE c # EOF /\ PushThen(c, "text") /\ UNCHANGED locals
  BY <1>5, PushIsSound DEF CallInv, locals
<1>6. CASE c = EOF
  BY <1>1, <1>2, <1>6 DEF EOF
<1>7. CASE c = 34 \/ c = 92
  <2>1. (GoTo("end") \/ GoTo("escape")) /\ UNCHANGED locals
    <3>1. c # EOF /\ ~(c >= 128) /\ c \notin 0 .. 127 \ {34, 92}
      BY <1>7 DEF EOF
    <3>2. QED
      BY <1>1, <1>7, <3>1
  <2>2. QED
    BY <1>3, <2>1
<1>8. CASE c \in Octet /\ c >= 128
  <2>1. c # EOF /\ c # 34 /\ c # 92 /\ c \notin 0 .. 127 \ {34, 92}
    BY <1>8 DEF EOF, Octet
  <2>2. QED
    BY <1>1, <1>2, <1>4, <1>8, <2>1
<1>9. CASE c \in Octet /\ ~(c >= 128) /\ c # 34 /\ c # 92
  <2>1. c # EOF /\ c \in 0 .. 127 \ {34, 92}
    BY <1>9 DEF EOF, Octet
  <2>2. QED
    BY <1>1, <1>2, <1>5, <1>9, <2>1
<1>10. QED
  BY <1>6, <1>7, <1>8, <1>9

LEMMA ReadTailIsSound == ASSUME CallInv, Writing, ReadTail PROVE Sound
<1>1. PICK c \in Inside :
        CASE Len(Append(buffer, c % 256)) < Utf8SeqLength(Append(buffer, c % 256)[1]) ->
               /\ buffer' = Append(buffer, c % 256)
               /\ UNCHANGED <<cp, digits, high>> /\ GoTo("tail")
          [] /\ Len(Append(buffer, c % 256)) = Utf8SeqLength(Append(buffer, c % 256)[1])
             /\ IsLegalUtf8(Append(buffer, c % 256)) -> PushAll(Append(buffer, c % 256))
          [] OTHER -> Reject
  BY DEF ReadTail
<1> DEFINE filled == Append(buffer, c % 256)
<1>2. c % 256 \in Octet
  BY InsideIsByte DEF Octet, EOF
<1>3. filled \in Seq(Octet) /\ filled # <<>>
  BY <1>2 DEF CallInv
<1> HIDE DEF filled
<1>4. CASE buffer' = filled /\ UNCHANGED <<cp, digits, high>> /\ GoTo("tail")
  BY <1>3, <1>4, GoToIsSound DEF CallInv
<1>5. CASE PushAll(filled)
  BY <1>3, <1>5, PushAllIsSound
<1>6. CASE Reject
  BY <1>6, RejectIsSound
<1>7. QED
  BY <1>1, <1>4, <1>5, <1>6 DEF filled

LEMMA ReadEscapedIsSound == ASSUME CallInv, Writing, ReadEscaped PROVE Sound
<1>1. PICK c \in Inside :
        IF c = 117 THEN high' = 0 /\ UNCHANGED buffer /\ ReadDigits
        ELSE IF Unescaped(c) = -1 THEN Reject
        ELSE PushThen(Unescaped(c), "text") /\ UNCHANGED locals
  BY DEF ReadEscaped
<1>2. CASE high' = 0 /\ UNCHANGED buffer /\ ReadDigits
  BY <1>2, GoToIsSound DEF ReadDigits, CallInv
<1>3. CASE Reject
  BY <1>3, RejectIsSound
<1>4. CASE Unescaped(c) # -1 /\ PushThen(Unescaped(c), "text") /\ UNCHANGED locals
  BY <1>4, UnescapedIsOctet, PushIsSound DEF CallInv, locals
<1>5. QED
  BY <1>1, <1>2, <1>3, <1>4

LEMMA ReadUnicodeCpIsSound == ASSUME CallInv, Writing, ReadUnicodeCp PROVE Sound
<1> DEFINE New(c) == cp * 16 + HexChar(c)
<1>1. PICK c \in Inside :
        \/ Reject
        \/ /\ HexChar(c) # -1 /\ digits > 1
           /\ cp' = New(c) /\ digits' = digits - 1
           /\ UNCHANGED <<high, buffer>> /\ GoTo("hex")
        \/ /\ HexChar(c) # -1 /\ IsHigh(New(c)) /\ high' = New(c)
           /\ UNCHANGED <<cp, digits, buffer>> /\ GoTo("low")
        \/ HexChar(c) # -1 /\ Encode(New(c))
        \/ /\ HexChar(c) # -1 /\ IsHigh(high) /\ IsLow(New(c))
           /\ Encode(FromPair(high, New(c)))
  <2>1. PICK c \in Inside :
          CASE HexChar(c) = -1 -> Reject
            [] HexChar(c) # -1 /\ digits > 1 ->
                 /\ cp' = New(c) /\ digits' = digits - 1
                 /\ UNCHANGED <<high, buffer>> /\ GoTo("hex")
            [] HexChar(c) # -1 /\ digits = 1 /\ high = 0 ->
                 CASE IsHigh(New(c)) ->
                        /\ high' = New(c) /\ UNCHANGED <<cp, digits, buffer>>
                        /\ GoTo("low")
                   [] IsLow(New(c)) -> Reject
                   [] OTHER         -> Encode(New(c))
            [] HexChar(c) # -1 /\ digits = 1 /\ high # 0 ->
                 IF IsLow(New(c)) THEN Encode(FromPair(high, New(c))) ELSE Reject
    BY DEF ReadUnicodeCp
  <2>2. digits > 1 \/ digits = 1
    BY DEF ReadUnicodeCp, CallInv
  <2>3. QED
    BY <2>1, <2>2 DEF CallInv
<1>2. HexChar(c) # -1 => New(c) \in Nat
  BY HexCharIsNat DEF CallInv
<1> HIDE DEF New
<1>3. CASE Reject
  BY <1>3, RejectIsSound
<1>4. CASE /\ HexChar(c) # -1 /\ digits > 1
           /\ cp' = New(c) /\ digits' = digits - 1
           /\ UNCHANGED <<high, buffer>> /\ GoTo("hex")
  <2>1. digits' \in 1 .. 4
    BY <1>4 DEF ReadUnicodeCp, CallInv
  <2>2. QED
    BY <1>2, <1>4, <2>1, GoToIsSound DEF CallInv
<1>5. CASE /\ IsHigh(New(c)) /\ high' = New(c)
           /\ UNCHANGED <<cp, digits, buffer>> /\ GoTo("low")
  BY <1>5, GoToIsSound DEF CallInv
<1>6. CASE HexChar(c) # -1 /\ Encode(New(c))
  BY <1>2, <1>6, EncodeIsSound
<1>7. CASE /\ HexChar(c) # -1 /\ IsHigh(high) /\ IsLow(New(c))
           /\ Encode(FromPair(high, New(c)))
  <2>1. FromPair(high, New(c)) \in Nat
    BY <1>7, PairIsNat
  <2>2. QED
    BY <1>7, <2>1, EncodeIsSound
<1>8. QED
  BY <1>1, <1>3, <1>4, <1>5, <1>6, <1>7

LEMMA ReadLowIsSound == ASSUME CallInv, Writing, ReadLow \/ ReadLowU PROVE Sound
<1>1. \/ Reject
      \/ GoTo("low u") /\ UNCHANGED locals
      \/ ReadDigits /\ UNCHANGED <<high, buffer>>
  BY DEF ReadLow, ReadLowU
<1>2. CASE Reject
  BY <1>2, RejectIsSound
<1>3. CASE GoTo("low u") /\ UNCHANGED locals
  BY <1>3, GoToIsSound DEF CallInv, locals
<1>4. CASE ReadDigits /\ UNCHANGED <<high, buffer>>
  BY <1>4, GoToIsSound DEF ReadDigits, CallInv
<1>5. QED
  BY <1>1, <1>2, <1>3, <1>4

LEMMA PushBytesIsSound == ASSUME CallInv, Writing, PushBytes PROVE Sound
<1> DEFINE label == IF Len(buffer) = 1 THEN "text" ELSE "push"
<1>1. buffer \in Seq(Octet) /\ buffer # <<>>
  BY DEF CallInv, PushBytes
<1>2. Head(buffer) \in Octet /\ Tail(buffer) \in Seq(Octet)
  BY <1>1
<1>3. label = "push" => Tail(buffer) # <<>>
  <2>1. Len(buffer) # 1 => Len(Tail(buffer)) # 0
    BY <1>1
  <2>2. QED
    BY <2>1
<1>4. label \in {"text", "push"} /\ PushThen(Head(buffer), label)
  BY DEF PushBytes
<1> HIDE DEF label
<1>5. cp' = cp /\ high' = high /\ buffer' = Tail(buffer)
  BY DEF PushBytes
<1>6. QED
  BY <1>2, <1>3, <1>4, <1>5, PushIsSound

LEMMA StringStep ==
  CallInv /\ [StringNext]_stringVars => [TokenNext]_tokenVars /\ CallInv'
<1> SUFFICES ASSUME CallInv, [StringNext]_stringVars
             PROVE  Sound
  BY DEF Sound
<1>1. CASE InitBuffer
  <2>1. BeginToken
    BY <1>1 DEF InitBuffer, BeginToken, CallInv
  <2>2. /\ lexing' = "cut" /\ UNCHANGED locals
        /\ (errmsg' = "none" /\ pc' = "text") \/ pc' = "returned"
    BY <1>1 DEF InitBuffer
  <2>3. QED
    BY <2>1, <2>2 DEF Sound, TokenNext, CallInv, locals
<1>2. pc \notin {"init", "returned"} => Writing
  BY DEF CallInv, Writing
<1>3. CASE Read
  BY <1>2, <1>3, ReadIsSound DEF Read
<1>4. CASE ReadTail
  BY <1>2, <1>4, ReadTailIsSound DEF ReadTail
<1>5. CASE ReadEscaped
  BY <1>2, <1>5, ReadEscapedIsSound DEF ReadEscaped
<1>6. CASE ReadUnicodeCp
  BY <1>2, <1>6, ReadUnicodeCpIsSound DEF ReadUnicodeCp
<1>7. CASE ReadLow \/ ReadLowU
  BY <1>2, <1>7, ReadLowIsSound DEF ReadLow, ReadLowU
<1>8. CASE PushBytes
  BY <1>2, <1>8, PushBytesIsSound DEF PushBytes
<1>9. CASE Terminate
  <2>1. EndToken
    BY <1>9 DEF Terminate, EndToken, CallInv
  <2>2. QED
    BY <1>9, <2>1 DEF Terminate, Sound, TokenNext, CallInv, locals
<1>10. CASE UNCHANGED stringVars
  BY <1>10 DEF stringVars, tokenVars, locals, CallInv, Sound
<1>11. CASE Returned
  BY <1>10, <1>11 DEF Returned
<1>12. QED
  BY <1>1, <1>3, <1>4, <1>5, <1>6, <1>7, <1>8, <1>9, <1>10, <1>11
     DEF StringNext

(***************************************************************************)
(* readString writes the token buffer only as TokenBuffer says it is       *)
(* written, whatever bytes the source gives and whatever the allocator     *)
(* answers, for strings of any length.                                     *)
(***************************************************************************)
THEOREM StringDrivesBuffer == StringSpec => DrivesTokenBuffer
BY CallInvInit, StringStep, PTL DEF StringSpec, DrivesTokenBuffer

(* The buffer an earlier token left satisfies the buffer's invariant. *)
LEMMA StaleBufferInv == StringInit => BufferInv
<1>1. 0 \in 0 .. BufferMax /\ InitialSize \in 0 .. BufferMax
  BY BufferAssumption DEF BufferAssumption
<1>2. 255 \in Cell
  BY StringCells DEF StringCells, Octet
<1>3. QED
  BY <1>1, <1>2, NoBlockInv, ShortBlockInv DEF StringInit, BufferInit

(***************************************************************************)
(* Whatever string is read and wherever it is cut short, the bytes         *)
(* json_get_string hands out were written by the lexers.                   *)
(***************************************************************************)
THEOREM StringBytesAreWritten == StringSpec => []FilledBytesWritten
<1>1. BufferInv => FilledBytesWritten
  BY DEF BufferInv
<1>2. QED
  BY <1>1, StaleBufferInv, CallInvInit, StringStep, BufferInvKept, PTL DEF StringSpec

-----------------------------------------------------------------------------
LEMMA Like6 ==
  ASSUME NEW s, Len(s) \in Nat, NEW A, NEW B, NEW C, NEW D, NEW F, NEW G
  PROVE  StartsLike(s, <<A, B, C, D, F, G>>) <=>
           /\ Len(s) <= 6 /\ (Len(s) >= 1 => s[1] \in A) /\ (Len(s) >= 2 => s[2] \in B)
           /\ (Len(s) >= 3 => s[3] \in C) /\ (Len(s) >= 4 => s[4] \in D)
           /\ (Len(s) >= 5 => s[5] \in F) /\ (Len(s) >= 6 => s[6] \in G)
BY DEF StartsLike

LEMMA Like12 ==
  ASSUME NEW s, Len(s) \in Nat, NEW A, NEW B, NEW C, NEW D, NEW F, NEW G,
         NEW H, NEW I, NEW J, NEW K, NEW L, NEW M
  PROVE  StartsLike(s, <<A, B, C, D, F, G, H, I, J, K, L, M>>) <=>
           /\ Len(s) <= 12 /\ (Len(s) >= 1 => s[1] \in A) /\ (Len(s) >= 2 => s[2] \in B)
           /\ (Len(s) >= 3 => s[3] \in C) /\ (Len(s) >= 4 => s[4] \in D)
           /\ (Len(s) >= 5 => s[5] \in F) /\ (Len(s) >= 6 => s[6] \in G)
           /\ (Len(s) >= 7 => s[7] \in H) /\ (Len(s) >= 8 => s[8] \in I)
           /\ (Len(s) >= 9 => s[9] \in J) /\ (Len(s) >= 10 => s[10] \in K)
           /\ (Len(s) >= 11 => s[11] \in L) /\ (Len(s) >= 12 => s[12] \in M)
<1> DEFINE p == <<A, B, C, D, F, G, H, I, J, K, L, M>>
<1>1. /\ Len(p) = 12 /\ p[1] = A /\ p[2] = B /\ p[3] = C /\ p[4] = D /\ p[5] = F /\ p[6] = G
      /\ p[7] = H /\ p[8] = I /\ p[9] = J /\ p[10] = K /\ p[11] = L /\ p[12] = M
  OBVIOUS
<1> HIDE DEF p
<1>2. PICK n \in Nat : n = Len(s)
  OBVIOUS
<1>3. n <= 12 => \A i \in 1 .. n : \/ i = 1 \/ i = 2 \/ i = 3 \/ i = 4 \/ i = 5 \/ i = 6
                                 \/ i = 7 \/ i = 8 \/ i = 9 \/ i = 10 \/ i = 11 \/ i = 12
  OBVIOUS
<1>4. StartsLike(s, p) <=> n <= 12 /\ \A i \in 1 .. n : s[i] \in p[i]
  BY <1>1, <1>2 DEF StartsLike
<1>5. ASSUME n <= 12
      PROVE  (\A i \in 1 .. n : s[i] \in p[i]) <=>
           /\ (n >= 1 => s[1] \in A) /\ (n >= 2 => s[2] \in B)
           /\ (n >= 3 => s[3] \in C) /\ (n >= 4 => s[4] \in D)
           /\ (n >= 5 => s[5] \in F) /\ (n >= 6 => s[6] \in G)
           /\ (n >= 7 => s[7] \in H) /\ (n >= 8 => s[8] \in I)
           /\ (n >= 9 => s[9] \in J) /\ (n >= 10 => s[10] \in K)
           /\ (n >= 11 => s[11] \in L) /\ (n >= 12 => s[12] \in M)
  BY <1>1, <1>3, <1>5, SMTT(60)
<1>6. QED
  BY <1>2, <1>4, <1>5 DEF p

(* The hexadecimal digits, by their values. *)
LEMMA HexDigits ==
  ASSUME NEW c \in Octet \union {EOF}
  PROVE  /\ c \in HexDig <=> HexChar(c) # -1
         /\ c \in HexDig => HexChar(c) \in 0 .. 15
         /\ c \in HexDig => (c \in DChar <=> HexChar(c) = 13)
         /\ c \in HexDig => (c \in 48 .. 55 <=> HexChar(c) < 8)
         /\ c \in HexDig =>
              (c \in {56, 57, 65, 66, 97, 98} <=> HexChar(c) >= 8 /\ HexChar(c) <= 11)
         /\ c \in HexDig => (c \in 67 .. 70 \union 99 .. 102 <=> HexChar(c) >= 12)
BY DEF HexDig, Digit, HexChar, DChar, Octet, EOF

BasicPlane(v) == v \in Nat /\ v < 65536
Value4(a, b, c, d) == ((a * 16 + b) * 16 + c) * 16 + d

LEMMA Value4Range ==
  ASSUME NEW a \in 0 .. 15, NEW b \in 0 .. 15, NEW c \in 0 .. 15, NEW d \in 0 .. 15
  PROVE  /\ BasicPlane(Value4(a, b, c, d))
         /\ IsHigh(Value4(a, b, c, d)) <=> a = 13 /\ b >= 8 /\ b <= 11
         /\ IsLow(Value4(a, b, c, d)) <=> a = 13 /\ b >= 12
BY SMT DEF Value4, IsHigh, IsLow, BasicPlane

(* A character of a string is of one of the five kinds. *)
LEMMA KindsOfCharacter ==
  ASSUME NEW s
  PROVE  /\ Starts(s, Character) <=>
              \/ Starts(s, Plain) \/ Starts(s, Escape) \/ Starts(s, CodeUnit)
              \/ Starts(s, Pair) \/ Starts(s, Multibyte)
         /\ Is(s, Character) <=>
              \/ Is(s, Plain) \/ Is(s, Escape) \/ Is(s, CodeUnit)
              \/ Is(s, Pair) \/ Is(s, Multibyte)
<1>1. Starts(s, Character) <=>
        \/ Starts(s, Plain) \/ Starts(s, Escape) \/ Starts(s, CodeUnit)
        \/ Starts(s, Pair) \/ Starts(s, Multibyte)
  BY Zenon DEF Starts, Character
<1>2. Is(s, Character) <=>
        \/ Is(s, Plain) \/ Is(s, Escape) \/ Is(s, CodeUnit)
        \/ Is(s, Pair) \/ Is(s, Multibyte)
  BY Zenon DEF Is, Character
<1>3. QED
  BY <1>1, <1>2

LEMMA PlainLike ==
  ASSUME NEW s, Len(s) \in Nat, Len(s) >= 1
  PROVE  /\ Starts(s, Plain) <=> Len(s) = 1 /\ s[1] \in (32 .. 127) \ {34, 92}
         /\ Is(s, Plain) <=> Starts(s, Plain)
<1> DEFINE A == (32 .. 127) \ {34, 92}
<1>1. Plain = {<<A>>} /\ Len(<<A>>) = 1
  BY DEF Plain
<1> HIDE DEF A
<1>2. StartsLike(s, <<A>>) <=> Len(s) = 1 /\ s[1] \in A
  <2>1. StartsLike(s, <<A>>) <=> Len(s) <= 1 /\ (Len(s) >= 1 => s[1] \in A)
    BY Like1
  <2>2. Len(s) <= 1 <=> Len(s) = 1
    BY JustOne, Zenon
  <2>3. QED
    BY <2>1, <2>2, Zenon
<1>3. QED
  BY <1>1, <1>2 DEF Starts, Is, A

Letters == {34, 92, 47, 98, 102, 110, 114, 116}

LEMMA EscapeLike ==
  ASSUME NEW s, Len(s) \in Nat, Len(s) >= 1
  PROVE  /\ Starts(s, Escape) <=>
              Len(s) <= 2 /\ s[1] = 92 /\ (Len(s) >= 2 => s[2] \in Letters)
         /\ Is(s, Escape) <=> Len(s) = 2 /\ Starts(s, Escape)
<1> DEFINE p == <<{92}, Letters>>
<1>1. Escape = {p} /\ Len(p) = 2
  BY DEF Escape, Letters
<1>2. StartsLike(s, p) <=> Len(s) <= 2 /\ s[1] = 92 /\ (Len(s) >= 2 => s[2] \in Letters)
  BY Like2
<1> HIDE DEF p
<1>3. QED
  BY <1>1, <1>2 DEF Starts, Is

HalfLike(s) ==
  /\ s[1] = 92
  /\ Len(s) >= 2 => s[2] = 117
  /\ Len(s) >= 3 => s[3] \in HexDig
  /\ Len(s) >= 4 => s[4] \in HexDig
  /\ Len(s) >= 5 => s[5] \in HexDig
  /\ Len(s) >= 6 => s[6] \in HexDig

DigitSets == /\ DChar \subseteq HexDig /\ 48 .. 55 \subseteq HexDig
             /\ {56, 57, 65, 66, 97, 98} \subseteq HexDig
             /\ 67 .. 70 \union 99 .. 102 \subseteq HexDig

LEMMA DigitSetsHold == DigitSets
BY DEF DigitSets, HexDig, Digit, DChar

LEMMA CodeUnitLike ==
  ASSUME NEW s, Len(s) \in Nat, Len(s) >= 1
  PROVE  /\ Starts(s, CodeUnit) <=>
              /\ Len(s) <= 6 /\ HalfLike(s)
              /\ Len(s) >= 4 /\ s[3] \in DChar => s[4] \in 48 .. 55
         /\ Is(s, CodeUnit) <=> Len(s) = 6 /\ Starts(s, CodeUnit)
<1> DEFINE p == <<{92}, {117}, HexDig \ DChar, HexDig, HexDig, HexDig>>
<1> DEFINE q == <<{92}, {117}, DChar, 48 .. 55, HexDig, HexDig>>
<1>1. CodeUnit = {p, q} /\ Len(p) = 6 /\ Len(q) = 6
  BY Zenon, LenProperties DEF CodeUnit
<1>2. StartsLike(s, p) <=>
        /\ Len(s) <= 6 /\ HalfLike(s) /\ (Len(s) >= 3 => s[3] \notin DChar)
  BY Like6 DEF HalfLike
<1> DEFINE E == 48 .. 55
<1>3. StartsLike(s, q) <=>
        /\ Len(s) <= 6 /\ HalfLike(s) /\ (Len(s) >= 3 => s[3] \in DChar)
        /\ (Len(s) >= 4 => s[4] \in 48 .. 55)
  <2>1. E \subseteq HexDig /\ DChar \subseteq HexDig
    BY DigitSetsHold DEF DigitSets
  <2> HIDE DEF E
  <2>2. StartsLike(s, <<{92}, {117}, DChar, E, HexDig, HexDig>>) <=>
        /\ Len(s) <= 6 /\ HalfLike(s) /\ (Len(s) >= 3 => s[3] \in DChar)
        /\ (Len(s) >= 4 => s[4] \in E)
    BY <2>1, Like6 DEF HalfLike
  <2>3. QED
    BY <2>2 DEF E
<1> HIDE DEF p, q
<1>4. Len(s) >= 4 => Len(s) >= 3
  OBVIOUS
<1>5. StartsLike(s, p) \/ StartsLike(s, q) <=>
        /\ Len(s) <= 6 /\ HalfLike(s)
        /\ Len(s) >= 4 /\ s[3] \in DChar => s[4] \in 48 .. 55
  BY <1>2, <1>3, <1>4, Zenon
<1>6. Starts(s, CodeUnit) <=> StartsLike(s, p) \/ StartsLike(s, q)
  BY <1>1, Zenon DEF Starts
<1>7. Is(s, CodeUnit) <=> Len(s) = 6 /\ (StartsLike(s, p) \/ StartsLike(s, q))
  BY <1>1 DEF Is
<1>8. QED
  BY <1>5, <1>6, <1>7, Zenon

-----------------------------------------------------------------------------
HighSecond == {56, 57, 65, 66, 97, 98}
LowSecond  == 67 .. 70 \union 99 .. 102

(* The high half of a pair, and its low half at the places 7 to 12. *)
HighLike(s) ==
  HalfLike(s) /\ (Len(s) >= 3 => s[3] \in DChar) /\ (Len(s) >= 4 => s[4] \in HighSecond)
LowLike(s) ==
  /\ Len(s) >= 7 => s[7] = 92
  /\ Len(s) >= 8 => s[8] = 117
  /\ Len(s) >= 9 => s[9] \in DChar
  /\ Len(s) >= 10 => s[10] \in LowSecond
  /\ Len(s) >= 11 => s[11] \in HexDig
  /\ Len(s) >= 12 => s[12] \in HexDig

LEMMA PairLike ==
  ASSUME NEW s, Len(s) \in Nat, Len(s) >= 1
  PROVE  /\ Starts(s, Pair) <=> Len(s) <= 12 /\ HighLike(s) /\ LowLike(s)
         /\ Is(s, Pair) <=> Len(s) = 12 /\ Starts(s, Pair)
<1> DEFINE p == <<{92}, {117}, DChar, HighSecond, HexDig, HexDig,
                  {92}, {117}, DChar, LowSecond, HexDig, HexDig>>
<1>1. Pair = {p}
  BY Zenon DEF Pair, HighSecond, LowSecond
<1>2. Len(p) = 12
  OBVIOUS
<1>3. DChar \subseteq HexDig /\ HighSecond \subseteq HexDig
  BY DigitSetsHold DEF DigitSets, HighSecond
<1>4. StartsLike(s, p) <=> Len(s) <= 12 /\ HighLike(s) /\ LowLike(s)
  <2> DEFINE a == {92}
             b == {117}
  <2> HIDE DEF a, b
  <2>1. StartsLike(s, <<a, b, DChar, HighSecond, HexDig, HexDig,
                        a, b, DChar, LowSecond, HexDig, HexDig>>) <=>
          /\ Len(s) <= 12 /\ (Len(s) >= 1 => s[1] \in a) /\ (Len(s) >= 2 => s[2] \in b)
          /\ (Len(s) >= 3 => s[3] \in DChar) /\ (Len(s) >= 4 => s[4] \in HighSecond)
          /\ (Len(s) >= 5 => s[5] \in HexDig) /\ (Len(s) >= 6 => s[6] \in HexDig)
          /\ (Len(s) >= 7 => s[7] \in a) /\ (Len(s) >= 8 => s[8] \in b)
          /\ (Len(s) >= 9 => s[9] \in DChar) /\ (Len(s) >= 10 => s[10] \in LowSecond)
          /\ (Len(s) >= 11 => s[11] \in HexDig) /\ (Len(s) >= 12 => s[12] \in HexDig)
    BY Like12, Zenon
  <2>2. \A v : (v \in a <=> v = 92) /\ (v \in b <=> v = 117)
    BY DEF a, b
  <2>3. StartsLike(s, <<a, b, DChar, HighSecond, HexDig, HexDig,
                        a, b, DChar, LowSecond, HexDig, HexDig>>) <=>
          Len(s) <= 12 /\ HighLike(s) /\ LowLike(s)
    BY <1>3, <2>1, <2>2, SMTT(60) DEF HighLike, HalfLike, LowLike
  <2>4. QED
    BY <2>3, Zenon DEF a, b
<1> HIDE DEF p
<1>5. QED
  BY <1>1, <1>2, <1>4 DEF Starts, Is

(* What starts with a backslash and a u is a code unit or a pair. *)
LEMMA EscapedStarts ==
  ASSUME NEW s, Len(s) \in Nat, Len(s) >= 2, s[1] = 92, s[2] = 117
  PROVE  /\ Starts(s, Character) <=> Starts(s, CodeUnit) \/ Starts(s, Pair)
         /\ Is(s, Character) <=> Is(s, CodeUnit) \/ Is(s, Pair)
         /\ ~Is(s, Plain) /\ ~Is(s, Escape) /\ ~Is(s, Multibyte)
<1>1. ~Starts(s, Plain) /\ ~Is(s, Plain)
  BY PlainLike
<1>2. ~Starts(s, Escape) /\ ~Is(s, Escape)
  BY EscapeLike DEF Letters
<1>3. Utf8SeqLength(92) = 1
  BY DEF Utf8SeqLength
<1>4. ~Starts(s, Multibyte) /\ ~Is(s, Multibyte)
  BY <1>3, MultibyteStarts, MultibyteIs DEF LikeMultibyte
<1>5. QED
  BY <1>1, <1>2, <1>4, KindsOfCharacter

(* A byte that is no backslash starts a character it is the whole of, or a
   multibyte one. *)
LEMMA RawStarts ==
  ASSUME NEW s, Len(s) \in Nat, Len(s) >= 1, s[1] # 92
  PROVE  /\ Starts(s, Character) <=> Starts(s, Plain) \/ Starts(s, Multibyte)
         /\ Is(s, Character) <=> Is(s, Plain) \/ Is(s, Multibyte)
         /\ ~Is(s, CodeUnit) /\ ~Is(s, Pair) /\ ~Is(s, Escape)
<1>1. ~Starts(s, Escape) /\ ~Is(s, Escape)
  BY EscapeLike
<1>2. ~Starts(s, CodeUnit) /\ ~Is(s, CodeUnit)
  BY CodeUnitLike, Zenon DEF HalfLike
<1>3. ~Starts(s, Pair) /\ ~Is(s, Pair)
  BY PairLike, Zenon DEF HighLike, HalfLike
<1>4. QED
  BY <1>1, <1>2, <1>3, KindsOfCharacter

LEMMA LengthOfKind ==
  ASSUME NEW s, Len(s) \in Nat, Len(s) >= 1
  PROVE  /\ Is(s, Escape) => Len(s) = 2
         /\ Is(s, CodeUnit) => Len(s) = 6
         /\ Is(s, Pair) => Len(s) = 12
BY EscapeLike, CodeUnitLike, PairLike, Zenon

LEMMA KindsApart ==
  ASSUME NEW s, Len(s) \in Nat, Len(s) >= 1
  PROVE  /\ Is(s, Pair) => ~Is(s, CodeUnit) /\ ~Is(s, Escape)
         /\ Is(s, CodeUnit) => ~Is(s, Escape)
<1>1. Len(s) = 12 => Len(s) # 6 /\ Len(s) # 2
  OBVIOUS
<1>2. Len(s) = 6 => Len(s) # 2
  OBVIOUS
<1>3. QED
  BY <1>1, <1>2, LengthOfKind, Zenon

(* readUnicode's arithmetic, on the bytes of a pair. *)
PairValue(s) == 65536 + (Hex4(s, 3) % 1024) * 1024 + (Hex4(s, 9) % 1024)

LEMMA Denotes ==
  ASSUME NEW s, Len(s) \in Nat, Len(s) >= 1
  PROVE  /\ Is(s, CodeUnit) => Denoted(s) = Hex4(s, 3)
         /\ Is(s, Pair) => Denoted(s) = PairValue(s)
         /\ s[1] # 92 => Denoted(s) = Decoded(s)
<1>1. Is(s, Pair) => ~Is(s, CodeUnit) /\ ~Is(s, Escape)
  BY KindsApart, Zenon
<1>2. Is(s, CodeUnit) => ~Is(s, Pair) /\ ~Is(s, Escape)
  BY KindsApart, Zenon
<1>3. s[1] # 92 => ~Is(s, CodeUnit) /\ ~Is(s, Pair) /\ ~Is(s, Escape)
  BY RawStarts
<1> DEFINE h == Hex4(s, 3)
<1> DEFINE p == PairValue(s)
<1> DEFINE e == CASE s[2] = 98  -> 8
                  [] s[2] = 102 -> 12
                  [] s[2] = 110 -> 10
                  [] s[2] = 114 -> 13
                  [] s[2] = 116 -> 9
                  [] OTHER      -> s[2]
<1>4. Denoted(s) = CASE Is(s, CodeUnit) -> h [] Is(s, Pair) -> p [] Is(s, Escape) -> e
                     [] OTHER -> Decoded(s)
  BY SMT DEF Denoted, PairValue
<1> HIDE DEF h, p, e
<1>5. /\ Is(s, CodeUnit) => Denoted(s) = h
      /\ Is(s, Pair) => Denoted(s) = p
      /\ s[1] # 92 => Denoted(s) = Decoded(s)
  BY <1>1, <1>2, <1>3, <1>4
<1>6. QED
  BY <1>5 DEF h, p

(* The letters, and what they stand for. *)
LEMMA EscapeIsUnescaped ==
  ASSUME NEW c \in Octet \union {EOF}
  PROVE  /\ Unescaped(c) = -1 /\ c # 117 => ~Starts(<<92, c>>, Character)
         /\ Unescaped(c) # -1 =>
              /\ Is(<<92, c>>, Character) /\ Denoted(<<92, c>>) = Unescaped(c)
              /\ Unescaped(c) \in Nat /\ Unescaped(c) < 128
<1> DEFINE s == <<92, c>>
<1>1. Len(s) = 2 /\ s[1] = 92 /\ s[2] = c
  OBVIOUS
<1> HIDE DEF s
<1>2. c \in Letters <=> Unescaped(c) # -1
  BY DEF Letters, Unescaped, Octet, EOF
<1>3. Starts(s, Escape) <=> c \in Letters
  <2>1. Len(s) <= 2 /\ Len(s) >= 2 /\ Len(s) >= 1 /\ Len(s) \in Nat
    BY <1>1
  <2>2. QED
    BY <1>1, <2>1, EscapeLike, Zenon
<1>4. ~Starts(s, Plain) /\ ~Starts(s, Multibyte)
  <2>1. Utf8SeqLength(92) = 1
    BY DEF Utf8SeqLength
  <2>2. QED
    BY <1>1, <2>1, PlainLike, MultibyteStarts DEF LikeMultibyte
<1>5. c # 117 => ~Starts(s, CodeUnit) /\ ~Starts(s, Pair)
  BY <1>1, CodeUnitLike, PairLike DEF HighLike, HalfLike
<1>6. Unescaped(c) = -1 /\ c # 117 => ~Starts(s, Character)
  BY <1>2, <1>3, <1>4, <1>5, KindsOfCharacter
<1>7. c \in Letters => Is(s, Escape) /\ Is(s, Character)
  BY <1>1, <1>3, EscapeLike, KindsOfCharacter
<1>8. ~Is(s, CodeUnit) /\ ~Is(s, Pair)
  <2>1. Len(s) \in Nat /\ Len(s) >= 1 /\ Len(s) # 6 /\ Len(s) # 12
    BY <1>1
  <2>2. QED
    BY <2>1, LengthOfKind, Zenon
<1>9. c \in Letters => Denoted(s) = Unescaped(c) /\ Unescaped(c) \in Nat /\ Unescaped(c) < 128
  BY <1>1, <1>7, <1>8 DEF Denoted, Unescaped, Letters
<1>10. QED
  BY <1>2, <1>6, <1>7, <1>9 DEF s

-----------------------------------------------------------------------------
(* What the source gives: a byte, or the end. *)
ByteOrEnd == Octet \union {EOF}

(* Four hexadecimal digits are the half of a pair their first two say. *)
LEMMA FourDigits ==
  ASSUME NEW a \in ByteOrEnd, NEW b \in ByteOrEnd, NEW c \in ByteOrEnd, NEW d \in ByteOrEnd,
         a \in HexDig, b \in HexDig, c \in HexDig, d \in HexDig
  PROVE  /\ BasicPlane(Value4(HexChar(a), HexChar(b), HexChar(c), HexChar(d)))
         /\ IsHigh(Value4(HexChar(a), HexChar(b), HexChar(c), HexChar(d)))
              <=> a \in DChar /\ b \in HighSecond
         /\ IsLow(Value4(HexChar(a), HexChar(b), HexChar(c), HexChar(d)))
              <=> a \in DChar /\ b \in LowSecond
<1>1. /\ HexChar(a) \in 0 .. 15 /\ HexChar(b) \in 0 .. 15
      /\ HexChar(c) \in 0 .. 15 /\ HexChar(d) \in 0 .. 15
  BY HexDigits DEF ByteOrEnd
<1>2. a \in DChar <=> HexChar(a) = 13
  BY HexDigits DEF ByteOrEnd
<1>3. b \in HighSecond <=> HexChar(b) >= 8 /\ HexChar(b) <= 11
  BY HexDigits DEF ByteOrEnd, HighSecond
<1>4. b \in LowSecond <=> HexChar(b) >= 12
  BY HexDigits DEF ByteOrEnd, LowSecond
<1> DEFINE v == Value4(HexChar(a), HexChar(b), HexChar(c), HexChar(d))
<1>5. /\ BasicPlane(v)
      /\ IsHigh(v) <=> HexChar(a) = 13 /\ HexChar(b) >= 8 /\ HexChar(b) <= 11
      /\ IsLow(v) <=> HexChar(a) = 13 /\ HexChar(b) >= 12
  BY <1>1, Value4Range, Zenon
<1> HIDE DEF v
<1>6. /\ BasicPlane(v)
      /\ IsHigh(v) <=> a \in DChar /\ b \in HighSecond
      /\ IsLow(v) <=> a \in DChar /\ b \in LowSecond
  BY <1>2, <1>3, <1>4, <1>5, Zenon
<1>7. QED
  BY <1>6 DEF v

LEMMA HalvesApart == \A b : /\ b \in 48 .. 55 => b \notin HighSecond /\ b \notin LowSecond
                            /\ b \in LowSecond => b \notin HighSecond
BY DEF HighSecond, LowSecond

LEMMA DigitKinds == \A b \in HexDig : b \in 48 .. 55 \/ b \in HighSecond \/ b \in LowSecond
BY DEF HexDig, Digit, HighSecond, LowSecond

(* The bytes of the first half, in a unit of at least that length. *)
LEMMA FirstHalf ==
  ASSUME NEW s \in Seq(ByteOrEnd), Len(s) >= 6, HalfLike(s)
  PROVE  /\ BasicPlane(Hex4(s, 3))
         /\ IsHigh(Hex4(s, 3)) <=> s[3] \in DChar /\ s[4] \in HighSecond
         /\ IsLow(Hex4(s, 3)) <=> s[3] \in DChar /\ s[4] \in LowSecond
<1>1. /\ s[3] \in ByteOrEnd /\ s[4] \in ByteOrEnd /\ s[5] \in ByteOrEnd /\ s[6] \in ByteOrEnd
      /\ s[3] \in HexDig /\ s[4] \in HexDig /\ s[5] \in HexDig /\ s[6] \in HexDig
  BY DEF HalfLike
<1>2. Hex4(s, 3) = Value4(HexChar(s[3]), HexChar(s[4]), HexChar(s[5]), HexChar(s[6]))
  BY DEF Hex4, Value4
<1>3. /\ BasicPlane(Value4(HexChar(s[3]), HexChar(s[4]), HexChar(s[5]), HexChar(s[6])))
      /\ IsHigh(Value4(HexChar(s[3]), HexChar(s[4]), HexChar(s[5]), HexChar(s[6])))
           <=> s[3] \in DChar /\ s[4] \in HighSecond
      /\ IsLow(Value4(HexChar(s[3]), HexChar(s[4]), HexChar(s[5]), HexChar(s[6])))
           <=> s[3] \in DChar /\ s[4] \in LowSecond
  BY <1>1, FourDigits, SMT
<1>4. QED
  BY <1>2, <1>3

SecondHalfLike(s) ==
  /\ s[7] = 92 /\ s[8] = 117
  /\ Len(s) >= 9 => s[9] \in HexDig
  /\ Len(s) >= 10 => s[10] \in HexDig
  /\ Len(s) >= 11 => s[11] \in HexDig
  /\ Len(s) >= 12 => s[12] \in HexDig

LEMMA SecondHalf ==
  ASSUME NEW s \in Seq(ByteOrEnd), Len(s) >= 12, SecondHalfLike(s)
  PROVE  /\ BasicPlane(Hex4(s, 9))
         /\ IsLow(Hex4(s, 9)) <=> s[9] \in DChar /\ s[10] \in LowSecond
<1>1. /\ s[9] \in ByteOrEnd /\ s[10] \in ByteOrEnd /\ s[11] \in ByteOrEnd /\ s[12] \in ByteOrEnd
      /\ s[9] \in HexDig /\ s[10] \in HexDig /\ s[11] \in HexDig /\ s[12] \in HexDig
  BY DEF SecondHalfLike
<1>2. Hex4(s, 9) = Value4(HexChar(s[9]), HexChar(s[10]), HexChar(s[11]), HexChar(s[12]))
  BY DEF Hex4, Value4
<1>3. /\ BasicPlane(Value4(HexChar(s[9]), HexChar(s[10]), HexChar(s[11]), HexChar(s[12])))
      /\ IsHigh(Value4(HexChar(s[9]), HexChar(s[10]), HexChar(s[11]), HexChar(s[12])))
           <=> s[9] \in DChar /\ s[10] \in HighSecond
      /\ IsLow(Value4(HexChar(s[9]), HexChar(s[10]), HexChar(s[11]), HexChar(s[12])))
           <=> s[9] \in DChar /\ s[10] \in LowSecond
  BY <1>1, FourDigits, SMT
<1>4. QED
  BY <1>2, <1>3

(* Six bytes with the digits of a code unit. *)
LEMMA CodeUnitDone ==
  ASSUME NEW s \in Seq(ByteOrEnd), Len(s) = 6, HalfLike(s)
  PROVE  /\ IsLow(Hex4(s, 3)) => ~Starts(s, Character)
         /\ ~IsLow(Hex4(s, 3)) /\ ~IsHigh(Hex4(s, 3)) =>
              Is(s, Character) /\ Denoted(s) = Hex4(s, 3)
<1>1. Len(s) \in Nat /\ Len(s) >= 1 /\ Len(s) >= 2 /\ Len(s) >= 4 /\ Len(s) >= 6 /\ Len(s) <= 6
  OBVIOUS
<1>2. s[1] = 92 /\ s[2] = 117 /\ s[4] \in HexDig
  BY <1>1, Zenon DEF HalfLike
<1>3. /\ IsHigh(Hex4(s, 3)) <=> s[3] \in DChar /\ s[4] \in HighSecond
      /\ IsLow(Hex4(s, 3)) <=> s[3] \in DChar /\ s[4] \in LowSecond
  BY <1>1, FirstHalf, Zenon
<1>4. /\ Starts(s, Character) <=> Starts(s, CodeUnit) \/ Starts(s, Pair)
      /\ Is(s, Character) <=> Is(s, CodeUnit) \/ Is(s, Pair)
  BY <1>1, <1>2, EscapedStarts, Zenon
<1> DEFINE E == 48 .. 55
<1>5. Starts(s, CodeUnit) <=> (s[3] \in DChar => s[4] \in E)
  BY <1>1, CodeUnitLike, Zenon
<1>6. Starts(s, Pair) => s[4] \in HighSecond
  BY <1>1, PairLike, Zenon DEF HighLike
<1>7. /\ s[4] \in E => s[4] \notin HighSecond /\ s[4] \notin LowSecond
      /\ s[4] \in LowSecond => s[4] \notin HighSecond
      /\ s[4] \in E \/ s[4] \in HighSecond \/ s[4] \in LowSecond
  BY <1>2, HalvesApart, DigitKinds, Zenon
<1>8. Is(s, CodeUnit) <=> Starts(s, CodeUnit)
  BY <1>1, CodeUnitLike, Zenon
<1>9. Is(s, CodeUnit) => Denoted(s) = Hex4(s, 3)
  BY <1>1, Denotes, Zenon
<1> HIDE DEF E
<1>10. QED
  BY <1>3, <1>4, <1>5, <1>6, <1>7, <1>8, <1>9, Zenon

-----------------------------------------------------------------------------
(* A unit whose first six bytes are the high half h. *)
HighHalf(s, h) == Len(s) >= 6 /\ HalfLike(s) /\ IsHigh(h) /\ Hex4(s, 3) = h

LEMMA HighHalfIsHigh ==
  ASSUME NEW s \in Seq(ByteOrEnd), NEW h, HighHalf(s, h)
  PROVE  /\ HighLike(s) /\ s[1] = 92 /\ s[2] = 117
         /\ Len(s) \in Nat /\ Len(s) >= 1 /\ Len(s) >= 2 /\ Len(s) >= 6
         /\ ~(s[3] \in DChar => s[4] \in 48 .. 55)
<1>1. Len(s) >= 6 /\ HalfLike(s) /\ IsHigh(Hex4(s, 3))
  BY Zenon DEF HighHalf
<1>2. s[3] \in DChar /\ s[4] \in HighSecond
  BY <1>1, FirstHalf, Zenon
<1>3. Len(s) \in Nat /\ Len(s) >= 1 /\ Len(s) >= 2
  BY <1>1
<1>4. s[1] = 92 /\ s[2] = 117
  BY <1>1, <1>3, Zenon DEF HalfLike
<1>5. s[4] \notin 48 .. 55
  BY <1>2, HalvesApart, Zenon
<1>6. QED
  BY <1>1, <1>2, <1>3, <1>4, <1>5, Zenon DEF HighLike

(* A high half starts a pair, and what follows it is one's low half. *)
LEMMA AfterHighHalf ==
  ASSUME NEW s \in Seq(ByteOrEnd), NEW h, HighHalf(s, h)
  PROVE  /\ Starts(s, Character) <=> Len(s) <= 12 /\ LowLike(s)
         /\ Is(s, Pair) <=> Len(s) = 12 /\ LowLike(s)
         /\ Is(s, Pair) => Is(s, Character)
<1>1. /\ HighLike(s) /\ s[1] = 92 /\ s[2] = 117
      /\ Len(s) \in Nat /\ Len(s) >= 1 /\ Len(s) >= 2 /\ Len(s) >= 6
      /\ ~(s[3] \in DChar => s[4] \in 48 .. 55)
  BY HighHalfIsHigh, Zenon
<1>2. Len(s) >= 4
  BY <1>1
<1>3. ~Starts(s, CodeUnit)
  BY <1>1, <1>2, CodeUnitLike, Zenon
<1>4. /\ Starts(s, Pair) <=> Len(s) <= 12 /\ LowLike(s)
      /\ Is(s, Pair) <=> Len(s) = 12 /\ Starts(s, Pair)
  BY <1>1, PairLike, Zenon
<1>5. Len(s) = 12 => Len(s) <= 12
  BY <1>1
<1>6. /\ Starts(s, Character) <=> Starts(s, CodeUnit) \/ Starts(s, Pair)
      /\ Is(s, Character) <=> Is(s, CodeUnit) \/ Is(s, Pair)
  BY <1>1, EscapedStarts, Zenon
<1>7. QED
  BY <1>3, <1>4, <1>5, <1>6, Zenon

(* A byte that is no hexadecimal digit in the first half. *)
LEMMA FirstHalfRefused ==
  ASSUME NEW s \in Seq(ByteOrEnd), NEW n \in 3 .. 6, Len(s) = n, s[1] = 92, s[2] = 117,
         s[n] \notin HexDig
  PROVE  ~Starts(s, Character)
<1>1. Len(s) \in Nat /\ Len(s) >= 1 /\ Len(s) >= 2
  OBVIOUS
<1>2. ~HalfLike(s)
  BY DEF HalfLike
<1>3. ~Starts(s, CodeUnit) /\ ~Starts(s, Pair)
  BY <1>1, <1>2, CodeUnitLike, PairLike, Zenon DEF HighLike
<1>4. QED
  BY <1>1, <1>3, EscapedStarts, Zenon

(* The bytes after a high half, one by one. *)
LEMMA LowHalfRefused ==
  ASSUME NEW s \in Seq(ByteOrEnd), NEW h, HighHalf(s, h), NEW n \in 7 .. 12, Len(s) = n,
         \/ n = 7 /\ s[7] # 92
         \/ n = 8 /\ s[8] # 117
         \/ n >= 9 /\ s[n] \notin HexDig
  PROVE  ~Starts(s, Character)
<1>1. DChar \subseteq HexDig /\ LowSecond \subseteq HexDig
  BY DigitSetsHold DEF DigitSets, LowSecond
<1>2. ~LowLike(s)
  BY <1>1 DEF LowLike
<1>3. QED
  BY <1>2, AfterHighHalf, Zenon

LEMMA HighRange ==
  ASSUME NEW h, IsHigh(h)
  PROVE  h \in Int /\ 55296 <= h /\ h <= 56319 /\ h % 1024 = h - 55296
<1>1. h \in Int /\ 55296 <= h /\ h <= 56319
  BY SMT DEF IsHigh
<1>2. \A k \in Int : 55296 <= k /\ k <= 56319 => k % 1024 = k - 55296
  BY SMT
<1>3. QED
  BY <1>1, <1>2, SMT

LEMMA LowRange ==
  ASSUME NEW l, IsLow(l)
  PROVE  l \in Int /\ 56320 <= l /\ l <= 57343 /\ l % 1024 = l - 56320
<1>1. l \in Int /\ 56320 <= l /\ l <= 57343
  BY SMT DEF IsLow
<1>2. \A k \in Int : 56320 <= k /\ k <= 57343 => k % 1024 = k - 56320
  BY SMT
<1>3. QED
  BY <1>1, <1>2, SMT

LEMMA PairArithmeticAgrees ==
  ASSUME NEW h, IsHigh(h), NEW l, IsLow(l)
  PROVE  65536 + (h % 1024) * 1024 + (l % 1024) = FromPair(h, l)
<1>1. h \in Int /\ h % 1024 = h - 55296 /\ l \in Int /\ l % 1024 = l - 56320
  BY HighRange, LowRange, SMT
<1>2. QED
  BY <1>1, SMT DEF FromPair

LEMMA PairDone ==
  ASSUME NEW s \in Seq(ByteOrEnd), NEW h, HighHalf(s, h), Len(s) = 12, SecondHalfLike(s)
  PROVE  /\ BasicPlane(Hex4(s, 9))
         /\ ~IsLow(Hex4(s, 9)) => ~Starts(s, Character)
         /\ IsLow(Hex4(s, 9)) => Is(s, Character) /\ Denoted(s) = FromPair(h, Hex4(s, 9))
<1>1. Len(s) >= 12 /\ Len(s) >= 1 /\ Len(s) \in Nat /\ Len(s) <= 12 /\ Len(s) >= 9 /\ Len(s) >= 10
  OBVIOUS
<1>2. /\ BasicPlane(Hex4(s, 9))
      /\ IsLow(Hex4(s, 9)) <=> s[9] \in DChar /\ s[10] \in LowSecond
  BY <1>1, SecondHalf, Zenon
<1>3. LowLike(s) <=> s[9] \in DChar /\ s[10] \in LowSecond
  BY <1>1, Zenon DEF LowLike, SecondHalfLike
<1>4. Is(s, Pair) => Denoted(s) = PairValue(s)
  BY <1>1, Denotes, Zenon
<1>5. IsLow(Hex4(s, 9)) => PairValue(s) = FromPair(h, Hex4(s, 9))
  BY PairArithmeticAgrees, SMT DEF HighHalf, PairValue
<1>6. QED
  BY <1>1, <1>2, <1>3, <1>4, <1>5, AfterHighHalf, Zenon

(* What the two kinds of escape denote are scalar values. *)
LEMMA CodeUnitIsScalar ==
  ASSUME NEW v, BasicPlane(v), ~IsHigh(v), ~IsLow(v)
  PROVE  v \in Nat /\ IsScalarValue(v)
<1>1. v \in Nat /\ v < 65536
  BY SMT DEF BasicPlane
<1>2. 55296 <= v /\ v < 57344 => IsHigh(v) \/ IsLow(v)
  BY <1>1, SMT DEF IsHigh, IsLow
<1>3. QED
  BY <1>1, <1>2, SMT DEF IsScalarValue

LEMMA PairIsScalar ==
  ASSUME NEW h, IsHigh(h), NEW l, IsLow(l)
  PROVE  FromPair(h, l) \in Nat /\ IsScalarValue(FromPair(h, l))
<1>1. h \in Int /\ 55296 <= h /\ h <= 56319 /\ l \in Int /\ 56320 <= l /\ l <= 57343
  BY HighRange, LowRange, SMT
<1>2. QED
  BY <1>1, SMT DEF FromPair, IsScalarValue

-----------------------------------------------------------------------------
(* The value of the first n of the digits at i. *)
HexOf(s, i, n) ==
  CASE n = 0 -> 0
    [] n = 1 -> HexChar(s[i])
    [] n = 2 -> HexChar(s[i]) * 16 + HexChar(s[i + 1])
    [] n = 3 -> (HexChar(s[i]) * 16 + HexChar(s[i + 1])) * 16 + HexChar(s[i + 2])
    [] n = 4 -> Hex4(s, i)

LEMMA HexCharIsInt == ASSUME NEW c PROVE HexChar(c) \in Int
BY DEF HexChar

LEMMA AppendAt ==
  ASSUME NEW S, NEW s \in Seq(S), NEW c \in S
  PROVE  /\ Append(s, c) \in Seq(S) /\ Len(Append(s, c)) = Len(s) + 1
         /\ Append(s, c)[Len(s) + 1] = c
         /\ \A i \in 1 .. Len(s) : Append(s, c)[i] = s[i]
OBVIOUS

LEMMA HexStep ==
  ASSUME NEW s \in Seq(ByteOrEnd), NEW c \in ByteOrEnd, NEW i \in Nat, i >= 1,
         NEW n \in 0 .. 3, Len(s) = i + n - 1
  PROVE  HexOf(Append(s, c), i, n + 1) = HexOf(s, i, n) * 16 + HexChar(c)
<1> DEFINE t == Append(s, c)
<1>1. /\ t[Len(s) + 1] = c /\ \A j \in 1 .. Len(s) : t[j] = s[j]
  BY AppendAt
<1> HIDE DEF t
<1>2. CASE n = 0
  BY <1>1, <1>2, HexCharIsInt DEF HexOf
<1>3. CASE n = 1
  BY <1>1, <1>3 DEF HexOf
<1>4. CASE n = 2
  BY <1>1, <1>4 DEF HexOf
<1>5. CASE n = 3
  BY <1>1, <1>5 DEF HexOf, Hex4
<1>6. QED
  BY <1>2, <1>3, <1>4, <1>5 DEF t

LEMMA HalfLikeStep ==
  ASSUME NEW s \in Seq(ByteOrEnd), NEW c \in ByteOrEnd, HalfLike(s), Len(s) >= 2,
         c \in HexDig \/ Len(s) >= 6
  PROVE  HalfLike(Append(s, c))
<1> DEFINE t == Append(s, c)
<1>1. /\ Len(t) = Len(s) + 1 /\ t[Len(s) + 1] = c /\ \A j \in 1 .. Len(s) : t[j] = s[j]
  BY AppendAt
<1> HIDE DEF t
<1>2. HalfLike(t)
  BY <1>1 DEF HalfLike
<1>3. QED
  BY <1>2 DEF t

LEMMA SecondHalfLikeStep ==
  ASSUME NEW s \in Seq(ByteOrEnd), NEW c \in ByteOrEnd, SecondHalfLike(s), Len(s) >= 8,
         c \in HexDig
  PROVE  SecondHalfLike(Append(s, c))
<1> DEFINE t == Append(s, c)
<1>1. /\ Len(t) = Len(s) + 1 /\ t[Len(s) + 1] = c /\ \A j \in 1 .. Len(s) : t[j] = s[j]
  BY AppendAt
<1> HIDE DEF t
<1>2. SecondHalfLike(t)
  BY <1>1 DEF SecondHalfLike
<1>3. QED
  BY <1>2 DEF t

LEMMA HighHalfStep ==
  ASSUME NEW s \in Seq(ByteOrEnd), NEW c \in ByteOrEnd, NEW h, HighHalf(s, h)
  PROVE  HighHalf(Append(s, c), h)
<1> DEFINE t == Append(s, c)
<1>1. /\ Len(t) = Len(s) + 1 /\ \A j \in 1 .. Len(s) : t[j] = s[j]
  BY AppendAt
<1>2. Len(s) >= 6 /\ HalfLike(s) /\ IsHigh(h) /\ Hex4(s, 3) = h
  BY Zenon DEF HighHalf
<1>3. HalfLike(t)
  BY <1>2, HalfLikeStep
<1> HIDE DEF t
<1>4. Hex4(t, 3) = Hex4(s, 3) /\ Len(t) >= 6
  BY <1>1, <1>2 DEF Hex4
<1>5. HighHalf(t, h)
  BY <1>2, <1>3, <1>4, Zenon DEF HighHalf
<1>6. QED
  BY <1>5 DEF t

-----------------------------------------------------------------------------
(* readUtf8's buffer holds the bytes it read, and 255 for the end. *)
Holds(b, s) == Len(b) = Len(s) /\ \A i \in 1 .. Len(s) : b[i] = s[i] % 256

LEMMA HeldByte ==
  ASSUME NEW c \in ByteOrEnd
  PROVE  /\ c % 256 \in Octet
         /\ c \in Octet => c % 256 = c
         /\ c % 256 # 255 => c \in Octet
BY DEF ByteOrEnd, Octet, EOF

LEMMA HoldsFacts ==
  \A s, b : s \in Seq(ByteOrEnd) /\ b \in Seq(Octet) /\ Len(s) >= 1 /\ Holds(b, s) =>
    /\ Len(s) \in Nat /\ Len(b) \in Nat /\ Len(b) = Len(s) /\ Len(b) >= 1
    /\ \A i \in 1 .. Len(s) : b[i] = s[i] % 256 /\ s[i] \in ByteOrEnd
    /\ b[1] = s[1] % 256
BY DEF Holds

LEMMA OctetIsItself == \A x \in Octet : x % 256 = x /\ x \in Int
BY DEF Octet

LEMMA NotPlain == \A x : x >= 128 => x # 92 /\ x \notin (32 .. 127) \ {34, 92}
OBVIOUS

LEMMA SecondByteIsTail == \A x : SecondByte(x) \subseteq Tail10
BY DEF SecondByte, Tail10

LEMMA TailIsOctet == \A v \in Tail10 : v \in Octet /\ v # 255
BY DEF Tail10, Octet

LEMMA TailDone ==
  ASSUME NEW s \in Seq(ByteOrEnd), NEW b \in Seq(Octet), Holds(b, s), NEW x \in Octet,
         Len(s) >= 1, s[1] = x, x >= 128, Len(b) = Utf8SeqLength(x)
  PROVE  /\ IsLegalUtf8(b) => /\ Is(s, Character) /\ Denoted(s) = Decoded(b)
                              /\ Is(b, Utf8Char)
         /\ ~IsLegalUtf8(b) => ~Starts(s, Character)
<1>1. /\ Len(s) \in Nat /\ Len(b) \in Nat /\ Len(b) = Len(s) /\ Len(b) >= 1
      /\ \A i \in 1 .. Len(s) : b[i] = s[i] % 256 /\ s[i] \in ByteOrEnd
      /\ b[1] = s[1] % 256
  BY HoldsFacts, Zenon
<1>2. b[1] = x /\ x \in Int
  <2>1. x % 256 = x /\ x \in Int
    BY OctetIsItself, Zenon
  <2>2. QED
    BY <1>1, <2>1, Zenon
<1>3. x # 92
  BY NotPlain
<1>4. IsLegalUtf8(b) <=> Is(b, Utf8Char)
  BY <1>1, <1>2, LegalLemma, Zenon
<1>5. Is(b, Utf8Char) <=> Is(b, Multibyte)
  <2>1. ~(x < 128)
    BY DEF Octet
  <2>2. QED
    BY <1>1, <1>2, <2>1, Utf8Cases, Zenon
<1>6. Is(s, Character) <=> Is(s, Plain) \/ Is(s, Multibyte)
  BY <1>1, <1>3, RawStarts, Zenon
<1>7. Starts(s, Character) <=> Starts(s, Plain) \/ Starts(s, Multibyte)
  BY <1>1, <1>3, RawStarts, Zenon
<1>8. ~Starts(s, Plain)
  <2>1. x \notin (32 .. 127) \ {34, 92}
    BY NotPlain
  <2>2. QED
    BY <1>1, <2>1, PlainLike, Zenon
<1>9. Is(s, Multibyte) <=> Len(s) \in {2, 3, 4} /\ LikeMultibyte(s, x, Len(s))
  BY <1>1, <1>2, MultibyteIs, Zenon
<1>10. Is(b, Multibyte) <=> Len(b) \in {2, 3, 4} /\ LikeMultibyte(b, x, Len(b))
  BY <1>1, <1>2, MultibyteIs, Zenon
<1>11. Starts(s, Multibyte) => Is(s, Multibyte)
  <2>1. Starts(s, Multibyte) => \E count \in {2, 3, 4} : LikeMultibyte(s, x, count)
    BY <1>1, <1>2, MultibyteStarts, Zenon
  <2>2. \A count : LikeMultibyte(s, x, count) => count = Len(s)
    BY <1>1, Zenon DEF LikeMultibyte
  <2>3. QED
    BY <1>9, <2>1, <2>2, Zenon
<1>12. LikeMultibyte(s, x, Len(s)) <=> LikeMultibyte(b, x, Len(b))
  <2>1. \A i \in 1 .. Len(s) : /\ s[i] \in Octet => b[i] = s[i]
                               /\ b[i] \in Octet /\ b[i] # 255 => b[i] = s[i]
    BY <1>1, HeldByte
  <2>2. \A i \in 1 .. Len(s) : s[i] \in Tail10 \/ b[i] \in Tail10 => b[i] = s[i]
    BY <2>1, TailIsOctet
  <2>3. \A i \in 1 .. Len(s) :
          s[i] \in SecondByte(x) \/ b[i] \in SecondByte(x) => b[i] = s[i]
    BY <2>2, SecondByteIsTail
  <2>4. /\ Len(s) >= 2 => 2 \in 1 .. Len(s)
        /\ Len(s) >= 3 => 3 \in 1 .. Len(s)
        /\ Len(s) >= 4 => 4 \in 1 .. Len(s)
    BY <1>1
  <2>5. Tails(s) <=> Tails(b)
    BY <1>1, <2>2, <2>4, Zenon DEF Tails
  <2>6. (Len(s) >= 2 => s[2] \in SecondByte(x)) <=> (Len(b) >= 2 => b[2] \in SecondByte(x))
    BY <1>1, <2>3, <2>4, Zenon
  <2>7. QED
    BY <1>1, <2>5, <2>6, Zenon DEF LikeMultibyte
<1>13. Is(s, Multibyte) <=> Is(b, Multibyte)
  BY <1>1, <1>9, <1>10, <1>12, Zenon
<1>14. Is(b, Multibyte) => b = s
  <2>1. ASSUME Is(b, Multibyte) PROVE \A i \in 2 .. Len(b) : b[i] \in Tail10
    <3>1. Len(b) \in {2, 3, 4} /\ LikeMultibyte(b, x, Len(b))
      BY <1>10, <2>1, Zenon
    <3>2. b[2] \in Tail10 /\ Tails(b)
      BY <3>1, SecondByteIsTail DEF LikeMultibyte
    <3>3. QED
      BY <3>1, <3>2 DEF Tails
  <2>2. ASSUME Is(b, Multibyte) PROVE \A i \in 1 .. Len(b) : b[i] = s[i]
    BY <1>1, <1>2, <2>1, <2>2, TailIsOctet, HeldByte
  <2>3. ASSUME Is(b, Multibyte) PROVE b = s
    <3>1. s \in Seq(Octet \union ByteOrEnd) /\ b \in Seq(Octet \union ByteOrEnd)
      BY DEF ByteOrEnd
    <3>2. QED
      BY <1>1, <2>2, <2>3, <3>1, SeqEqual
  <2>4. QED
    BY <2>3
<1>15. Denoted(s) = Decoded(s)
  BY <1>1, <1>3, Denotes, Zenon
<1>16. QED
  BY <1>4, <1>5, <1>6, <1>7, <1>8, <1>11, <1>13, <1>14, <1>15, Zenon

-----------------------------------------------------------------------------
(* The text t up to n is characters, cut at the members of a set. *)
CutAt(C, t, k) ==
  k = 0 \/ \E j \in C : j < k /\ k <= j + 4 /\ Is(SubSeq(t, j + 1, k), Utf8Char)
Cuts(C, t, n) ==
  C \in SUBSET (0 .. n) /\ n \in C /\ \A k \in C : CutAt(C, t, k)
Chars(t, n) == \E C : Cuts(C, t, n)

LEMMA NoChars == ASSUME NEW t PROVE Chars(t, 0)
<1>1. Cuts({0}, t, 0)
  BY DEF Cuts, CutAt
<1>2. QED
  BY <1>1 DEF Chars

LEMMA CharMore ==
  ASSUME NEW t, NEW m \in Nat, NEW n \in Nat, Chars(t, m), m < n, n <= m + 4,
         Is(SubSeq(t, m + 1, n), Utf8Char)
  PROVE  Chars(t, n)
<1>1. PICK C : Cuts(C, t, m)
  BY DEF Chars
<1> DEFINE D == C \union {n}
<1>2. D \in SUBSET (0 .. n) /\ n \in D
  BY <1>1 DEF Cuts
<1>3. ASSUME NEW k \in D PROVE CutAt(D, t, k)
  <2>1. CASE k = n
    <3>1. m \in D
      BY <1>1 DEF Cuts
    <3>2. QED
      BY <2>1, <3>1 DEF CutAt
  <2>2. CASE k \in C
    <3>1. CutAt(C, t, k)
      BY <1>1, <2>2 DEF Cuts
    <3>2. QED
      BY <3>1 DEF CutAt
  <2>3. QED
    BY <2>1, <2>2
<1>4. Cuts(D, t, n)
  BY <1>2, <1>3 DEF Cuts
<1>5. QED
  BY <1>4 DEF Chars

LEMMA SubSeqOfLonger ==
  ASSUME NEW S, NEW t \in Seq(S), NEW c \in S, NEW j \in Nat, NEW k \in Nat, k <= Len(t)
  PROVE  SubSeq(Append(t, c), j + 1, k) = SubSeq(t, j + 1, k)
<1> DEFINE u == Append(t, c)
<1>1. /\ \A i \in 1 .. Len(t) : u[i] = t[i] /\ t[i] \in S
      /\ Len(t) \in Nat
  BY AppendAt
<1> HIDE DEF u
<1>2. \A i \in j + 1 .. k : u[i] = t[i] /\ t[i] \in S /\ u[i] \in S
  <2>1. \A i \in j + 1 .. k : i \in 1 .. Len(t)
    BY <1>1
  <2>2. QED
    BY <1>1, <2>1
<1>3. /\ SubSeq(u, j + 1, k) \in Seq(S) /\ SubSeq(t, j + 1, k) \in Seq(S)
      /\ Len(SubSeq(u, j + 1, k)) = Len(SubSeq(t, j + 1, k))
      /\ Len(SubSeq(u, j + 1, k)) = IF j + 1 <= k THEN k - (j + 1) + 1 ELSE 0
      /\ \A i \in 1 .. k - (j + 1) + 1 :
            SubSeq(u, j + 1, k)[i] = u[j + 1 + i - 1] /\ SubSeq(t, j + 1, k)[i] = t[j + 1 + i - 1]
  BY <1>2, SubSeqProperties
<1>4. ASSUME NEW i \in 1 .. Len(SubSeq(u, j + 1, k))
      PROVE  SubSeq(u, j + 1, k)[i] = SubSeq(t, j + 1, k)[i]
  <2>1. i \in 1 .. k - (j + 1) + 1 /\ j + 1 + i - 1 \in j + 1 .. k
    BY <1>3
  <2>2. QED
    BY <1>2, <1>3, <2>1
<1>5. SubSeq(u, j + 1, k) = SubSeq(t, j + 1, k)
  BY <1>3, <1>4, SeqEqual
<1>6. QED
  BY <1>5 DEF u

LEMMA CharsKept ==
  ASSUME NEW S, NEW t \in Seq(S), NEW c \in S, NEW m \in Nat, m <= Len(t), Chars(t, m)
  PROVE  Chars(Append(t, c), m)
<1>1. PICK C : Cuts(C, t, m)
  BY DEF Chars
<1>2. ASSUME NEW k \in C PROVE CutAt(C, Append(t, c), k)
  <2>1. CutAt(C, t, k) /\ k \in Nat /\ k <= m /\ C \subseteq Nat
    BY <1>1 DEF Cuts
  <2>2. CASE k = 0
    BY <2>2 DEF CutAt
  <2>3. CASE k # 0
    <3>1. PICK j \in C : j < k /\ k <= j + 4 /\ Is(SubSeq(t, j + 1, k), Utf8Char)
      BY <2>1, <2>3 DEF CutAt
    <3>2. j \in Nat /\ k <= Len(t)
      BY <2>1, <3>1, LenProperties
    <3>3. SubSeq(Append(t, c), j + 1, k) = SubSeq(t, j + 1, k)
      BY <2>1, <3>2, SubSeqOfLonger
    <3>4. QED
      BY <3>1, <3>3 DEF CutAt
  <2>4. QED
    BY <2>2, <2>3
<1>3. Cuts(C, Append(t, c), m)
  BY <1>1, <1>2 DEF Cuts
<1>4. QED
  BY <1>3 DEF Chars

(* What is written of the character being read. *)
LEMMA WrittenMore ==
  ASSUME NEW S, NEW t \in Seq(S), NEW c \in S, NEW m \in Nat, m <= Len(t)
  PROVE  /\ SubSeq(t, m + 1, Len(t)) \in Seq(S)
         /\ SubSeq(Append(t, c), m + 1, Len(t) + 1) = Append(SubSeq(t, m + 1, Len(t)), c)
<1> DEFINE u == Append(t, c)
<1>1. u \in Seq(S) /\ Len(u) = Len(t) + 1 /\ u[Len(t) + 1] = c /\ Len(t) \in Nat
  BY AppendAt
<1>2. SubSeq(u, m + 1, Len(t)) = SubSeq(t, m + 1, Len(t))
  BY <1>1, SubSeqOfLonger
<1>3. SubSeq(t, m + 1, Len(t)) \in Seq(S)
  <2>1. \A i \in m + 1 .. Len(t) : t[i] \in S
    BY <1>1
  <2>2. QED
    BY <1>1, <2>1, SubSeqProperties
<1> HIDE DEF u
<1>4. SubSeq(u, m + 1, Len(t) + 1) = SubSeq(u, m + 1, Len(t)) \o <<u[Len(t) + 1]>>
  <2>1. m + 1 \in 1 .. Len(u) /\ Len(t) + 1 \in m + 1 .. Len(u) /\ (Len(t) + 1) - 1 = Len(t)
    BY <1>1
  <2>2. SubSeq(u, m + 1, Len(t) + 1)
          = SubSeq(u, m + 1, (Len(t) + 1) - 1) \o <<u[Len(t) + 1]>>
    BY <1>1, <2>1, SubSeqRecursiveSecond
  <2>3. QED
    BY <2>1, <2>2
<1>5. SubSeq(t, m + 1, Len(t)) \o <<c>> = Append(SubSeq(t, m + 1, Len(t)), c)
  BY <1>3, AppendIsConcat
<1>6. QED
  BY <1>1, <1>2, <1>3, <1>4, <1>5 DEF u

LEMMA PushedAlong ==
  ASSUME NEW S, NEW w \in Seq(S), NEW b \in Seq(S), b # <<>>
  PROVE  /\ Append(w, Head(b)) \o Tail(b) = w \o b
         /\ Len(b) = 1 => Append(w, Head(b)) = w \o b
<1>1. Head(b) \in S /\ Tail(b) \in Seq(S) /\ Len(Tail(b)) = Len(b) - 1
  BY HeadTailProperties
<1>2. Append(w, Head(b)) = w \o <<Head(b)>> /\ <<Head(b)>> \in Seq(S)
  BY <1>1, AppendIsConcat
<1>3. <<Head(b)>> \o Tail(b) = b
  BY <1>1
<1>4. (w \o <<Head(b)>>) \o Tail(b) = w \o b
  BY <1>1, <1>2, <1>3, ConcatAssociative
<1>5. Len(b) = 1 => b = <<Head(b)>>
  OBVIOUS
<1>6. QED
  BY <1>2, <1>4, <1>5

-----------------------------------------------------------------------------
(* The recursive function of StringIsWellFormed, over the text t up to N. *)
FormAt(f, t, n) ==
  n = 0 \/ \E k \in 1 .. 4 : k <= n /\ f[n - k] /\ Is(SubSeq(t, n - k + 1, n), Utf8Char)
IsForm(f, t, N) == f = [n \in 0 .. N |-> FormAt(f, t, n)]

LEMMA CharsBefore ==
  ASSUME NEW t, NEW C, NEW n \in Nat, Cuts(C, t, n), NEW j \in C
  PROVE  j \in Nat /\ j <= n /\ Chars(t, j)
<1>1. j \in Nat /\ j <= n /\ C \subseteq Nat
  BY DEF Cuts
<1> DEFINE D == {k \in C : k <= j}
<1>2. D \in SUBSET (0 .. j) /\ j \in D
  <2>1. \A k \in C : k <= j => k \in 0 .. j
    BY <1>1
  <2>2. j <= j
    BY <1>1
  <2>3. QED
    BY <2>1, <2>2, Zenon
<1>3. ASSUME NEW k \in D PROVE CutAt(D, t, k)
  <2>1. CutAt(C, t, k) /\ k \in Nat /\ k <= j
    BY <1>1 DEF Cuts
  <2>2. CASE k = 0
    BY <2>2 DEF CutAt
  <2>3. CASE k # 0
    <3>1. PICK i \in C : i < k /\ k <= i + 4 /\ Is(SubSeq(t, i + 1, k), Utf8Char)
      BY <2>1, <2>3 DEF CutAt
    <3>2. i \in D
      BY <1>1, <2>1, <3>1
    <3>3. QED
      BY <3>1, <3>2 DEF CutAt
  <2>4. QED
    BY <2>2, <2>3
<1>4. Cuts(D, t, j)
  BY <1>2, <1>3 DEF Cuts
<1>5. QED
  BY <1>1, <1>4 DEF Chars

LEMMA FormExists == ASSUME NEW t, NEW N \in Nat PROVE \E f : IsForm(f, t, N)
<1> DEFINE f == [n \in 0 .. N |-> Chars(t, n)]
<1>1. ASSUME NEW n \in 0 .. N PROVE Chars(t, n) <=> FormAt(f, t, n)
  <2>1. ASSUME NEW k \in 1 .. 4, k <= n, f[n - k], Is(SubSeq(t, n - k + 1, n), Utf8Char)
        PROVE  Chars(t, n)
    <3>1. PICK m \in Nat : m = n - k
      BY <2>1
    <3>2. m \in 0 .. N /\ m < n /\ n <= m + 4 /\ n \in Nat
      BY <2>1, <3>1
    <3>3. Chars(t, m) /\ Is(SubSeq(t, m + 1, n), Utf8Char)
      BY <2>1, <3>1, <3>2
    <3>4. QED
      BY <3>2, <3>3, CharMore
  <2>2. ASSUME n = 0 PROVE Chars(t, n)
    BY <2>2, NoChars
  <2>3. ASSUME Chars(t, n), n # 0 PROVE FormAt(f, t, n)
    <3>1. PICK C : Cuts(C, t, n)
      BY <2>3 DEF Chars
    <3>2. CutAt(C, t, n)
      BY <3>1 DEF Cuts
    <3>3. PICK j \in C : j < n /\ n <= j + 4 /\ Is(SubSeq(t, j + 1, n), Utf8Char)
      BY <2>3, <3>2 DEF CutAt
    <3>4. j \in Nat /\ j <= n /\ Chars(t, j)
      BY <3>1, CharsBefore
    <3>5. PICK k \in 1 .. 4 : j = n - k
      <4>1. n - j \in 1 .. 4 /\ j = n - (n - j)
        BY <3>3, <3>4
      <4>2. QED
        BY <4>1
    <3>6. k <= n /\ n - k \in 0 .. N
      BY <3>4, <3>5
    <3>7. f[n - k]
      BY <3>4, <3>5, <3>6
    <3>8. Is(SubSeq(t, n - k + 1, n), Utf8Char)
      BY <3>3, <3>5
    <3> HIDE DEF f
    <3>9. QED
      BY <3>6, <3>7, <3>8 DEF FormAt
  <2> HIDE DEF f
  <2>4. QED
    BY <2>1, <2>2, <2>3 DEF FormAt
<1>2. f = [n \in 0 .. N |-> FormAt(f, t, n)]
  <2>1. \A n \in 0 .. N : Chars(t, n) = FormAt(f, t, n)
    <3> HIDE DEF f
    <3>1. QED
      BY <1>1 DEF FormAt, Chars
  <2> DEFINE g == [n \in 0 .. N |-> FormAt(f, t, n)]
  <2>2. f = g
    BY <2>1
  <2>3. QED
    BY <2>2
<1> HIDE DEF f
<1>3. QED
  BY <1>2 DEF IsForm

LEMMA CharsAreFormed ==
  ASSUME NEW t, NEW N \in Nat, NEW f, IsForm(f, t, N), Chars(t, N)
  PROVE  f[N]
<1>1. PICK C : Cuts(C, t, N)
  BY DEF Chars
<1>2. \A n \in 0 .. N : f[n] <=> FormAt(f, t, n)
  BY DEF IsForm
<1> DEFINE T == {n \in Nat : \A k \in C : k <= n => f[k]}
<1>3. C \subseteq 0 .. N /\ N \in C
  BY <1>1 DEF Cuts
<1>4. 0 \in T
  <2>1. f[0]
    BY <1>2 DEF FormAt
  <2>2. QED
    BY <1>3, <2>1
<1>5. ASSUME NEW n \in Nat, n \in T PROVE n + 1 \in T
  <2>1. ASSUME NEW k \in C, k = n + 1 PROVE f[k]
    <3>1. CutAt(C, t, k)
      BY <1>1 DEF Cuts
    <3>2. PICK j \in C : j < k /\ k <= j + 4 /\ Is(SubSeq(t, j + 1, k), Utf8Char)
      BY <2>1, <3>1 DEF CutAt
    <3>3. f[j] /\ j \in 0 .. N /\ k \in 0 .. N
      BY <1>3, <1>5, <2>1, <3>2
    <3>4. PICK d \in 1 .. 4 : j = k - d /\ d <= k
      <4>1. k - j \in 1 .. 4 /\ j = k - (k - j) /\ k - j <= k
        BY <3>2, <3>3
      <4>2. QED
        BY <4>1
    <3>5. f[k - d] /\ Is(SubSeq(t, k - d + 1, k), Utf8Char)
      BY <3>2, <3>3, <3>4
    <3>6. FormAt(f, t, k)
      BY <3>4, <3>5 DEF FormAt
    <3>7. QED
      BY <1>2, <3>3, <3>6
  <2>2. ASSUME NEW k \in C, k <= n + 1 PROVE f[k]
    <3>1. k \in Nat
      BY <1>3
    <3>2. k <= n \/ k = n + 1
      BY <2>2, <3>1
    <3>3. QED
      BY <1>5, <2>1, <3>2
  <2>3. QED
    BY <2>2
<1>6. \A n \in Nat : n \in T
  <2> HIDE DEF T
  <2>1. QED
    BY <1>4, <1>5, Induction
<1>7. QED
  BY <1>3, <1>6

(* What a unit of the input owes the bytes written for it. *)
Well(u, w) ==
  /\ Is(u, Character) /\ Is(w, Utf8Char)
  /\ Decoded(w) = Denoted(u) /\ Len(w) <= Len(u)

LEMMA OfOne == \A c : /\ Len(<<c>>) \in Nat /\ Len(<<c>>) >= 1 /\ Len(<<c>>) = 1
                      /\ <<c>>[1] = c
OBVIOUS

(* The first byte of a character: one that starts none, or one that is one. *)
LEMMA FirstByte ==
  ASSUME NEW c \in ByteOrEnd
  PROVE  /\ c < 32 => ~Starts(<<c>>, Character)
         /\ c >= 128 /\ Utf8SeqLength(c) = 0 => ~Starts(<<c>>, Character)
         /\ c \in 0 .. 127 \ {34, 92} /\ ~(c < 32) => Well(<<c>>, <<c>>)
<1> DEFINE s == <<c>>
<1>1. Len(s) \in Nat /\ Len(s) >= 1 /\ Len(s) = 1 /\ s[1] = c
  BY OfOne, Zenon
<1>2. c \in Int
  BY DEF ByteOrEnd, Octet, EOF
<1>3. c # 92 => /\ Starts(s, Character) <=> Starts(s, Plain) \/ Starts(s, Multibyte)
                /\ Is(s, Character) <=> Is(s, Plain) \/ Is(s, Multibyte)
  BY <1>1, RawStarts, Zenon
<1>4. /\ Starts(s, Plain) <=> c \in (32 .. 127) \ {34, 92}
      /\ Is(s, Plain) <=> Starts(s, Plain)
  BY <1>1, PlainLike, Zenon
<1>5. Starts(s, Multibyte) => Utf8SeqLength(c) \in {2, 3, 4}
  <2>1. Starts(s, Multibyte) => \E count \in {2, 3, 4} : LikeMultibyte(s, c, count)
    BY <1>1, <1>2, MultibyteStarts, Zenon
  <2>2. QED
    BY <2>1, Zenon DEF LikeMultibyte
<1>6. c # 92 => Denoted(s) = Decoded(s)
  BY <1>1, Denotes, Zenon
<1>7. ASSUME c \in 0 .. 127 \ {34, 92}, ~(c < 32) PROVE Well(s, s)
  <2>1. c \in Nat /\ c < 128 /\ c # 92 /\ c \in (32 .. 127) \ {34, 92}
    BY <1>2, <1>7
  <2>2. Is(s, Utf8Char)
    BY <2>1, OneByteIsUtf8
  <2>3. Is(s, Character) /\ Decoded(s) = Denoted(s)
    BY <1>3, <1>4, <1>6, <2>1, Zenon
  <2>4. Len(s) <= Len(s)
    BY <1>1
  <2>5. QED
    BY <2>2, <2>3, <2>4, Zenon DEF Well
<1> HIDE DEF s
<1>8. c < 32 => c # 92 /\ c \notin (32 .. 127) \ {34, 92} /\ Utf8SeqLength(c) \notin {2, 3, 4}
  BY <1>2 DEF Utf8SeqLength
<1>9. c >= 128 => c # 92 /\ c \notin (32 .. 127) \ {34, 92}
  BY <1>2
<1>10. Utf8SeqLength(c) = 0 => Utf8SeqLength(c) \notin {2, 3, 4}
  OBVIOUS
<1>11. /\ c < 32 => ~Starts(s, Character)
       /\ c >= 128 /\ Utf8SeqLength(c) = 0 => ~Starts(s, Character)
  BY <1>3, <1>4, <1>5, <1>8, <1>9, <1>10, Zenon
<1>12. QED
  BY <1>7, <1>11, Zenon DEF s

LEMMA LeadBegins ==
  ASSUME NEW c \in Octet, c >= 128, Utf8SeqLength(c) # 0
  PROVE  Holds(<<c>>, <<c>>) /\ Len(<<c>>) < Utf8SeqLength(c)
<1>1. Utf8SeqLength(c) > 1
  BY DEF Utf8SeqLength, Octet
<1>2. c % 256 = c
  BY OctetIsItself
<1>3. Len(<<c>>) < Utf8SeqLength(c)
  BY <1>1
<1>4. Holds(<<c>>, <<c>>)
  BY <1>2 DEF Holds
<1>5. QED
  BY <1>3, <1>4

-----------------------------------------------------------------------------
(* What the call knows of the bytes it has consumed, where it is. *)
UnitInv ==
  /\ unit \in Seq(ByteOrEnd)
  /\ pc = "tail" =>
       /\ Len(unit) >= 1 /\ unit[1] \in Octet /\ unit[1] >= 128
       /\ Holds(buffer, unit) /\ Len(buffer) < Utf8SeqLength(unit[1])
  /\ pc = "escape" => unit = <<92>>
  /\ pc = "hex" /\ high = 0 => \E n \in 0 .. 3 :
       /\ digits = 4 - n /\ Len(unit) = 2 + n
       /\ HalfLike(unit) /\ cp = HexOf(unit, 3, n)
  /\ pc = "hex" /\ high # 0 => \E n \in 0 .. 3 :
       /\ digits = 4 - n /\ Len(unit) = 8 + n
       /\ HighHalf(unit, high) /\ SecondHalfLike(unit) /\ cp = HexOf(unit, 9, n)
  /\ pc = "low" => Len(unit) = 6 /\ HighHalf(unit, high)
  /\ pc = "low u" => Len(unit) = 7 /\ HighHalf(unit, high) /\ unit[7] = 92
  /\ errmsg = "syntax" => ~Starts(unit, Character)

(* And of the bytes it has written: the characters before this one are
   well-formed, and this one is what was read, or will be with the bytes
   that wait to be pushed. *)
Wrote == SubSeq(Text, mark + 1, stringFill)
Reading == {"tail", "escape", "hex", "low", "low u"}

WrittenInv ==
  /\ pc = "init" => mark = 0 /\ unit = <<>>
  /\ pc # "returned" => value = "none"
  /\ pc \in Reading \union {"end"} => mark = stringFill
  /\ pc \notin {"init", "returned"} => mark \in Nat /\ mark <= stringFill /\ Chars(Text, mark)
  /\ pc = "push" => Well(unit, Wrote \o buffer)
  /\ pc = "text" => (unit = <<>> /\ mark = stringFill) \/ Well(unit, Wrote)
  /\ value = "string" => /\ pc = "returned" /\ mark \in Nat /\ stringFill = mark + 1
                         /\ Text[stringFill] = Nul /\ Chars(Text, mark)

LexInv == BufferInv /\ CallInv /\ UnitInv /\ WrittenInv

LEMMA TextIsOctets ==
  ASSUME BufferInv
  PROVE  Text \in Seq(Octet) /\ stringFill \in Nat /\ Len(Text) = stringFill
<1>1. stringFill \in Nat
  BY DEF BufferInv, BufferTypeOK
<1>2. \A i \in 1 .. stringFill : string[i - 1] \in Octet
  <2>1. \A i \in 1 .. stringFill : i - 1 \in 0 .. stringFill - 1
    BY <1>1
  <2>2. QED
    BY <2>1, StringCells DEF StringCells, BufferInv, FilledBytesWritten
<1>3. Text \in Seq(Octet) /\ Len(Text) = stringFill
  BY <1>1, <1>2 DEF Text
<1>4. QED
  BY <1>1, <1>3

LEMMA Utf8Lengths ==
  ASSUME NEW w, Is(w, Utf8Char) PROVE Len(w) \in 1 .. 4
BY DEF Is, Utf8Char, Multibyte

(* The text so far is whole characters wherever the next one begins. *)
LEMMA WholeSoFar ==
  ASSUME LexInv, pc \in Reading \union {"text"}
  PROVE  Chars(Text, stringFill)
<1>1. /\ mark \in Nat /\ mark <= stringFill /\ Chars(Text, mark)
      /\ mark = stringFill \/ Is(Wrote, Utf8Char)
  BY DEF LexInv, WrittenInv, Well, Reading
<1>2. Text \in Seq(Octet) /\ stringFill \in Nat /\ Len(Text) = stringFill
  BY TextIsOctets DEF LexInv
<1>3. CASE mark = stringFill
  BY <1>1, <1>3
<1>4. CASE Is(Wrote, Utf8Char)
  <2>1. Len(Wrote) \in 1 .. 4
    BY <1>4, Utf8Lengths
  <2>2. Len(Wrote) = stringFill - mark
    BY <1>1, <1>2 DEF Wrote
  <2>3. mark < stringFill /\ stringFill <= mark + 4
    BY <1>1, <1>2, <2>1, <2>2
  <2>4. QED
    BY <1>1, <1>2, <1>4, <2>3, CharMore DEF Wrote
<1>5. QED
  BY <1>1, <1>3, <1>4

LEMMA TextSame == ASSUME UNCHANGED <<string, stringFill>> PROVE Text' = Text
BY DEF Text

(* Where the call stands after a step of the loop. *)
Owed == UnitInv' /\ WrittenInv'

LEMMA RejectOwes ==
  ASSUME Reject, unit' \in Seq(ByteOrEnd), ~Starts(unit', Character)
  PROVE  Owed
BY DEF Reject, Owed, UnitInv, WrittenInv, Reading

(* The next byte of a character that is not yet read. *)
LEMMA GoToOwes ==
  ASSUME LexInv, Writing, NEW label \in Reading \union {"end"}, GoTo(label),
         Chars(Text, stringFill), mark' = stringFill, UnitInv'
  PROVE  Owed
<1>1. /\ stringFill' = stringFill /\ Text' = Text /\ value' = value /\ pc' = label
      /\ errmsg' = "none"
  BY TextSame DEF GoTo, tokenVars, bufferVars, Writing
<1>2. value' = "none"
  BY <1>1 DEF LexInv, WrittenInv, Writing
<1>3. stringFill \in Nat
  BY TextIsOctets DEF LexInv
<1>4. label \notin {"init", "returned", "push", "text"}
  BY DEF Reading
<1>5. pc' \notin {"init", "returned", "push", "text"} /\ value' # "string"
  BY <1>1, <1>2, <1>4
<1>6. mark' \in Nat /\ mark' <= stringFill' /\ mark' = stringFill' /\ Chars(Text', mark')
  BY <1>1, <1>3
<1>7. WrittenInv'
  BY <1>2, <1>5, <1>6, Zenon DEF WrittenInv
<1>8. QED
  BY <1>7, Zenon DEF Owed

(* A character that came to the bytes s, which are to be pushed. *)
LEMMA PushAllOwes ==
  ASSUME LexInv, Writing, NEW s \in Seq(Octet), PushAll(s), Chars(Text, stringFill),
         mark' = stringFill, unit' \in Seq(ByteOrEnd), Well(unit', s)
  PROVE  Owed
<1>1. /\ stringFill' = stringFill /\ Text' = Text /\ value' = value /\ pc' = "push"
      /\ errmsg' = "none" /\ buffer' = s
  BY TextSame DEF PushAll, GoTo, tokenVars, bufferVars, Writing
<1>2. value' = "none"
  BY <1>1 DEF LexInv, WrittenInv, Writing
<1>3. Text \in Seq(Octet) /\ stringFill \in Nat /\ Len(Text) = stringFill
  BY TextIsOctets DEF LexInv
<1>4. Wrote' = <<>>
  <2>1. SubSeq(Text, stringFill + 1, stringFill) = <<>>
    BY <1>3
  <2>2. QED
    BY <1>1, <2>1 DEF Wrote
<1>5. Wrote' \o buffer' = s
  BY <1>1, <1>4
<1>6. Well(unit', Wrote' \o buffer')
  BY <1>5
<1>7. WrittenInv'
  BY <1>1, <1>2, <1>3, <1>6 DEF WrittenInv, Reading
<1>8. UnitInv'
  BY <1>1 DEF UnitInv
<1>9. QED
  BY <1>7, <1>8 DEF Owed

(* What a byte pushed does to the text and to the call. *)
LEMMA PushedByte ==
  ASSUME LexInv, Writing, NEW b \in Octet, NEW label, PushThen(b, label)
  PROVE  \/ /\ errmsg' = "none" /\ pc' = label /\ value' = "none"
            /\ Text' = Append(Text, b) /\ stringFill' = stringFill + 1
         \/ pc' = "returned" /\ value' = "error" /\ errmsg' = "oom"
<1>1. PICK m \in Message : /\ PushChar(b, m) /\ errmsg' = m
                           /\ m = "none" => pc' = label /\ value' = value
                           /\ m # "none" => pc' = "returned" /\ value' = "error"
  BY DEF PushThen
<1>2. b \in Cell /\ allocated /\ BufferInv
  BY StringCells DEF StringCells, LexInv, BufferInv, Writing
<1>3. /\ m \in {"none", "oom"}
      /\ m = "none" => Text' = Append(Text, b)
  BY <1>1, <1>2, PushCharAppends
<1>4. m = "none" => stringFill' = stringFill + 1
  BY <1>1, <1>2, PushCharFacts
<1>5. value = "none"
  BY DEF LexInv, WrittenInv, Writing
<1>6. QED
  BY <1>1, <1>3, <1>4, <1>5

LEMMA OneByteWritten ==
  ASSUME NEW t \in Seq(Octet), NEW b \in Octet, NEW n \in Nat, Len(t) = n
  PROVE  SubSeq(Append(t, b), n + 1, n + 1) = <<b>>
<1>1. SubSeq(t, n + 1, n) = <<>>
  OBVIOUS
<1>2. n <= Len(t) /\ Len(t) = n
  OBVIOUS
<1>3. SubSeq(Append(t, b), n + 1, Len(t) + 1) = Append(SubSeq(t, n + 1, Len(t)), b)
  BY <1>2, WrittenMore, Zenon
<1>4. SubSeq(Append(t, b), n + 1, n + 1) = Append(SubSeq(t, n + 1, n), b)
  BY <1>2, <1>3, Zenon
<1>5. Append(<<>>, b) = <<b>>
  OBVIOUS
<1>6. QED
  BY <1>1, <1>4, <1>5, Zenon

(* A character that came to the one byte b. *)
LEMMA PushOwes ==
  ASSUME LexInv, Writing, NEW b \in Octet, PushThen(b, "text"), Chars(Text, stringFill),
         mark' = stringFill, unit' \in Seq(ByteOrEnd), Well(unit', <<b>>)
  PROVE  Owed
<1>1. Text \in Seq(Octet) /\ stringFill \in Nat /\ Len(Text) = stringFill
  BY TextIsOctets DEF LexInv
<1>2. CASE pc' = "returned" /\ value' = "error" /\ errmsg' = "oom"
  BY <1>2 DEF Owed, UnitInv, WrittenInv, Reading
<1>3. CASE /\ errmsg' = "none" /\ pc' = "text" /\ value' = "none"
           /\ Text' = Append(Text, b) /\ stringFill' = stringFill + 1
  <2>1. Wrote' = <<b>>
    BY <1>1, <1>3, OneByteWritten DEF Wrote
  <2>2. Chars(Text', mark')
    BY <1>1, <1>3, CharsKept
  <2>3. Well(unit', Wrote')
    BY <2>1
  <2>4. WrittenInv'
    BY <1>1, <1>3, <2>2, <2>3 DEF WrittenInv, Reading
  <2>5. UnitInv'
    BY <1>3 DEF UnitInv
  <2>6. QED
    BY <2>4, <2>5 DEF Owed
<1>4. QED
  BY <1>2, <1>3, PushedByte

-----------------------------------------------------------------------------
(* encodeUtf8 on the scalar value a unit denotes. *)
LEMMA ShortLengths == \A w : Len(w) \in 1 .. 4 => Len(w) <= 4 /\ w # <<>>
<1>1. \A n \in 1 .. 4 : n <= 4 /\ n # 0
  OBVIOUS
<1>2. Len(<<>>) = 0
  OBVIOUS
<1>3. QED
  BY <1>1, <1>2, Zenon

LEMMA EncodedLengths ==
  ASSUME NEW c \in Nat, IsScalarValue(c)
  PROVE  /\ Is(EncodeUtf8(c), Utf8Char) /\ Decoded(EncodeUtf8(c)) = c
         /\ Len(EncodeUtf8(c)) <= 4 /\ EncodeUtf8(c) # <<>>
<1> DEFINE e == EncodeUtf8(c)
<1>1. Utf8Of(e, c)
  BY EncodedIsUtf8
<1> HIDE DEF e
<1>2. Is(e, Utf8Char) /\ Decoded(e) = c
  BY <1>1, SMT DEF Utf8Of
<1>3. Len(e) \in 1 .. 4
  BY <1>2, Utf8Lengths, Zenon
<1>4. Len(e) <= 4 /\ e # <<>>
  BY <1>3, ShortLengths, Zenon
<1>5. QED
  BY <1>2, <1>4, Zenon DEF e

LEMMA EncodeOwes ==
  ASSUME LexInv, Writing, NEW c \in Nat, IsScalarValue(c), Encode(c),
         Chars(Text, stringFill), mark' = stringFill, unit' \in Seq(ByteOrEnd),
         Is(unit', Character), Denoted(unit') = c, Len(unit') >= 4
  PROVE  Owed
<1>1. /\ Is(EncodeUtf8(c), Utf8Char) /\ Decoded(EncodeUtf8(c)) = c
      /\ Len(EncodeUtf8(c)) <= 4 /\ EncodeUtf8(c) # <<>>
  BY EncodedLengths, Zenon
<1>2. EncodeUtf8(c) \in Seq(Octet)
  BY EncodedIsOctets
<1>3. PushAll(EncodeUtf8(c))
  BY <1>1, Zenon DEF Encode
<1>4. \A k, n \in Nat : k <= 4 /\ n >= 4 => k <= n
  BY SMT
<1>5. Len(EncodeUtf8(c)) \in Nat /\ Len(unit') \in Nat
  <2>1. \A S : \A t \in Seq(S) : Len(t) \in Nat
    BY LenProperties
  <2>2. QED
    BY <1>2, <2>1, Zenon
<1>6. Well(unit', EncodeUtf8(c))
  BY <1>1, <1>4, <1>5, Zenon DEF Well
<1>7. QED
  BY <1>2, <1>3, <1>6, PushAllOwes, Zenon

LEMMA InitBufferOwes == ASSUME LexInv, InitBuffer PROVE Owed
<1>1. PICK m \in Message : /\ InitString(m) /\ errmsg' = m
                           /\ m = "none" => pc' = "text" /\ value' = value
                           /\ m # "none" => pc' = "returned" /\ value' = "error"
  BY DEF InitBuffer
<1>2. m \in {"none", "oom"} /\ stringFill' = 0
  BY <1>1, InitStringFacts DEF LexInv
<1>3. unit' = <<>> /\ mark' = 0 /\ value = "none" /\ pc = "init"
  BY DEF InitBuffer, LexInv, WrittenInv
<1>4. Chars(Text', mark')
  BY <1>3, NoChars
<1>5. errmsg' # "syntax" /\ unit' \in Seq(ByteOrEnd)
  BY <1>1, <1>2, <1>3
<1>6. CASE pc' = "text" /\ value' = value
  BY <1>2, <1>3, <1>4, <1>5, <1>6 DEF Owed, UnitInv, WrittenInv, Reading
<1>7. CASE pc' = "returned" /\ value' = "error"
  BY <1>5, <1>7 DEF Owed, UnitInv, WrittenInv, Reading
<1>8. QED
  BY <1>1, <1>6, <1>7

LEMMA PushBytesOwes == ASSUME LexInv, Writing, PushBytes PROVE Owed
<1> DEFINE label == IF Len(buffer) = 1 THEN "text" ELSE "push"
<1>1. buffer \in Seq(Octet) /\ buffer # <<>>
  BY DEF LexInv, CallInv, PushBytes
<1>2. Head(buffer) \in Octet
  BY <1>1
<1>3. /\ PushThen(Head(buffer), label) /\ buffer' = Tail(buffer)
      /\ unit' = unit /\ mark' = mark
  BY DEF PushBytes
<1>4. label \in {"text", "push"} /\ (label = "text" => Len(buffer) = 1)
  OBVIOUS
<1> HIDE DEF label
<1>5. /\ mark \in Nat /\ mark <= stringFill /\ Chars(Text, mark)
      /\ Well(unit, Wrote \o buffer) /\ unit \in Seq(ByteOrEnd)
  BY DEF LexInv, WrittenInv, UnitInv, PushBytes
<1>6. Text \in Seq(Octet) /\ stringFill \in Nat /\ Len(Text) = stringFill
  BY TextIsOctets DEF LexInv
<1>7. CASE pc' = "returned" /\ value' = "error" /\ errmsg' = "oom"
  BY <1>3, <1>5, <1>7 DEF Owed, UnitInv, WrittenInv, Reading
<1>8. CASE /\ errmsg' = "none" /\ pc' = label /\ value' = "none"
           /\ Text' = Append(Text, Head(buffer)) /\ stringFill' = stringFill + 1
  <2>1. Wrote \in Seq(Octet) /\ Wrote' = Append(Wrote, Head(buffer))
    BY <1>2, <1>3, <1>5, <1>6, <1>8, WrittenMore DEF Wrote
  <2>2. /\ Wrote' \o buffer' = Wrote \o buffer
        /\ label = "text" => Wrote' = Wrote \o buffer
    BY <1>1, <1>3, <1>4, <2>1, PushedAlong
  <2>3. Chars(Text', mark')
    BY <1>2, <1>3, <1>5, <1>6, <1>8, CharsKept
  <2>4. mark' \in Nat /\ mark' <= stringFill'
    BY <1>3, <1>5, <1>6, <1>8
  <2>5. /\ Well(unit', Wrote' \o buffer')
        /\ label = "text" => Well(unit', Wrote')
    BY <1>3, <1>5, <2>2
  <2>6. WrittenInv'
    BY <1>4, <1>8, <2>3, <2>4, <2>5 DEF WrittenInv, Reading
  <2>7. UnitInv'
    BY <1>3, <1>4, <1>5, <1>8 DEF UnitInv
  <2>8. QED
    BY <2>6, <2>7 DEF Owed
<1>9. QED
  BY <1>2, <1>3, <1>7, <1>8, PushedByte

LEMMA TerminateOwes == ASSUME LexInv, Writing, Terminate PROVE Owed
<1>1. PICK m \in Message : /\ PushChar(Nul, m) /\ errmsg' = m
                           /\ value' = IF m = "none" THEN "string" ELSE "error"
  BY DEF Terminate
<1>2. Nul \in Cell /\ Nul \in Octet /\ allocated /\ BufferInv
  BY StringCells DEF StringCells, LexInv, BufferInv, Writing, Octet
<1>3. /\ m \in {"none", "oom"}
      /\ m = "none" => Text' = Append(Text, Nul)
  BY <1>1, <1>2, PushCharAppends
<1>4. m = "none" => stringFill' = stringFill + 1
  BY <1>1, <1>2, PushCharFacts
<1>5. pc' = "returned" /\ unit' = unit /\ mark' = mark
  BY DEF Terminate
<1>6. /\ mark \in Nat /\ mark = stringFill /\ Chars(Text, mark) /\ unit \in Seq(ByteOrEnd)
  BY DEF LexInv, WrittenInv, UnitInv, Terminate, Reading
<1>7. Text \in Seq(Octet) /\ stringFill \in Nat /\ Len(Text) = stringFill
  BY TextIsOctets DEF LexInv
<1>8. UnitInv'
  BY <1>1, <1>3, <1>5, <1>6 DEF UnitInv
<1>9. CASE m = "none"
  <2>4. mark <= Len(Text)
    BY <1>6, <1>7
  <2>5. Chars(Append(Text, Nul), mark)
    BY <1>2, <1>6, <1>7, <2>4, CharsKept
  <2>1. Chars(Text', mark')
    BY <1>3, <1>5, <1>9, <2>5
  <2>2. Text'[stringFill'] = Nul /\ stringFill' = mark' + 1 /\ mark' \in Nat
    BY <1>2, <1>3, <1>4, <1>5, <1>6, <1>7, <1>9
  <2>3. WrittenInv'
    BY <1>5, <2>1, <2>2 DEF WrittenInv, Reading
  <2>6. QED
    BY <1>8, <2>3 DEF Owed
<1>10. CASE m # "none"
  BY <1>1, <1>5, <1>8, <1>10 DEF Owed, WrittenInv, Reading
<1>11. QED
  BY <1>9, <1>10

LEMMA UnitGrows ==
  ASSUME LexInv, NEW c \in Inside, Get(c, unit)
  PROVE  c \in ByteOrEnd /\ unit' = Append(unit, c) /\ unit' \in Seq(ByteOrEnd)
<1>1. c \in ByteOrEnd /\ unit \in Seq(ByteOrEnd)
  BY InsideIsByte DEF ByteOrEnd, LexInv, UnitInv
<1>2. unit' = Append(unit, c)
  BY DEF Get
<1>3. QED
  BY <1>1, <1>2, AppendAt

(* While a character is read, it begins where the text ends. *)
LEMMA MarkAtFill ==
  ASSUME LexInv, pc \in Reading, UNCHANGED mark
  PROVE  mark' = stringFill /\ Chars(Text, stringFill)
<1>1. mark = stringFill
  BY DEF LexInv, WrittenInv
<1>2. QED
  BY <1>1, WholeSoFar

LEMMA LowGrows ==
  ASSUME NEW s \in Seq(ByteOrEnd), NEW c \in ByteOrEnd
  PROVE  /\ Len(s) = 6 => Len(Append(s, c)) = 7 /\ Append(s, c)[7] = c
         /\ Len(s) = 7 => Len(Append(s, c)) = 8 /\ Append(s, c)[7] = s[7]
                            /\ Append(s, c)[8] = c
<1>1. /\ Len(Append(s, c)) = Len(s) + 1 /\ Append(s, c)[Len(s) + 1] = c
      /\ \A i \in 1 .. Len(s) : Append(s, c)[i] = s[i]
  BY AppendAt
<1>2. \A n \in Nat : /\ n = 6 => n + 1 = 7
                     /\ n = 7 => n + 1 = 8 /\ 7 \in 1 .. n
  OBVIOUS
<1>4. Len(s) \in Nat
  OBVIOUS
<1>3. QED
  BY <1>1, <1>2, <1>4, Zenon

LEMMA LowHalfBroken ==
  ASSUME NEW s \in Seq(ByteOrEnd), NEW h, HighHalf(s, h)
  PROVE  /\ Len(s) = 7 /\ s[7] # 92 => ~Starts(s, Character)
         /\ Len(s) = 8 /\ s[8] # 117 => ~Starts(s, Character)
<1>1. 7 \in 7 .. 12 /\ 8 \in 7 .. 12
  OBVIOUS
<1>2. QED
  BY <1>1, LowHalfRefused, Zenon

LEMMA ReadLowOwes == ASSUME LexInv, Writing, ReadLow PROVE Owed
<1>1. PICK c \in Inside :
        Get(c, unit) /\ IF c = 92 THEN GoTo("low u") /\ UNCHANGED locals ELSE Reject
  BY DEF ReadLow
<1>2. c \in ByteOrEnd /\ unit' = Append(unit, c) /\ unit' \in Seq(ByteOrEnd)
  BY <1>1, UnitGrows
<1>3. Len(unit) = 6 /\ HighHalf(unit, high) /\ unit \in Seq(ByteOrEnd)
  BY DEF ReadLow, LexInv, UnitInv
<1>4. HighHalf(unit', high) /\ Len(unit') = 7 /\ unit'[7] = c
  BY <1>2, <1>3, HighHalfStep, LowGrows, Zenon
<1>5. CASE c = 92 /\ GoTo("low u") /\ UNCHANGED locals
  <2>1. UnitInv'
    BY <1>2, <1>4, <1>5 DEF UnitInv, GoTo, locals, tokenVars, Writing
  <2>2. mark' = stringFill /\ Chars(Text, stringFill)
    BY MarkAtFill DEF ReadLow, Reading
  <2>3. QED
    BY <1>5, <2>1, <2>2, GoToOwes DEF Reading
<1>6. CASE c # 92 /\ Reject
  <2>1. ~Starts(unit', Character)
    BY <1>2, <1>4, <1>6, LowHalfBroken, Zenon
  <2>2. QED
    BY <1>2, <1>6, <2>1, RejectOwes
<1>7. QED
  BY <1>1, <1>5, <1>6

LEMMA ReadLowUOwes == ASSUME LexInv, Writing, ReadLowU PROVE Owed
<1>1. PICK c \in Inside :
        Get(c, unit) /\ IF c = 117 THEN ReadDigits /\ UNCHANGED <<high, buffer>> ELSE Reject
  BY DEF ReadLowU
<1>2. c \in ByteOrEnd /\ unit' = Append(unit, c) /\ unit' \in Seq(ByteOrEnd)
  BY <1>1, UnitGrows
<1>3. Len(unit) = 7 /\ HighHalf(unit, high) /\ unit[7] = 92 /\ unit \in Seq(ByteOrEnd)
  BY DEF ReadLowU, LexInv, UnitInv
<1>7. HighHalf(Append(unit, c), high)
  BY <1>2, <1>3, HighHalfStep, Zenon
<1>8. /\ Len(Append(unit, c)) = 8 /\ Append(unit, c)[7] = unit[7]
      /\ Append(unit, c)[8] = c
  BY <1>2, <1>3, LowGrows
<1>4. HighHalf(unit', high) /\ Len(unit') = 8 /\ unit'[7] = 92 /\ unit'[8] = c
  BY <1>2, <1>3, <1>7, <1>8, Zenon
<1>5. CASE c = 117 /\ ReadDigits /\ UNCHANGED <<high, buffer>>
  <2>1. SecondHalfLike(unit')
    BY <1>4, <1>5 DEF SecondHalfLike
  <2>2. HexOf(unit', 9, 0) = 0
    BY DEF HexOf
  <2>3. /\ digits' = 4 - 0 /\ Len(unit') = 8 + 0 /\ high' = high
        /\ cp' = HexOf(unit', 9, 0) /\ pc' = "hex"
    BY <1>4, <1>5, <2>2 DEF ReadDigits, GoTo
  <2>4. high # 0
    BY <1>3, HighRange DEF HighHalf
  <2>5. UnitInv'
    BY <1>2, <1>4, <1>5, <2>1, <2>3, <2>4 DEF UnitInv, ReadDigits, GoTo, tokenVars, Writing
  <2>6. mark' = stringFill /\ Chars(Text, stringFill)
    BY MarkAtFill DEF ReadLowU, Reading
  <2>7. QED
    BY <1>5, <2>5, <2>6, GoToOwes DEF Reading, ReadDigits
<1>6. CASE c # 117 /\ Reject
  <2>1. ~Starts(unit', Character)
    BY <1>2, <1>4, <1>6, LowHalfBroken, Zenon
  <2>2. QED
    BY <1>2, <1>6, <2>1, RejectOwes
<1>9. QED
  BY <1>1, <1>5, <1>6

LEMMA HoldsStep ==
  ASSUME NEW s \in Seq(ByteOrEnd), NEW b \in Seq(Octet), NEW c \in ByteOrEnd, Holds(b, s)
  PROVE  /\ Holds(Append(b, c % 256), Append(s, c))
         /\ Append(b, c % 256) \in Seq(Octet)
         /\ Len(Append(b, c % 256)) = Len(Append(s, c))
         /\ Len(Append(b, c % 256)) = Len(b) + 1
<1>1. c % 256 \in Octet
  BY HeldByte
<1>2. /\ Append(b, c % 256) \in Seq(Octet) /\ Len(Append(b, c % 256)) = Len(b) + 1
      /\ Append(b, c % 256)[Len(b) + 1] = c % 256
      /\ \A i \in 1 .. Len(b) : Append(b, c % 256)[i] = b[i]
  BY <1>1, AppendAt
<1>3. /\ Len(Append(s, c)) = Len(s) + 1
      /\ Append(s, c)[Len(s) + 1] = c
      /\ \A i \in 1 .. Len(s) : Append(s, c)[i] = s[i]
  BY AppendAt
<1>4. PICK n \in Nat : Len(s) = n /\ Len(b) = n /\ \A i \in 1 .. n : b[i] = s[i] % 256
  BY DEF Holds
<1>5. ASSUME NEW i \in 1 .. n + 1
      PROVE  Append(b, c % 256)[i] = Append(s, c)[i] % 256
  <2>1. i \in 1 .. n \/ i = n + 1
    OBVIOUS
  <2>2. CASE i \in 1 .. n
    BY <1>2, <1>3, <1>4, <2>2, Zenon
  <2>3. CASE i = n + 1
    BY <1>2, <1>3, <1>4, <2>3, Zenon
  <2>4. QED
    BY <2>1, <2>2, <2>3
<1>6. Holds(Append(b, c % 256), Append(s, c))
  BY <1>2, <1>3, <1>4, <1>5, ZenonT(60) DEF Holds
<1>7. QED
  BY <1>2, <1>3, <1>4, <1>6, Zenon

LEMMA ReadTailOwes == ASSUME LexInv, Writing, ReadTail PROVE Owed
<1>1. PICK c \in Inside :
        /\ Get(c, unit)
        /\ CASE Len(Append(buffer, c % 256)) < Utf8SeqLength(Append(buffer, c % 256)[1]) ->
                  /\ buffer' = Append(buffer, c % 256)
                  /\ UNCHANGED <<cp, digits, high>> /\ GoTo("tail")
             [] /\ Len(Append(buffer, c % 256)) = Utf8SeqLength(Append(buffer, c % 256)[1])
                /\ IsLegalUtf8(Append(buffer, c % 256)) -> PushAll(Append(buffer, c % 256))
             [] OTHER -> Reject
  BY DEF ReadTail
<1> DEFINE filled == Append(buffer, c % 256)
<1> DEFINE read == Append(unit, c)
<1>2. c \in ByteOrEnd /\ unit' = read /\ read \in Seq(ByteOrEnd)
  BY <1>1, UnitGrows
<1>3. /\ unit \in Seq(ByteOrEnd) /\ Len(unit) >= 1 /\ unit[1] \in Octet /\ unit[1] >= 128
      /\ Holds(buffer, unit) /\ Len(buffer) < Utf8SeqLength(unit[1])
      /\ buffer \in Seq(Octet)
  BY DEF ReadTail, LexInv, UnitInv, CallInv
<1>4. PICK x \in Octet : unit[1] = x /\ x >= 128
  BY <1>3
<1>5. /\ Holds(filled, read) /\ filled \in Seq(Octet) /\ Len(filled) = Len(read)
      /\ Len(filled) = Len(buffer) + 1
  BY <1>2, <1>3, HoldsStep
<1>6. read[1] = x /\ Len(read) >= 1
  BY <1>2, <1>3, <1>4, AppendAt
<1> HIDE DEF filled, read
<1>7. filled[1] = x
  <2>1. filled[1] = read[1] % 256
    BY <1>2, <1>5, <1>6, HoldsFacts, Zenon
  <2>2. x % 256 = x
    BY OctetIsItself
  <2>3. QED
    BY <1>6, <2>1, <2>2, Zenon
<1>8. Len(filled) <= Utf8SeqLength(x)
  <2>1. \A k \in Nat : \A n : k < n /\ n \in {0, 1, 2, 3, 4} => k + 1 <= n
    OBVIOUS
  <2>2. Utf8SeqLength(x) \in {0, 1, 2, 3, 4} /\ Len(buffer) \in Nat
    <3>1. Len(buffer) \in Nat
      BY <1>3
    <3>2. QED
      BY <3>1, CountIsAscii, Zenon
  <2>3. QED
    BY <1>3, <1>4, <1>5, <2>1, <2>2, Zenon
<1>9. mark' = stringFill /\ Chars(Text, stringFill)
  BY MarkAtFill DEF ReadTail, Reading
<1>10. Len(filled) = Utf8SeqLength(x) =>
         /\ IsLegalUtf8(filled) => Well(read, filled)
         /\ ~IsLegalUtf8(filled) => ~Starts(read, Character)
  <2>1. Len(filled) <= Len(read)
    BY <1>2, <1>5
  <2>2. Len(filled) = Utf8SeqLength(x) =>
          /\ IsLegalUtf8(filled) => /\ Is(read, Character) /\ Denoted(read) = Decoded(filled)
                                    /\ Is(filled, Utf8Char)
          /\ ~IsLegalUtf8(filled) => ~Starts(read, Character)
    BY <1>2, <1>4, <1>5, <1>6, TailDone, Zenon
  <2>3. QED
    BY <2>1, <2>2, Zenon DEF Well
<1>11. CASE /\ Len(filled) < Utf8SeqLength(x) /\ buffer' = filled
            /\ UNCHANGED <<cp, digits, high>> /\ GoTo("tail")
  <2>1. UnitInv'
    BY <1>2, <1>4, <1>5, <1>6, <1>11 DEF UnitInv, GoTo, tokenVars, Writing
  <2>2. QED
    BY <1>9, <1>11, <2>1, GoToOwes DEF Reading
<1>12. CASE Len(filled) = Utf8SeqLength(x) /\ IsLegalUtf8(filled) /\ PushAll(filled)
  BY <1>2, <1>5, <1>9, <1>10, <1>12, PushAllOwes
<1>13. CASE Len(filled) = Utf8SeqLength(x) /\ ~IsLegalUtf8(filled) /\ Reject
  BY <1>2, <1>10, <1>13, RejectOwes
<1>14. Len(filled) < Utf8SeqLength(x) \/ Len(filled) = Utf8SeqLength(x)
  <2>1. Utf8SeqLength(x) \in {0, 1, 2, 3, 4} /\ Len(filled) \in Nat
    <3>1. Len(filled) \in Nat
      BY <1>5
    <3>2. QED
      BY <3>1, CountIsAscii, Zenon
  <2>2. QED
    BY <1>8, <2>1
<1>15. CASE Len(filled) < Utf8SeqLength(x)
  BY <1>1, <1>7, <1>11, <1>15 DEF filled
<1>16. CASE Len(filled) = Utf8SeqLength(x) /\ ~(Len(filled) < Utf8SeqLength(x))
  BY <1>1, <1>7, <1>12, <1>13, <1>16 DEF filled
<1>17. QED
  BY <1>14, <1>15, <1>16

LEMMA OfTwo ==
  \A a \in ByteOrEnd, b \in ByteOrEnd :
    /\ Append(<<a>>, b) = <<a, b>> /\ <<a, b>> \in Seq(ByteOrEnd)
    /\ Len(<<a, b>>) = 2 /\ <<a, b>>[1] = a /\ <<a, b>>[2] = b
<1> SUFFICES ASSUME NEW a \in ByteOrEnd, NEW b \in ByteOrEnd
             PROVE  /\ Append(<<a>>, b) = <<a, b>> /\ <<a, b>> \in Seq(ByteOrEnd)
                    /\ Len(<<a, b>>) = 2 /\ <<a, b>>[1] = a /\ <<a, b>>[2] = b
  OBVIOUS
<1>1. /\ <<a, b>> \in Seq(ByteOrEnd)
      /\ Len(<<a, b>>) = 2 /\ <<a, b>>[1] = a /\ <<a, b>>[2] = b
  OBVIOUS
<1>2. Append(<<a>>, b) = <<a, b>>
  <2> DEFINE s == <<a>>
  <2> DEFINE t == <<a, b>>
  <2>1. s \in Seq(ByteOrEnd) /\ Len(s) = 1 /\ s[1] = a
    OBVIOUS
  <2>2. t \in Seq(ByteOrEnd) /\ Len(t) = 2 /\ t[1] = a /\ t[2] = b
    OBVIOUS
  <2> HIDE DEF s, t
  <2>3. /\ Append(s, b) \in Seq(ByteOrEnd) /\ Len(Append(s, b)) = 2
        /\ Append(s, b)[1] = a /\ Append(s, b)[2] = b
    <3>1. 1 + 1 = 2 /\ 1 \in 1 .. 1
      OBVIOUS
    <3>2. /\ Append(s, b) \in Seq(ByteOrEnd) /\ Len(Append(s, b)) = Len(s) + 1
          /\ Append(s, b)[Len(s) + 1] = b
          /\ \A i \in 1 .. Len(s) : Append(s, b)[i] = s[i]
      BY <2>1, AppendAt, Zenon
    <3>3. QED
      BY <2>1, <3>1, <3>2, Zenon
  <2>4. \A i \in 1 .. 2 : Append(s, b)[i] = t[i]
    BY <2>2, <2>3
  <2>5. Append(s, b) = t
    BY <2>2, <2>3, <2>4, SeqEqual
  <2>6. QED
    BY <2>5 DEF s, t
<1>3. QED
  BY <1>1, <1>2

LEMMA EscapeOfOne ==
  ASSUME NEW c \in ByteOrEnd, Unescaped(c) # -1
  PROVE  Well(<<92, c>>, <<Unescaped(c)>>)
<1>1. /\ Is(<<92, c>>, Character) /\ Denoted(<<92, c>>) = Unescaped(c)
      /\ Unescaped(c) \in Nat /\ Unescaped(c) < 128
  BY EscapeIsUnescaped DEF ByteOrEnd
<1>2. Is(<<Unescaped(c)>>, Utf8Char) /\ Decoded(<<Unescaped(c)>>) = Unescaped(c)
  BY <1>1, OneByteIsUtf8, Zenon
<1>3. Len(<<Unescaped(c)>>) <= Len(<<92, c>>)
  OBVIOUS
<1>4. QED
  BY <1>1, <1>2, <1>3, Zenon DEF Well

LEMMA ReadEscapedOwes == ASSUME LexInv, Writing, ReadEscaped PROVE Owed
<1>1. PICK c \in Inside :
        /\ Get(c, unit)
        /\ IF c = 117 THEN high' = 0 /\ UNCHANGED buffer /\ ReadDigits
           ELSE IF Unescaped(c) = -1 THEN Reject
           ELSE PushThen(Unescaped(c), "text") /\ UNCHANGED locals
  BY DEF ReadEscaped
<1>2. unit = <<92>> /\ 92 \in ByteOrEnd
  BY DEF ReadEscaped, LexInv, UnitInv, ByteOrEnd, Octet
<1>3. c \in ByteOrEnd /\ unit' = <<92, c>> /\ unit' \in Seq(ByteOrEnd)
  BY <1>1, <1>2, UnitGrows, OfTwo
<1>4. mark' = stringFill /\ Chars(Text, stringFill)
  BY MarkAtFill DEF ReadEscaped, Reading
<1>5. CASE c = 117 /\ high' = 0 /\ ReadDigits
  <2>1. HalfLike(unit') /\ Len(unit') = 2
    BY <1>3, <1>5 DEF HalfLike
  <2>2. HexOf(unit', 3, 0) = 0
    BY DEF HexOf
  <2>3. /\ digits' = 4 - 0 /\ Len(unit') = 2 + 0 /\ cp' = HexOf(unit', 3, 0)
        /\ pc' = "hex" /\ errmsg' = "none"
    BY <1>5, <2>1, <2>2 DEF ReadDigits, GoTo, tokenVars, Writing
  <2>4. UnitInv'
    BY <1>3, <1>5, <2>1, <2>3 DEF UnitInv
  <2>5. QED
    BY <1>4, <1>5, <2>4, GoToOwes DEF Reading, ReadDigits
<1>6. CASE c # 117 /\ Unescaped(c) = -1 /\ Reject
  <2>1. ~Starts(unit', Character)
    BY <1>3, <1>6, EscapeIsUnescaped DEF ByteOrEnd
  <2>2. QED
    BY <1>3, <1>6, <2>1, RejectOwes
<1>7. CASE Unescaped(c) # -1 /\ PushThen(Unescaped(c), "text")
  <2>1. Well(unit', <<Unescaped(c)>>)
    BY <1>3, <1>7, EscapeOfOne
  <2>2. QED
    BY <1>3, <1>4, <1>7, <2>1, UnescapedIsOctet, PushOwes
<1>8. QED
  BY <1>1, <1>5, <1>6, <1>7

LEMMA ReadOwes == ASSUME LexInv, Writing, Read PROVE Owed
<1>1. PICK c \in (IF chars = 0 THEN {EOF, 34} ELSE Given(chars) \union {34}) :
        /\ Get(c, <<>>)
        /\ CASE c = EOF -> Reject
             [] c = 34  -> GoTo("end") /\ UNCHANGED locals
             [] c = 92  -> GoTo("escape") /\ UNCHANGED locals
             [] c >= 128 ->
                  IF Utf8SeqLength(c) = 0 THEN Reject
                  ELSE buffer' = <<c>> /\ UNCHANGED <<cp, digits, high>> /\ GoTo("tail")
             [] c \in 0 .. 127 \ {34, 92} ->
                  IF NeedsEscaping(c) THEN Reject
                  ELSE PushThen(c, "text") /\ UNCHANGED locals
  BY DEF Read
<1>2. c \in ByteOrEnd
  BY StringCells DEF StringCells, Given, ByteOrEnd, Octet, EOF
<1>3. unit' = <<c>> /\ unit' \in Seq(ByteOrEnd) /\ Len(unit') = 1 /\ unit'[1] = c
  BY <1>1, <1>2 DEF Get
<1>4. mark' = stringFill /\ Chars(Text, stringFill)
  BY WholeSoFar DEF Read
<1>5. /\ c < 32 => ~Starts(<<c>>, Character)
      /\ c >= 128 /\ Utf8SeqLength(c) = 0 => ~Starts(<<c>>, Character)
      /\ c \in 0 .. 127 \ {34, 92} /\ ~(c < 32) => Well(<<c>>, <<c>>)
  BY <1>2, FirstByte
<1>6. CASE ~Starts(<<c>>, Character) /\ Reject
  BY <1>3, <1>6, RejectOwes
<1>7. CASE c = 34 /\ GoTo("end")
  <2>1. UnitInv'
    BY <1>3, <1>7 DEF UnitInv, GoTo, tokenVars, Writing
  <2>2. QED
    BY <1>4, <1>7, <2>1, GoToOwes
<1>8. CASE c = 92 /\ GoTo("escape")
  <2>1. UnitInv'
    BY <1>3, <1>8 DEF UnitInv, GoTo, tokenVars, Writing
  <2>2. QED
    BY <1>4, <1>8, <2>1, GoToOwes DEF Reading
<1>9. CASE c >= 128 /\ Utf8SeqLength(c) # 0 /\ buffer' = <<c>> /\ GoTo("tail")
  <2>1. c \in Octet
    BY <1>2, <1>9 DEF ByteOrEnd, EOF
  <2>2. Holds(<<c>>, <<c>>) /\ Len(<<c>>) < Utf8SeqLength(c)
    BY <1>9, <2>1, LeadBegins
  <2>3. Len(unit') >= 1
    BY <1>3
  <2>4. UnitInv'
    BY <1>3, <1>9, <2>1, <2>2, <2>3 DEF UnitInv, GoTo, tokenVars, Writing
  <2>5. QED
    BY <1>4, <1>9, <2>4, GoToOwes DEF Reading
<1>10. CASE c \in 0 .. 127 \ {34, 92} /\ ~(c < 32) /\ PushThen(c, "text")
  <2>1. c \in Octet /\ Well(unit', <<c>>)
    BY <1>3, <1>5, <1>10 DEF Octet
  <2>2. QED
    BY <1>3, <1>4, <1>10, <2>1, PushOwes
<1>11. c = EOF => c < 32
  BY DEF EOF
<1>12. c = EOF \/ c = 34 \/ c = 92 \/ c >= 128 \/ c \in 0 .. 127 \ {34, 92}
  BY <1>2 DEF ByteOrEnd, Octet
<1>13. CASE c = EOF
  <2>1. c # 34 /\ c # 92 /\ ~(c >= 128) /\ c \notin 0 .. 127 \ {34, 92}
    BY <1>13 DEF EOF
  <2>2. Reject
    BY <1>1, <1>13, <2>1
  <2>3. QED
    BY <1>5, <1>6, <1>11, <1>13, <2>2
<1>14. CASE c = 34 \/ c = 92
  <2>1. c # EOF /\ ~(c >= 128) /\ c \notin 0 .. 127 \ {34, 92}
    BY <1>14 DEF EOF
  <2>2. (c = 34 /\ GoTo("end")) \/ (c = 92 /\ GoTo("escape"))
    BY <1>1, <1>14, <2>1
  <2>3. QED
    BY <1>7, <1>8, <2>2
<1>15. CASE c >= 128
  <2>1. c # EOF /\ c # 34 /\ c # 92 /\ c \notin 0 .. 127 \ {34, 92}
    BY <1>15 DEF EOF
  <2>2. \/ Utf8SeqLength(c) = 0 /\ Reject
        \/ Utf8SeqLength(c) # 0 /\ buffer' = <<c>> /\ GoTo("tail")
    BY <1>1, <1>15, <2>1
  <2>3. QED
    BY <1>5, <1>6, <1>9, <1>15, <2>2
<1>16. CASE c \in 0 .. 127 \ {34, 92}
  <2>1. c # EOF /\ c # 34 /\ c # 92 /\ ~(c >= 128)
    BY <1>16 DEF EOF
  <2>2. IF c < 32 THEN Reject ELSE PushThen(c, "text")
    BY <1>1, <1>16, <2>1 DEF NeedsEscaping
  <2>3. QED
    BY <1>5, <1>6, <1>10, <1>16, <2>2
<1>17. QED
  BY <1>12, <1>13, <1>14, <1>15, <1>16

(* The digits of the first half, or of a code unit of its own. *)
LEMMA FirstDigits ==
  ASSUME NEW s \in Seq(ByteOrEnd), NEW c \in ByteOrEnd, NEW n \in 0 .. 3, Len(s) = 2 + n,
         HalfLike(s)
  PROVE  /\ HexChar(c) = -1 => ~Starts(Append(s, c), Character)
         /\ HexChar(c) # -1 =>
              /\ HalfLike(Append(s, c)) /\ Len(Append(s, c)) = 2 + (n + 1)
              /\ HexOf(s, 3, n) * 16 + HexChar(c) = HexOf(Append(s, c), 3, n + 1)
<1> DEFINE t == Append(s, c)
<1>1. c \in HexDig <=> HexChar(c) # -1
  BY HexDigits DEF ByteOrEnd
<1>2. n \in Nat /\ 2 + n = 3 + n - 1 /\ 3 + n \in 3 .. 6 /\ Len(s) + 1 = 3 + n
      /\ Len(s) >= 2 /\ 2 + (n + 1) = 3 + n /\ 1 \in 1 .. Len(s) /\ 2 \in 1 .. Len(s)
  OBVIOUS
<1>3. /\ t \in Seq(ByteOrEnd) /\ Len(t) = Len(s) + 1 /\ t[Len(s) + 1] = c
      /\ \A i \in 1 .. Len(s) : t[i] = s[i]
  BY AppendAt
<1> HIDE DEF t
<1>4. s[1] = 92 /\ s[2] = 117
  BY <1>2 DEF HalfLike
<1>10. t[1] = s[1] /\ t[2] = s[2]
  BY <1>2, <1>3, Zenon
<1>11. Len(t) = 3 + n /\ t[3 + n] = c
  BY <1>2, <1>3, Zenon
<1>5. t[1] = 92 /\ t[2] = 117 /\ Len(t) = 3 + n /\ t[3 + n] = c
  BY <1>4, <1>10, <1>11, Zenon
<1>6. HexChar(c) = -1 => ~Starts(t, Character)
  BY <1>1, <1>2, <1>3, <1>5, FirstHalfRefused
<1>7. HexChar(c) # -1 => HalfLike(t)
  BY <1>1, <1>2, HalfLikeStep DEF t
<1>8. HexOf(t, 3, n + 1) = HexOf(s, 3, n) * 16 + HexChar(c)
  BY HexStep DEF t
<1>9. QED
  BY <1>2, <1>5, <1>6, <1>7, <1>8, Zenon DEF t

(* The digits of the second half. *)
LEMMA SecondDigits ==
  ASSUME NEW s \in Seq(ByteOrEnd), NEW c \in ByteOrEnd, NEW h, NEW n \in 0 .. 3,
         Len(s) = 8 + n, HighHalf(s, h), SecondHalfLike(s)
  PROVE  /\ HexChar(c) = -1 => ~Starts(Append(s, c), Character)
         /\ HighHalf(Append(s, c), h)
         /\ HexChar(c) # -1 =>
              /\ SecondHalfLike(Append(s, c)) /\ Len(Append(s, c)) = 8 + (n + 1)
              /\ HexOf(s, 9, n) * 16 + HexChar(c) = HexOf(Append(s, c), 9, n + 1)
<1> DEFINE t == Append(s, c)
<1>1. c \in HexDig <=> HexChar(c) # -1
  BY HexDigits DEF ByteOrEnd
<1>2. 9 + n \in 7 .. 12 /\ Len(s) + 1 = 9 + n /\ Len(s) >= 8 /\ 8 + (n + 1) = 9 + n
      /\ 9 + n >= 9
  OBVIOUS
<1>3. t \in Seq(ByteOrEnd) /\ Len(t) = Len(s) + 1 /\ t[Len(s) + 1] = c
  BY AppendAt
<1>4. HighHalf(t, h)
  BY HighHalfStep
<1> HIDE DEF t
<1>5. Len(t) = 9 + n /\ t[9 + n] = c
  BY <1>2, <1>3, Zenon
<1>6. HexChar(c) = -1 => ~Starts(t, Character)
  BY <1>1, <1>2, <1>3, <1>4, <1>5, LowHalfRefused
<1>7. HexChar(c) # -1 => SecondHalfLike(t)
  BY <1>1, <1>2, SecondHalfLikeStep DEF t
<1>8. HexOf(t, 9, n + 1) = HexOf(s, 9, n) * 16 + HexChar(c)
  BY HexStep DEF t
<1>9. QED
  BY <1>2, <1>4, <1>5, <1>6, <1>7, <1>8, Zenon DEF t

(* What the digits so far come to, as ReadUnicodeCp compares it. *)
LEMMA FourthDigit ==
  ASSUME NEW s \in Seq(ByteOrEnd), Len(s) = 6, HalfLike(s), NEW v, v = Hex4(s, 3)
  PROVE  /\ IsHigh(v) => HighHalf(s, v)
         /\ IsLow(v) => ~Starts(s, Character)
         /\ ~IsHigh(v) /\ ~IsLow(v) => /\ v \in Nat /\ IsScalarValue(v)
                                       /\ Is(s, Character) /\ Denoted(s) = v
<1>1. Len(s) >= 6
  OBVIOUS
<1>2. BasicPlane(v)
  BY <1>1, FirstHalf
<1>3. IsHigh(v) => HighHalf(s, v)
  BY <1>1, Zenon DEF HighHalf
<1>4. /\ IsLow(v) => ~Starts(s, Character)
      /\ ~IsLow(v) /\ ~IsHigh(v) => Is(s, Character) /\ Denoted(s) = v
  BY CodeUnitDone, Zenon
<1>5. ~IsHigh(v) /\ ~IsLow(v) => v \in Nat /\ IsScalarValue(v)
  BY <1>2, CodeUnitIsScalar, Zenon
<1>6. QED
  BY <1>3, <1>4, <1>5, Zenon

LEMMA EighthDigit ==
  ASSUME NEW s \in Seq(ByteOrEnd), Len(s) = 12, NEW h, HighHalf(s, h), SecondHalfLike(s),
         NEW v, v = Hex4(s, 9)
  PROVE  /\ ~IsLow(v) => ~Starts(s, Character)
         /\ IsLow(v) => /\ FromPair(h, v) \in Nat /\ IsScalarValue(FromPair(h, v))
                        /\ Is(s, Character) /\ Denoted(s) = FromPair(h, v)
<1>1. /\ ~IsLow(v) => ~Starts(s, Character)
      /\ IsLow(v) => Is(s, Character) /\ Denoted(s) = FromPair(h, v)
  BY PairDone, Zenon
<1>2. IsHigh(h)
  BY Zenon DEF HighHalf
<1>3. IsLow(v) => FromPair(h, v) \in Nat /\ IsScalarValue(FromPair(h, v))
  BY <1>2, PairIsScalar, Zenon
<1>4. QED
  BY <1>1, <1>3, Zenon

LEMMA HalvesDiffer == ASSUME NEW v, IsHigh(v), IsLow(v) PROVE FALSE
BY HighRange, LowRange, SMT

DigitsOf(n) == n \in 0 .. 3 /\ digits = 4 - n

LEMMA DigitsLeft ==
  ASSUME NEW n, DigitsOf(n)
  PROVE  /\ digits > 1 => n + 1 \in 0 .. 3 /\ digits - 1 = 4 - (n + 1)
         /\ digits > 1 \/ digits = 1
         /\ digits = 1 => n = 3 /\ n + 1 = 4 /\ 2 + (n + 1) = 6 /\ 8 + (n + 1) = 12
         /\ ~(digits > 1 /\ digits = 1)
BY DEF DigitsOf

LEMMA HexOfFour == \A s, i : HexOf(s, i, 4) = Hex4(s, i)
BY DEF HexOf

(* A code unit read with no high half before it. *)
LEMMA FirstHalfOwes == ASSUME LexInv, Writing, ReadUnicodeCp, high = 0 PROVE Owed
<1> DEFINE New(c) == cp * 16 + HexChar(c)
<1>1. PICK c \in Inside :
        /\ Get(c, unit)
        /\ CASE HexChar(c) = -1 -> Reject
             [] HexChar(c) # -1 /\ digits > 1 ->
                  /\ cp' = New(c) /\ digits' = digits - 1
                  /\ UNCHANGED <<high, buffer>> /\ GoTo("hex")
             [] HexChar(c) # -1 /\ digits = 1 /\ high = 0 ->
                  CASE IsHigh(New(c)) ->
                         /\ high' = New(c) /\ UNCHANGED <<cp, digits, buffer>>
                         /\ GoTo("low")
                    [] IsLow(New(c)) -> Reject
                    [] OTHER         -> Encode(New(c))
             [] HexChar(c) # -1 /\ digits = 1 /\ high # 0 ->
                  IF IsLow(New(c)) THEN Encode(FromPair(high, New(c))) ELSE Reject
  BY DEF ReadUnicodeCp
<1> DEFINE read == Append(unit, c)
<1>2. c \in ByteOrEnd /\ unit' = read /\ read \in Seq(ByteOrEnd)
  BY <1>1, UnitGrows
<1>3. mark' = stringFill /\ Chars(Text, stringFill)
  BY MarkAtFill DEF ReadUnicodeCp, Reading
<1>4. PICK n : /\ DigitsOf(n) /\ Len(unit) = 2 + n /\ HalfLike(unit)
               /\ cp = HexOf(unit, 3, n)
  BY DEF ReadUnicodeCp, LexInv, UnitInv, DigitsOf
<1>5. /\ HexChar(c) = -1 => ~Starts(read, Character)
      /\ HexChar(c) # -1 => /\ HalfLike(read) /\ Len(read) = 2 + (n + 1)
                            /\ New(c) = HexOf(read, 3, n + 1)
  <2>1. unit \in Seq(ByteOrEnd) /\ n \in 0 .. 3
    BY <1>4 DEF LexInv, UnitInv, DigitsOf
  <2>2. QED
    BY <1>2, <1>4, <2>1, FirstDigits, Zenon
<1>6. /\ digits > 1 => n + 1 \in 0 .. 3 /\ digits - 1 = 4 - (n + 1)
      /\ digits > 1 \/ digits = 1
      /\ digits = 1 => n + 1 = 4 /\ 2 + (n + 1) = 6
      /\ ~(digits > 1 /\ digits = 1)
  BY <1>4, DigitsLeft, Zenon
<1> DEFINE new == New(c)
<1> HIDE DEF read
<1>7. HexChar(c) # -1 /\ digits = 1 =>
        /\ Len(read) = 6 /\ HalfLike(read)
        /\ IsHigh(new) => HighHalf(read, new)
        /\ IsLow(new) => ~Starts(read, Character)
        /\ ~IsHigh(new) /\ ~IsLow(new) => /\ new \in Nat /\ IsScalarValue(new)
                                          /\ Is(read, Character) /\ Denoted(read) = new
  <2> SUFFICES ASSUME HexChar(c) # -1, digits = 1
               PROVE  /\ Len(read) = 6 /\ HalfLike(read)
                      /\ IsHigh(new) => HighHalf(read, new)
                      /\ IsLow(new) => ~Starts(read, Character)
                      /\ ~IsHigh(new) /\ ~IsLow(new) =>
                           /\ new \in Nat /\ IsScalarValue(new)
                           /\ Is(read, Character) /\ Denoted(read) = new
    BY Zenon
  <2>1. Len(read) = 6 /\ HalfLike(read) /\ new = Hex4(read, 3)
    BY <1>5, <1>6, HexOfFour, Zenon
  <2> HIDE DEF new
  <2>2. QED
    BY <1>2, <2>1, FourthDigit, Zenon
<1> HIDE DEF New, new
<1>8. CASE HexChar(c) = -1 /\ Reject
  BY <1>2, <1>5, <1>8, RejectOwes
<1>9. CASE /\ HexChar(c) # -1 /\ digits > 1 /\ cp' = New(c) /\ digits' = digits - 1
           /\ UNCHANGED <<high, buffer>> /\ GoTo("hex")
  <2>1. PICK k : k \in 0 .. 3 /\ k = n + 1
    BY <1>6, <1>9
  <2>2. /\ digits' = 4 - k /\ Len(unit') = 2 + k /\ HalfLike(unit')
        /\ cp' = HexOf(unit', 3, k)
    BY <1>2, <1>5, <1>6, <1>9, <2>1, Zenon
  <2>3. pc' = "hex" /\ errmsg' = "none" /\ high' = 0
    BY <1>9 DEF GoTo, tokenVars, Writing
  <2>4. UnitInv'
    BY <1>2, <2>1, <2>2, <2>3 DEF UnitInv
  <2>5. QED
    BY <1>3, <1>9, <2>4, GoToOwes DEF Reading
<1>10. CASE /\ HexChar(c) # -1 /\ digits = 1 /\ IsHigh(new) /\ high' = new /\ GoTo("low")
  <2>1. Len(unit') = 6 /\ HighHalf(unit', high')
    BY <1>2, <1>7, <1>10, Zenon
  <2>2. pc' = "low" /\ errmsg' = "none"
    BY <1>10 DEF GoTo, tokenVars, Writing
  <2>3. UnitInv'
    BY <1>2, <2>1, <2>2 DEF UnitInv
  <2>4. QED
    BY <1>3, <1>10, <2>3, GoToOwes DEF Reading
<1>11. CASE HexChar(c) # -1 /\ digits = 1 /\ IsLow(new) /\ Reject
  BY <1>2, <1>7, <1>11, RejectOwes
<1>12. CASE HexChar(c) # -1 /\ digits = 1 /\ ~IsHigh(new) /\ ~IsLow(new) /\ Encode(new)
  <2>1. Len(unit') >= 4
    <3>1. Len(read) = 6
      BY <1>7, <1>12, Zenon
    <3>2. QED
      BY <1>2, <3>1
  <2>2. QED
    BY <1>2, <1>3, <1>7, <1>12, <2>1, EncodeOwes, Zenon
<1>13. ASSUME IsHigh(new), IsLow(new) PROVE FALSE
  BY <1>13, HalvesDiffer, Zenon
<1>14. CASE HexChar(c) = -1
  BY <1>1, <1>8, <1>14, Zenon
<1>15. CASE HexChar(c) # -1 /\ digits > 1
  BY <1>1, <1>6, <1>9, <1>15, Zenon
<1>16. CASE HexChar(c) # -1 /\ digits = 1 /\ ~(digits > 1)
  <2>1. (CASE IsHigh(new) -> high' = new /\ UNCHANGED <<cp, digits, buffer>> /\ GoTo("low")
           [] IsLow(new) -> Reject
           [] OTHER      -> Encode(new))
    BY <1>1, <1>16 DEF new
  <2>2. QED
    BY <1>10, <1>11, <1>12, <1>13, <1>16, <2>1
<1>17. QED
  BY <1>6, <1>14, <1>15, <1>16, Zenon

(* A code unit after a high half. *)
LEMMA SecondHalfOwes == ASSUME LexInv, Writing, ReadUnicodeCp, high # 0 PROVE Owed
<1> DEFINE New(c) == cp * 16 + HexChar(c)
<1>1. PICK c \in Inside :
        /\ Get(c, unit)
        /\ CASE HexChar(c) = -1 -> Reject
             [] HexChar(c) # -1 /\ digits > 1 ->
                  /\ cp' = New(c) /\ digits' = digits - 1
                  /\ UNCHANGED <<high, buffer>> /\ GoTo("hex")
             [] HexChar(c) # -1 /\ digits = 1 /\ high = 0 ->
                  CASE IsHigh(New(c)) ->
                         /\ high' = New(c) /\ UNCHANGED <<cp, digits, buffer>>
                         /\ GoTo("low")
                    [] IsLow(New(c)) -> Reject
                    [] OTHER         -> Encode(New(c))
             [] HexChar(c) # -1 /\ digits = 1 /\ high # 0 ->
                  IF IsLow(New(c)) THEN Encode(FromPair(high, New(c))) ELSE Reject
  BY DEF ReadUnicodeCp
<1> DEFINE read == Append(unit, c)
<1>2. c \in ByteOrEnd /\ unit' = read /\ read \in Seq(ByteOrEnd)
  BY <1>1, UnitGrows
<1>3. mark' = stringFill /\ Chars(Text, stringFill)
  BY MarkAtFill DEF ReadUnicodeCp, Reading
<1>4. PICK n : /\ DigitsOf(n) /\ Len(unit) = 8 + n /\ HighHalf(unit, high)
               /\ SecondHalfLike(unit) /\ cp = HexOf(unit, 9, n)
  BY DEF ReadUnicodeCp, LexInv, UnitInv, DigitsOf
<1>5. /\ HexChar(c) = -1 => ~Starts(read, Character)
      /\ HighHalf(read, high)
      /\ HexChar(c) # -1 => /\ SecondHalfLike(read) /\ Len(read) = 8 + (n + 1)
                            /\ New(c) = HexOf(read, 9, n + 1)
  <2>1. unit \in Seq(ByteOrEnd) /\ n \in 0 .. 3
    BY <1>4 DEF LexInv, UnitInv, DigitsOf
  <2>2. QED
    BY <1>2, <1>4, <2>1, SecondDigits, Zenon
<1>6. /\ digits > 1 => n + 1 \in 0 .. 3 /\ digits - 1 = 4 - (n + 1)
      /\ digits > 1 \/ digits = 1
      /\ digits = 1 => n + 1 = 4 /\ 8 + (n + 1) = 12
      /\ ~(digits > 1 /\ digits = 1)
  BY <1>4, DigitsLeft, Zenon
<1> DEFINE new == New(c)
<1> HIDE DEF read
<1>7. HexChar(c) # -1 /\ digits = 1 =>
        /\ Len(read) = 12
        /\ ~IsLow(new) => ~Starts(read, Character)
        /\ IsLow(new) => /\ FromPair(high, new) \in Nat /\ IsScalarValue(FromPair(high, new))
                         /\ Is(read, Character) /\ Denoted(read) = FromPair(high, new)
  <2> SUFFICES ASSUME HexChar(c) # -1, digits = 1
               PROVE  /\ Len(read) = 12
                      /\ ~IsLow(new) => ~Starts(read, Character)
                      /\ IsLow(new) =>
                           /\ FromPair(high, new) \in Nat
                           /\ IsScalarValue(FromPair(high, new))
                           /\ Is(read, Character) /\ Denoted(read) = FromPair(high, new)
    BY Zenon
  <2>1. Len(read) = 12 /\ SecondHalfLike(read) /\ new = Hex4(read, 9)
    BY <1>5, <1>6, HexOfFour, Zenon
  <2> HIDE DEF new
  <2>2. QED
    BY <1>2, <1>5, <2>1, EighthDigit, Zenon
<1> HIDE DEF New, new
<1>8. CASE HexChar(c) = -1 /\ Reject
  BY <1>2, <1>5, <1>8, RejectOwes
<1>9. CASE /\ HexChar(c) # -1 /\ digits > 1 /\ cp' = New(c) /\ digits' = digits - 1
           /\ UNCHANGED <<high, buffer>> /\ GoTo("hex")
  <2>1. PICK k : k \in 0 .. 3 /\ k = n + 1
    BY <1>6, <1>9
  <2>2. high' = high
    BY <1>9, Zenon
  <2>3. /\ digits' = 4 - k /\ Len(unit') = 8 + k /\ HighHalf(unit', high')
        /\ SecondHalfLike(unit') /\ cp' = HexOf(unit', 9, k)
    BY <1>2, <1>5, <1>6, <1>9, <2>1, <2>2, Zenon
  <2>4. pc' = "hex" /\ errmsg' = "none" /\ high' # 0
    BY <1>9, <2>2 DEF GoTo, tokenVars, Writing
  <2>5. UnitInv'
    BY <1>2, <2>1, <2>3, <2>4 DEF UnitInv
  <2>6. QED
    BY <1>3, <1>9, <2>5, GoToOwes DEF Reading
<1>10. CASE HexChar(c) # -1 /\ digits = 1 /\ ~IsLow(new) /\ Reject
  BY <1>2, <1>7, <1>10, RejectOwes
<1>11. CASE /\ HexChar(c) # -1 /\ digits = 1 /\ IsLow(new)
            /\ Encode(FromPair(high, new))
  <2>1. Len(unit') >= 4
    <3>1. Len(read) = 12
      BY <1>7, <1>11, Zenon
    <3>2. QED
      BY <1>2, <3>1
  <2>2. PICK v \in Nat : v = FromPair(high, new)
    BY <1>7, <1>11, Zenon
  <2>3. /\ IsScalarValue(v) /\ Encode(v) /\ Is(unit', Character) /\ Denoted(unit') = v
        /\ unit' \in Seq(ByteOrEnd)
    BY <1>2, <1>7, <1>11, <2>2, Zenon
  <2>4. QED
    BY <1>3, <2>1, <2>3, EncodeOwes, Zenon
<1>12. CASE HexChar(c) = -1
  BY <1>1, <1>8, <1>12, Zenon
<1>13. CASE HexChar(c) # -1 /\ digits > 1
  BY <1>1, <1>6, <1>9, <1>13, Zenon
<1>14. CASE HexChar(c) # -1 /\ digits = 1 /\ ~(digits > 1)
  <2>1. IF IsLow(new) THEN Encode(FromPair(high, new)) ELSE Reject
    BY <1>1, <1>14 DEF new
  <2>2. QED
    BY <1>10, <1>11, <1>14, <2>1
<1>15. QED
  BY <1>6, <1>12, <1>13, <1>14, Zenon

-----------------------------------------------------------------------------
LEMMA OwedStep ==
  LexInv /\ [StringNext]_stringVars => Owed
<1> SUFFICES ASSUME LexInv, [StringNext]_stringVars PROVE Owed
  OBVIOUS
<1>1. pc \notin {"init", "returned"} => Writing
  BY DEF LexInv, CallInv, Writing
<1>2. CASE InitBuffer
  BY <1>2, InitBufferOwes
<1>3. CASE Read
  BY <1>1, <1>3, ReadOwes DEF Read
<1>4. CASE ReadTail
  BY <1>1, <1>4, ReadTailOwes DEF ReadTail
<1>5. CASE ReadEscaped
  BY <1>1, <1>5, ReadEscapedOwes DEF ReadEscaped
<1>6. CASE ReadUnicodeCp
  BY <1>1, <1>6, FirstHalfOwes, SecondHalfOwes DEF ReadUnicodeCp
<1>7. CASE ReadLow
  BY <1>1, <1>7, ReadLowOwes DEF ReadLow
<1>8. CASE ReadLowU
  BY <1>1, <1>8, ReadLowUOwes DEF ReadLowU
<1>9. CASE PushBytes
  BY <1>1, <1>9, PushBytesOwes DEF PushBytes
<1>10. CASE Terminate
  BY <1>1, <1>10, TerminateOwes DEF Terminate
<1>11. CASE UNCHANGED stringVars
  <2>1. /\ Text' = Text /\ stringFill' = stringFill /\ pc' = pc /\ unit' = unit
        /\ mark' = mark /\ cp' = cp /\ digits' = digits /\ high' = high
        /\ buffer' = buffer /\ value' = value /\ errmsg' = errmsg
    BY <1>11, TextSame DEF stringVars, tokenVars, bufferVars, locals
  <2>2. Wrote' = Wrote
    BY <2>1 DEF Wrote
  <2>3. UnitInv /\ WrittenInv
    BY DEF LexInv
  <2>4. UnitInv'
    BY <2>1, <2>3 DEF UnitInv
  <2>5. WrittenInv'
    BY <2>1, <2>2, <2>3 DEF WrittenInv
  <2>6. QED
    BY <2>4, <2>5 DEF Owed
<1>12. CASE Returned
  BY <1>11, <1>12 DEF Returned
<1>13. QED
  BY <1>2, <1>3, <1>4, <1>5, <1>6, <1>7, <1>8, <1>9, <1>10, <1>11, <1>12
     DEF StringNext

LEMMA LexInvInit == StringInit => LexInv
<1> SUFFICES ASSUME StringInit PROVE LexInv
  OBVIOUS
<1>1. BufferInv /\ CallInv
  BY StaleBufferInv, CallInvInit
<1>2. UnitInv
  BY DEF StringInit, UnitInv
<1>3. WrittenInv
  BY DEF StringInit, WrittenInv, Reading
<1>4. QED
  BY <1>1, <1>2, <1>3 DEF LexInv

LEMMA LexInvKept == LexInv /\ [StringNext]_stringVars => LexInv'
<1> SUFFICES ASSUME LexInv, [StringNext]_stringVars PROVE LexInv'
  OBVIOUS
<1>1. [TokenNext]_tokenVars /\ CallInv'
  BY StringStep DEF LexInv
<1>2. BufferInv'
  BY <1>1, BufferInvKept DEF LexInv
<1>3. Owed
  BY OwedStep
<1>4. QED
  BY <1>1, <1>2, <1>3 DEF Owed, LexInv

LEMMA LexInvariant == StringSpec => []LexInv
BY LexInvInit, LexInvKept, PTL DEF StringSpec

(***************************************************************************)
(* readString gives up, for want of memory apart, only on bytes that start *)
(* no character of RFC 8259, whatever the source gives and wherever it     *)
(* ends: no refusal of encodeUtf8 and no half of a pair misjudged.         *)
(***************************************************************************)
THEOREM RefusesNoText == StringSpec => []RejectsOnlyNonText
<1>1. LexInv => RejectsOnlyNonText
  BY DEF LexInv, UnitInv, RejectsOnlyNonText
<1>2. QED
  BY <1>1, LexInvariant, PTL

(***************************************************************************)
(* Each character, raw, escaped or a pair of surrogates, is written as the *)
(* UTF-8 of the code point it denotes, in no more bytes than it was read   *)
(* from, for every byte and every growth of the buffer.                    *)
(***************************************************************************)
THEOREM CharactersAreDenoted == StringSpec => []CharacterIsDenoted
<1>1. LexInv => CharacterIsDenoted
  BY DEF LexInv, WrittenInv, Well, Wrote, CharacterIsDenoted
<1>2. QED
  BY <1>1, LexInvariant, PTL

(***************************************************************************)
(* The text of a STRING event, its terminator apart, is well-formed UTF-8  *)
(* from its first byte to its last, for strings of any length.             *)
(***************************************************************************)
THEOREM StringsAreWellFormed == StringSpec => []StringIsWellFormed
<1>1. LexInv => StringIsWellFormed
  <2> SUFFICES ASSUME LexInv, value = "string" PROVE StringIsWellFormed
    BY DEF StringIsWellFormed
  <2>1. /\ mark \in Nat /\ stringFill = mark + 1
        /\ Text[stringFill] = Nul /\ Chars(Text, mark)
    BY DEF LexInv, WrittenInv
  <2>2. stringFill - 1 = mark
    BY <2>1
  <2> DEFINE t == Text
  <2> DEFINE f == CHOOSE g : g = [n \in 0 .. stringFill - 1 |->
                     n = 0 \/ \E k \in 1 .. 4 : /\ k <= n /\ g[n - k]
                                               /\ Is(SubSeq(t, n - k + 1, n), Utf8Char)]
  <2>3. IsForm(f, t, mark)
    <3>1. \E g : IsForm(g, t, mark)
      BY <2>1, FormExists
    <3>2. f = CHOOSE g : IsForm(g, t, mark)
      BY <2>2 DEF IsForm, FormAt
    <3> HIDE DEF f
    <3>3. QED
      BY <3>1, <3>2, Zenon
  <2> HIDE DEF f
  <2>4. f[mark]
    BY <2>1, <2>3, CharsAreFormed
  <2>5. Text[stringFill] = Nul /\ f[stringFill - 1]
    BY <2>1, <2>2, <2>4
  <2>6. QED
    BY <2>5 DEF StringIsWellFormed, f
<1>2. QED
  BY <1>1, LexInvariant, PTL

-----------------------------------------------------------------------------
(* What a step of the loop comes to, for the token: the diagnostic, a byte
   pushed, or neither. *)
Comes ==
  \/ Reject
  \/ \E label : GoTo(label)
  \/ \E c \in Octet : \E label : PushThen(c, label)

LEMMA EncodeComes == ASSUME NEW c, Encode(c) PROVE Comes
BY DEF Encode, PushAll, Comes

LEMMA LoopComes ==
  ASSUME LexInv, Writing,
         Read \/ ReadTail \/ ReadEscaped \/ ReadUnicodeCp \/ ReadLow \/ ReadLowU \/ PushBytes
  PROVE  Comes
<1>1. CASE Read
  <2>1. PICK c \in (IF chars = 0 THEN {EOF, 34} ELSE Given(chars) \union {34}) :
          CASE c = EOF -> Reject
             [] c = 34  -> GoTo("end") /\ UNCHANGED locals
             [] c = 92  -> GoTo("escape") /\ UNCHANGED locals
             [] c >= 128 ->
                  IF Utf8SeqLength(c) = 0 THEN Reject
                  ELSE buffer' = <<c>> /\ UNCHANGED <<cp, digits, high>> /\ GoTo("tail")
             [] c \in 0 .. 127 \ {34, 92} ->
                  IF NeedsEscaping(c) THEN Reject
                  ELSE PushThen(c, "text") /\ UNCHANGED locals
    BY <1>1 DEF Read
  <2>2. c \in Octet \union {EOF}
    BY StringCells DEF StringCells, Given, Octet, EOF
  <2>3. c = EOF \/ c = 34 \/ c = 92 \/ c >= 128 \/ (c \in Octet /\ c \in 0 .. 127 \ {34, 92})
    BY <2>2 DEF Octet
  <2>4. \/ Reject \/ GoTo("end") \/ GoTo("escape") \/ GoTo("tail")
        \/ c \in Octet /\ PushThen(c, "text")
    <3>1. c \in 0 .. 127 \ {34, 92} => c \in Octet
      BY DEF Octet
    <3> HIDE <2>2
    <3>2. QED
      BY <2>1, <2>3, <3>1
  <2>5. QED
    BY <2>4 DEF Comes
<1>2. CASE ReadTail
  BY <1>2 DEF ReadTail, PushAll, Comes
<1>3. CASE ReadEscaped
  BY <1>3, UnescapedIsOctet DEF ReadEscaped, ReadDigits, Comes
<1>4. CASE ReadUnicodeCp
  <2> DEFINE New(c) == cp * 16 + HexChar(c)
  <2>1. PICK c \in Inside :
          CASE HexChar(c) = -1 -> Reject
            [] HexChar(c) # -1 /\ digits > 1 ->
                 /\ cp' = New(c) /\ digits' = digits - 1
                 /\ UNCHANGED <<high, buffer>> /\ GoTo("hex")
            [] HexChar(c) # -1 /\ digits = 1 /\ high = 0 ->
                 CASE IsHigh(New(c)) ->
                        /\ high' = New(c) /\ UNCHANGED <<cp, digits, buffer>>
                        /\ GoTo("low")
                   [] IsLow(New(c)) -> Reject
                   [] OTHER         -> Encode(New(c))
            [] HexChar(c) # -1 /\ digits = 1 /\ high # 0 ->
                 IF IsLow(New(c)) THEN Encode(FromPair(high, New(c))) ELSE Reject
    BY <1>4 DEF ReadUnicodeCp
  <2>2. digits > 1 \/ digits = 1
    BY <1>4 DEF ReadUnicodeCp, LexInv, CallInv
  <2> HIDE DEF New
  <2>3. \/ Reject \/ GoTo("hex") \/ GoTo("low") \/ Encode(New(c))
        \/ Encode(FromPair(high, New(c)))
    BY <2>1, <2>2
  <2>4. QED
    BY <2>3, EncodeComes DEF Comes
<1>5. CASE ReadLow \/ ReadLowU
  BY <1>5 DEF ReadLow, ReadLowU, ReadDigits, Comes
<1>6. CASE PushBytes
  <2>1. Head(buffer) \in Octet
    BY <1>6 DEF LexInv, CallInv, PushBytes
  <2>2. QED
    BY <1>6, <2>1 DEF PushBytes, Comes
<1>7. QED
  BY <1>1, <1>2, <1>3, <1>4, <1>5, <1>6

(* An outcome of the contract ends the reading. *)
LEMMA ReaderEnds ==
  ASSUME value = "none",
         \/ value' = "string" /\ errmsg' = "none" /\ Held' = "string"
         \/ value' = "error" /\ errmsg' \in {"oom", "syntax"} /\ Held' = "cut"
         \/ value' = "error" /\ errmsg' = "oom" /\ Held' = "null" /\ Held = "null"
  PROVE  Reader!Next
<1> DEFINE o == [value |-> value', errmsg |-> errmsg', token |-> Held']
<1>1. o \in Reader!Outcomes("string", Held)
  <2>1. CASE value' = "string" /\ errmsg' = "none" /\ Held' = "string"
    BY <2>1 DEF Reader!Outcomes
  <2>2. CASE value' = "error" /\ errmsg' \in {"oom", "syntax"} /\ Held' = "cut"
    BY <2>2 DEF Reader!Outcomes
  <2>3. CASE value' = "error" /\ errmsg' = "oom" /\ Held' = "null" /\ Held = "null"
    BY <2>3 DEF Reader!Outcomes
  <2>4. QED
    BY <2>1, <2>2, <2>3
<1>2. value' = o.value /\ errmsg' = o.errmsg /\ Held' = o.token
  OBVIOUS
<1> HIDE DEF o
<1>3. QED
  BY <1>1, <1>2 DEF Reader!Next, Reader!Finish

(* Held is the buffer a reader of tokens sees. *)
LEMMA ReaderStep == LexInv /\ [StringNext]_stringVars => [Reader!Next]_Reader!vars
<1> SUFFICES ASSUME LexInv, [StringNext]_stringVars PROVE [Reader!Next]_Reader!vars
  OBVIOUS
<1>1. pc \notin {"init", "returned"} => Writing /\ allocated
  BY DEF LexInv, CallInv, BufferInv, Writing
<1>2. ASSUME UNCHANGED <<allocated, value, errmsg>> PROVE [Reader!Next]_Reader!vars
  BY <1>2 DEF Held, Reader!vars
<1>3. ASSUME allocated, allocated', value = "none", value' = "error",
             errmsg' \in {"oom", "syntax"}
      PROVE  Reader!Next
  BY <1>3, ReaderEnds DEF Held
<1>4. CASE InitBuffer
  <2>1. PICK m \in Message : /\ InitString(m) /\ errmsg' = m
                             /\ m = "none" => pc' = "text" /\ value' = value
                             /\ m # "none" => pc' = "returned" /\ value' = "error"
    BY <1>4 DEF InitBuffer
  <2>2. value = "none" /\ errmsg = "none"
    BY <1>4 DEF InitBuffer, LexInv, WrittenInv, CallInv
  <2>3. CASE m = "none"
    <3>1. allocated' = TRUE
      BY <2>1, <2>3 DEF InitString, LexInv, BufferInv, BufferTypeOK
    <3>2. Held' = "cut"
      BY <2>1, <2>2, <2>3, <3>1 DEF Held
    <3>3. QED
      BY <2>1, <2>2, <2>3, <3>2 DEF Reader!Next, Reader!Begin
  <2>4. CASE m # "none"
    <3>1. m = "oom" /\ ~allocated /\ ~allocated'
      BY <2>1, <2>4 DEF InitString
    <3>2. Held = "null" /\ Held' = "null"
      BY <3>1 DEF Held
    <3>3. QED
      BY <2>1, <2>2, <2>4, <3>1, <3>2, ReaderEnds
  <2>5. QED
    BY <2>3, <2>4
<1>5. CASE Read \/ ReadTail \/ ReadEscaped \/ ReadUnicodeCp \/ ReadLow \/ ReadLowU \/ PushBytes
  <2>1. Writing /\ allocated
    BY <1>1, <1>5 DEF Read, ReadTail, ReadEscaped, ReadUnicodeCp, ReadLow, ReadLowU, PushBytes
  <2>2. value = "none" /\ errmsg = "none"
    BY <2>1 DEF LexInv, WrittenInv, Writing
  <2>3. CASE Reject
    BY <1>3, <2>1, <2>2, <2>3 DEF Reject, bufferVars
  <2>4. CASE \E label : GoTo(label)
    BY <1>2, <2>4 DEF GoTo, tokenVars, bufferVars
  <2>5. ASSUME NEW c \in Octet, NEW label, PushThen(c, label) PROVE [Reader!Next]_Reader!vars
    <3>1. PICK m \in Message : /\ PushChar(c, m) /\ errmsg' = m
                               /\ m = "none" => value' = value
                               /\ m # "none" => value' = "error"
      BY <2>5 DEF PushThen
    <3>2. allocated' = allocated /\ m \in {"none", "oom"}
      BY <2>1, <3>1 DEF PushChar, bufferVars, LexInv, BufferInv, BufferTypeOK
    <3>3. QED
      BY <1>2, <1>3, <2>1, <2>2, <3>1, <3>2
  <2>6. QED
    BY <1>5, <2>1, <2>3, <2>4, <2>5, LoopComes DEF Comes
<1>6. CASE Terminate
  <2>1. Writing /\ allocated
    BY <1>1, <1>6 DEF Terminate
  <2>2. value = "none"
    BY <2>1 DEF LexInv, WrittenInv, Writing
  <2>3. PICK m \in Message : /\ PushChar(Nul, m) /\ errmsg' = m
                             /\ value' = IF m = "none" THEN "string" ELSE "error"
    BY <1>6 DEF Terminate
  <2>4. allocated' = allocated /\ m \in {"none", "oom"}
    BY <2>1, <2>3 DEF PushChar, bufferVars, LexInv, BufferInv, BufferTypeOK
  <2>5. CASE m = "none"
    BY <2>1, <2>2, <2>3, <2>4, <2>5, ReaderEnds DEF Held
  <2>6. CASE m = "oom"
    BY <1>3, <2>1, <2>2, <2>3, <2>4, <2>6
  <2>7. QED
    BY <2>4, <2>5, <2>6
<1>7. CASE Returned \/ UNCHANGED stringVars
  BY <1>2, <1>7 DEF Returned, stringVars, tokenVars, bufferVars
<1>8. QED
  BY <1>4, <1>5, <1>6, <1>7 DEF StringNext

(***************************************************************************)
(* readString is a token reader as far as it goes: it empties the buffer,  *)
(* ends once, in an outcome JsonParser allows for, and does nothing after. *)
(* That it ends is for the runs.                                           *)
(***************************************************************************)
THEOREM StringReadsOneToken == StringSpec => Reader!Init /\ [][Reader!Next]_Reader!vars
<1>1. StringInit => Reader!Init
  BY DEF StringInit, BufferInit, Held, Reader!Init, Reader!Buffer
<1>2. QED
  BY <1>1, LexInvariant, ReaderStep, PTL DEF StringSpec
=============================================================================
