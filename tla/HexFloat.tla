------------------------------ MODULE HexFloat ------------------------------
(***************************************************************************)
(* Hexadecimal floats: parseHexFloat of src/strtod.zig, which keeps as     *)
(* many digits as its accumulator holds and whether it dropped a non-zero  *)
(* one, and the reference of scripts/hexfloat_oracle.py, which keeps all.  *)
(* The format, the digits, the accumulator and the integers the exponent   *)
(* is kept in have their sizes as parameters; the signs are left out.      *)
(*                                                                         *)
(* A float is given as a whole number of units of the smallest subnormal.  *)
(***************************************************************************)
EXTENDS Integers

CONSTANTS
  DigitBits,     \* of a digit (4)
  AccBits,       \* of the accumulator (128)
  MantBits,      \* of the significand (53)
  EMax,          \* exponent of the largest normal (1023)
  ExpCap,        \* where the exponent written is held (1 << 30)
  IntLimit,      \* one above the largest i32 (2^31)
  Powers,        \* bound: the exponents written that are tried
  MaxDigits      \* bound: digits of a literal

ASSUME HexAssumption ==
  /\ DigitBits \in Nat \ {0} /\ AccBits \in Nat /\ MantBits \in Nat \ {0, 1} /\ EMax \in Nat \ {0}
  /\ AccBits >= MantBits + 2 + DigitBits - 1
  /\ Powers \subseteq Int /\ MaxDigits \in Nat
  /\ ExpCap \in Nat /\ DigitBits * MaxDigits + EMax + MantBits <= ExpCap + 1
  /\ IntLimit \in Nat /\ DigitBits * MaxDigits + ExpCap < IntLimit

VARIABLES
  mantissa, sticky, fracDigits, droppedDigits, seenPoint,   \* of parseHexFloat
  exact, exactDigits                                        \* of parse_hex_float

hexVars == <<mantissa, sticky, fracDigits, droppedDigits, seenPoint, exact, exactDigits>>

Pow2[n \in Nat] == IF n = 0 THEN 1 ELSE 2 * Pow2[n - 1]

EMin         == 1 - EMax
SubnormalUlp == EMin - (MantBits - 1)
Base         == Pow2[DigitBits]

Larger(a, b) == IF a > b THEN a ELSE b

BitLength(n) == CHOOSE k \in 0 .. AccBits + DigitBits * MaxDigits :
                  n < Pow2[k] /\ (k = 0 \/ Pow2[k - 1] <= n)

HexInit ==
  /\ mantissa = 0 /\ sticky = FALSE /\ fracDigits = 0 /\ droppedDigits = 0
  /\ seenPoint = FALSE
  /\ exact = 0 /\ exactDigits = 0

Room == (Pow2[AccBits] - 1 - (Base - 1)) \div Base

ReadDigit ==
  /\ exactDigits < MaxDigits
  /\ \E d \in 0 .. Base - 1 :
       /\ exact' = exact * Base + d
       /\ IF mantissa <= Room
            THEN mantissa' = mantissa * Base + d /\ UNCHANGED <<sticky, droppedDigits>>
            ELSE /\ sticky' = (sticky \/ d # 0)
                 /\ droppedDigits' = droppedDigits + 1
                 /\ UNCHANGED mantissa
  /\ exactDigits' = exactDigits + 1
  /\ fracDigits' = IF seenPoint THEN fracDigits + 1 ELSE fracDigits
  /\ UNCHANGED seenPoint

ReadPoint ==
  /\ ~seenPoint /\ seenPoint' = TRUE
  /\ UNCHANGED <<mantissa, sticky, fracDigits, droppedDigits, exact, exactDigits>>

HexNext == ReadDigit \/ ReadPoint

HexSpec == HexInit /\ [][HexNext]_hexVars

-----------------------------------------------------------------------------
Infinity == Pow2[EMax + 1 - SubnormalUlp]

(* A slip: what was dropped is forgotten at a tie. *)
RoundsUpAtTie(m, lost, half, more) == lost > half \/ (lost = half /\ m % 2 = 1)

(* Whether the part of m cut off makes it go up. *)
RoundsUp(m, lost, half, more) == lost > half \/ (lost = half /\ (more \/ m % 2 = 1))

(* roundToF64, for m # 0: where the leading bit is, where the last place of
   the result is, how far m is from it, and m in units of it. *)
ValueExp(m, exp2) == exp2 + BitLength(m) - 1

UlpExp(m, exp2) == Larger(SubnormalUlp, ValueExp(m, exp2) - (MantBits - 1))

Shift(m, exp2) == UlpExp(m, exp2) - exp2

Units(m, more, exp2) ==
  LET shift == Shift(m, exp2)
      kept  == m \div Pow2[shift]
  IN  IF shift <= 0 THEN m * Pow2[-shift]
      ELSE IF RoundsUp(kept, m % Pow2[shift], Pow2[shift - 1], more) THEN kept + 1
      ELSE kept

Overflows(m, exp2)  == ValueExp(m, exp2) >= EMax + 1
Underflows(m, exp2) == ValueExp(m, exp2) < SubnormalUlp - 1

RoundToF64(m, more, exp2) ==
  IF Overflows(m, exp2)       THEN Infinity
  ELSE IF Underflows(m, exp2) THEN 0
  ELSE Units(m, more, exp2) * Pow2[UlpExp(m, exp2) - SubnormalUlp]

(* A slip: an exponent that the digits would have brought back is lost. *)
ClampedAtTheFormat(p) ==
  IF p > EMax THEN EMax + 1 ELSE IF p < SubnormalUlp THEN SubnormalUlp - 1 ELSE p

(* The exponent written, held at the cap as its digits are read. *)
Clamped(p) == IF p > ExpCap THEN ExpCap ELSE IF p < -ExpCap THEN -ExpCap ELSE p

(* parseHexFloat, when the digits are followed by the exponent p: the places
   of the digits, and what is written. *)
Places == -(DigitBits * fracDigits) + DigitBits * droppedDigits

Exp2(p) == Places + Clamped(p)

Converted(p) == IF mantissa = 0 THEN 0 ELSE RoundToF64(mantissa, sticky, Exp2(p))

OracleUlp(msb) == Larger(SubnormalUlp, msb - (MantBits - 1))

(* round_to_binary64: a bit pattern. *)
RoundToBinary64(m, exponent) ==
  LET msb      == BitLength(m) - 1 + exponent
      ulp      == OracleUlp(msb)
      shift    == ulp - exponent
      quotient == IF shift <= 0 THEN m * Pow2[-shift] ELSE m \div Pow2[shift]
      rest     == IF shift <= 0 THEN 0 ELSE m % Pow2[shift]
      half     == IF shift <= 0 THEN 1 ELSE Pow2[shift - 1]
      rounded  == IF rest > half \/ (rest = half /\ quotient % 2 = 1)
                    THEN quotient + 1 ELSE quotient
      drop     == Larger(0, BitLength(rounded) - MantBits)
      whole    == rounded \div Pow2[drop]
      top      == ulp + drop + BitLength(whole) - 1
      lead     == BitLength(whole) - 1
      infinite == (2 * EMax + 1) * Pow2[MantBits - 1]
  IN  IF m = 0 \/ msb < SubnormalUlp - 1 THEN 0
      ELSE IF msb > EMax + 1             THEN infinite
      ELSE IF rounded = 0                THEN 0
      ELSE IF top > EMax                 THEN infinite
      ELSE IF top < EMin                 THEN whole
      ELSE (top + EMax) * Pow2[MantBits - 1]
             + (whole - Pow2[lead]) * Pow2[MantBits - 1 - lead]

-----------------------------------------------------------------------------
(* IEEE 754, from its definition: the floats, infinity standing for the    *)
(* power of two above the largest; those whose significand is even; what a *)
(* bit pattern stands for; and which is nearest to m * 2^e, of two as near *)
(* the even one.                                                           *)
Significands == 0 .. Pow2[MantBits] - 1

Floats == {m * Pow2[k] : m \in Significands, k \in 0 .. EMax - EMin} \union {Infinity}

EvenFloats == {m * Pow2[k] : m \in {n \in Significands : n % 2 = 0}, k \in 0 .. EMax - EMin}
                \union {Infinity}

Unpacked(bits) ==
  LET hidden   == Pow2[MantBits - 1]
      exponent == bits \div hidden
      fraction == bits % hidden
  IN  IF exponent = 0 THEN fraction ELSE (hidden + fraction) * Pow2[exponent - 1]

Apart(a, b) == IF a <= b THEN b - a ELSE a - b

(* ulp and value are in a unit that both are whole in. *)
IsNearestTo(x, value, ulp) ==
  /\ x \in Floats
  /\ \A y \in Floats :
       \/ y = x
       \/ Apart(x * ulp, value) < Apart(y * ulp, value)
       \/ Apart(x * ulp, value) = Apart(y * ulp, value) /\ x \in EvenFloats

IsNearest(x, m, e) ==
  LET unit == IF e < SubnormalUlp THEN e ELSE SubnormalUlp
  IN  IsNearestTo(x, m * Pow2[e - unit], Pow2[SubnormalUlp - unit])

(* What an i32 holds; outside it the arithmetic of the program is undefined. *)
I32 == -IntLimit .. IntLimit - 1

(* Every i32 on the way to the exponent of the leading bit: the two counters,
   the two products and their sum, the exponent narrowed, the sum with it, and
   the sum with the bits of the digits, before and after the one is taken. *)
ExponentFits(p) ==
  mantissa # 0 =>
    {fracDigits, droppedDigits, -(DigitBits * fracDigits), DigitBits * droppedDigits,
     Places, Clamped(p), Exp2(p), Exp2(p) + BitLength(mantissa),
     ValueExp(mantissa, Exp2(p))} \subseteq I32

(* What roundToF64 takes for granted where it narrows an integer: a shift is
   never more than the bits of the accumulator, to the right, or less than
   those of the significand, to the left, and the units are at most 2^53. *)
RoundingFits(m, more, exp2) ==
  \/ m = 0 \/ Overflows(m, exp2) \/ Underflows(m, exp2)
  \/ /\ Shift(m, exp2) <= AccBits /\ -Shift(m, exp2) < MantBits
     /\ Units(m, more, exp2) <= Pow2[MantBits]

(***************************************************************************)
(* The port rounds once and to nearest, whatever digits it had to drop:    *)
(* over the largest and the smallest floats and every tie between two,     *)
(* which is what std.fmt.parseFloat was replaced for.  Holding the         *)
(* exponent written at a cap changes no float, and every 32-bit sum or     *)
(* product made of it, and every integer narrowed in the rounding, is in   *)
(* range, as long as a literal has no more than MaxDigits digits.  The     *)
(* reference it is tested against, whose rounding is a second piece of     *)
(* arithmetic down to the bit pattern on integers without a size, gives    *)
(* the same float.                                                         *)
(***************************************************************************)
HexFloatsRoundToNearest ==
  exactDigits > 0 =>
    \A p \in Powers :
      /\ ExponentFits(p) /\ RoundingFits(mantissa, sticky, Exp2(p))
      /\ IsNearest(Converted(p), exact, p - DigitBits * fracDigits)
      /\ Unpacked(RoundToBinary64(exact, p - DigitBits * fracDigits)) = Converted(p)
=============================================================================
