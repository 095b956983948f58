---------------------------- MODULE StringLexer ----------------------------
(***************************************************************************)
(* Reading one string: readString with readEscaped, readUnicode,           *)
(* readUnicodeCp and readUtf8.  A step reads one byte, or writes one to    *)
(* the token buffer; the source gives any byte of Bytes or ends, and then  *)
(* has ended.  The functions a byte is read in are the labels of pc, and   *)
(* their locals are variables.                                             *)
(***************************************************************************)
EXTENDS TokenBuffer, Utf8

CONSTANTS
  Bytes,      \* the bytes the source gives in the first character
  MoreBytes,  \* and in the characters after it
  MaxChars    \* bound: characters of the string

ASSUME StringCells == Cell = Octet /\ Nul = 0 /\ Bytes \union MoreBytes \subseteq Octet

EOF == -1

VARIABLES
  pc,       \* the next step of readString
  chars,    \* characters the source still gives before it ends
  unit,     \* the bytes of the character being read, as they were consumed
  mark,     \* stringFill when that character began
  cp,       \* readUnicodeCp: the digits so far
  digits,   \* readUnicodeCp: how many of them are missing
  high,     \* readUnicode: the high half of a pair, 0 while there is none
  buffer,   \* readUtf8's buffer; bytes still to be pushed
  value     \* what readString returned

locals     == <<cp, digits, high, buffer>>
stringVars == <<tokenVars, pc, chars, unit, mark, locals, value>>

StringInit ==
  /\ \/ BufferInit
     \/ /\ allocated = FALSE /\ string = [i \in {} |-> Unwritten]
        /\ stringFill = 0 /\ stringSize = InitialSize
     \/ /\ allocated = TRUE /\ stringFill = 1 /\ stringSize = InitialSize
        /\ string = [i \in 0 .. InitialSize - 1 |-> IF i = 0 THEN 255 ELSE Unwritten]
  /\ errmsg = "none" /\ lexing = "none"
  /\ pc = "init" /\ chars = MaxChars
  /\ unit = <<>> /\ mark = 0
  /\ cp = 0 /\ digits = 0 /\ high = 0 /\ buffer = <<>>
  /\ value = "none"

-----------------------------------------------------------------------------
(* srcGet, at the first byte of a character and inside one. *)
Given(left) == (IF left = MaxChars THEN Bytes ELSE MoreBytes) \union {EOF}
Inside == Given(chars + 1)
Get(c, s) == unit' = Append(s, c)

(* A slip: the error is returned and not recorded. *)
RejectSilently ==
  /\ value' = "error" /\ pc' = "returned"
  /\ UNCHANGED <<tokenVars, locals>>

Reject ==
  /\ errmsg' = "syntax" /\ value' = "error" /\ pc' = "returned"
  /\ UNCHANGED <<bufferVars, lexing, locals>>

GoTo(label) == pc' = label /\ UNCHANGED <<tokenVars, value>>

PushThen(c, label) ==
  \E m \in Message :
    /\ PushChar(c, m)
    /\ errmsg' = m
    /\ UNCHANGED lexing
    /\ IF m = "none" THEN pc' = label /\ UNCHANGED value
                     ELSE pc' = "returned" /\ value' = "error"

(* The bytes s are what the character came to: they are pushed one by one. *)
PushAll(s) ==
  /\ buffer' = s
  /\ UNCHANGED <<cp, digits, high>>
  /\ GoTo("push")

(* encodeUtf8, and its two refusals. *)
Encode(codepoint) ==
  IF EncodeUtf8(codepoint) = <<>> THEN Reject ELSE PushAll(EncodeUtf8(codepoint))

-----------------------------------------------------------------------------
InitBuffer ==
  /\ pc = "init"
  /\ \E m \in Message :
       /\ InitString(m)
       /\ errmsg' = m
       /\ IF m = "none" THEN pc' = "text" /\ UNCHANGED value
                        ELSE pc' = "returned" /\ value' = "error"
  /\ lexing' = "cut"
  /\ UNCHANGED <<chars, unit, mark, locals>>

(* charNeedsEscaping, for the bytes that reach it. *)
NeedsEscaping(c) == c < 32

(* The loop of readString. *)
Read ==
  /\ pc = "text"
  /\ mark' = stringFill
  /\ \E c \in IF chars = 0 THEN {EOF, 34} ELSE Given(chars) \union {34} :
       /\ Get(c, <<>>)
       /\ chars' = IF c = 34 THEN chars ELSE IF chars = 0 THEN 0 ELSE chars - 1
       /\ CASE c = EOF -> Reject
            [] c = 34  -> GoTo("end") /\ UNCHANGED locals
            [] c = 92  -> GoTo("escape") /\ UNCHANGED locals
            [] c >= 128 ->
                 IF Utf8SeqLength(c) = 0 THEN Reject
                 ELSE buffer' = <<c>> /\ UNCHANGED <<cp, digits, high>> /\ GoTo("tail")
            [] c \in 0 .. 127 \ {34, 92} ->
                 IF NeedsEscaping(c) THEN Reject
                 ELSE PushThen(c, "text") /\ UNCHANGED locals

(* readUtf8 fills its buffer before it looks; the end of the text is stored
   as the byte 0xFF. *)
ReadTail ==
  /\ pc = "tail"
  /\ \E c \in Inside :
       LET bytes == Append(buffer, c % 256) IN
       /\ Get(c, unit)
       /\ CASE Len(bytes) < Utf8SeqLength(bytes[1]) ->
                 buffer' = bytes /\ UNCHANGED <<cp, digits, high>> /\ GoTo("tail")
            [] Len(bytes) = Utf8SeqLength(bytes[1]) /\ IsLegalUtf8(bytes) -> PushAll(bytes)
            [] OTHER -> Reject
  /\ UNCHANGED <<chars, mark>>

ReadDigits == cp' = 0 /\ digits' = 4 /\ GoTo("hex")

(* A slip: a letter stands for itself. *)
UnescapedLetters(c) == IF c \in {34, 47, 92, 98, 102, 110, 114, 116} THEN c ELSE -1

Unescaped(c) ==
  CASE c \in {34, 47, 92} -> c
    [] c = 98  -> 8
    [] c = 102 -> 12
    [] c = 110 -> 10
    [] c = 114 -> 13
    [] c = 116 -> 9
    [] OTHER   -> -1

ReadEscaped ==
  /\ pc = "escape"
  /\ \E c \in Inside :
       /\ Get(c, unit)
       /\ IF c = 117 THEN high' = 0 /\ UNCHANGED buffer /\ ReadDigits
          ELSE IF Unescaped(c) = -1 THEN Reject
          ELSE PushThen(Unescaped(c), "text") /\ UNCHANGED locals
  /\ UNCHANGED <<chars, mark>>

(* readUnicodeCp, and what readUnicode does with its result. *)
ReadUnicodeCp ==
  /\ pc = "hex"
  /\ \E c \in Inside :
       LET new == cp * 16 + HexChar(c) IN
       /\ Get(c, unit)
       /\ CASE HexChar(c) = -1 -> Reject
            [] HexChar(c) # -1 /\ digits > 1 ->
                 cp' = new /\ digits' = digits - 1 /\ UNCHANGED <<high, buffer>> /\ GoTo("hex")
            [] HexChar(c) # -1 /\ digits = 1 /\ high = 0 ->
                 CASE IsHigh(new) ->
                        high' = new /\ UNCHANGED <<cp, digits, buffer>> /\ GoTo("low")
                   [] IsLow(new) -> Reject
                   [] OTHER      -> Encode(new)
            [] HexChar(c) # -1 /\ digits = 1 /\ high # 0 ->
                 IF IsLow(new) THEN Encode(FromPair(high, new)) ELSE Reject
  /\ UNCHANGED <<chars, mark>>

(* A high half: a backslash and a u must follow, and then the low half. *)
ReadLow ==
  /\ pc = "low"
  /\ \E c \in Inside :
       /\ Get(c, unit)
       /\ IF c = 92 THEN GoTo("low u") /\ UNCHANGED locals ELSE Reject
  /\ UNCHANGED <<chars, mark>>

ReadLowU ==
  /\ pc = "low u"
  /\ \E c \in Inside :
       /\ Get(c, unit)
       /\ IF c = 117 THEN ReadDigits /\ UNCHANGED <<high, buffer>> ELSE Reject
  /\ UNCHANGED <<chars, mark>>

PushBytes ==
  /\ pc = "push"
  /\ PushThen(Head(buffer), IF Len(buffer) = 1 THEN "text" ELSE "push")
  /\ buffer' = Tail(buffer)
  /\ UNCHANGED <<chars, unit, mark, cp, digits, high>>

(* A slip: no terminator is written. *)
TerminateWithout ==
  /\ pc = "end"
  /\ value' = "string" /\ lexing' = "complete" /\ pc' = "returned"
  /\ UNCHANGED <<bufferVars, errmsg, chars, unit, mark, locals>>

Terminate ==
  /\ pc = "end"
  /\ \E m \in Message :
       /\ PushChar(Nul, m)
       /\ errmsg' = m
       /\ value' = IF m = "none" THEN "string" ELSE "error"
       /\ lexing' = IF m = "none" THEN "complete" ELSE "cut"
  /\ pc' = "returned"
  /\ UNCHANGED <<chars, unit, mark, locals>>

(* The call has returned; nothing more of it happens. *)
Returned == pc = "returned" /\ UNCHANGED stringVars

StringNext ==
  \/ InitBuffer \/ Read \/ ReadTail \/ ReadEscaped \/ ReadUnicodeCp
  \/ ReadLow \/ ReadLowU \/ PushBytes \/ Terminate \/ Returned

(* The calling thread runs the call to its end. *)
StringSpec == StringInit /\ [][StringNext]_stringVars /\ WF_stringVars(StringNext)

-----------------------------------------------------------------------------
StringTypeOK ==
  /\ BufferTypeOK
  /\ pc \in {"init", "text", "tail", "escape", "hex", "low", "low u", "push",
             "end", "returned"}
  /\ chars \in 0 .. MaxChars
  /\ unit \in Seq(Octet \union {EOF}) /\ Len(unit) <= 12
  /\ mark \in 0 .. stringSize
  /\ cp \in 0 .. 65535 /\ digits \in 0 .. 4
  /\ high = 0 \/ IsHigh(high)
  /\ buffer \in Seq(Octet) /\ Len(buffer) <= 4
  /\ value \in {"none", "string", "error"}

(***************************************************************************)
(* Each character is written to the buffer as the well-formed UTF-8 of the *)
(* code point RFC 8259 says it denotes, be it written raw, as an escape or *)
(* as a surrogate pair, and never as more bytes than it was read from.     *)
(***************************************************************************)
CharacterIsDenoted ==
  pc = "text" /\ unit # <<>> =>
    LET written == SubSeq(Text, mark + 1, stringFill) IN
    /\ Is(unit, Character)
    /\ Is(written, Utf8Char) /\ Decoded(written) = Denoted(unit)
    /\ Len(written) <= Len(unit)

(***************************************************************************)
(* A diagnostic other than "out of memory" means the bytes consumed start  *)
(* no character of RFC 8259: the lexer refuses no string that is one, and  *)
(* "invalid codepoint" and "unable to encode", the two refusals of         *)
(* encodeUtf8, do not happen, readUnicode having sorted surrogates out.    *)
(***************************************************************************)
RejectsOnlyNonText ==
  errmsg = "syntax" => ~Starts(unit, Character)

(***************************************************************************)
(* The bytes of a STRING event, less the terminator json_get_string        *)
(* counts, are well-formed UTF-8 from the first to the last, across the    *)
(* growths of the buffer and whatever an earlier token left in it.         *)
(***************************************************************************)
StringIsWellFormed ==
  value = "string" =>
    LET wellFormed[n \in 0 .. stringFill - 1] ==
          n = 0 \/ \E k \in 1 .. 4 : /\ k <= n /\ wellFormed[n - k]
                                    /\ Is(SubSeq(Text, n - k + 1, n), Utf8Char)
    IN  Text[stringFill] = Nul /\ wellFormed[stringFill - 1]

(* The lexer writes the buffer only as TokenBuffer says it is written. *)
DrivesTokenBuffer == [][TokenNext]_tokenVars

(* The lexer is a token reader, and its call returns. *)
Held == IF ~allocated THEN "null" ELSE IF value = "string" THEN "string" ELSE "cut"
Reader == INSTANCE TokenReader WITH Kind <- "string", token <- Held
RefinesTokenReader == Reader!Spec
=============================================================================
