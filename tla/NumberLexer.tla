---------------------------- MODULE NumberLexer ----------------------------
(***************************************************************************)
(* Reading one number: the digit case of readValue, readNumber and         *)
(* readDigits.  A step reads a byte, peeks at one, or writes one to the    *)
(* token buffer; bytes are the classes readNumber tells apart.             *)
(*                                                                         *)
(* The source answers as it likes, except that a byte it has shown to a    *)
(* peek is the byte the next get returns, and that the end stays the end.  *)
(***************************************************************************)
EXTENDS TokenBuffer

CONSTANT MaxBytes   \* bound: bytes of the number

Byte   == {"-", "+", "0", "1-9", ".", "e", "nul", "other"}
Digits == {"0", "1-9"}
EOF    == "eof"

ASSUME NumberCells == Cell = Byte /\ Nul = "nul"

VARIABLES
  pc,       \* the next step of readNumber
  ahead,    \* what the last peek saw, "none" once it is consumed
  read,     \* the bytes consumed, from the one readValue was given
  return,   \* in readDigits: where readNumber goes on after it
  nread,    \* in readDigits: has it read a digit
  value     \* what readValue returned

numberVars == <<tokenVars, pc, ahead, read, return, nread, value>>

(* The buffer as an earlier token may have left it, or failed to make it. *)
StaleBuffer ==
  \/ BufferInit
  \/ /\ allocated = FALSE /\ string = [i \in {} |-> Unwritten]
     /\ stringFill = 0 /\ stringSize = InitialSize
  \/ /\ allocated = TRUE /\ stringFill = 1 /\ stringSize = InitialSize
     /\ string = [i \in 0 .. InitialSize - 1 |-> IF i = 0 THEN "other" ELSE Unwritten]

NumberInit ==
  /\ StaleBuffer
  /\ errmsg = "none" /\ lexing = "none"
  /\ pc = "init"
  /\ ahead \in {"-"} \union Digits       \* the byte readValue was given
  /\ read = <<>>
  /\ return = "none" /\ nread = FALSE
  /\ value = "none"

-----------------------------------------------------------------------------
(* srcPeek and srcGet. *)
Answers == IF Len(read) < MaxBytes THEN Byte \union {EOF} ELSE {EOF}
Shown   == IF ahead = "none" THEN Answers ELSE {ahead}

PeekThen(c, label) ==
  /\ c \in Shown
  /\ ahead' = c
  /\ pc' = label
  /\ UNCHANGED <<tokenVars, read, value>>

Consume(c) ==
  /\ c \in Shown
  /\ ahead' = IF c = EOF THEN EOF ELSE "none"
  /\ read' = IF c = EOF THEN read ELSE Append(read, c)

(* A slip: the error is returned and not recorded. *)
RejectSilently ==
  /\ value' = "error" /\ pc' = "returned"
  /\ UNCHANGED <<tokenVars>>

(* errStr and errChar. *)
Reject ==
  /\ errmsg' = "syntax" /\ value' = "error" /\ pc' = "returned"
  /\ UNCHANGED <<bufferVars, lexing>>

PushThen(c, label) ==
  \E m \in Message :
    /\ PushChar(c, m)
    /\ errmsg' = m
    /\ UNCHANGED lexing
    /\ IF m = "none" THEN pc' = label /\ UNCHANGED value
                     ELSE pc' = "returned" /\ value' = "error"

(* srcGet followed by pushchar of what it returned. *)
TakeThen(c, label) == Consume(c) /\ PushThen(c, label)

InDigits(label) == return' = label /\ nread' = FALSE
KeepDigits      == UNCHANGED <<return, nread>>

-----------------------------------------------------------------------------
InitBuffer ==
  /\ pc = "init"
  /\ \E m \in Message :
       /\ InitString(m)
       /\ errmsg' = m
       /\ IF m = "none" THEN pc' = "first" /\ UNCHANGED value
                        ELSE pc' = "returned" /\ value' = "error"
  /\ lexing' = "cut"
  /\ UNCHANGED <<ahead, read>> /\ KeepDigits

(* A slip: digits may follow a leading zero. *)
FirstAnyDigit ==
  /\ pc = "first"
  /\ \E c \in Byte : TakeThen(c, IF c = "-" THEN "sign" ELSE "integer")
  /\ KeepDigits

First ==
  /\ pc = "first"
  /\ \E c \in Byte : TakeThen(c, CASE c = "-" -> "sign"
                                   [] c = "0" -> "point"
                                   [] OTHER   -> "integer")
  /\ KeepDigits

AfterSign ==
  /\ pc = "sign"
  /\ \/ \E c \in Digits : TakeThen(c, IF c = "0" THEN "point" ELSE "integer")
     \/ \E c \in Answers \ Digits : Consume(c) /\ Reject
  /\ KeepDigits

Integer ==
  /\ pc = "integer"
  /\ \E c \in Shown :
       IF c \in Digits
         THEN PeekThen(c, "digits") /\ InDigits("point")
         ELSE PeekThen(c, "point") /\ KeepDigits

(* readDigits: one turn of its loop. *)
ReadDigits ==
  /\ pc = "digits"
  /\ \/ \E c \in Digits : TakeThen(c, "digits") /\ nread' = TRUE /\ UNCHANGED return
     \/ \E c \in Shown \ Digits :
          IF nread THEN PeekThen(c, return) /\ KeepDigits
          ELSE Reject /\ ahead' = c /\ UNCHANGED read /\ KeepDigits

Point ==
  /\ pc = "point"
  /\ \/ TakeThen(".", "digits") /\ InDigits("exponent")
     \/ \E c \in {"e", Nul}  : PeekThen(c, "exponent") /\ KeepDigits
     \/ \E c \in Shown \ {".", "e", Nul} : PeekThen(c, "end") /\ KeepDigits

Exponent ==
  /\ pc = "exponent"
  /\ \/ TakeThen("e", "power")
     \/ \E c \in Shown \ {"e"} : PeekThen(c, "end")
  /\ KeepDigits

(* A slip: the exponent must have a sign. *)
PowerSigned ==
  /\ pc = "power"
  /\ \/ \E c \in {"+", "-"} : TakeThen(c, "digits") /\ InDigits("end")
     \/ \E c \in Shown \ {"+", "-"} :
          Reject /\ ahead' = c /\ UNCHANGED read /\ KeepDigits

Power ==
  /\ pc = "power"
  /\ \/ \E c \in {"+", "-"} : TakeThen(c, "digits") /\ InDigits("end")
     \/ \E c \in Digits : PeekThen(c, "digits") /\ InDigits("end")
     \/ \E c \in Shown \ ({"+", "-"} \union Digits) :
          Reject /\ ahead' = c /\ UNCHANGED read /\ KeepDigits

Terminate ==
  /\ pc = "end"
  /\ \E m \in Message :
       /\ PushChar(Nul, m)
       /\ errmsg' = m
       /\ value' = IF m = "none" THEN "number" ELSE "error"
       /\ lexing' = IF m = "none" THEN "complete" ELSE "cut"
  /\ pc' = "returned"
  /\ UNCHANGED <<ahead, read>> /\ KeepDigits

(* The call has returned; nothing more of it happens. *)
Returned == pc = "returned" /\ UNCHANGED numberVars

NumberNext ==
  \/ InitBuffer \/ First \/ AfterSign \/ Integer \/ ReadDigits
  \/ Point \/ Exponent \/ Power \/ Terminate \/ Returned

(* The calling thread runs the call to its end. *)
NumberSpec == NumberInit /\ [][NumberNext]_numberVars /\ WF_numberVars(NumberNext)

-----------------------------------------------------------------------------
(***************************************************************************)
(* The numbers of RFC 8259, section 6, as an automaton: what a byte does   *)
(* to a prefix that has reached a state, and where a number may end.       *)
(***************************************************************************)
Rfc8259(state, c) ==
  CASE state = "start"    /\ c = "-"          -> "minus"
    [] state \in {"start", "minus"} /\ c = "0"   -> "zero"
    [] state \in {"start", "minus"} /\ c = "1-9" -> "int"
    [] state = "int"      /\ c \in Digits     -> "int"
    [] state \in {"zero", "int"} /\ c = "."   -> "point"
    [] state \in {"point", "frac"} /\ c \in Digits -> "frac"
    [] state \in {"zero", "int", "frac"} /\ c = "e" -> "e"
    [] state = "e"        /\ c \in {"+", "-"} -> "sign"
    [] state \in {"e", "sign", "exp"} /\ c \in Digits -> "exp"
    [] OTHER -> "dead"

Final == {"zero", "int", "frac", "exp"}
Run == LET run[n \in 0 .. Len(read)] ==
             IF n = 0 THEN "start" ELSE Rfc8259(run[n - 1], read[n])
       IN  run
Reached == Run[Len(read)]

NumberTypeOK ==
  /\ BufferTypeOK
  /\ pc \in {"init", "first", "sign", "integer", "digits", "point", "exponent",
             "power", "end", "returned"}
  /\ ahead \in Byte \union {EOF, "none"}
  /\ read \in Seq(Byte) /\ Len(read) <= MaxBytes + 1
  /\ return \in {"none", "point", "exponent", "end"}
  /\ nread \in BOOLEAN
  /\ value \in {"none", "number", "error"}

(***************************************************************************)
(* A NUMBER event is a number of RFC 8259, the longest the input starts    *)
(* with, and the buffer holds exactly the bytes consumed, terminated.      *)
(***************************************************************************)
NumberIsLongest ==
  value = "number" =>
    /\ Reached \in Final
    /\ Rfc8259(Reached, ahead) = "dead"
    /\ Text = Append(read, Nul)

(***************************************************************************)
(* A diagnostic other than "out of memory" means that no number of RFC     *)
(* 8259 starts with what was consumed and the byte seen after it: the      *)
(* lexer, which never backs up, gives up only on what is not a number.     *)
(***************************************************************************)
RejectsOnlyNonNumbers ==
  errmsg = "syntax" =>
    \/ Reached = "dead"
    \/ Reached \notin Final /\ ahead = EOF
    \/ Rfc8259(Reached, ahead) = "dead" /\ Reached \notin Final

(* The lexer writes the buffer only as TokenBuffer says it is written. *)
DrivesTokenBuffer == [][TokenNext]_tokenVars

(* The lexer is a token reader, and its call returns. *)
Held == IF ~allocated THEN "null" ELSE IF value = "number" THEN "number" ELSE "cut"
Reader == INSTANCE TokenReader WITH Kind <- "number", token <- Held
RefinesTokenReader == Reader!Spec
=============================================================================
