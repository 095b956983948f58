---------------------------- MODULE TokenBuffer ----------------------------
(***************************************************************************)
(* data.string of struct json_stream: the buffer strings and numbers are   *)
(* lexed into.  It is allocated at the first token, doubled when it is     *)
(* full, kept from one token to the next, and never cleared: what a slot   *)
(* above the fill mark holds is whatever an earlier token left there, or   *)
(* Unwritten.  StringLexer and NumberLexer write their tokens into it.     *)
(***************************************************************************)
EXTENDS Integers, Sequences

CONSTANTS
  Cell,          \* the bytes lexers write
  Nul,           \* the byte 0
  Unwritten,     \* what malloc and realloc leave in a byte
  InitialSize,   \* abi.string_initial_size
  BufferMax      \* the largest usize, above which a doubled size wraps

ASSUME BufferAssumption ==
  /\ Nul \in Cell /\ Unwritten \notin Cell
  /\ InitialSize \in Nat \ {0}
  /\ BufferMax \in Nat
  /\ InitialSize <= BufferMax

VARIABLES
  allocated,    \* is the pointer non-null
  string,       \* the block: a function over its indices
  stringFill,   \* bytes of the current token
  stringSize,   \* what the code takes the size of the block to be
  errmsg        \* the latched diagnostic

bufferVars == <<allocated, string, stringFill, stringSize>>

Message == {"none", "oom", "syntax"}

(* A slip: the fill mark of the last token is kept. *)
InitStringKeepingFill(m) ==
  /\ m = "none"
  /\ allocated' = TRUE
  /\ stringSize' = IF allocated THEN stringSize ELSE InitialSize
  /\ string' = IF allocated THEN string
               ELSE [i \in 0 .. InitialSize - 1 |-> IF i = 0 THEN Nul ELSE Unwritten]
  /\ UNCHANGED stringFill

(***************************************************************************)
(* initString.  The size is set before malloc is asked, so a refusal       *)
(* leaves a size with no block; only the null pointer tells the next token *)
(* to ask again.                                                           *)
(***************************************************************************)
InitString(m) ==
  /\ stringFill' = 0
  /\ \/ /\ allocated /\ m = "none"
        /\ string' = [string EXCEPT ![0] = Nul]
        /\ UNCHANGED <<allocated, stringSize>>
     \/ /\ ~allocated /\ m = "none"
        /\ allocated' = TRUE /\ stringSize' = InitialSize
        /\ string' = [i \in 0 .. InitialSize - 1 |-> IF i = 0 THEN Nul ELSE Unwritten]
     \/ /\ ~allocated /\ m = "oom"
        /\ stringSize' = InitialSize
        /\ UNCHANGED <<allocated, string>>

Full == stringFill = stringSize

(* A slip: the text so far is not copied. *)
DoubledAfresh == [i \in 0 .. 2 * stringSize - 1 |-> Unwritten]

Written(block, b) == [block EXCEPT ![stringFill] = b]

Doubled == [i \in 0 .. 2 * stringSize - 1 |->
              IF i < stringSize THEN string[i] ELSE Unwritten]

(* pushchar and pushcharSlow; m is the diagnostic, "none" on success. *)
PushChar(b, m) ==
  \/ /\ ~Full /\ allocated /\ m = "none"
     /\ string' = Written(string, b)
     /\ stringFill' = stringFill + 1
     /\ UNCHANGED <<allocated, stringSize>>
  \/ /\ Full /\ m = "none"
     /\ 2 * stringSize <= BufferMax
     /\ stringSize' = 2 * stringSize
     /\ string' = Written(Doubled, b)
     /\ stringFill' = stringFill + 1
     /\ allocated' = TRUE
  \/ /\ Full \/ ~allocated
     /\ m = "oom"
     /\ UNCHANGED bufferVars

-----------------------------------------------------------------------------
VARIABLE lexing   \* "none", "cut" while a token is incomplete, "complete"

tokenVars == <<bufferVars, errmsg, lexing>>

BufferInit ==
  /\ allocated = FALSE
  /\ string = [i \in {} |-> Unwritten]
  /\ stringFill = 0 /\ stringSize = 0

TokenInit == BufferInit /\ errmsg = "none" /\ lexing = "none"

(* The buffer as the lexers drive it. *)
BeginToken ==
  /\ errmsg = "none" /\ lexing # "cut"
  /\ \E m \in Message : InitString(m) /\ errmsg' = m
  /\ lexing' = "cut"

WriteByte ==
  /\ errmsg = "none" /\ lexing = "cut"
  /\ \E b \in Cell, m \in Message : PushChar(b, m) /\ errmsg' = m
  /\ UNCHANGED lexing

(* A slip: no terminator is written. *)
EndTokenUnterminated ==
  /\ errmsg = "none" /\ lexing = "cut"
  /\ lexing' = "complete"
  /\ UNCHANGED <<bufferVars, errmsg>>

(* The closing pushchar(0) of readString and readNumber. *)
EndToken ==
  /\ errmsg = "none" /\ lexing = "cut"
  /\ \E m \in Message :
       /\ PushChar(Nul, m) /\ errmsg' = m
       /\ lexing' = IF m = "none" THEN "complete" ELSE "cut"

CutToken ==
  /\ errmsg = "none" /\ lexing = "cut"
  /\ errmsg' = "syntax"
  /\ UNCHANGED <<bufferVars, lexing>>

(* reset clears the error; the buffer keeps its contents. *)
ResetToken ==
  /\ errmsg # "none"
  /\ errmsg' = "none" /\ lexing' = "none"
  /\ UNCHANGED bufferVars

TokenNext == BeginToken \/ WriteByte \/ EndToken \/ CutToken \/ ResetToken

TokenSpec == TokenInit /\ [][TokenNext]_tokenVars

-----------------------------------------------------------------------------
BufferTypeOK ==
  /\ allocated \in BOOLEAN
  /\ stringSize \in 0 .. BufferMax
  /\ stringFill \in 0 .. stringSize
  /\ string \in [0 .. (IF allocated THEN stringSize ELSE 0) - 1 -> Cell \union {Unwritten}]
  /\ errmsg \in Message
  /\ lexing \in {"none", "cut", "complete"}

(***************************************************************************)
(* Every byte below the fill mark was written for the current token or an  *)
(* earlier one.  getNumber and getStringSlice read exactly those bytes, so *)
(* they never see what malloc or realloc left in the block.                *)
(***************************************************************************)
FilledBytesWritten ==
  /\ stringFill > 0 => allocated
  /\ \A i \in 0 .. stringFill - 1 : string[i] \in Cell

(***************************************************************************)
(* The token a STRING or NUMBER event leaves is terminated by the last     *)
(* byte json_get_string counts, so that a C caller may read it as text and *)
(* getNumber finds its end.                                                *)
(***************************************************************************)
CompleteTokenTerminated ==
  lexing = "complete" => stringFill > 0 /\ string[stringFill - 1] = Nul

(***************************************************************************)
(* "The buffer carries a NUL by construction": whenever the lexer has      *)
(* returned, so that a caller may ask for the string, reading the block    *)
(* from its start reaches a NUL before a byte nobody wrote or its end.     *)
(***************************************************************************)
CallerHasControl == lexing = "cut" => errmsg # "none"

BufferCarriesNul ==
  CallerHasControl /\ allocated => \E i \in 0 .. stringSize - 1 :
                  string[i] = Nul /\ \A j \in 0 .. i : string[j] # Unwritten

Text == [i \in 1 .. stringFill |-> string[i - 1]]
Token == INSTANCE TokenText WITH Byte <- Cell, text <- Text,
                                 failed <- (errmsg # "none")
RefinesTokenText == Token!Spec
=============================================================================
