---------------------------- MODULE TokenReader ----------------------------
(***************************************************************************)
(* The abstract specification of a token reader: it may first empty the    *)
(* buffer, and then ends in one of the outcomes of TokenContract.          *)
(* StringLexer and NumberLexer implement it, each for its kind of token;   *)
(* JsonParser relies on the outcomes and on nothing else of a lexer.       *)
(***************************************************************************)
EXTENDS TokenContract

CONSTANT Kind   \* the kind of token it reads

VARIABLES
  token,    \* the buffer: what a complete token in it was, "cut" or "null"
  value,    \* what the reader returned, "none" while it reads
  errmsg    \* the diagnostic it latched

vars == <<token, value, errmsg>>

Init ==
  /\ token \in Buffer
  /\ value = "none" /\ errmsg = "none"

(* initString has emptied or allocated the buffer; nothing is decided yet. *)
Begin ==
  /\ value = "none"
  /\ token' = "cut"
  /\ UNCHANGED <<value, errmsg>>

Finish ==
  /\ value = "none"
  /\ \E o \in Outcomes(Kind, token) :
       value' = o.value /\ errmsg' = o.errmsg /\ token' = o.token

Next == Begin \/ Finish

Spec == Init /\ [][Next]_vars /\ <>(value # "none")
=============================================================================
