----------------------------- MODULE TokenText -----------------------------
(***************************************************************************)
(* What the token buffer promises the lexers: a text that starts empty at  *)
(* each token, grows by one byte at a time and is complete with its        *)
(* terminator, or a failure that loses nothing written so far.             *)
(* TokenBuffer implements it with a block that doubles.                    *)
(***************************************************************************)
EXTENDS Naturals, Sequences

CONSTANTS Byte, Nul

VARIABLES
  text,     \* the bytes of the current token
  lexing,   \* "none", "cut" while the token is incomplete, "complete"
  failed    \* an error is latched

vars == <<text, lexing, failed>>

Init == text = <<>> /\ lexing = "none" /\ failed = FALSE

(* There may be no memory for the first byte of all. *)
Begin ==
  /\ ~failed /\ lexing # "cut"
  /\ text' = <<>> /\ lexing' = "cut"
  /\ failed' \in BOOLEAN

Reading == ~failed /\ lexing = "cut"

Write ==
  /\ Reading
  /\ \E b \in Byte : text' = Append(text, b)
  /\ UNCHANGED <<lexing, failed>>

End ==
  /\ Reading
  /\ text' = Append(text, Nul) /\ lexing' = "complete"
  /\ UNCHANGED failed

Fail  == Reading /\ failed' = TRUE /\ UNCHANGED <<text, lexing>>
Reset == failed /\ failed' = FALSE /\ lexing' = "none" /\ UNCHANGED text

Next == Begin \/ Write \/ End \/ Fail \/ Reset

Spec == Init /\ [][Next]_vars
=============================================================================
