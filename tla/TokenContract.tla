--------------------------- MODULE TokenContract ---------------------------
(***************************************************************************)
(* What reading one token may come to, whatever bytes come and however the *)
(* allocator answers.  A reader either completes its token, or latches a   *)
(* diagnostic and leaves the buffer cut short.  A buffer that was never    *)
(* allocated may stay so, and then for want of memory only.                *)
(***************************************************************************)
Buffer == {"null", "cut", "string", "number"}

(* A slip: the token is delivered without its terminator. *)
OutcomesUnterminated(kind, before) ==
  {[value |-> kind, errmsg |-> "none", token |-> "cut"]}
    \union {[value |-> "error", errmsg |-> m, token |-> "cut"] : m \in {"oom", "syntax"}}

Outcomes(kind, before) ==
  {[value |-> kind, errmsg |-> "none", token |-> kind]}
    \union {[value |-> "error", errmsg |-> m, token |-> "cut"] : m \in {"oom", "syntax"}}
    \union (IF before = "null"
              THEN {[value |-> "error", errmsg |-> "oom", token |-> "null"]} ELSE {})
=============================================================================
