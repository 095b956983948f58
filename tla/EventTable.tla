----------------------------- MODULE EventTable -----------------------------
(***************************************************************************)
(* The specification of scripts/state-machine.py: the events of json_next, *)
(* and those allowed in each state a caller can tell apart.                *)
(***************************************************************************)
Value    == {"object", "array", "string", "number", "true", "false", "null"}
Closing  == {"object_end", "array_end"}
Event    == Value \union Closing \union {"done", "error"}

(* SPEC: the states of the top level, of an object and of an array.  After *)
(* an error, wherever it is, there is only ERROR.                          *)
TopSpec ==
  [START       |-> Value \union {"done", "error"},
   AFTER_VALUE |-> {"done", "error"},
   DONE        |-> {"done"},
   DONE_RESET  |-> Value \union {"done", "error"}]
ObjectSpec ==
  [EMPTY       |-> {"string", "object_end", "error"},
   AFTER_KEY   |-> Value \union {"error"},
   AFTER_VALUE |-> {"string", "object_end", "error"}]
ArraySpec ==
  [EMPTY       |-> Value \union {"array_end", "error"},
   AFTER_VALUE |-> Value \union {"array_end", "error"}]
=============================================================================
