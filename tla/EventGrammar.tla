---------------------------- MODULE EventGrammar ----------------------------
(***************************************************************************)
(* The contract of json_next as scripts/state-machine.py states it: ten    *)
(* states a caller can tell apart and the events EventTable allows each.   *)
(* The script walks recorded transcripts through the table; here the table *)
(* is the next-state relation of a pushdown machine whose stack is the     *)
(* containers the events have opened and whose states are the script's.    *)
(* JsonParser implements it.                                               *)
(***************************************************************************)
EXTENDS EventTable, Naturals, Sequences

VARIABLES
  open,     \* the containers opened by the events so far, outermost first
  top,      \* where the top level is: "START", "AFTER_VALUE" or "DONE"
  failed,   \* an ERROR event has latched
  emitted   \* the last event, "none" after a reset

vars == <<open, top, failed, emitted>>

Inner == open[Len(open)]

(* The row of SPEC for where the innermost container is. *)
Allowed ==
  IF failed THEN {"error"}
  ELSE IF open = <<>> THEN TopSpec[top]
  ELSE IF Inner.type = "object" THEN ObjectSpec[Inner.phase]
  ELSE ArraySpec[Inner.phase]

(* state_of: where the innermost container is once it has taken a value. *)
PhaseAfter(frame) ==
  IF frame.type = "object" /\ frame.phase # "AFTER_KEY" THEN "AFTER_KEY"
  ELSE "AFTER_VALUE"

Entered ==
  IF open = <<>> THEN <<>>
  ELSE [open EXCEPT ![Len(open)].phase = PhaseAfter(Inner)]

OpenAfter(e) ==
  CASE e \in Closing             -> SubSeq(open, 1, Len(open) - 1)
    [] e \in {"object", "array"} -> Append(Entered, [type |-> e, phase |-> "EMPTY"])
    [] e = "done"                -> open
    [] OTHER                     -> Entered

Init ==
  /\ open = <<>> /\ top = "START" /\ failed = FALSE
  /\ emitted = "none"

Emit(e) ==
  /\ e \in Allowed \ {"error"}
  /\ open' = OpenAfter(e)
  /\ top' = IF e = "done" THEN "DONE" ELSE "AFTER_VALUE"
  /\ emitted' = e
  /\ UNCHANGED failed

(* After an error nothing is promised about the containers. *)
EmitError ==
  /\ "error" \in Allowed
  /\ open' = <<>> /\ top' = "START" /\ failed' = TRUE
  /\ emitted' = "error"

Reset ==
  /\ open' = <<>> /\ top' = "START" /\ failed' = FALSE
  /\ emitted' = "none"

Next == (\E e \in Event : Emit(e)) \/ EmitError \/ Reset

Spec == Init /\ [][Next]_vars
=============================================================================
