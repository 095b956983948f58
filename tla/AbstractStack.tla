--------------------------- MODULE AbstractStack ---------------------------
(***************************************************************************)
(* What the container stack promises its caller, with no memory in it: a   *)
(* sequence of open containers that grows and shrinks at its end, each     *)
(* entry counting the members or elements seen so far, and a failure that  *)
(* latches until a reset.  ContainerStack implements it with a block of    *)
(* memory that is grown with realloc and an index that wraps.              *)
(***************************************************************************)
EXTENDS Naturals, Sequences

VARIABLES
  open,    \* the open containers, outermost first
  failed   \* an error is latched

vars == <<open, failed>>

Container == {"array", "object"}
Frame     == [type : Container, count : Nat]

Top       == open[Len(open)]
Counted   == [open EXCEPT ![Len(open)].count = @ + 1]

(* The enclosing container may count what comes next before it comes. *)
Outer == {open} \union (IF open = <<>> THEN {} ELSE {Counted})

Init == open = <<>> /\ ~failed

(***************************************************************************)
(* A container opens, and may be the error itself: a container where a     *)
(* member name belongs is opened before it is rejected.                    *)
(***************************************************************************)
Push ==
  /\ ~failed
  /\ \E outer \in Outer, t \in Container :
       open' = Append(outer, [type |-> t, count |-> 0])
  /\ failed' \in BOOLEAN

Count ==
  /\ ~failed /\ open # <<>>
  /\ open' = Counted
  /\ UNCHANGED failed

Pop ==
  /\ ~failed /\ open # <<>>
  /\ open' = SubSeq(open, 1, Len(open) - 1)
  /\ UNCHANGED failed

(* A container that cannot be opened, or any other error: what was counted
   stays counted, and nothing is opened or closed until the reset. *)
Fail ==
  /\ ~failed
  /\ failed' = TRUE
  /\ open' \in Outer

Reset == open' = <<>> /\ failed' = FALSE

Next == Push \/ Count \/ Pop \/ Fail \/ Reset

Spec == Init /\ [][Next]_vars
=============================================================================
