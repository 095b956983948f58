-------------------------- MODULE TranscriptRules --------------------------
(***************************************************************************)
(* What the project's scripts ask of a recorded transcript, whoever made   *)
(* it: the rules of scripts/invariants.py and the walk of                  *)
(* scripts/state-machine.py.                                               *)
(*                                                                         *)
(* The scripts read a whole transcript, rule by rule; here one reading     *)
(* carries the locals of every rule's loop from record to record.  A       *)
(* record keeps what the rules compare: the call, its event, the depth and *)
(* the context json_get_depth and json_get_context gave after it, and      *)
(* whether json_get_error had a message.  Sequence numbers, token bytes,   *)
(* lines and positions are left out, with the rules about them.            *)
(***************************************************************************)
EXTENDS EventTable, Integers

None == "none"

Op     == {"next", "skip", "skipuntil", "peek", "reset", "peek_byte", "get_byte"}
Record == [op : Op, event : Event \union {None}, depth : Nat,
           ctx : {"done", "object", "array", "unwritten"}, ctxn : Nat, err : BOOLEAN]

(* The locals of the rules between two records; broken is what they raised. *)
Start ==
  [errored |-> FALSE,                    \* rule_error_is_latched
   prev    |-> -1,                       \* rule_depth_matches_container_events
   stopped |-> FALSE,                    \* the rules that end at an ERROR have
   opens   |-> [object |-> 0, array |-> 0],
   below   |-> FALSE,                    \* a close without its open
   failed  |-> FALSE,                    \* some record is an ERROR
   peeked  |-> None,                     \* the event of the peek just before
   broken  |-> {}]

(* The records of calls that move the parser by the event they return. *)
Moves(r) == r.op \in {"next", "skip"}

ErrorIsLatched(a, r) ==
  r.op \in {"next", "skip", "peek"} /\ a.errored => r.event = "error"

ErrorHasMessage(r) == r.event = "error" => r.err

(* The depth before the event of a record, by the depth after it. *)
DepthBefore(r) ==
  CASE r.event \in {"object", "array"} -> r.depth - 1
    [] r.event \in Closing             -> r.depth + 1
    [] OTHER                           -> r.depth

DepthMatchesContainerEvents(mode, a, r) ==
  Moves(r) /\ mode # "skip" /\ ~a.stopped /\ a.prev # -1
    /\ r.event \notin {"error", "done"} => DepthBefore(r) = a.prev

ContextAgreesWithDepth(a, r) ==
  Moves(r) /\ ~a.stopped /\ r.event # "error" =>
    (r.depth = 0 <=> r.ctx = "done")

ResetClearsState(r) ==
  r.op = "reset" => r.depth = 0 /\ r.ctx = "done" /\ ~r.err

PeekThenNextAgree(mode, a, r) ==
  mode = "peek" /\ a.peeked # None /\ r.op = "next" => r.event = a.peeked

(* The container a record opens (by = 1) or closes (by = -1). *)
Opened(opens, r) ==
  IF ~Moves(r) THEN opens
  ELSE CASE r.event \in {"object", "array"} -> [opens EXCEPT ![r.event] = @ + 1]
         [] r.event = "object_end"          -> [opens EXCEPT !.object = @ - 1]
         [] r.event = "array_end"           -> [opens EXCEPT !.array = @ - 1]
         [] OTHER                           -> opens

Broken(mode, a, r) ==
  {rule \in {"error-is-latched", "error-has-message", "depth-matches-container-events",
             "context-agrees-with-depth", "reset-clears-state", "peek-then-next-agree"} :
     ~ CASE rule = "error-is-latched"               -> ErrorIsLatched(a, r)
         [] rule = "error-has-message"              -> ErrorHasMessage(r)
         [] rule = "depth-matches-container-events" -> DepthMatchesContainerEvents(mode, a, r)
         [] rule = "context-agrees-with-depth"      -> ContextAgreesWithDepth(a, r)
         [] rule = "reset-clears-state"             -> ResetClearsState(r)
         [] OTHER                                   -> PeekThenNextAgree(mode, a, r)}

(* The loops of the rules, one record on. *)
Judge(mode, a, r) ==
  LET opens == Opened(a.opens, r)
      error == r.event = "error" IN
  [errored |-> r.op # "reset" /\ (a.errored \/ (r.op \in {"next", "skip", "peek"} /\ error)),
   prev    |-> IF Moves(r) /\ ~error THEN r.depth ELSE a.prev,
   stopped |-> a.stopped \/ (Moves(r) /\ error),
   opens   |-> opens,
   below   |-> a.below \/ \E t \in DOMAIN opens : opens[t] < 0,
   failed  |-> a.failed \/ error,
   peeked  |-> IF r.op = "peek" THEN r.event ELSE None,
   broken  |-> a.broken \union Broken(mode, a, r)]

(* rule_containers_balanced waits for the whole transcript. *)
ContainersBalanced(mode, a, truncated) ==
  a.failed \/ truncated \/
    /\ ~a.below
    /\ mode # "skip" => \A t \in DOMAIN a.opens : a.opens[t] = 0

-----------------------------------------------------------------------------
(***************************************************************************)
(* The walk of state-machine.py: the state a caller is in is derived from  *)
(* the last record, and the event of the next one must be allowed there.   *)
(***************************************************************************)
NoRecord  == [event |-> None, ctx |-> "done", ctxn |-> 0]
WalkStart == [prev |-> NoRecord, reset |-> FALSE, unspecified |-> {}]

StateOf(w) ==
  LET p == w.prev IN
  CASE p = NoRecord                      -> <<"TOP", "START">>
    [] p # NoRecord /\ p.event = "error"     -> <<"ERROR_LATCHED">>
    [] p # NoRecord /\ p.event # "error" /\ p.ctx = "object" ->
         <<"OBJECT", CASE p.ctxn = 0     -> "EMPTY"
                       [] p.ctxn % 2 = 1 -> "AFTER_KEY"
                       [] OTHER          -> "AFTER_VALUE">>
    [] p # NoRecord /\ p.event # "error" /\ p.ctx = "array" ->
         <<"ARRAY", IF p.ctxn = 0 THEN "EMPTY" ELSE "AFTER_VALUE">>
    [] OTHER ->
         <<"TOP", IF p.event # "done" THEN "AFTER_VALUE"
                  ELSE IF w.reset THEN "DONE_RESET" ELSE "DONE">>

Specified(state) ==
  CASE state[1] = "TOP"    -> TopSpec[state[2]]
    [] state[1] = "OBJECT" -> ObjectSpec[state[2]]
    [] state[1] = "ARRAY"  -> ArraySpec[state[2]]
    [] OTHER               -> {"error"}

(* What state_of reads of a record. *)
Observed(r) == [event |-> r.event, ctx |-> r.ctx, ctxn |-> r.ctxn]

Walk(w, r) ==
  IF r.op = "reset" THEN [w EXCEPT !.reset = TRUE]
  ELSE [prev |-> Observed(r), reset |-> FALSE,
        unspecified |->
          IF r.op # "next" \/ r.event \in Specified(StateOf(w)) THEN w.unspecified
          ELSE w.unspecified \union {<<StateOf(w), r.event>>}]
=============================================================================
