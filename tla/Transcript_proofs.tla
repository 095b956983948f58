-------------------------- MODULE Transcript_proofs --------------------------
(***************************************************************************)
(* What the transcript tool and the two programs that judge it promise,    *)
(* for any input, depth limit and refusals of the allocator.               *)
(*                                                                         *)
(* The tool is a driver: what it shows of the parser is the parser's own   *)
(* calls.  So the invariants of JsonParser_proofs hold under it, and what  *)
(* is left is to relate what the two judges keep between records to the    *)
(* state of the parser the records were taken from.                        *)
(***************************************************************************)
EXTENDS Transcript, JsonParser_proofs

-----------------------------------------------------------------------------
(***************************************************************************)
(* The tool drives the parser by its calls and nothing else.               *)
(***************************************************************************)
LEMMA StepOfParser ==
  ASSUME [TranscriptNext]_transcriptVars
  PROVE  [Next]_vars
<1>1. CASE UNCHANGED transcriptVars
  BY <1>1 DEF transcriptVars
<1>2. CASE Open
  BY <1>2 DEF Open, Next
<1>3. CASE PeekFirst \/ CallNext \/ CallSkip \/ Skip \/ CallPastEnd
  BY <1>3 DEF PeekFirst, CallNext, CallSkip, Skip, CallPastEnd, Next
<1>4. CASE PeekByte \/ GetByte \/ Finish \/ Restart
  BY <1>4 DEF PeekByte, GetByte, Finish, Restart, Next
<1>5. QED
  BY <1>1, <1>2, <1>3, <1>4 DEF TranscriptNext

(***************************************************************************)
(* The tool makes of the parser no use that the parser does not provide    *)
(* for: under it the parser takes its own steps, from its own start, and   *)
(* what is proved of the parser holds of it there.                         *)
(***************************************************************************)
THEOREM TranscriptDrivesParser == TranscriptSpec => Spec
<1>1. TranscriptInit => Init
  BY DEF TranscriptInit
<1>2. [TranscriptNext]_transcriptVars => [Next]_vars
  BY StepOfParser
<1>3. QED
  BY <1>1, <1>2, PTL DEF TranscriptSpec, Spec

(* What the parser has proved of it, together. *)
Driven ==
  /\ ParserInv /\ ContextAgreesWithDepth /\ ErrorInv
  /\ SkipShape /\ DoneInv /\ StartedInv /\ SkipInv

LEMMA DrivenHolds ==
  ASSUME Careful = TRUE
  PROVE  TranscriptSpec => []Driven
<1>1. ParserInv /\ ContextAgreesWithDepth /\ ErrorInv /\ SkipShape /\ DoneInv /\ StartedInv
      /\ SkipInv => Driven
  BY DEF Driven
<1>2. QED
  BY <1>1, TranscriptDrivesParser, ParserInvariant, ContextFollowsDepth, ErrorInvHolds, SkipShapeHolds, DoneInvHolds,
     StartedInvHolds, SkipInvHolds, PTL

LEMMA RecordedGives ==
  ASSUME NEW op, NEW e, Recorded(op, e)
  PROVE  \E r : /\ r.op = op /\ r.event = e /\ r.depth = Depth' /\ r.ctx = Context'
                /\ r.ctxn = (IF HasFrame' THEN CurrentFrame'.count ELSE 0)
                /\ r.err = (errmsg' # "none")
                /\ seq' = seq + 1
                /\ rules' = Rules!Judge(mode.name, rules, r)
                /\ walk' = (IF mode.name \in Walked THEN Rules!Walk(walk, r) ELSE walk)
                /\ mode' = mode
<1> DEFINE r == [op |-> op, event |-> e, depth |-> Depth', ctx |-> Context',
                 ctxn |-> IF HasFrame' THEN CurrentFrame'.count ELSE 0,
                 err |-> errmsg' # "none"]
<1>1. /\ seq' = seq + 1
      /\ rules' = Rules!Judge(mode.name, rules, r)
      /\ walk' = (IF mode.name \in Walked THEN Rules!Walk(walk, r) ELSE walk)
      /\ mode' = mode
  BY DEF Recorded
<1>2. /\ r.op = op /\ r.event = e /\ r.depth = Depth' /\ r.ctx = Context'
      /\ r.ctxn = (IF HasFrame' THEN CurrentFrame'.count ELSE 0)
      /\ r.err = (errmsg' # "none")
  OBVIOUS
<1> HIDE DEF r
<1>3. QED
  BY <1>1, <1>2

-----------------------------------------------------------------------------
(***************************************************************************)
(* Where the tool is, and what it has left in the parser there: a skip is  *)
(* in progress in one place only, an event is buffered only between the    *)
(* peek and the next of mode "peek", and a document is restarted after the *)
(* DONE that ended the last one.                                           *)
(***************************************************************************)
PlaceInv ==
  /\ pc \in Place
  /\ call # Idle <=> pc = "skipping"
  /\ pc = "skipping" =>
       /\ mode.name \in {"skip", "skipuntil"}
       /\ call.op = IF mode.name = "skip" THEN "skip" ELSE "skip_until"
  /\ pc \in {"space", "get"} => mode.name = "sep"
  /\ pc = "call" => mode.name = "peek" /\ next # "none" /\ (Latched => next = "error")
  /\ next # "none" => mode.name = "peek" /\ pc \in {"call", "end"}
  /\ pc \in {"again", "last"} => mode.name = "after-end" /\ (emitted = "done" \/ Latched)
  /\ pc \in {"space", "get", "restart"} => emitted = "done" /\ ~Latched
  /\ pc = "open" => emitted = "none" /\ ~Latched
  /\ pc = "end" => Full(seq) \/ Latched \/ (emitted = "done" /\ next = "none")

LEMMA ContinueGoesOn ==
  ASSUME NEW t, Continue(t)
  PROVE  \/ pc' = "top" /\ t \notin {"error", "done"}
         \/ pc' = "end" /\ (Full(seq') \/ t \in {"error", "done"})
         \/ pc' = "again" /\ mode.name = "after-end" /\ t \in {"error", "done"}
         \/ pc' = "space" /\ mode.name = "sep" /\ t = "done"
         \/ pc' = "restart" /\ t = "done"
<1>1. CASE mode.name = "after-end" /\ t \in {"error", "done"}
  BY <1>1 DEF Continue
<1>2. CASE mode.name # "after-end" /\ t = "error"
  BY <1>2 DEF Continue
<1>3. CASE mode.name # "after-end" /\ t = "done"
  BY <1>3 DEF Continue
<1>4. CASE t \notin {"error", "done"}
  BY <1>4 DEF Continue, Loop
<1>5. QED
  BY <1>1, <1>2, <1>3, <1>4

(* A call that returns ERROR leaves it latched; one that returns DONE is   *)
(* at the end of a document; neither leaves an event buffered but ERROR.   *)
LEMMA NextEventEnds ==
  ASSUME Driven, NEW e, NextEvent(e), UNCHANGED streaming
  PROVE  /\ e = "error" => Latched'
         /\ e = "done" => emitted' = "done"
         /\ e # "error" => ~Latched'
         /\ Latched => e = "error" /\ Latched' /\ UNCHANGED next
         /\ ~Latched => next' = "none"
<1> USE DEF Driven
<1>1. CASE Latched
  <2>1. e = "error" /\ UNCHANGED <<errmsg, next>>
    BY <1>1 DEF NextEvent, stackVars
  <2>2. QED
    BY <1>1, <2>1 DEF Latched
<1>2. CASE ~Latched /\ next # "none" /\ e = next /\ next' = "none" /\ UNCHANGED <<stackVars, emitted>>
  <2>1. e = "done" => emitted' = "done"
    BY <1>2 DEF DoneInv
  <2>2. ~Latched' /\ e # "error"
    BY <1>2 DEF Latched, stackVars, ErrorInv
  <2>3. QED
    BY <1>2, <2>1, <2>2
<1>3. CASE ~Latched /\ next = "none" /\ NewEvent(e) /\ UNCHANGED next
  <2>1. emitted' = e
    BY <1>3 DEF NewEvent
  <2>2. e = "error" <=> Latched'
    BY <1>3, NewEventIsEffect DEF Effect, ParserInv, Latched
  <2>3. QED
    BY <1>3, <2>1, <2>2
<1>4. QED
  BY <1>1, <1>2, <1>3 DEF NextEvent

(* What a skip returns, by the event of its last turn. *)
LEMMA SkipReturns ==
  ASSUME Driven, SkipStep, call' = Idle, call.op \in {"skip", "skip_until"}
  PROVE  \E e \in Event : /\ NextEvent(e) /\ UNCHANGED streaming
                          /\ event' \in Event
                          /\ e \in {"error", "done"} => event' = e
                          /\ event' \in {"error", "done"} => event' = e
<1>1. PICK e \in Event : NextEvent(e) /\ Turn(e, Tally(call, e))
  BY SkipStepTurns
<1>2. PICK d \in SkipCall : d = Tally(call, e)
  BY TallyFacts DEF Driven, ParserInv, CallsOK
<1>3. d.first = (IF call.first = "none" THEN e ELSE call.first) /\ d.op = call.op
  BY <1>2, TallyFacts DEF Driven, ParserInv, CallsOK
<1>4. e \notin {"error", "done"} => d.first \in Event \ {"error", "done"}
  BY <1>3 DEF Driven, SkipShape, Event, Value
<1>5. ~(call' = d /\ (d.arr # 0 \/ d.obj # 0))
  BY DEF Idle, Skipping
<1>6. \/ e \in {"error", "done"} /\ event' = e
      \/ e \notin {"error", "done"} /\ event' = d.first
  BY <1>1, <1>2, <1>3, <1>5, SkipsAreNotIdle DEF Turn, Return
<1>7. /\ event' \in Event
      /\ e \in {"error", "done"} => event' = e
      /\ event' \in {"error", "done"} => event' = e
  BY <1>4, <1>6
<1>8. UNCHANGED streaming
  BY DEF SkipStep
<1>9. QED
  BY <1>1, <1>7, <1>8

LEMMA SkipGoesOn ==
  ASSUME Driven, SkipStep, call' # Idle, next = "none", call.op \in {"skip", "skip_until"}
  PROVE  next' = "none" /\ call'.op = call.op /\ (call.op = "skip" => call'.base = call.base)
<1>1. PICK e \in Event :
        /\ NextEvent(e)
        /\ LET c == Tally(call, e) IN
             CASE e \in {"error", "done"} -> Return(e)
               [] e \notin {"error", "done"} /\ (c.arr # 0 \/ c.obj # 0) ->
                    call' = c /\ UNCHANGED event
               [] OTHER ->
                    IF c.op = "skip" \/ c.first = c.target THEN Return(c.first)
                    ELSE /\ call' = Skipping(c.op, c.target, BaseDepth')
                         /\ UNCHANGED event
  BY DEF SkipStep
<1>2. next' = "none"
  BY <1>1 DEF NextEvent
<1>3. PICK d \in SkipCall : d = Tally(call, e)
  BY TallyFacts DEF Driven, ParserInv, CallsOK
<1>4. d.op = call.op /\ d.base = call.base
  BY <1>3, TallyFacts, TallyCounts DEF Driven, ParserInv, CallsOK
<1>5. call' = d \/ (d.op # "skip" /\ call' = Skipping(d.op, d.target, BaseDepth'))
  BY <1>1, <1>3 DEF Return
<1>6. \A op, t, b : Skipping(op, t, b).op = op
  BY DEF Skipping
<1>7. QED
  BY <1>2, <1>4, <1>5, <1>6

LEMMA PlaceInvKept ==
  ASSUME Careful = TRUE, Driven, Driven', PlaceInv, [TranscriptNext]_transcriptVars
  PROVE  PlaceInv'
<1>1. CASE UNCHANGED <<vars, mode, pc, seq>>
  BY <1>1 DEF PlaceInv, vars, parserVars, stackVars, Latched, Full
<1>2. CASE Open
  <2>1. UNCHANGED <<call, next, emitted, errmsg, mode>> /\ pc = "open" /\ pc' = "top"
    BY <1>2 DEF Open, SetStreaming, vars, parserVars, stackVars
  <2>2. QED
    BY <2>1 DEF PlaceInv, Place, Latched
<1>3. CASE PeekFirst
  <2>1. /\ pc = "top" /\ mode.name = "peek" /\ Peek /\ mode' = mode
        /\ pc' = (IF Full(seq') THEN "end" ELSE "call")
    BY <1>3 DEF PeekFirst, Recorded
  <2>2. next = "none" /\ call' = Idle /\ call = Idle
    BY <2>1 DEF PlaceInv, Peek
  <2>3. PICK e \in Event : next' = e /\ ((Latched /\ e = "error") \/ (~Latched /\ NewEvent(e)))
    BY <2>1, <2>2 DEF Peek
  <2>4. Latched' => next' = "error"
    <3>1. CASE Latched
      BY <2>3, <3>1
    <3>2. CASE ~Latched
      BY <2>3, <3>2, NewEventIsEffect DEF Effect, Latched, Driven, ParserInv
    <3>3. QED
      BY <3>1, <3>2
  <2>5. next' # "none"
    BY <2>3 DEF Event, Value, Closing, Literal
  <2>6. QED
    BY <2>1, <2>2, <2>4, <2>5 DEF PlaceInv, Place
<1>4. ASSUME NEW e \in Event, NextEvent(e), UNCHANGED streaming, call' = Idle, mode' = mode,
             event' \in {"error", "done"} => event' = e, e \in {"error", "done"} => event' = e,
             pc \in {"top", "call", "skipping"}, Continue(event'),
             next # "none" => mode.name = "peek"
      PROVE  PlaceInv'
  <2>1. /\ event' = "error" => Latched'
        /\ event' = "done" => emitted' = "done" /\ ~Latched' /\ next' = "none"
        /\ next' # "none" => event' = "error" /\ mode.name = "peek"
    BY <1>4, NextEventEnds
  <2>2. \/ pc' = "top" /\ event' \notin {"error", "done"}
        \/ pc' = "end" /\ (Full(seq') \/ event' \in {"error", "done"})
        \/ pc' = "again" /\ mode.name = "after-end" /\ event' \in {"error", "done"}
        \/ pc' = "space" /\ mode.name = "sep" /\ event' = "done"
        \/ pc' = "restart" /\ event' = "done"
    BY <1>4, ContinueGoesOn
  <2>3. QED
    BY <1>4, <2>1, <2>2 DEF PlaceInv, Place
<1>5. CASE CallNext
  <2>1. PICK e \in Event : NextEvent(e) /\ event' = e
    BY <1>5 DEF CallNext, NextCall
  <2>2. /\ call' = Idle /\ mode' = mode /\ UNCHANGED streaming /\ Continue(event')
        /\ pc \in {"top", "call"}
    BY <1>5 DEF CallNext, NextCall, Recorded, Calling
  <2>3. QED
    BY <1>4, <2>1, <2>2 DEF PlaceInv
<1>6. CASE CallSkip
  <2>1. /\ pc' = "skipping" /\ UNCHANGED <<mode, next, errmsg>> /\ pc = "top"
        /\ mode.name \in {"skip", "skipuntil"}
        /\ call'.op = IF mode.name = "skip" THEN "skip" ELSE "skip_until"
    BY <1>6 DEF CallSkip, Calling, BeginSkip, parserVars, stackVars
  <2>2. call' # Idle
    BY <2>1 DEF Idle, Skipping
  <2>3. QED
    BY <2>1, <2>2 DEF PlaceInv, Place
<1>7. CASE Skip
  <2>1. /\ pc = "skipping" /\ SkipStep /\ call.op \in {"skip", "skip_until"} /\ next = "none"
    BY <1>7 DEF Skip, PlaceInv
  <2>2. CASE call' = Idle
    <3>1. PICK e \in Event : /\ NextEvent(e) /\ UNCHANGED streaming
                             /\ e \in {"error", "done"} => event' = e
                             /\ event' \in {"error", "done"} => event' = e
      BY <2>1, <2>2, SkipReturns
    <3>2. mode' = mode /\ Continue(event')
      BY <1>7, <2>2 DEF Skip, Recorded
    <3>3. QED
      BY <1>4, <2>1, <2>2, <3>1, <3>2
  <2>3. CASE call' # Idle
    <3>1. next' = "none" /\ call'.op = call.op /\ UNCHANGED <<mode, pc>>
      BY <1>7, <2>1, <2>3, SkipGoesOn DEF Skip, driverVars
    <3>2. QED
      BY <2>1, <2>3, <3>1 DEF PlaceInv, Place
  <2>4. QED
    BY <2>2, <2>3
<1>8. CASE CallPastEnd
  <2>1. PICK e \in Event : NextEvent(e) /\ event' = e
    BY <1>8 DEF CallPastEnd, NextCall
  <2>2. /\ call' = Idle /\ mode' = mode /\ UNCHANGED streaming /\ pc \in {"again", "last"}
        /\ pc' = IF pc = "again" /\ ~Full(seq') THEN "last" ELSE "end"
    BY <1>8 DEF CallPastEnd, NextCall, Recorded
  <2>3. mode.name = "after-end" /\ next = "none"
    BY <2>2 DEF PlaceInv
  <2>4. Latched' \/ (emitted' = "done" /\ next' = "none")
    <3>1. CASE Latched
      BY <2>1, <2>2, <3>1, NextEventEnds
    <3>2. CASE ~Latched
      <4>1. emitted = "done" /\ NewEvent(e)
        BY <2>1, <2>2, <2>3, <3>2 DEF PlaceInv, NextEvent
      <4>2. e = "done"
        BY <4>1, DoneThenDone DEF Driven
      <4>3. QED
        BY <2>1, <2>2, <3>2, <4>2, NextEventEnds
    <3>3. QED
      BY <3>1, <3>2
  <2>5. next' = "none"
    BY <2>1, <2>3 DEF NextEvent
  <2>6. QED
    BY <2>2, <2>3, <2>4, <2>5 DEF PlaceInv, Place
<1>9. CASE PeekByte \/ GetByte
  <2>1. /\ UNCHANGED <<mode, call, next, emitted, errmsg>> /\ pc \in {"space", "get"}
        /\ pc' \in {"space", "get", "restart"}
    BY <1>9 DEF PeekByte, GetByte, RecordedByte, SourcePeek, SourceGet, stackVars
  <2>2. QED
    BY <2>1 DEF PlaceInv, Place, Latched
<1>10. CASE Finish
  <2>1. UNCHANGED <<mode, call, next, emitted, errmsg>> /\ pc = "restart" /\ pc' = "end"
    BY <1>10 DEF Finish, vars, parserVars, stackVars
  <2>2. QED
    BY <2>1 DEF PlaceInv, Place, Latched
<1>11. CASE Restart
  <2>1. /\ UNCHANGED <<mode, call, next>> /\ pc = "restart" /\ call = Idle
        /\ pc' = (IF Full(seq') THEN "end" ELSE "top")
    BY <1>11 DEF Restart, Reset, Recorded, Loop
  <2>2. QED
    BY <2>1 DEF PlaceInv, Place
<1>12. QED
  BY <1>1, <1>2, <1>3, <1>5, <1>6, <1>7, <1>8, <1>9, <1>10, <1>11
     DEF TranscriptNext, transcriptVars, driverVars

LEMMA PlaceInvHolds ==
  ASSUME Careful = TRUE
  PROVE  TranscriptSpec => []PlaceInv
<1>1. TranscriptInit => PlaceInv
  BY DEF TranscriptInit, Init, StackInit, PlaceInv, Place, Latched
<1>2. Driven /\ Driven' /\ PlaceInv /\ [TranscriptNext]_transcriptVars => PlaceInv'
  BY PlaceInvKept
<1>3. QED
  BY <1>1, <1>2, DrivenHolds, PTL DEF TranscriptSpec

-----------------------------------------------------------------------------
(***************************************************************************)
(* The walk of state-machine.py.  The state it derives from the last       *)
(* record is where the grammar is, although the record shows neither the   *)
(* containers around the innermost one nor whether a value was started.    *)
(***************************************************************************)
AtStart == emitted = "none" /\ AtTop /\ ~started

WalkSees ==
  /\ Latched <=> walk.prev.event = "error"
  /\ ~Latched =>
       \/ AtStart /\ walk.prev = Rules!NoRecord
       \/ /\ AtStart /\ walk.reset
          /\ walk.prev.event = "done" /\ walk.prev.ctx = "done"
       \/ /\ ~walk.reset /\ emitted \in Event
          /\ walk.prev.event = emitted /\ walk.prev.ctx = Context
          /\ HasFrame => walk.prev.ctxn = CurrentFrame.count
          /\ emitted # "done" => started

WalkInv ==
  /\ walk.unspecified = {}
  /\ mode.name \in Walked =>
       /\ DOMAIN walk = {"prev", "reset", "unspecified"}
       /\ WalkSees

LEMMA TablesAgree ==
  /\ Rules!TopSpec = Grammar!TopSpec /\ Rules!ObjectSpec = Grammar!ObjectSpec
  /\ Rules!ArraySpec = Grammar!ArraySpec
BY DEF Rules!TopSpec, Grammar!TopSpec, Rules!ObjectSpec, Grammar!ObjectSpec, Rules!ArraySpec,
       Grammar!ArraySpec, Rules!Value, Grammar!Value

LEMMA SameStart == Grammar!TopSpec["DONE_RESET"] = Grammar!TopSpec["START"]
BY DEF Grammar!TopSpec

LEMMA SpecifiedCases ==
  /\ \A s : Rules!Specified(<<"TOP", s>>) = Rules!TopSpec[s]
  /\ \A s : Rules!Specified(<<"OBJECT", s>>) = Rules!ObjectSpec[s]
  /\ \A s : Rules!Specified(<<"ARRAY", s>>) = Rules!ArraySpec[s]
  /\ Rules!Specified(<<"ERROR_LATCHED">>) = {"error"}
BY DEF Rules!Specified

LEMMA StateIsAllowed ==
  ASSUME Driven, ~Latched, WalkSees
  PROVE  Rules!Specified(Rules!StateOf(walk)) = Grammar!Allowed
<1> DEFINE p == walk.prev
<1>0. StackInv /\ (emitted = "done" => AtTop) /\ p.event # "error"
  BY DEF Driven, ParserInv, DoneInv, WalkSees
<1>1. CASE AtStart
  <2>1. GrammarOpen = <<>> /\ GrammarTop = "START"
    BY <1>0, <1>1, GrammarSees DEF AtStart, GrammarTop
  <2>2. Grammar!Allowed = Grammar!TopSpec["START"]
    BY <2>1 DEF Grammar!Allowed
  <2>3. p = Rules!NoRecord \/ (walk.reset /\ p.event = "done" /\ p.ctx = "done" /\ p # Rules!NoRecord)
    BY <1>1 DEF WalkSees, AtStart, Event, Value, Closing, Literal
  <2>4. Rules!StateOf(walk) \in {<<"TOP", "START">>, <<"TOP", "DONE_RESET">>}
    BY <2>3 DEF Rules!StateOf
  <2>5. QED
    BY <2>2, <2>4, SpecifiedCases, TablesAgree, SameStart
<1>2. CASE ~AtStart
  <2>1. /\ ~walk.reset /\ emitted \in Event /\ p.event = emitted /\ p.ctx = Context
        /\ HasFrame => p.ctxn = CurrentFrame.count
        /\ emitted # "done" => started
    BY <1>2 DEF WalkSees
  <2>2. p # Rules!NoRecord
    BY <2>1 DEF Rules!NoRecord, Rules!None, Event, Value, Closing, Literal
  <2>3. CASE AtTop
    <3>1. p.ctx = "done" /\ GrammarOpen = <<>>
      BY <1>0, <2>1, <2>3, GrammarSees DEF Context, HasFrame, AtTop
    <3>2. Rules!StateOf(walk) = <<"TOP", IF emitted # "done" THEN "AFTER_VALUE" ELSE "DONE">>
      BY <1>0, <2>1, <2>2, <3>1 DEF Rules!StateOf
    <3>3. GrammarTop = IF emitted # "done" THEN "AFTER_VALUE" ELSE "DONE"
      BY <2>1 DEF GrammarTop
    <3>4. QED
      BY <3>1, <3>2, <3>3, SpecifiedCases, TablesAgree DEF Grammar!Allowed
  <2>4. CASE ~AtTop
    <3>1. /\ HasFrame /\ CurrentFrame \in Frame /\ GrammarOpen # <<>>
          /\ Grammar!Inner = Row(CurrentFrame)
      BY <1>0, <2>4, GrammarSees
    <3>2. Grammar!Inner.type = CurrentFrame.type /\ Grammar!Inner.phase = Phase(CurrentFrame)
      BY <3>1, RowFacts
    <3>3. p.ctx = CurrentFrame.type /\ p.ctxn = CurrentFrame.count
      BY <2>1, <3>1 DEF Context
    <3>4. CASE CurrentFrame.type = "object"
      <4>1. Rules!StateOf(walk) = <<"OBJECT", Phase(CurrentFrame)>>
        BY <1>0, <2>2, <3>3, <3>4 DEF Rules!StateOf, Phase
      <4>2. QED
        BY <3>1, <3>2, <3>4, <4>1, SpecifiedCases, TablesAgree DEF Grammar!Allowed
    <3>5. CASE CurrentFrame.type = "array"
      <4>1. Rules!StateOf(walk) = <<"ARRAY", Phase(CurrentFrame)>>
        BY <1>0, <2>2, <3>3, <3>5 DEF Rules!StateOf, Phase
      <4>2. QED
        BY <3>1, <3>2, <3>5, <4>1, SpecifiedCases, TablesAgree DEF Grammar!Allowed
    <3>6. QED
      BY <3>1, <3>4, <3>5, RowFacts DEF Container
  <2>5. QED
    BY <2>3, <2>4
<1>3. QED
  BY <1>1, <1>2

(* What a record of json_next or of a restart adds to the walk. *)
LEMMA WalkSteps ==
  ASSUME NEW w, w.unspecified = {}, DOMAIN w = {"prev", "reset", "unspecified"}, NEW r,
         NEW x, x = Rules!Walk(w, r)
  PROVE  /\ r.op = "reset" =>
              /\ x.reset /\ x.prev = w.prev /\ x.unspecified = {}
              /\ DOMAIN x = {"prev", "reset", "unspecified"}
         /\ r.op = "next" /\ r.event \in Rules!Specified(Rules!StateOf(w)) =>
              /\ x.prev.event = r.event /\ x.prev.ctx = r.ctx /\ x.prev.ctxn = r.ctxn
              /\ ~x.reset /\ x.unspecified = {}
              /\ DOMAIN x = {"prev", "reset", "unspecified"}
<1>1. CASE r.op = "reset"
  <2>1. x = [w EXCEPT !.reset = TRUE]
    BY <1>1 DEF Rules!Walk
  <2>2. QED
    BY <1>1, <2>1
<1>2. CASE r.op = "next" /\ r.event \in Rules!Specified(Rules!StateOf(w))
  <2>1. x = [prev |-> Rules!Observed(r), reset |-> FALSE, unspecified |-> w.unspecified]
    BY <1>2 DEF Rules!Walk
  <2>2. /\ Rules!Observed(r).event = r.event /\ Rules!Observed(r).ctx = r.ctx
        /\ Rules!Observed(r).ctxn = r.ctxn
    BY DEF Rules!Observed
  <2>3. QED
    BY <1>2, <2>1, <2>2
<1>3. QED
  BY <1>1, <1>2

LEMMA WalkIsForItsModes ==
  ASSUME [TranscriptNext]_transcriptVars
  PROVE  mode' = mode /\ (mode.name \notin Walked => walk' = walk)
<1>1. ASSUME NEW op, NEW e, Recorded(op, e)
      PROVE  mode' = mode /\ (mode.name \notin Walked => walk' = walk)
  BY <1>1, RecordedGives
<1>2. QED
  BY <1>1 DEF TranscriptNext, transcriptVars, driverVars, Open, PeekFirst, CallNext, CallSkip, Skip,
              CallPastEnd, PeekByte, GetByte, Finish, Restart, RecordedByte

LEMMA NewEventAllowed ==
  ASSUME Driven, Driven', ~Latched, NEW e, NewEvent(e)
  PROVE  /\ e \in Grammar!Allowed /\ (Latched' <=> e = "error") /\ emitted' = e
         /\ e \notin {"done", "error"} => started'
<1>0. StackInv /\ StackInv' /\ emitted' = e
  BY DEF Driven, ParserInv, NewEvent
<1>1. CASE e = "error"
  <2>1. Grammar!EmitError
    BY <1>0, <1>1, ErrorIsEmit DEF Driven
  <2>2. QED
    BY <1>0, <1>1, <2>1 DEF Grammar!EmitError
<1>2. CASE e # "error"
  <2>1. Grammar!Emit(e)
    BY <1>0, <1>2, NewEventIsEmit DEF Driven
  <2>2. ~Latched'
    BY <1>0, <1>2, NewEventIsEffect DEF Effect, Latched
  <2>3. e # "done" => GrammarTop' = "AFTER_VALUE"
    BY <2>1 DEF Grammar!Emit
  <2>4. QED
    BY <1>0, <1>2, <2>1, <2>2, <2>3 DEF Grammar!Emit, GrammarTop
<1>3. QED
  BY <1>1, <1>2

LEMMA WalkNext ==
  ASSUME Driven, Driven', mode.name \in Walked, next = "none", WalkInv,
         NEW e \in Event, NextEvent(e), Recorded("next", e)
  PROVE  WalkInv'
<1>1. PICK r : /\ r.op = "next" /\ r.event = e /\ r.ctx = Context'
               /\ r.ctxn = (IF HasFrame' THEN CurrentFrame'.count ELSE 0)
               /\ walk' = Rules!Walk(walk, r)
  BY RecordedGives
<1>2. e \in Rules!Specified(Rules!StateOf(walk))
  <2>1. CASE Latched
    <3>1. e = "error" /\ walk.prev.event = "error"
      BY <2>1 DEF NextEvent, WalkInv, WalkSees
    <3>2. Rules!StateOf(walk) = <<"ERROR_LATCHED">>
      BY <3>1 DEF Rules!StateOf, Rules!NoRecord, Rules!None
    <3>3. QED
      BY <3>1, <3>2, SpecifiedCases
  <2>2. CASE ~Latched
    <3>1. e \in Grammar!Allowed
      BY <2>2, NewEventAllowed DEF NextEvent
    <3>2. QED
      BY <2>2, <3>1, StateIsAllowed DEF WalkInv
  <2>3. QED
    BY <2>1, <2>2
<1>3. /\ walk'.prev.event = e /\ walk'.prev.ctx = Context'
      /\ walk'.prev.ctxn = (IF HasFrame' THEN CurrentFrame'.count ELSE 0)
      /\ ~walk'.reset /\ walk'.unspecified = {}
      /\ DOMAIN walk' = {"prev", "reset", "unspecified"}
  BY <1>1, <1>2, WalkSteps DEF WalkInv
<1>4. WalkSees'
  <2>1. CASE Latched
    <3>1. e = "error" /\ Latched'
      BY <2>1 DEF NextEvent, stackVars, Latched
    <3>2. QED
      BY <1>3, <3>1 DEF WalkSees
  <2>2. CASE ~Latched
    <3>1. (Latched' <=> e = "error") /\ emitted' = e /\ (e \notin {"done", "error"} => started')
      BY <2>2, NewEventAllowed DEF NextEvent
    <3>2. QED
      BY <1>3, <3>1 DEF WalkSees
  <2>3. QED
    BY <2>1, <2>2
<1>5. QED
  BY <1>3, <1>4 DEF WalkInv

LEMMA WalkReset ==
  ASSUME Driven, Driven', PlaceInv, WalkInv, mode.name \in Walked, Restart
  PROVE  WalkInv'
<1>1. PICK r : r.op = "reset" /\ walk' = Rules!Walk(walk, r)
  BY RecordedGives DEF Restart
<1>2. AtStart' /\ ~Latched'
  BY DEF Restart, Reset, ResetStep, AtStart, AtTop, Latched
<1>3. ~Latched /\ emitted = "done" /\ AtTop
  BY DEF PlaceInv, Restart, Driven, DoneInv
<1>4. walk.prev.event = "done" /\ walk.prev.ctx = "done"
  BY <1>3 DEF WalkInv, WalkSees, AtStart, Context, HasFrame, AtTop
<1>5. /\ walk'.reset /\ walk'.prev = walk.prev /\ walk'.unspecified = {}
      /\ DOMAIN walk' = {"prev", "reset", "unspecified"}
  BY <1>1, WalkSteps DEF WalkInv
<1>6. WalkSees'
  BY <1>2, <1>4, <1>5 DEF WalkSees
<1>7. QED
  BY <1>5, <1>6 DEF WalkInv

LEMMA WalkInvKept ==
  ASSUME Driven, Driven', PlaceInv, WalkInv, [TranscriptNext]_transcriptVars
  PROVE  WalkInv'
<1>1. CASE UNCHANGED <<stackVars, started, emitted, mode, walk>>
  BY <1>1 DEF WalkInv, WalkSees, AtStart, AtTop, Latched, Context, HasFrame, CurrentFrame, stackVars
<1>2. CASE mode.name \notin Walked
  BY <1>2, WalkIsForItsModes DEF WalkInv
<1>3. ASSUME mode.name \in Walked, CallNext \/ CallPastEnd
      PROVE  WalkInv'
  <2>1. next = "none"
    BY <1>3 DEF Walked, PlaceInv
  <2>2. PICK e \in Event : NextEvent(e) /\ event' = e
    BY <1>3 DEF CallNext, CallPastEnd, NextCall
  <2>3. Recorded("next", e)
    BY <1>3, <2>2 DEF CallNext, CallPastEnd
  <2>4. QED
    BY <1>3, <2>1, <2>2, <2>3, WalkNext
<1>4. ASSUME mode.name \in Walked
      PROVE  ~PeekFirst /\ ~CallSkip /\ ~Skip /\ ~PeekByte /\ ~GetByte
  BY <1>4 DEF Walked, PeekFirst, CallSkip, Skip, PlaceInv, PeekByte, GetByte
<1>5. CASE Open
  BY <1>1, <1>5 DEF Open, SetStreaming, vars, parserVars
<1>6. CASE Finish \/ UNCHANGED transcriptVars
  BY <1>1, <1>6 DEF Finish, transcriptVars, driverVars, vars, parserVars
<1>7. QED
  BY <1>2, <1>3, <1>4, <1>5, <1>6, WalkReset DEF TranscriptNext

(***************************************************************************)
(* Of no input, in whatever mode the walk is made, does a transcript hold  *)
(* an event its specification does not allow in the state it derives.      *)
(***************************************************************************)
THEOREM TranscriptsAreSpecified ==
  ASSUME Careful = TRUE
  PROVE  TranscriptSpec => []ObservedIsSpecified
<1>1. TranscriptInit => WalkInv
  BY DEF TranscriptInit, Init, StackInit, WalkInv, WalkSees, AtStart, AtTop, Latched,
         Rules!WalkStart, Rules!NoRecord, Rules!None
<1>2. Driven /\ Driven' /\ PlaceInv /\ WalkInv /\ [TranscriptNext]_transcriptVars => WalkInv'
  BY WalkInvKept
<1>3. WalkInv => ObservedIsSpecified
  BY DEF WalkInv, ObservedIsSpecified
<1>4. QED
  BY <1>1, <1>2, <1>3, DrivenHolds, PlaceInvHolds, PTL DEF TranscriptSpec

-----------------------------------------------------------------------------
(***************************************************************************)
(* The rules of invariants.py.  Their loops count by the records alone:    *)
(* the depth from call to call, and the containers opened and closed.      *)
(* What they hold is what the stack holds, less the event a peek has       *)
(* buffered, which no call has yet delivered.                              *)
(***************************************************************************)
CloseOf(t) == IF t = "array" THEN "array_end" ELSE "object_end"

(* By how much an event changes the containers of type t that are open. *)
Counts(e, t) == IF e = t THEN 1 ELSE IF e = CloseOf(t) THEN -1 ELSE 0

(* By how much it changes the depth. *)
Moved(e) == IF e \in Container THEN 1 ELSE IF e \in Closing THEN -1 ELSE 0

OpenNow(t)    == Cardinality(Within(stack, 0, Depth, t))
OpenBefore(t) == OpenNow(t) - Counts(next, t)

LEMMA CountsFacts ==
  /\ \A e, t : Counts(e, t) \in Int /\ Moved(e) \in Int
  /\ \A t \in Container : Counts("none", t) = 0 /\ Counts("done", t) = 0 /\ Counts("error", t) = 0
  /\ Moved("none") = 0 /\ Moved("done") = 0 /\ Moved("error") = 0
BY DEF Counts, Moved, CloseOf, Container, Closing

LEMMA BaseIsMoved ==
  ASSUME Depth \in Nat
  PROVE  BaseDepth = Depth - Moved(next)
<1>1. next \in Container => next \notin Closing
  BY DEF Container, Closing
<1>2. QED
  BY <1>1, BaseDepthCases DEF Moved

LEMMA BaseIsMovedAfter == (Depth \in Nat => BaseDepth = Depth - Moved(next))'
<1>1. Depth \in Nat => BaseDepth = Depth - Moved(next)
  BY BaseIsMoved
<1>2. QED
  BY <1>1, PTL

LEMMA OpenNowIsNat == Depth \in Nat => \A t : OpenNow(t) \in Nat
BY WithinFacts DEF OpenNow

LEMMA OpenNowIsNatAfter == (Depth \in Nat => \A t : OpenNow(t) \in Nat)'
BY OpenNowIsNat, PTL

LEMMA OneFewer ==
  ASSUME NEW n \in Nat, NEW d, d = n + 1, NEW m, m = -1
  PROVE  n = d + m
OBVIOUS

(* What an event made anew does to both. *)
LEMMA NewEventCounts ==
  ASSUME StackInv, StackInv', ~Latched, NEW e, e # "error", NewEvent(e)
  PROVE  /\ Depth \in Nat /\ Depth' \in Nat /\ Depth' = Depth + Moved(e)
         /\ \A t \in Container : OpenNow(t)' = OpenNow(t) + Counts(e, t)
<1>1. FramesShape(e)
  BY NewEventFrames
<1>2. Depth \in Nat /\ Depth' \in Nat /\ 0 \in Int
  BY <1>1 DEF FramesShape
<1>3. \A t : OpenNow(t) \in Nat /\ OpenNow(t)' \in Nat
  BY <1>2, OpenNowIsNat, OpenNowIsNatAfter
<1>4. {"array", "object"} = Container /\ {"array_end", "object_end"} = Closing
      /\ (e \in Container => e \notin Closing)
  BY DEF Container, Closing
<1>5. CASE e \in Container
  <2>1. Depth' = Depth + 1 /\ stack'[Depth].type = e
        /\ \A i \in 0 .. Depth - 1 : stack'[i].type = stack[i].type
    BY <1>1, <1>2, <1>5 DEF FramesShape
  <2>2. \A t : OpenNow(t)' = OpenNow(t) + (IF e = t THEN 1 ELSE 0)
    <3>1. PICK m \in Nat : m = Depth'
      BY <1>2
    <3>2. \A t : Cardinality(Within(stack', 0, m, t))
                   = Cardinality(Within(stack, 0, Depth, t)) + (IF stack'[Depth].type = t THEN 1 ELSE 0)
      BY <1>2, <2>1, <3>1, WithinOneMore
    <3>3. QED
      BY <2>1, <3>1, <3>2 DEF OpenNow
  <2>3. \A t \in Container : Counts(e, t) = IF e = t THEN 1 ELSE 0
    BY <1>4, <1>5 DEF Counts, CloseOf
  <2>4. QED
    BY <1>2, <1>3, <1>5, <2>1, <2>2, <2>3 DEF Moved
<1>6. CASE e \in Closing
  <2>0. PICK n \in Nat : n = Depth'
    BY <1>2
  <2>1. Depth = n + 1 /\ stack[n].type = IF e = "array_end" THEN "array" ELSE "object"
    BY <1>1, <1>6, <2>0 DEF FramesShape
  <2>2. \A i \in 0 .. n - 1 : stack[i].type = stack'[i].type
    <3>1. \A i \in 0 .. Depth - 1 : i < n => stack'[i].type = stack[i].type
      BY <1>1, <2>0 DEF FramesShape
    <3>2. \A i \in 0 .. n - 1 : i \in 0 .. Depth - 1 /\ i < n
      BY <2>1
    <3>3. QED
      BY <3>1, <3>2
  <2>3. \A t : Cardinality(Within(stack, 0, Depth, t))
                 = Cardinality(Within(stack', 0, n, t)) + (IF stack[n].type = t THEN 1 ELSE 0)
    BY <2>1, <2>2, WithinClosed
  <2>4. \A t : OpenNow(t) = OpenNow(t)' + (IF stack[n].type = t THEN 1 ELSE 0)
    BY <2>0, <2>3 DEF OpenNow
  <2>5. \A t \in Container : Counts(e, t) = IF stack[n].type = t THEN -1 ELSE 0
    BY <1>4, <1>6, <2>1 DEF Counts, CloseOf
  <2>6. Moved(e) = -1
    BY <1>4, <1>6 DEF Moved
  <2>7. \A t \in Container : OpenNow(t)' = OpenNow(t) + Counts(e, t)
    BY <1>3, <2>4, <2>5
  <2>8. Depth' = Depth + Moved(e)
    <3>1. PICK d \in Nat, m \in Int : d = Depth /\ m = Moved(e)
      BY <1>2, CountsFacts
    <3>2. n = d + m
      BY <2>1, <2>6, <3>1, OneFewer
    <3>3. QED
      BY <2>0, <3>1, <3>2
  <2>9. QED
    BY <1>2, <2>7, <2>8
<1>7. CASE e \notin Container \union Closing
  <2>1. Depth' = Depth /\ \A i \in 0 .. Depth - 1 : stack'[i].type = stack[i].type
    BY <1>1, <1>2, <1>7 DEF FramesShape
  <2>2. \A t : OpenNow(t)' = OpenNow(t)
    BY <1>2, <2>1, WithinSame DEF OpenNow
  <2>3. Moved(e) = 0 /\ \A t \in Container : Counts(e, t) = 0
    BY <1>4, <1>7 DEF Moved, Counts, CloseOf
  <2>4. QED
    BY <1>2, <1>3, <2>1, <2>2, <2>3
<1>8. QED
  BY <1>5, <1>6, <1>7

(* And what a call that delivers one does, buffered or not. *)
LEMMA CallCounts ==
  ASSUME StackInv, StackInv', ~Latched, NEW e, e # "error", NextEvent(e)
  PROVE  /\ next' = "none" /\ Depth \in Nat /\ Depth' \in Nat
         /\ Depth' = BaseDepth + Moved(e) /\ BaseDepth' = Depth'
         /\ \A t \in Container : OpenNow(t)' = OpenBefore(t) + Counts(e, t)
         /\ \A t \in Container : OpenBefore(t)' = OpenNow(t)' /\ OpenNow(t)' \in Nat
<1>1. next' = "none"
  BY DEF NextEvent
<1>2. CASE next # "none" /\ e = next /\ UNCHANGED stackVars
  <2>1. Depth \in Nat /\ Depth' = Depth
    BY <1>2, TopInsideBlock DEF Latched, StackInv, StackTypeOK, stackVars, Depth
  <2>2. \A t : OpenNow(t)' = OpenNow(t) /\ OpenNow(t) \in Nat
    BY <1>2, <2>1, OpenNowIsNat DEF OpenNow, stackVars
  <2>3. \A t \in Container : OpenBefore(t)' = OpenNow(t)'
    BY <1>1, <2>2, CountsFacts DEF OpenBefore
  <2>4. \A t \in Container : OpenNow(t)' = OpenBefore(t) + Counts(e, t)
    BY <1>2, <2>2, CountsFacts DEF OpenBefore
  <2>5. BaseDepth = Depth - Moved(e) /\ BaseDepth' = Depth' - 0
    BY <1>1, <1>2, <2>1, CountsFacts, BaseIsMoved, BaseIsMovedAfter
  <2>6. Depth' = BaseDepth + Moved(e) /\ BaseDepth' = Depth'
    <3>1. PICK d \in Nat, m \in Int : d = Depth /\ m = Moved(e)
      BY <2>1, CountsFacts
    <3>2. BaseDepth = d - m
      BY <2>5, <3>1
    <3>3. d = (d - m) + m
      BY <3>1
    <3>4. Depth' - 0 = Depth'
      BY <2>1
    <3>5. QED
      BY <2>1, <2>5, <3>1, <3>2, <3>3, <3>4
  <2>7. QED
    BY <1>1, <2>1, <2>2, <2>3, <2>4, <2>6
<1>3. CASE next = "none" /\ NewEvent(e)
  <2>1. /\ Depth \in Nat /\ Depth' \in Nat /\ Depth' = Depth + Moved(e)
        /\ \A t \in Container : OpenNow(t)' = OpenNow(t) + Counts(e, t)
    BY <1>3, NewEventCounts
  <2>2. \A t : OpenNow(t)' \in Nat /\ OpenNow(t) \in Nat
    BY <2>1, OpenNowIsNat, OpenNowIsNatAfter
  <2>3. \A t \in Container : OpenBefore(t)' = OpenNow(t)' /\ OpenBefore(t) = OpenNow(t)
    BY <1>1, <1>3, <2>2, CountsFacts DEF OpenBefore
  <2>4. BaseDepth = Depth /\ BaseDepth' = Depth'
    BY <1>1, <1>3, <2>1, CountsFacts, BaseIsMoved, BaseIsMovedAfter
  <2>5. QED
    BY <1>1, <2>1, <2>2, <2>3, <2>4
<1>4. QED
  BY <1>2, <1>3 DEF NextEvent

-----------------------------------------------------------------------------
RuleFields == {"errored", "prev", "stopped", "opens", "below", "failed", "peeked", "broken"}

(* What the loops of the rules hold, wherever the tool is. *)
OpensInv ==
  /\ rules.opens \in [Container -> Int]
  /\ ~rules.failed =>
       /\ ~rules.below /\ \A t \in Container : rules.opens[t] >= 0
       /\ mode.name = "skipuntil" => \A t \in Container : rules.opens[t] = 0
       /\ mode.name \notin {"skip", "skipuntil"} =>
            \A t \in Container : rules.opens[t] = OpenBefore(t)

PrevInv ==
  mode.name \notin {"skip", "skipuntil"} /\ ~Latched /\ rules.prev # -1 => rules.prev = BaseDepth

FailInv ==
  /\ DOMAIN rules = RuleFields /\ rules.broken = {}
  /\ rules.errored => Latched
  /\ Latched => rules.failed

(* And where it is: the peek just before, and skips made from the top. *)
LoopInv ==
  /\ pc = "call" => rules.peeked = next
  /\ mode.name = "skip" /\ ~Latched => IF pc = "skipping" THEN call.base = 0 ELSE Depth = 0

RuleInv == FailInv /\ PrevInv /\ OpensInv /\ LoopInv

LEMMA JudgeFields ==
  ASSUME NEW m, NEW a, NEW r, NEW x, x = Rules!Judge(m, a, r)
  PROVE  /\ DOMAIN x = RuleFields
         /\ x.errored => r.op # "reset" /\ (a.errored \/ (r.op # "skipuntil" /\ r.event = "error"))
         /\ x.prev = IF r.op \in {"next", "skip"} /\ r.event # "error" THEN r.depth ELSE a.prev
         /\ x.opens = Rules!Opened(a.opens, r)
         /\ x.below <=> (a.below \/ \E t \in DOMAIN x.opens : x.opens[t] < 0)
         /\ x.failed <=> (a.failed \/ r.event = "error")
         /\ x.peeked = IF r.op = "peek" THEN r.event ELSE "none"
         /\ x.broken = a.broken \union Rules!Broken(m, a, r)
BY DEF Rules!Judge, Rules!Moves, Rules!None, RuleFields

LEMMA NothingBroken ==
  ASSUME NEW m, NEW a, NEW r,
         Rules!ErrorIsLatched(a, r), Rules!ErrorHasMessage(r),
         Rules!DepthMatchesContainerEvents(m, a, r), Rules!ContextAgreesWithDepth(a, r),
         Rules!ResetClearsState(r), Rules!PeekThenNextAgree(m, a, r)
  PROVE  Rules!Broken(m, a, r) = {}
BY DEF Rules!Broken

LEMMA OpenedCounts ==
  ASSUME NEW o \in [Container -> Int], NEW r, NEW o2, o2 = Rules!Opened(o, r)
  PROVE  /\ o2 \in [Container -> Int]
         /\ r.op \in {"next", "skip"} => \A t \in Container : o2[t] = o[t] + Counts(r.event, t)
         /\ r.op \notin {"next", "skip"} => o2 = o
<1>1. CASE r.op \notin {"next", "skip"}
  BY <1>1 DEF Rules!Opened, Rules!Moves
<1>2. CASE r.op \in {"next", "skip"}
  <2>1. CASE r.event \in {"object", "array"}
    <3>1. o2 = [o EXCEPT ![r.event] = @ + 1]
      BY <1>2, <2>1 DEF Rules!Opened, Rules!Moves
    <3>2. \A t \in Container : Counts(r.event, t) = IF r.event = t THEN 1 ELSE 0
      BY <2>1 DEF Counts, CloseOf, Container
    <3>3. o2 \in [Container -> Int] /\ \A t \in Container : o2[t] = o[t] + IF r.event = t THEN 1 ELSE 0
      BY <2>1, <3>1 DEF Container
    <3>4. QED
      BY <1>2, <3>2, <3>3
  <2>2. CASE r.event = "object_end"
    <3>1. o2 = [o EXCEPT !["object"] = @ - 1]
      BY <1>2, <2>2 DEF Rules!Opened, Rules!Moves
    <3>2. Counts(r.event, "object") = -1 /\ Counts(r.event, "array") = 0
      BY <2>2 DEF Counts, CloseOf
    <3>3. o2 \in [Container -> Int] /\ o2["object"] = o["object"] - 1 /\ o2["array"] = o["array"]
      BY <3>1 DEF Container
    <3>4. o["object"] \in Int /\ o["array"] \in Int
      BY DEF Container
    <3>5. QED
      BY <1>2, <3>2, <3>3, <3>4 DEF Container
  <2>3. CASE r.event = "array_end"
    <3>1. o2 = [o EXCEPT !["array"] = @ - 1]
      BY <1>2, <2>3 DEF Rules!Opened, Rules!Moves
    <3>2. Counts(r.event, "array") = -1 /\ Counts(r.event, "object") = 0
      BY <2>3 DEF Counts, CloseOf
    <3>3. o2 \in [Container -> Int] /\ o2["array"] = o["array"] - 1 /\ o2["object"] = o["object"]
      BY <3>1 DEF Container
    <3>4. o["object"] \in Int /\ o["array"] \in Int
      BY DEF Container
    <3>5. QED
      BY <1>2, <3>2, <3>3, <3>4 DEF Container
  <2>4. CASE r.event \notin {"object", "array", "object_end", "array_end"}
    <3>1. o2 = o
      BY <1>2, <2>4 DEF Rules!Opened, Rules!Moves
    <3>2. \A t \in Container : Counts(r.event, t) = 0 /\ o[t] \in Int
      BY <2>4 DEF Counts, CloseOf, Container
    <3>3. QED
      BY <1>2, <3>1, <3>2
  <2>5. QED
    BY <2>1, <2>2, <2>3, <2>4
<1>3. QED
  BY <1>1, <1>2

LEMMA BeforeIsMoved ==
  ASSUME NEW r, NEW b \in Int, NEW e, r.event = e, r.depth = b + Moved(e)
  PROVE  Rules!DepthBefore(r) = b
<1>1. e \in Container => e \notin Closing
  BY DEF Container, Closing
<1>2. CASE e \in Container
  <2>1. Moved(e) = 1
    BY <1>2 DEF Moved
  <2>2. (b + 1) - 1 = b
    OBVIOUS
  <2>3. Rules!DepthBefore(r) = r.depth - 1
    BY <1>2 DEF Rules!DepthBefore, Rules!Closing, Container
  <2>4. QED
    BY <2>1, <2>2, <2>3
<1>3. CASE e \in Closing
  <2>1. Moved(e) = -1
    BY <1>1, <1>3 DEF Moved
  <2>2. (b + -1) + 1 = b
    OBVIOUS
  <2>3. Rules!DepthBefore(r) = r.depth + 1
    BY <1>3 DEF Rules!DepthBefore, Closing, Rules!Closing
  <2>4. QED
    BY <2>1, <2>2, <2>3
<1>4. CASE e \notin Container \union Closing
  <2>1. Moved(e) = 0 /\ b + 0 = b
    BY <1>4 DEF Moved
  <2>2. QED
    BY <1>4, <2>1 DEF Rules!DepthBefore, Container, Closing, Rules!Closing
<1>5. QED
  BY <1>2, <1>3, <1>4

-----------------------------------------------------------------------------
(* The judges take a record of each call.  One of a next: *)
LEMMA JudgedNext ==
  ASSUME Driven, Driven', PlaceInv, FailInv, PrevInv, OpensInv, LoopInv,
         mode.name \notin {"skip", "skipuntil"}, mode.name = "peek" => pc = "call",
         NEW e \in Event, NextEvent(e), event' = e, UNCHANGED streaming, Recorded("next", e)
  PROVE  FailInv' /\ PrevInv' /\ OpensInv'
<1>1. PICK r : /\ r.op = "next" /\ r.event = e /\ r.depth = Depth' /\ r.ctx = Context'
               /\ r.err = (errmsg' # "none")
               /\ rules' = Rules!Judge(mode.name, rules, r) /\ mode' = mode
  BY RecordedGives
<1>2. /\ e = "error" => Latched'
      /\ e # "error" => ~Latched' /\ ~Latched
      /\ Latched => e = "error"
  BY NextEventEnds
<1>3. StackInv /\ StackInv'
  BY DEF Driven, ParserInv
<1>4. e # "error" => /\ next' = "none" /\ Depth' \in Nat
                     /\ Depth' = BaseDepth + Moved(e) /\ BaseDepth' = Depth'
                     /\ \A t \in Container : OpenNow(t)' = OpenBefore(t) + Counts(e, t)
                     /\ \A t \in Container : OpenBefore(t)' = OpenNow(t)' /\ OpenNow(t)' \in Nat
  BY <1>2, <1>3, CallCounts
<1>5. Rules!ErrorIsLatched(rules, r)
  BY <1>1, <1>2 DEF Rules!ErrorIsLatched, FailInv
<1>6. Rules!ErrorHasMessage(r)
  BY <1>1, <1>2 DEF Rules!ErrorHasMessage, Latched
<1>7. Rules!DepthMatchesContainerEvents(mode.name, rules, r)
  <2>1. SUFFICES ASSUME rules.prev # -1, e # "error" PROVE Rules!DepthBefore(r) = rules.prev
    BY <1>1 DEF Rules!DepthMatchesContainerEvents
  <2>2. rules.prev = BaseDepth
    BY <1>2, <2>1 DEF PrevInv
  <2>3. BaseDepth \in Int
    BY <1>3, BaseDepthIsInteger
  <2>4. QED
    BY <1>1, <1>4, <2>1, <2>2, <2>3, BeforeIsMoved
<1>8. Rules!ContextAgreesWithDepth(rules, r)
  BY <1>1, <1>2 DEF Rules!ContextAgreesWithDepth, Driven, ContextAgreesWithDepth
<1>9. Rules!ResetClearsState(r)
  BY <1>1 DEF Rules!ResetClearsState
<1>10. Rules!PeekThenNextAgree(mode.name, rules, r)
  <2>1. SUFFICES ASSUME mode.name = "peek" PROVE e = rules.peeked
    BY <1>1 DEF Rules!PeekThenNextAgree
  <2>2. rules.peeked = next /\ next # "none" /\ (Latched => next = "error")
    BY <2>1 DEF LoopInv, PlaceInv
  <2>3. QED
    BY <2>2 DEF NextEvent
<1>11. Rules!Broken(mode.name, rules, r) = {}
  BY <1>5, <1>6, <1>7, <1>8, <1>9, <1>10, NothingBroken
<1>12. PICK x : x = rules' /\ x = Rules!Judge(mode.name, rules, r)
  BY <1>1
<1>13. /\ DOMAIN x = RuleFields
       /\ x.errored => rules.errored \/ e = "error"
       /\ x.prev = IF e # "error" THEN Depth' ELSE rules.prev
       /\ x.opens = Rules!Opened(rules.opens, r)
       /\ x.below <=> (rules.below \/ \E t \in DOMAIN x.opens : x.opens[t] < 0)
       /\ x.failed <=> (rules.failed \/ e = "error")
       /\ x.broken = rules.broken \union Rules!Broken(mode.name, rules, r)
  BY <1>1, <1>12, JudgeFields
<1>14. FailInv'
  BY <1>2, <1>11, <1>12, <1>13 DEF FailInv
<1>15. PrevInv'
  BY <1>1, <1>2, <1>4, <1>12, <1>13 DEF PrevInv
<1>16. x.opens \in [Container -> Int]
       /\ \A t \in Container : x.opens[t] = rules.opens[t] + Counts(e, t)
  BY <1>1, <1>13, OpenedCounts DEF OpensInv
<1>17. ASSUME ~x.failed
       PROVE  ~x.below /\ \A t \in Container : x.opens[t] >= 0 /\ x.opens[t] = OpenBefore(t)'
  <2>1. e # "error" /\ ~rules.failed
    BY <1>13, <1>17
  <2>2. \A t \in Container : x.opens[t] = OpenNow(t)' /\ OpenNow(t)' \in Nat
    BY <1>4, <1>16, <2>1 DEF OpensInv
  <2>3. \A t \in Container : x.opens[t] >= 0 /\ ~(x.opens[t] < 0)
    BY <2>2
  <2>4. ~x.below
    BY <1>13, <1>16, <2>1, <2>3 DEF OpensInv
  <2>5. QED
    BY <1>4, <2>1, <2>2, <2>3, <2>4
<1>18. OpensInv'
  BY <1>1, <1>12, <1>16, <1>17 DEF OpensInv
<1>19. QED
  BY <1>14, <1>15, <1>18

LEMMA JudgedPeek ==
  ASSUME Driven, Driven', PlaceInv, FailInv, PrevInv, OpensInv, PeekFirst
  PROVE  FailInv' /\ PrevInv' /\ OpensInv' /\ rules'.peeked = next'
<1>1. next = "none" /\ mode.name = "peek" /\ Peek
  BY DEF PeekFirst, PlaceInv
<1>2. PICK e \in Event : /\ next' = e /\ event' = e
                         /\ (Latched /\ e = "error" /\ UNCHANGED stackVars) \/ (~Latched /\ NewEvent(e))
  BY <1>1 DEF Peek
<1>3. PICK r : /\ r.op = "peek" /\ r.event = e
               /\ r.err = (errmsg' # "none")
               /\ rules' = Rules!Judge(mode.name, rules, r) /\ mode' = mode
  BY <1>2, RecordedGives DEF PeekFirst
<1>4. StackInv /\ StackInv'
  BY DEF Driven, ParserInv
<1>5. (e = "error" <=> Latched') /\ (Latched => e = "error")
  BY <1>2, NewEventIsEffect DEF Effect, Latched, stackVars, Driven, ParserInv
<1>6. /\ DOMAIN rules' = RuleFields
      /\ rules'.errored => rules.errored \/ e = "error"
      /\ rules'.prev = rules.prev
      /\ rules'.opens = Rules!Opened(rules.opens, r)
      /\ rules'.below <=> (rules.below \/ \E t \in DOMAIN rules'.opens : rules'.opens[t] < 0)
      /\ rules'.failed <=> (rules.failed \/ e = "error")
      /\ rules'.peeked = e
      /\ rules'.broken = rules.broken \union Rules!Broken(mode.name, rules, r)
  BY <1>3, JudgeFields
<1>7. Rules!Broken(mode.name, rules, r) = {}
  <2>1. Rules!ErrorIsLatched(rules, r)
    BY <1>3, <1>5 DEF Rules!ErrorIsLatched, FailInv
  <2>2. Rules!ErrorHasMessage(r)
    BY <1>3, <1>5 DEF Rules!ErrorHasMessage, Latched
  <2>3. Rules!DepthMatchesContainerEvents(mode.name, rules, r)
        /\ Rules!ContextAgreesWithDepth(rules, r)
    BY <1>3 DEF Rules!DepthMatchesContainerEvents, Rules!ContextAgreesWithDepth, Rules!Moves
  <2>4. Rules!ResetClearsState(r) /\ Rules!PeekThenNextAgree(mode.name, rules, r)
    BY <1>3 DEF Rules!ResetClearsState, Rules!PeekThenNextAgree
  <2>5. QED
    BY <2>1, <2>2, <2>3, <2>4, NothingBroken
<1>8. FailInv'
  BY <1>5, <1>6, <1>7 DEF FailInv
<1>9. e # "error" =>
        /\ ~Latched /\ BaseDepth' = BaseDepth
        /\ \A t \in Container : OpenBefore(t)' = OpenBefore(t)
  <2>1. SUFFICES ASSUME e # "error"
                 PROVE  BaseDepth' = BaseDepth /\ \A t \in Container : OpenBefore(t)' = OpenBefore(t)
    BY <1>5
  <2>2. /\ Depth \in Nat /\ Depth' \in Nat /\ Depth' = Depth + Moved(e)
        /\ \A t \in Container : OpenNow(t)' = OpenNow(t) + Counts(e, t)
    BY <1>2, <1>4, <2>1, NewEventCounts
  <2>3. BaseDepth = Depth - 0 /\ BaseDepth' = Depth' - Moved(e)
    BY <1>1, <1>2, <2>2, BaseIsMoved, BaseIsMovedAfter, CountsFacts
  <2>4. BaseDepth' = BaseDepth
    <3>1. PICK d \in Nat, m \in Int : d = Depth /\ m = Moved(e)
      BY <2>2, CountsFacts
    <3>2. Depth' = d + m
      BY <2>2, <3>1
    <3>3. (d + m) - m = d - 0
      BY <3>1
    <3>4. QED
      BY <2>3, <3>1, <3>2, <3>3
  <2>5. ASSUME NEW t \in Container PROVE OpenBefore(t)' = OpenBefore(t)
    <3>1. PICK o \in Nat, c \in Int : o = OpenNow(t) /\ c = Counts(e, t)
      BY <2>2, OpenNowIsNat, CountsFacts
    <3>2. OpenBefore(t) = o - 0 /\ OpenBefore(t)' = (o + c) - c
      BY <1>1, <1>2, <2>2, <3>1, CountsFacts DEF OpenBefore
    <3>3. QED
      BY <3>2
  <2>6. QED
    BY <2>4, <2>5
<1>10. PrevInv'
  BY <1>3, <1>5, <1>6, <1>9 DEF PrevInv
<1>11. rules'.opens = rules.opens
  BY <1>3, <1>6, OpenedCounts DEF OpensInv
<1>12. OpensInv'
  <2>1. rules.opens \in [Container -> Int]
    BY DEF OpensInv
  <2>2. ASSUME ~rules'.failed
        PROVE  ~rules'.below /\ \A t \in Container : rules'.opens[t] >= 0 /\ rules'.opens[t] = OpenBefore(t)'
    <3>1. ~rules.failed /\ e # "error"
      BY <1>6, <2>2
    <3>2. \A t \in Container : rules.opens[t] >= 0 /\ rules.opens[t] = OpenBefore(t) /\ rules.opens[t] \in Int
      BY <1>1, <2>1, <3>1 DEF OpensInv
    <3>3. \A t \in Container : ~(rules'.opens[t] < 0)
      BY <1>11, <3>2
    <3>4. ~rules'.below
      BY <1>6, <1>11, <2>1, <3>1, <3>3 DEF OpensInv
    <3>5. QED
      BY <1>9, <1>11, <3>1, <3>2, <3>4
  <2>3. QED
    BY <1>1, <1>3, <1>11, <2>1, <2>2 DEF OpensInv
<1>13. QED
  BY <1>2, <1>6, <1>8, <1>10, <1>12

(* The depth of a parser that has not failed is a natural number. *)
LEMMA DepthIsNatural ==
  StackInv /\ ~Latched => Depth \in Nat
BY TopInsideBlock DEF Latched

LEMMA DepthStaysNatural ==
  (StackInv /\ ~Latched => Depth \in Nat)'
BY DepthIsNatural, PTL

(* A skip from the top returns beside a value, or at the end. *)
LEMMA JudgedSkip ==
  ASSUME Driven, Driven', PlaceInv, FailInv, OpensInv, LoopInv,
         pc = "skipping", SkipStep, call' = Idle, Recorded(mode.name, event'), [Next]_vars
  PROVE  /\ FailInv' /\ PrevInv' /\ OpensInv'
         /\ mode.name = "skip" /\ ~Latched' => Depth' = 0
<1>1. /\ mode.name \in {"skip", "skipuntil"} /\ call.op \in {"skip", "skip_until"}
      /\ call # Idle /\ next = "none"
  BY DEF PlaceInv
<1>2. PICK e \in Event : /\ NextEvent(e) /\ UNCHANGED streaming
                         /\ event' \in Event
                         /\ e \in {"error", "done"} => event' = e
                         /\ event' \in {"error", "done"} => event' = e
  BY <1>1, SkipReturns
<1>3. PICK r : /\ r.op = mode.name /\ r.event = event' /\ r.depth = Depth' /\ r.ctx = Context'
               /\ r.err = (errmsg' # "none")
               /\ rules' = Rules!Judge(mode.name, rules, r) /\ mode' = mode
  BY RecordedGives
<1>4. /\ event' = "error" <=> Latched'
      /\ event' = "done" => emitted' = "done"
      /\ Latched => event' = "error"
  BY <1>2, NextEventEnds
<1>5. mode.name = "skip" /\ ~Latched' => Depth' = 0 /\ event' \notin Closing
  <2>1. SUFFICES ASSUME mode.name = "skip", ~Latched' PROVE Depth' = 0 /\ event' \notin Closing
    OBVIOUS
  <2>2. call.base = 0
    BY <1>4, <2>1 DEF LoopInv
  <2>3. Depth' \in Nat
    BY <2>1, DepthStaysNatural DEF Driven, ParserInv
  <2>4. /\ event' \in Value => Depth' = call.base
        /\ event' \in Closing => Depth' = call.base - 1
    BY <1>1, ReturnStays DEF Driven
  <2>5. event' \notin Closing
    <3>1. ~(0 - 1 \in Nat)
      OBVIOUS
    <3>2. QED
      BY <2>2, <2>3, <2>4, <3>1
  <2>6. CASE event' = "done"
    <3>1. AtTop'
      BY <1>4, <2>6 DEF Driven, DoneInv
    <3>2. QED
      BY <2>5, <3>1, IndexArithmetic DEF AtTop, Depth
  <2>7. CASE event' \in Value
    BY <2>2, <2>4, <2>5, <2>7
  <2>8. QED
    BY <1>2, <1>4, <2>1, <2>5, <2>6, <2>7 DEF Event
<1>6. /\ DOMAIN rules' = RuleFields
      /\ rules'.errored => rules.errored \/ event' = "error"
      /\ rules'.opens = Rules!Opened(rules.opens, r)
      /\ rules'.below <=> (rules.below \/ \E t \in DOMAIN rules'.opens : rules'.opens[t] < 0)
      /\ rules'.failed <=> (rules.failed \/ event' = "error")
      /\ rules'.broken = rules.broken \union Rules!Broken(mode.name, rules, r)
  BY <1>3, JudgeFields
<1>7. Rules!Broken(mode.name, rules, r) = {}
  <2>1. Rules!ErrorIsLatched(rules, r)
    BY <1>3, <1>4 DEF Rules!ErrorIsLatched, FailInv
  <2>2. Rules!ErrorHasMessage(r)
    BY <1>3, <1>4 DEF Rules!ErrorHasMessage, Latched
  <2>3. Rules!DepthMatchesContainerEvents(mode.name, rules, r)
    BY <1>1, <1>3 DEF Rules!DepthMatchesContainerEvents, Rules!Moves
  <2>4. Rules!ContextAgreesWithDepth(rules, r)
    BY <1>3, <1>4 DEF Rules!ContextAgreesWithDepth, Driven, ContextAgreesWithDepth
  <2>5. Rules!ResetClearsState(r) /\ Rules!PeekThenNextAgree(mode.name, rules, r)
    BY <1>1, <1>3 DEF Rules!ResetClearsState, Rules!PeekThenNextAgree
  <2>6. QED
    BY <2>1, <2>2, <2>3, <2>4, <2>5, NothingBroken
<1>8. FailInv'
  BY <1>4, <1>6, <1>7 DEF FailInv
<1>9. PrevInv'
  BY <1>1, <1>3 DEF PrevInv
<1>10. /\ rules'.opens \in [Container -> Int]
       /\ mode.name = "skip" => \A t \in Container : rules'.opens[t] = rules.opens[t] + Counts(event', t)
       /\ mode.name = "skipuntil" => rules'.opens = rules.opens
  BY <1>1, <1>3, <1>6, OpenedCounts DEF OpensInv
<1>11. ASSUME ~rules'.failed
       PROVE  /\ ~rules'.below /\ \A t \in Container : rules'.opens[t] >= 0
              /\ mode.name = "skipuntil" => \A t \in Container : rules'.opens[t] = 0
  <2>1. ~rules.failed /\ event' # "error" /\ ~Latched'
    BY <1>4, <1>6, <1>11
  <2>2. /\ \A t \in Container : rules.opens[t] \in Int /\ rules.opens[t] >= 0
        /\ mode.name = "skipuntil" => \A t \in Container : rules.opens[t] = 0
    BY <2>1 DEF OpensInv
  <2>3. mode.name = "skip" => \A t \in Container : Counts(event', t) \in {0, 1}
    BY <1>5, <2>1 DEF Counts, CloseOf, Closing
  <2>4. ASSUME NEW t \in Container PROVE rules'.opens[t] >= 0 /\ ~(rules'.opens[t] < 0)
    BY <1>1, <1>10, <2>2, <2>3
  <2>5. ~rules'.below
    BY <1>6, <1>10, <2>1, <2>4 DEF OpensInv
  <2>6. QED
    BY <1>10, <2>2, <2>4, <2>5
<1>12. OpensInv'
  BY <1>1, <1>3, <1>10, <1>11 DEF OpensInv
<1>13. QED
  BY <1>5, <1>8, <1>9, <1>12

LEMMA JudgedReset ==
  ASSUME Driven, Driven', PlaceInv, FailInv, PrevInv, OpensInv, Restart
  PROVE  FailInv' /\ PrevInv' /\ OpensInv' /\ Depth' = 0
<1>1. /\ Reset /\ Recorded("reset", "done") /\ pc = "restart"
      /\ emitted = "done" /\ ~Latched /\ next = "none" /\ next' = "none"
  BY DEF Restart, Reset, PlaceInv
<1>2. AtTop /\ Depth = 0
  BY <1>1, IndexArithmetic DEF Driven, DoneInv, AtTop, Depth
<1>3. AtTop' /\ Depth' = 0 /\ errmsg' = "none" /\ ~Latched'
  BY <1>1, IndexArithmetic DEF Reset, ResetStep, AtTop, Depth, Latched
<1>4. Context' = "done"
  BY <1>3 DEF Context, HasFrame, AtTop
<1>5. PICK r : /\ r.op = "reset" /\ r.event = "done" /\ r.depth = Depth' /\ r.ctx = Context'
               /\ r.err = (errmsg' # "none")
               /\ rules' = Rules!Judge(mode.name, rules, r) /\ mode' = mode
  BY <1>1, RecordedGives
<1>6. /\ DOMAIN rules' = RuleFields
      /\ ~rules'.errored
      /\ rules'.prev = rules.prev
      /\ rules'.opens = Rules!Opened(rules.opens, r)
      /\ rules'.below <=> (rules.below \/ \E t \in DOMAIN rules'.opens : rules'.opens[t] < 0)
      /\ rules'.failed <=> rules.failed
      /\ rules'.broken = rules.broken \union Rules!Broken(mode.name, rules, r)
  BY <1>5, JudgeFields
<1>7. Rules!Broken(mode.name, rules, r) = {}
  <2>1. Rules!ErrorIsLatched(rules, r) /\ Rules!ErrorHasMessage(r)
    BY <1>5 DEF Rules!ErrorIsLatched, Rules!ErrorHasMessage
  <2>2. Rules!DepthMatchesContainerEvents(mode.name, rules, r)
        /\ Rules!ContextAgreesWithDepth(rules, r)
    BY <1>5 DEF Rules!DepthMatchesContainerEvents, Rules!ContextAgreesWithDepth, Rules!Moves
  <2>3. Rules!ResetClearsState(r)
    BY <1>3, <1>4, <1>5 DEF Rules!ResetClearsState
  <2>4. Rules!PeekThenNextAgree(mode.name, rules, r)
    BY <1>5 DEF Rules!PeekThenNextAgree
  <2>5. QED
    BY <2>1, <2>2, <2>3, <2>4, NothingBroken
<1>8. FailInv'
  BY <1>3, <1>6, <1>7 DEF FailInv
<1>9. BaseDepth = 0 /\ BaseDepth' = 0
  BY <1>1, <1>2, <1>3 DEF BaseDepth, Container, Closing
<1>10. PrevInv'
  BY <1>1, <1>5, <1>6, <1>9 DEF PrevInv
<1>11. rules'.opens = rules.opens
  BY <1>5, <1>6, OpenedCounts DEF OpensInv
<1>12. \A t \in Container : OpenBefore(t)' = OpenBefore(t)
  <2>1. \A t : OpenNow(t) = 0 /\ OpenNow(t)' = 0
    BY <1>2, <1>3, WithinFacts DEF OpenNow
  <2>2. QED
    BY <1>1, <2>1 DEF OpenBefore
<1>13. OpensInv'
  <2>1. ASSUME ~rules.failed PROVE ~rules'.below
    <3>1. \A t \in Container : rules.opens[t] \in Int /\ rules.opens[t] >= 0
      BY <2>1 DEF OpensInv
    <3>2. \A t \in Container : ~(rules.opens[t] < 0)
      BY <3>1
    <3>3. QED
      BY <1>6, <1>11, <2>1, <3>2 DEF OpensInv
  <2>2. QED
    BY <1>5, <1>6, <1>11, <1>12, <2>1 DEF OpensInv
<1>14. QED
  BY <1>3, <1>8, <1>10, <1>13

LEMMA SameJudged ==
  ASSUME FailInv, PrevInv, OpensInv, UNCHANGED <<stackVars, next, mode, rules>>
  PROVE  FailInv' /\ PrevInv' /\ OpensInv'
<1>1. UNCHANGED BaseDepth /\ UNCHANGED Latched /\ UNCHANGED Depth
  BY DEF BaseDepth, Depth, stackVars, Latched
<1>2. \A t : OpenBefore(t)' = OpenBefore(t)
  BY <1>1 DEF OpenBefore, OpenNow, stackVars
<1>3. QED
  BY <1>1, <1>2 DEF FailInv, PrevInv, OpensInv

LEMMA RuleInvKept ==
  ASSUME Careful = TRUE, Driven, Driven', PlaceInv, PlaceInv', RuleInv, [TranscriptNext]_transcriptVars
  PROVE  RuleInv'
<1> USE DEF RuleInv
<1>1. CASE UNCHANGED <<stackVars, next, mode, rules, call, pc>>
  BY <1>1, SameJudged DEF LoopInv, stackVars, Latched, Depth
<1>2. CASE Open
  <2>1. UNCHANGED <<stackVars, next, mode, rules>> /\ pc = "open" /\ pc' = "top"
    BY <1>2 DEF Open, SetStreaming, vars, parserVars
  <2>2. QED
    BY <2>1, SameJudged DEF LoopInv, stackVars, Latched, Depth
<1>3. CASE PeekFirst
  <2>1. mode.name = "peek" /\ mode' = mode
    BY <1>3, RecordedGives DEF PeekFirst
  <2>2. QED
    BY <1>3, <2>1, JudgedPeek DEF LoopInv
<1>4. ASSUME NEW e \in Event, NextEvent(e), event' = e, UNCHANGED streaming, Recorded("next", e),
             mode.name \notin {"skip", "skipuntil"}, mode.name = "peek" => pc = "call", pc' # "call"
      PROVE  RuleInv'
  <2>1. mode' = mode
    BY <1>4, RecordedGives
  <2>2. QED
    BY <1>4, <2>1, JudgedNext DEF LoopInv
<1>5. CASE CallNext
  <2>1. PICK e \in Event : NextEvent(e) /\ event' = e
    BY <1>5 DEF CallNext, NextCall
  <2>2. /\ UNCHANGED streaming /\ Recorded("next", e) /\ Continue(e)
        /\ mode.name \notin {"skip", "skipuntil"} /\ (mode.name = "peek" => pc = "call")
    BY <1>5, <2>1 DEF CallNext, NextCall, Calling
  <2>3. pc' # "call"
    BY <2>2, ContinueGoesOn
  <2>4. QED
    BY <1>4, <2>1, <2>2, <2>3
<1>6. CASE CallPastEnd
  <2>1. PICK e \in Event : NextEvent(e) /\ event' = e
    BY <1>6 DEF CallPastEnd, NextCall
  <2>2. UNCHANGED streaming /\ Recorded("next", e) /\ pc' # "call" /\ mode.name = "after-end"
    BY <1>6, <2>1 DEF CallPastEnd, NextCall, PlaceInv
  <2>3. QED
    BY <1>4, <2>1, <2>2
<1>7. CASE CallSkip
  <2>1. /\ UNCHANGED <<stackVars, next, mode, rules>> /\ pc = "top" /\ pc' = "skipping"
        /\ call'.base = BaseDepth /\ next = "none"
    BY <1>7, SkippingStarts DEF CallSkip, Calling, BeginSkip, parserVars, PlaceInv
  <2>2. BaseDepth = Depth
    BY <2>1 DEF BaseDepth, Container, Closing
  <2>3. QED
    BY <2>1, <2>2, SameJudged DEF LoopInv, stackVars, Latched
<1>8. CASE Skip
  <2>1. /\ pc = "skipping" /\ SkipStep /\ call.op \in {"skip", "skip_until"} /\ next = "none"
        /\ mode.name \in {"skip", "skipuntil"}
        /\ mode.name = "skip" <=> call.op = "skip"
    BY <1>8 DEF Skip, PlaceInv
  <2>2. CASE call' = Idle
    <3>1. Recorded(mode.name, event') /\ Continue(event') /\ mode' = mode
      BY <1>8, <2>2, RecordedGives DEF Skip
    <3>2. pc' \notin {"call", "skipping"}
      BY <3>1, ContinueGoesOn
    <3>3. [Next]_vars
      BY StepOfParser
    <3>4. /\ FailInv' /\ PrevInv' /\ OpensInv'
          /\ mode.name = "skip" /\ ~Latched' => Depth' = 0
      BY <2>1, <2>2, <3>1, <3>3, JudgedSkip
    <3>5. QED
      BY <3>1, <3>2, <3>4 DEF LoopInv
  <2>3. CASE call' # Idle
    <3>1. UNCHANGED <<mode, rules, pc>>
      BY <1>8, <2>3 DEF Skip, driverVars
    <3>2. next' = "none" /\ (call.op = "skip" => call'.base = call.base)
      BY <2>1, <2>3, SkipGoesOn
    <3>3. PICK e \in Event : NextEvent(e) /\ Turn(e, Tally(call, e))
      BY <2>1, SkipStepTurns
    <3>4. e # "error" /\ UNCHANGED streaming
      BY <2>1, <2>3, <3>3 DEF Turn, Return, SkipStep
    <3>5. ~Latched' /\ ~Latched
      BY <3>3, <3>4, NextEventEnds
    <3>6. FailInv' /\ PrevInv' /\ OpensInv'
      BY <2>1, <3>1, <3>5 DEF FailInv, PrevInv, OpensInv
    <3>7. LoopInv'
      BY <2>1, <3>1, <3>2, <3>5 DEF LoopInv
    <3>8. QED
      BY <3>6, <3>7
  <2>4. QED
    BY <2>2, <2>3
<1>9. CASE PeekByte \/ GetByte
  <2>1. /\ UNCHANGED <<stackVars, next, mode>> /\ pc' # "call" /\ mode.name = "sep"
        /\ rules' = [rules EXCEPT !.peeked = Rules!None] \/ rules' = rules
    BY <1>9 DEF PeekByte, GetByte, SourcePeek, SourceGet, RecordedByte, PlaceInv
  <2>2. /\ rules'.broken = rules.broken /\ rules'.errored = rules.errored
        /\ rules'.failed = rules.failed /\ rules'.prev = rules.prev /\ rules'.opens = rules.opens
        /\ rules'.below = rules.below /\ DOMAIN rules' = RuleFields
    BY <2>1 DEF FailInv, RuleFields
  <2>3. UNCHANGED BaseDepth /\ UNCHANGED Latched /\ \A t : OpenBefore(t)' = OpenBefore(t)
    BY <2>1 DEF BaseDepth, Depth, stackVars, Latched, OpenBefore, OpenNow
  <2>4. QED
    BY <2>1, <2>2, <2>3 DEF FailInv, PrevInv, OpensInv, LoopInv
<1>10. CASE Finish
  <2>1. UNCHANGED <<stackVars, next, mode, rules>> /\ pc = "restart" /\ pc' = "end"
    BY <1>10 DEF Finish, vars, parserVars
  <2>2. QED
    BY <2>1, SameJudged DEF LoopInv, stackVars, Latched, Depth
<1>11. CASE Restart
  <2>1. pc' \notin {"call", "skipping"}
    BY <1>11 DEF Restart, Loop
  <2>2. QED
    BY <1>11, <2>1, JudgedReset DEF LoopInv
<1>12. CASE UNCHANGED transcriptVars
  BY <1>1, <1>12 DEF transcriptVars, driverVars, vars, parserVars
<1>13. QED
  BY <1>2, <1>3, <1>5, <1>6, <1>7, <1>8, <1>9, <1>10, <1>11, <1>12 DEF TranscriptNext

(***************************************************************************)
(* Whatever the input, the mode, and the refusals of the allocator, the    *)
(* transcript breaks none of the rules invariants.py sweeps it with, and   *)
(* one that neither fails nor is cut short ends with every container       *)
(* closed that it opened.                                                  *)
(***************************************************************************)
THEOREM TranscriptsBreakNoRule ==
  ASSUME Careful = TRUE
  PROVE  TranscriptSpec => []NoViolation
<1>1. TranscriptInit => RuleInv
  <2>1. SUFFICES ASSUME TranscriptInit PROVE RuleInv
    OBVIOUS
  <2>2. /\ stackTop = Empty /\ next = "none" /\ ~Latched /\ pc = "open"
        /\ rules = Rules!Start
    BY <2>1 DEF TranscriptInit, Init, StackInit, Latched
  <2>3. Depth = 0
    BY <2>2, IndexArithmetic DEF Depth
  <2>4. \A t \in Container : OpenBefore(t) = 0
    BY <2>2, <2>3, WithinFacts, CountsFacts DEF OpenBefore, OpenNow
  <2>5. /\ DOMAIN rules = RuleFields /\ rules.broken = {} /\ ~rules.errored
        /\ rules.prev = -1 /\ ~rules.below
        /\ rules.opens = [object |-> 0, array |-> 0]
    BY <2>2 DEF Rules!Start, RuleFields
  <2>6. rules.opens \in [Container -> Int] /\ \A t \in Container : rules.opens[t] = 0
    BY <2>5 DEF Container
  <2>7. FailInv /\ PrevInv /\ OpensInv
    BY <2>2, <2>4, <2>5, <2>6 DEF FailInv, PrevInv, OpensInv
  <2>8. QED
    BY <2>2, <2>3, <2>7 DEF LoopInv, RuleInv
<1>2. Driven /\ Driven' /\ PlaceInv /\ PlaceInv' /\ RuleInv /\ [TranscriptNext]_transcriptVars
        => RuleInv'
  BY RuleInvKept
<1>3. Driven /\ PlaceInv /\ RuleInv => NoViolation
  <2>1. SUFFICES ASSUME Driven, PlaceInv, RuleInv, pc = "end"
                 PROVE  Rules!ContainersBalanced(mode.name, rules, Full(seq))
    BY DEF NoViolation, RuleInv, FailInv
  <2>2. CASE Full(seq) \/ rules.failed
    BY <2>2 DEF Rules!ContainersBalanced
  <2>3. CASE ~Full(seq) /\ ~rules.failed
    <3>1. emitted = "done" /\ next = "none"
      BY <2>1, <2>3 DEF PlaceInv, RuleInv, FailInv
    <3>2. Depth = 0
      BY <2>1, <3>1, IndexArithmetic DEF Driven, DoneInv, AtTop, Depth
    <3>3. \A t \in Container : OpenBefore(t) = 0
      BY <3>1, <3>2, WithinFacts, CountsFacts DEF OpenBefore, OpenNow
    <3>4. ~rules.below /\ (mode.name # "skip" => \A t \in DOMAIN rules.opens : rules.opens[t] = 0)
      BY <2>1, <2>3, <3>3 DEF RuleInv, OpensInv
    <3>5. QED
      BY <3>4 DEF Rules!ContainersBalanced
  <2>4. QED
    BY <2>2, <2>3
<1>4. QED
  BY <1>1, <1>2, <1>3, DrivenHolds, PlaceInvHolds, PTL DEF TranscriptSpec
=============================================================================
